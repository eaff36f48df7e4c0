----------------------------- MODULE TimerHeap -----------------------------
(***************************************************************************)
(* The timer heap of pjlib (timer.c): the entries that are scheduled, in   *)
(* an array ordered as a binary heap by their times; a second array that   *)
(* gives the slot of each entry, by the id the entry has while scheduled;  *)
(* and the free ids, linked through the second array as negative numbers.  *)
(*                                                                         *)
(* Several threads schedule, cancel and poll.  With Locked they do so      *)
(* under the lock of the heap, and the callbacks of a poll run without it. *)
(* A call is a sequence of steps, each of which writes one slot at most,   *)
(* so that what two threads do to a heap without a lock can be seen too.   *)
(***************************************************************************)
EXTENDS Integers

CONSTANTS
    Threads,
    Entries,        \* the timer entries
    NoEntry,
    Size,           \* what pj_timer_heap_create is asked for
    MaxPerPoll,     \* max_entries_per_poll
    Locked,         \* pj_timer_heap_set_lock was called
    Delays,         \* the delays that are asked for
    Horizon         \* bound of the clock

ASSUME NoEntryAssumption == NoEntry \notin Entries
ASSUME SizeAssumption == Size \in Nat
ASSUME DelaysAssumption == Delays \subseteq Nat
ASSUME LockedAssumption == Locked \in BOOLEAN

VARIABLES
    heap, timer_ids, timer_ids_freelist, cur_size, max_size,    \* pj_timer_heap_t
    timer_id, timer_value,  \* _timer_id and _timer_value of each entry
    lock,           \* who has the lock of the heap, as a set of at most one thread
    at, op,         \* where each thread is, and in which call
    arg, expires,   \* the entry of its call, and the time to schedule it for
    moved, slot,    \* moved_node, and the slot that is open for it
    node, count,    \* the entry whose callback a poll runs, how many it has run
    seen,           \* the time that the poll has read
    now

table == <<heap, timer_ids, timer_ids_freelist, cur_size, max_size>>
entries == <<timer_id, timer_value>>
callVars == <<op, arg, expires>>
pollVars == <<node, count, seen>>
vars == <<table, entries, lock, at, callVars, moved, slot, pollVars, now>>

HEAP_PARENT(s) == IF s = 0 THEN 0 ELSE (s - 1) \div 2
HEAP_LEFT(s) == s + s + 1

\* PJ_TIME_VAL_LT
Earlier(e, f) == timer_value[e] < timer_value[f]

Init ==
    /\ max_size = Size + 2 /\ cur_size = 0
    /\ heap = [s \in 0..Size + 1 |-> NoEntry]
    /\ timer_ids = [i \in 0..Size + 1 |-> -(i + 1)]
    /\ timer_ids_freelist = 1
    /\ timer_id = [e \in Entries |-> -1] /\ timer_value = [e \in Entries |-> 0]
    /\ lock = {}
    /\ at = [t \in Threads |-> "idle"] /\ op = [t \in Threads |-> "none"]
    /\ arg = [t \in Threads |-> NoEntry] /\ expires = [t \in Threads |-> 0]
    /\ moved = [t \in Threads |-> NoEntry] /\ slot = [t \in Threads |-> 0]
    /\ node = [t \in Threads |-> NoEntry] /\ count = [t \in Threads |-> 0]
    /\ seen = [t \in Threads |-> 0]
    /\ now = 0

-----------------------------------------------------------------------------
(* Calls.  Those about one entry are serialised by the lock of its owner.  *)

Goes(t, place) == at' = [at EXCEPT ![t] = place]
Calls(t, what, e) ==
    /\ at[t] = "idle"
    /\ \A u \in Threads : at[u] # "idle" => arg[u] # e
    /\ op' = [op EXCEPT ![t] = what] /\ arg' = [arg EXCEPT ![t] = e]
    /\ Goes(t, "lock")

\* pj_timer_heap_schedule: the entry is looked at before the lock is taken.
Schedule(t, e, delay) ==
    /\ Calls(t, "schedule", e)
    /\ timer_id[e] < 1
    /\ expires' = [expires EXCEPT ![t] = now + delay]
    /\ UNCHANGED <<table, entries, lock, moved, slot, pollVars, now>>

\* pj_timer_heap_cancel, of an entry that is scheduled or not.
Cancel(t, e) ==
    /\ Calls(t, "cancel", e)
    /\ UNCHANGED <<table, entries, lock, expires, moved, slot, pollVars, now>>

\* pj_timer_heap_poll, by a thread that is not in a callback.
Poll(t) ==
    /\ at[t] = "idle" /\ node[t] = NoEntry
    /\ op' = [op EXCEPT ![t] = "poll"] /\ Goes(t, "lock")
    /\ UNCHANGED <<table, entries, lock, arg, expires, moved, slot, pollVars, now>>

\* A callback returns to the loop of its poll.
Return(t) ==
    /\ at[t] = "idle" /\ node[t] # NoEntry
    /\ node' = [node EXCEPT ![t] = NoEntry]
    /\ op' = [op EXCEPT ![t] = "poll"] /\ Goes(t, "lock")
    /\ UNCHANGED <<table, entries, lock, arg, expires, moved, slot, count, seen, now>>

\* lock_timer_heap.  A poll reads the clock once, before its loop.
Free == ~Locked \/ lock = {}
Acquire(t) ==
    /\ at[t] = "lock" /\ Free
    /\ lock' = IF Locked THEN {t} ELSE {}
    /\ Goes(t, op[t])
    /\ seen' = IF op[t] = "poll" /\ count[t] = 0 THEN [seen EXCEPT ![t] = now] ELSE seen
    /\ UNCHANGED <<table, entries, callVars, moved, slot, node, count, now>>

\* unlock_timer_heap, and the end of the call or the start of a callback.
Release(t) ==
    /\ lock' = {} /\ Goes(t, "idle") /\ op' = [op EXCEPT ![t] = "none"]
    /\ arg' = [arg EXCEPT ![t] = NoEntry] /\ expires' = [expires EXCEPT ![t] = 0]

-----------------------------------------------------------------------------
(* The heap.  At "up" and "down", slot is open and moved goes up or down.  *)

copy_node(s, e) ==
    /\ heap' = [heap EXCEPT ![s] = e]
    /\ timer_ids' = [timer_ids EXCEPT ![timer_id[e]] = s]

\* schedule_entry: pop_freelist gives the entry its id.  FreshId says why it
\* is never refused.
NextFree == -timer_ids[timer_ids_freelist]
pop_freelist(t) ==
    /\ at[t] = "schedule" /\ cur_size < max_size
    /\ timer_ids_freelist \in DOMAIN timer_ids
    /\ timer_id' = [timer_id EXCEPT ![arg[t]] = timer_ids_freelist]
    /\ timer_value' = [timer_value EXCEPT ![arg[t]] = expires[t]]
    /\ timer_ids_freelist' = NextFree
    /\ moved' = [moved EXCEPT ![t] = arg[t]]
    /\ Goes(t, "insert")
    /\ UNCHANGED <<heap, timer_ids, cur_size, max_size, lock, callVars, slot, pollVars, now>>

\* insert_node: the heap grows two before it is full, since the last id leads
\* out of the array.
\* Faulty: it grows when it is full.
Full_late == cur_size >= max_size
Full == cur_size + 2 >= max_size
grow_heap ==
    /\ max_size' = 2 * max_size
    /\ heap' = [s \in 0..2 * max_size - 1 |-> IF s < max_size THEN heap[s] ELSE NoEntry]
    /\ timer_ids' = [i \in 0..2 * max_size - 1 |->
                        IF i < max_size THEN timer_ids[i] ELSE -(i + 1)]
insert_node(t) ==
    /\ at[t] = "insert"
    /\ IF Full THEN grow_heap ELSE UNCHANGED <<heap, timer_ids, max_size>>
    /\ slot' = [slot EXCEPT ![t] = cur_size]
    /\ Goes(t, "up")
    /\ UNCHANGED <<timer_ids_freelist, cur_size, entries, lock, callVars, moved, pollVars, now>>

\* The entry that is put back or inserted is in its place.
Placed(t) ==
    /\ copy_node(slot[t], moved[t])
    /\ cur_size' = IF op[t] = "schedule" THEN cur_size + 1 ELSE cur_size
    /\ moved' = [moved EXCEPT ![t] = NoEntry] /\ slot' = [slot EXCEPT ![t] = 0]
    /\ Release(t)
Opens(t, s) ==
    /\ copy_node(slot[t], heap[s])
    /\ slot' = [slot EXCEPT ![t] = s]
    /\ UNCHANGED <<cur_size, moved, lock, at, callVars>>

\* reheap_up, one turn of the loop.
\* Faulty: an entry below the root stays there.
Rises_below(t) == slot[t] > 1 /\ Earlier(moved[t], heap[HEAP_PARENT(slot[t])])
Rises(t) == slot[t] > 0 /\ Earlier(moved[t], heap[HEAP_PARENT(slot[t])])
reheap_up(t) ==
    /\ at[t] = "up"
    /\ IF Rises(t) THEN Opens(t, HEAP_PARENT(slot[t])) ELSE Placed(t)
    /\ UNCHANGED <<timer_ids_freelist, max_size, entries, pollVars, now>>

\* reheap_down, one turn of the loop, with the earlier of the two children.
Child(s) ==
    LET c == HEAP_LEFT(s)
    IN  IF c + 1 < cur_size /\ Earlier(heap[c + 1], heap[c]) THEN c + 1 ELSE c
reheap_down(t) ==
    /\ at[t] = "down"
    /\ LET c == Child(slot[t])
       IN  IF HEAP_LEFT(slot[t]) < cur_size /\ Earlier(heap[c], moved[t])
           THEN Opens(t, c) ELSE Placed(t)
    /\ UNCHANGED <<timer_ids_freelist, max_size, entries, pollVars, now>>

\* remove_node up to the loops: the id is free, the last entry goes to slot s.
\* What stays behind in the arrays is not read again: the last slot, and the
\* time of an entry that is not scheduled.
\* Faulty: the entry keeps its id.
GivesUp_kept(e) == timer_id
GivesUp(e) == [timer_id EXCEPT ![e] = -1]
Direction(s, m) ==
    IF s = 0 \/ ~Earlier(m, heap[HEAP_PARENT(s)]) THEN "down" ELSE "up"
remove_node(t, s) ==
    LET e == heap[s]
        m == heap[cur_size - 1]
        freed == [timer_ids EXCEPT ![timer_id[e]] = -timer_ids_freelist]
    IN  /\ timer_ids_freelist' = timer_id[e]
        /\ cur_size' = cur_size - 1
        /\ timer_id' = GivesUp(e) /\ timer_value' = [timer_value EXCEPT ![e] = 0]
        /\ IF s < cur_size - 1
           THEN /\ heap' = [heap EXCEPT ![cur_size - 1] = NoEntry, ![s] = m]
                /\ timer_ids' = [freed EXCEPT ![timer_id[m]] = s]
                /\ moved' = [moved EXCEPT ![t] = m] /\ slot' = [slot EXCEPT ![t] = s]
                /\ Goes(t, Direction(s, m))
                /\ UNCHANGED <<lock, callVars>>
           ELSE /\ heap' = [heap EXCEPT ![s] = NoEntry]
                /\ timer_ids' = freed
                /\ UNCHANGED <<moved, slot>>
                /\ Release(t)
        /\ UNCHANGED <<max_size, now>>

\* cancel: an id that is no longer the entry's is only reset.
IsThere(e) ==
    /\ timer_id[e] >= 0 /\ timer_id[e] \in DOMAIN timer_ids
    /\ timer_ids[timer_id[e]] >= 0
    /\ heap[timer_ids[timer_id[e]]] = e
cancel(t) ==
    /\ at[t] = "cancel"
    /\ IF IsThere(arg[t]) THEN remove_node(t, timer_ids[timer_id[arg[t]]])
       ELSE /\ timer_id' = [timer_id EXCEPT ![arg[t]] = -1]
            /\ Release(t)
            /\ UNCHANGED <<table, timer_value, moved, slot, now>>
    /\ UNCHANGED pollVars

\* The loop of pj_timer_heap_poll.
\* Faulty: an entry is taken before its time.
Due_early(t) == timer_value[heap[0]] <= seen[t] + 1
Due(t) == timer_value[heap[0]] <= seen[t]
Expires(t) ==
    /\ at[t] = "poll" /\ cur_size > 0 /\ Due(t) /\ count[t] < MaxPerPoll
    /\ node' = [node EXCEPT ![t] = heap[0]]
    /\ count' = [count EXCEPT ![t] = count[t] + 1]
    /\ remove_node(t, 0)
    /\ UNCHANGED seen
PollEnds(t) ==
    /\ at[t] = "poll" /\ ~(cur_size > 0 /\ Due(t) /\ count[t] < MaxPerPoll)
    /\ Release(t)
    /\ count' = [count EXCEPT ![t] = 0] /\ seen' = [seen EXCEPT ![t] = 0]
    /\ UNCHANGED <<table, entries, moved, slot, node, now>>

Tick ==
    /\ now < Horizon /\ now' = now + 1
    /\ UNCHANGED <<table, entries, lock, at, callVars, moved, slot, pollVars>>

Step(t) ==
    \/ pop_freelist(t) \/ insert_node(t) \/ reheap_up(t) \/ reheap_down(t)
    \/ cancel(t) \/ Expires(t) \/ PollEnds(t)
Next ==
    \/ \E t \in Threads :
          \/ \E e \in Entries : Cancel(t, e) \/ \E d \in Delays : Schedule(t, e, d)
          \/ Poll(t) \/ Return(t) \/ Acquire(t) \/ Step(t)
    \/ Tick

Spec == Init /\ [][Next]_vars

-----------------------------------------------------------------------------
(* Properties                                                              *)

MaybeEntry == Entries \cup {NoEntry}

\* Types: the arrays have max_size elements, time never is negative.
TypeOK ==
    /\ cur_size \in Nat /\ max_size \in Nat /\ timer_ids_freelist \in Nat
    /\ heap \in [0..max_size - 1 -> MaybeEntry]
    /\ timer_ids \in [0..max_size - 1 -> Int]
    /\ timer_id \in [Entries -> Int] /\ timer_value \in [Entries -> Nat]
    /\ lock \subseteq Threads
    /\ at \in [Threads -> {"idle", "lock", "schedule", "cancel", "poll", "insert", "up", "down"}]
    /\ op \in [Threads -> {"none", "schedule", "cancel", "poll"}]
    /\ arg \in [Threads -> MaybeEntry] /\ moved \in [Threads -> MaybeEntry]
    /\ node \in [Threads -> MaybeEntry]
    /\ expires \in [Threads -> Nat] /\ slot \in [Threads -> Nat]
    /\ count \in [Threads -> Nat] /\ seen \in [Threads -> Nat] /\ now \in Nat

Quiet == \A t \in Threads : at[t] \in {"idle", "lock"}
Scheduled == {e \in Entries : timer_id[e] >= 1}

\* Between the calls the two arrays agree, as the comment on timer_ids
\* (timer.c:77) has it: an entry is scheduled when it is in the heap, and its
\* id leads to its slot.
SlotsMatch ==
    Quiet => /\ \A e \in Scheduled : /\ timer_id[e] < max_size
                                      /\ timer_ids[timer_id[e]] \in 0..cur_size - 1
                                      /\ heap[timer_ids[timer_id[e]]] = e
             /\ \A s \in 0..cur_size - 1 : /\ heap[s] \in Scheduled
                                            /\ timer_ids[timer_id[heap[s]]] = s

\* Between the calls no entry is due before its parent: schedule, cancel and
\* poll put the heap in order again, also when the last entry fills a slot of
\* another branch.
HeapOrdered ==
    Quiet => \A s \in 1..cur_size - 1 : ~Earlier(heap[s], heap[HEAP_PARENT(s)])

\* An entry that is being scheduled finds room and an id that is nobody's
\* and leads on: the heap grows before the list of free ids leaves the array,
\* and id 0, which stands for an entry that is not scheduled, is not in it.
FreshId ==
    \A t \in Threads : at[t] = "schedule" =>
        /\ cur_size < max_size
        /\ timer_ids_freelist \in 1..max_size - 1
        /\ timer_ids[timer_ids_freelist] < 0
        /\ \A e \in Entries : timer_id[e] # timer_ids_freelist

\* The heap behaves as a set of entries with their times, of which a poll
\* takes the earliest, once for each time it was scheduled and never before
\* its time.
Promise == INSTANCE Timers WITH
    due <- [e \in Entries |-> IF timer_id[e] >= 1 THEN timer_value[e] ELSE -1],
    calling <- node
KeepsTime == Promise!Spec
=============================================================================
