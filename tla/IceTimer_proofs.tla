--------------------------- MODULE IceTimer_proofs ---------------------------
(***************************************************************************)
(* Proofs about IceTimer.tla.  For any finite set of polling threads the   *)
(* references to the group lock balance, and with them the session         *)
(* outlives every callback of its timer.  With one thread the assertions   *)
(* on the timer hold and the session keeps the promise of Negotiation.tla; *)
(* with two they do not, because on_timer reads the id without the lock.   *)
(***************************************************************************)
EXTENDS IceTimer, FiniteSetTheorems, TLAPS

PcStates == {"idle", "polled", "read", "handled"} \cup InSection

\* TypeOK, with a counter that may not be negative only because it balances.
TypeInv ==
    /\ entry \in Entry /\ ref_cnt \in Int /\ session \in Session
    /\ pc \in [Workers -> PcStates]
    /\ type \in [Workers -> Types] /\ holds \in [Workers -> BOOLEAN]
    /\ next \in [Workers -> Types] /\ broken \subseteq Asserts

\* The entry has its reference exactly while it is in the heap.
EntryLocked == entry.locked = entry.scheduled

\* A worker holds a reference exactly from the poll that removed the entry to
\* the end of its callback.
HeldWhilePolled == \A w \in Workers : holds[w] <=> pc[w] \notin {"idle", "on_check"}

IInv == TypeInv /\ EntryLocked /\ HeldWhilePolled /\ RefsBalanced

Owned == IF session.is_destroying THEN 0 ELSE 1
InHeap == IF entry.scheduled THEN 1 ELSE 0

-----------------------------------------------------------------------------
\* The workers that hold a reference are finitely many.
LEMMA HoldersFinite == IsFiniteSet(Holders) /\ Cardinality(Holders) \in Nat
<1>1. Holders \subseteq Workers
  BY DEF Holders
<1> QED
  BY <1>1, WorkersAssumption, FS_Subset, FS_CardinalityType

\* A worker that takes a reference makes one more of them.
LEMMA HolderAdded ==
    ASSUME NEW w \in Workers, holds \in [Workers -> BOOLEAN], ~holds[w],
           holds' = [holds EXCEPT ![w] = TRUE]
    PROVE  Cardinality(Holders') = Cardinality(Holders) + 1
<1>1. Holders' = Holders \cup {w} /\ w \notin Holders
  BY DEF Holders
<1> QED
  BY <1>1, HoldersFinite, FS_AddElement

\* A worker that drops its reference makes one less of them.
LEMMA HolderRemoved ==
    ASSUME NEW w \in Workers, holds \in [Workers -> BOOLEAN], holds[w],
           holds' = [holds EXCEPT ![w] = FALSE]
    PROVE  Cardinality(Holders') = Cardinality(Holders) - 1
<1>1. Holders' = Holders \ {w} /\ w \in Holders
  BY DEF Holders
<1> QED
  BY <1>1, HoldersFinite, FS_RemoveElement

-----------------------------------------------------------------------------
(* What the operators on the entry do to it and to its reference           *)

\* A step that gives the lock d references beside that of the entry.
EntryStep(d) ==
    /\ entry' \in Entry /\ ref_cnt' \in Int /\ EntryLocked'
    /\ ref_cnt' - InHeap' = ref_cnt - InHeap + d

LEMMA ClaimType ==
    ASSUME broken \subseteq Asserts, NEW holding, NEW a \in Asserts, Claim(holding, a)
    PROVE  broken' \subseteq Asserts
  BY DEF Claim

\* Scheduling takes the reference of the entry, or does nothing.
LEMMA ScheduleStep ==
    ASSUME TypeInv, EntryLocked, NEW id \in Types, Schedule(id)
    PROVE  EntryStep(0) /\ broken' \subseteq Asserts
<1>1. CASE id = "none"
  BY <1>1 DEF Schedule, TypeInv, EntryStep, EntryLocked, InHeap
<1>2. CASE id # "none"
  <2>1. Claim(~entry.scheduled, "schedule") /\ "schedule" \in Asserts
    BY <1>2 DEF Schedule, Asserts
  <2>2. broken' \subseteq Asserts
    BY <2>1, ClaimType DEF TypeInv
  <2>3. CASE entry.scheduled
    <3>1. UNCHANGED <<entry, ref_cnt>>
      BY <1>2, <2>3 DEF Schedule
    <3> QED
      BY <2>2, <3>1 DEF TypeInv, EntryStep, EntryLocked, InHeap
  <2>4. CASE ~entry.scheduled
    <3>1. /\ entry' = [id |-> id, scheduled |-> TRUE, locked |-> TRUE]
          /\ ref_cnt' = ref_cnt + 1
      BY <1>2, <2>4 DEF Schedule
    <3> QED
      BY <2>2, <2>4, <3>1 DEF TypeInv, EntryStep, EntryLocked, InHeap, Entry
  <2> QED
    BY <2>3, <2>4
<1> QED
  BY <1>1, <1>2

\* Cancelling gives back the reference of the entry, if it was in the heap.
LEMMA CancelStep ==
    ASSUME TypeInv, EntryLocked, NEW d \in Int,
           entry' = Cancelled("none"), ref_cnt' = ref_cnt - Released + d
    PROVE  EntryStep(d)
  BY DEF TypeInv, EntryStep, EntryLocked, Cancelled, Released, InHeap, Entry, Types

\* Clearing the id leaves the entry where it is.
Unnamed == [entry EXCEPT !.id = "none"]

LEMMA UnnamedStep ==
    ASSUME TypeInv, EntryLocked, entry' \in {entry, Unnamed}, UNCHANGED ref_cnt
    PROVE  EntryStep(0)
<1>1. /\ entry' \in Entry
      /\ entry'.locked = entry.locked /\ entry'.scheduled = entry.scheduled
  BY DEF TypeInv, Unnamed, Entry, Types
<1> QED
  BY <1>1 DEF TypeInv, EntryStep, EntryLocked, InHeap

\* The critical section of on_ice_complete, and what it will schedule.
LEMMA CompleteStep ==
    ASSUME TypeInv, EntryLocked, NEW w \in Workers, NEW outcome \in Outcomes,
           NEW e \in {entry, Unnamed}, on_ice_complete(w, outcome, e)
    PROVE  /\ EntryStep(0)
           /\ next' \in [Workers -> Types]
           /\ session' \in Session
           /\ session'.is_destroying = session.is_destroying
<1>1. CASE IsComplete
  <2>1. /\ entry' = e /\ next' = [next EXCEPT ![w] = "none"]
        /\ UNCHANGED <<ref_cnt, session>>
    BY <1>1 DEF on_ice_complete
  <2> QED
    BY <2>1, UnnamedStep DEF TypeInv, Types
<1>2. CASE ~IsComplete
  <2>1. /\ session' = [session EXCEPT !.ice_status = outcome]
        /\ entry' = Cancelled("none")
        /\ ref_cnt' = ref_cnt - Released
        /\ next' = [next EXCEPT ![w] = "completion"]
    BY <1>2 DEF on_ice_complete
  <2>2. EntryStep(0)
    <3>1. ref_cnt' = ref_cnt - Released + 0
      BY <2>1 DEF TypeInv, Released
    <3> QED
      BY <2>1, <3>1, CancelStep
  <2> QED
    BY <2>1, <2>2 DEF TypeInv, Types, Session
<1> QED
  BY <1>1, <1>2

\* The critical section of start_nominated_check.
LEMMA NominateStep ==
    ASSUME TypeInv, EntryLocked, NEW w \in Workers, NEW e \in {entry, Unnamed},
           start_nominated_check(w, e)
    PROVE  /\ EntryStep(0)
           /\ next' \in [Workers -> Types] /\ broken' \subseteq Asserts
           /\ session' \in Session
           /\ session'.is_destroying = session.is_destroying
<1>1. /\ session' = [session EXCEPT !.is_nominating = TRUE]
      /\ Claim(~session.is_nominating, "is_nominating")
      /\ next' = [next EXCEPT ![w] = "none"]
  BY DEF start_nominated_check
<1>2. "is_nominating" \in Asserts
  BY DEF Asserts
<1>3. broken' \subseteq Asserts
  BY <1>1, <1>2, ClaimType DEF TypeInv
<1>4. EntryStep(0)
  <2>1. CASE StopsTimer(e)
    <3>1. entry' = Cancelled("none") /\ ref_cnt' = ref_cnt - Released + 0
      BY <2>1 DEF start_nominated_check, TypeInv, Released
    <3> QED
      BY <3>1, CancelStep
  <2>2. CASE ~StopsTimer(e)
    BY <2>2, UnnamedStep DEF start_nominated_check
  <2> QED
    BY <2>1, <2>2
<1> QED
  BY <1>1, <1>3, <1>4 DEF TypeInv, Types, Session

-----------------------------------------------------------------------------
(* The invariant                                                           *)

\* A step that neither takes nor drops the reference of a poll keeps the
\* invariant, if the session loses its own just when it is destroyed.
LEMMA SessionStep ==
    ASSUME IInv, NEW d \in Int, EntryStep(d), Owned' = Owned + d,
           session' \in Session, pc' \in [Workers -> PcStates],
           type' \in [Workers -> Types], next' \in [Workers -> Types],
           broken' \subseteq Asserts, UNCHANGED holds,
           \A w \in Workers : pc'[w] \in {"idle", "on_check"} <=> pc[w] \in {"idle", "on_check"}
    PROVE  IInv'
<1>1. TypeInv' /\ EntryLocked' /\ HeldWhilePolled'
  BY DEF IInv, TypeInv, EntryStep, HeldWhilePolled
<1>2. Holders' = Holders
  BY DEF Holders
<1>3. ref_cnt' = Owned' + InHeap' + Cardinality(Holders')
  BY <1>2, HoldersFinite DEF IInv, TypeInv, EntryStep, RefsBalanced, Owned, InHeap
<1> QED
  BY <1>1, <1>3 DEF IInv, RefsBalanced, Owned, InHeap

LEMMA Initially == Init => IInv
<1> SUFFICES ASSUME Init PROVE IInv
  OBVIOUS
<1>1. TypeInv
  BY DEF Init, TypeInv, Entry, Session, Types, Outcomes, Roles, Asserts, PcStates
<1>2. EntryLocked /\ HeldWhilePolled
  BY DEF Init, EntryLocked, HeldWhilePolled
<1>3. Cardinality(Holders) = 0
  <2>1. Holders = {}
    BY DEF Init, Holders
  <2> QED
    BY <2>1, FS_EmptySet
<1>4. RefsBalanced
  BY <1>3 DEF Init, RefsBalanced
<1> QED
  BY <1>1, <1>2, <1>4 DEF IInv

\* The entry leaves the heap, and its reference goes to the worker.
LEMMA PollKeeps == ASSUME IInv, NEW w \in Workers, Poll(w) PROVE IInv'
<1>1. entry.scheduled /\ entry.locked /\ ~holds[w] /\ holds \in [Workers -> BOOLEAN]
  BY DEF IInv, TypeInv, EntryLocked, HeldWhilePolled, Poll
<1>2. holds' = [holds EXCEPT ![w] = TRUE]
  BY <1>1 DEF Poll
<1>3. Cardinality(Holders') = Cardinality(Holders) + 1
  BY <1>1, <1>2, HolderAdded
<1>4. TypeInv' /\ EntryLocked'
  BY <1>2 DEF IInv, TypeInv, EntryLocked, Poll, Entry, PcStates
<1>5. HeldWhilePolled'
  BY <1>2 DEF IInv, TypeInv, HeldWhilePolled, Poll
<1>6. RefsBalanced'
  BY <1>1, <1>3, HoldersFinite DEF IInv, TypeInv, RefsBalanced, Poll, Entry
<1> QED
  BY <1>4, <1>5, <1>6 DEF IInv

\* The worker drops that reference.
LEMMA PollDoneKeeps == ASSUME IInv, NEW w \in Workers, PollDone(w) PROVE IInv'
<1>1. holds[w] /\ holds \in [Workers -> BOOLEAN]
  BY DEF IInv, TypeInv, HeldWhilePolled, PollDone
<1>2. holds' = [holds EXCEPT ![w] = FALSE] /\ ref_cnt' = ref_cnt - 1
  BY <1>1 DEF PollDone, Held
<1>3. Cardinality(Holders') = Cardinality(Holders) - 1
  BY <1>1, <1>2, HolderRemoved
<1>4. TypeInv' /\ EntryLocked'
  BY <1>2 DEF IInv, TypeInv, EntryLocked, PollDone, PcStates, Types
<1>5. HeldWhilePolled'
  BY <1>2 DEF IInv, TypeInv, HeldWhilePolled, PollDone
<1>6. RefsBalanced'
  BY <1>2, <1>3, HoldersFinite DEF IInv, TypeInv, RefsBalanced, PollDone
<1> QED
  BY <1>4, <1>5, <1>6 DEF IInv

\* on_timer enters its critical section.
LEMMA EnterKeeps == ASSUME IInv, NEW w \in Workers, Enter(w) PROVE IInv'
<1>1. /\ pc' = [pc EXCEPT ![w] = "on_timer"] /\ pc[w] = "read"
      /\ UNCHANGED <<type, holds>>
  BY DEF Enter
<1>2. /\ EntryStep(0) /\ session' \in Session
      /\ session'.is_destroying = session.is_destroying
      /\ next' \in [Workers -> Types] /\ broken' \subseteq Asserts
  <2>1. CASE /\ entry' = Unnamed /\ UNCHANGED <<ref_cnt, session, broken>>
             /\ \E t \in Types : next' = [next EXCEPT ![w] = t]
    BY <2>1, UnnamedStep DEF IInv, TypeInv
  <2>2. CASE on_ice_complete(w, "nom_timeout", Unnamed) /\ UNCHANGED broken
    BY <2>2, CompleteStep DEF IInv, TypeInv, Outcomes
  <2>3. CASE start_nominated_check(w, Unnamed)
    BY <2>3, NominateStep DEF IInv
  <2> QED
    BY <2>1, <2>2, <2>3 DEF Enter, Unnamed, AfterCompletion, Types
<1>3. Owned' = Owned + 0
  BY <1>2 DEF Owned
<1>4. /\ pc' \in [Workers -> PcStates] /\ type' \in [Workers -> Types]
      /\ \A v \in Workers : pc'[v] \in {"idle", "on_check"} <=> pc[v] \in {"idle", "on_check"}
  BY <1>1 DEF IInv, TypeInv, PcStates, InSection
<1> QED
  BY <1>1, <1>2, <1>3, <1>4, SessionStep

\* on_timer leaves it, and the application may destroy the session.
LEMMA LeaveKeeps == ASSUME IInv, NEW w \in Workers, Leave(w) PROVE IInv'
<1> DEFINE tells == type[w] = "completion" /\ ~session.is_destroying
<1>1. /\ pc' = [pc EXCEPT ![w] = "handled"] /\ pc[w] = "on_timer"
      /\ next' = [next EXCEPT ![w] = "none"]
      /\ UNCHANGED <<type, holds>>
  BY DEF Leave
<1>2. /\ pc' \in [Workers -> PcStates] /\ type' \in [Workers -> Types]
      /\ next' \in [Workers -> Types]
      /\ \A v \in Workers : pc'[v] \in {"idle", "on_check"} <=> pc[v] \in {"idle", "on_check"}
  BY <1>1 DEF IInv, TypeInv, PcStates, InSection, Types
<1>3. CASE /\ Schedule(next[w])
           /\ session' = [session EXCEPT !.told = IF tells THEN @ + 1 ELSE @]
  <2>1. EntryStep(0) /\ broken' \subseteq Asserts
    BY <1>3, ScheduleStep DEF IInv, TypeInv
  <2>2. session' \in Session /\ Owned' = Owned + 0
    BY <1>3 DEF IInv, TypeInv, Session, Owned
  <2> QED
    BY <1>1, <1>2, <2>1, <2>2, SessionStep
<1>4. CASE /\ tells
           /\ entry' = Cancelled("none")
           /\ ref_cnt' = ref_cnt - Released - 1
           /\ session' = [session EXCEPT !.told = @ + 1, !.is_destroying = TRUE]
           /\ Claim(next[w] = "none" \/ ~entry.scheduled, "schedule")
  <2>1. ref_cnt' = ref_cnt - Released + (-1)
    BY <1>4 DEF IInv, TypeInv, Released
  <2>2. EntryStep(-1)
    BY <1>4, <2>1, CancelStep DEF IInv
  <2>3. broken' \subseteq Asserts
    BY <1>4, ClaimType DEF IInv, TypeInv, Asserts
  <2>4. session' \in Session /\ session'.is_destroying /\ ~session.is_destroying
    <3>1. session \in Session /\ ~session.is_destroying
      BY <1>4 DEF IInv, TypeInv
    <3>2. session' = [session EXCEPT !.told = session.told + 1, !.is_destroying = TRUE]
      BY <1>4
    <3>3. session.told + 1 \in Nat
      BY <3>1 DEF Session
    <3>4. session' \in Session
      BY <3>1, <3>2, <3>3 DEF Session
    <3> QED
      BY <3>1, <3>2, <3>4 DEF Session
  <2>5. -1 \in Int /\ Owned' = Owned + (-1)
    BY <2>4 DEF Owned
  <2> QED
    BY <1>1, <1>2, <2>2, <2>3, <2>4, <2>5, SessionStep
<1> QED
  BY <1>3, <1>4 DEF Leave

\* What on_check_complete does with the timer, in the critical section of a
\* packet or a transaction's timeout.
LEMMA PacketKeeps == ASSUME IInv, NEW w \in Workers, OnPacket(w) PROVE IInv'
<1>1. /\ pc' = [pc EXCEPT ![w] = "on_check"] /\ pc[w] = "idle"
      /\ UNCHANGED <<type, holds>>
  BY DEF OnPacket, OnCheck, CheckEndsNegotiation, CheckAwaitsNomination,
         CheckSchedulesNomination, CheckStartsNomination, CheckSwitchesRole
<1>2. /\ EntryStep(0) /\ session' \in Session
      /\ session'.is_destroying = session.is_destroying
      /\ next' \in [Workers -> Types] /\ broken' \subseteq Asserts
  <2>1. CASE CheckEndsNegotiation(w)
    <3>1. PICK outcome \in {"ok", "failed"} : on_ice_complete(w, outcome, entry)
      BY <2>1 DEF CheckEndsNegotiation
    <3>2. outcome \in Outcomes /\ entry \in {entry, Unnamed} /\ UNCHANGED broken
      BY <2>1 DEF CheckEndsNegotiation, Outcomes
    <3> QED
      BY <3>1, <3>2, CompleteStep DEF IInv, TypeInv
  <2>2. CASE CheckAwaitsNomination(w)
    BY <2>2, UnnamedStep DEF CheckAwaitsNomination, IInv, TypeInv, Types
  <2>3. CASE CheckSchedulesNomination(w)
    <3>1. ref_cnt' = ref_cnt - Released + 0
      BY <2>3 DEF CheckSchedulesNomination, IInv, TypeInv, Released
    <3>2. EntryStep(0)
      BY <2>3, <3>1, CancelStep DEF CheckSchedulesNomination, IInv
    <3> QED
      BY <2>3, <3>2 DEF CheckSchedulesNomination, IInv, TypeInv, Types
  <2>4. CASE CheckStartsNomination(w)
    BY <2>4, NominateStep DEF CheckStartsNomination, IInv
  <2>5. CASE CheckSwitchesRole(w)
    BY <2>5, UnnamedStep DEF CheckSwitchesRole, IInv, TypeInv, Session, Roles
  <2> QED
    BY <2>1, <2>2, <2>3, <2>4, <2>5 DEF OnPacket
<1>3. Owned' = Owned + 0
  BY <1>2 DEF Owned
<1>4. /\ pc' \in [Workers -> PcStates] /\ type' \in [Workers -> Types]
      /\ \A v \in Workers : pc'[v] \in {"idle", "on_check"} <=> pc[v] \in {"idle", "on_check"}
  BY <1>1 DEF IInv, TypeInv, PcStates, InSection
<1> QED
  BY <1>1, <1>2, <1>3, <1>4, SessionStep

LEMMA Keeps == IInv /\ [Next]_vars => IInv'
<1> SUFFICES ASSUME IInv, [Next]_vars PROVE IInv'
  OBVIOUS
<1>1. ASSUME NEW w \in Workers, ReadType(w) PROVE IInv'
  <2>1. EntryStep(0) /\ Owned' = Owned + 0
    <3>1. UNCHANGED <<entry, ref_cnt, session>>
      BY <1>1 DEF ReadType
    <3> QED
      BY <3>1, UnnamedStep DEF IInv, Owned
  <2>2. /\ pc' \in [Workers -> PcStates] /\ type' \in [Workers -> Types]
        /\ \A v \in Workers : pc'[v] \in {"idle", "on_check"} <=> pc[v] \in {"idle", "on_check"}
    BY <1>1 DEF ReadType, IInv, TypeInv, PcStates, Entry
  <2> QED
    BY <1>1, <2>1, <2>2, SessionStep DEF ReadType, IInv, TypeInv
<1>2. ASSUME NEW w \in Workers, CheckDone(w) PROVE IInv'
  <2>1. EntryStep(0) /\ broken' \subseteq Asserts
    BY <1>2, ScheduleStep DEF CheckDone, IInv, TypeInv
  <2>2. /\ pc' \in [Workers -> PcStates] /\ next' \in [Workers -> Types]
        /\ \A v \in Workers : pc'[v] \in {"idle", "on_check"} <=> pc[v] \in {"idle", "on_check"}
    BY <1>2 DEF CheckDone, IInv, TypeInv, PcStates, Types
  <2>3. Owned' = Owned + 0
    BY <1>2 DEF CheckDone, Owned
  <2> QED
    BY <1>2, <2>1, <2>2, <2>3, SessionStep DEF CheckDone, IInv, TypeInv
<1>3. ASSUME Destroy PROVE IInv'
  <2>1. ref_cnt' = ref_cnt - Released + (-1)
    BY <1>3 DEF Destroy, IInv, TypeInv, Released
  <2>2. EntryStep(-1)
    BY <1>3, <2>1, CancelStep DEF Destroy, IInv
  <2>3. session' \in Session /\ session'.is_destroying /\ ~session.is_destroying
    BY <1>3 DEF Destroy, IInv, TypeInv, Session
  <2>4. -1 \in Int /\ Owned' = Owned + (-1)
    BY <2>3 DEF Owned
  <2>5. UNCHANGED <<pc, type, holds, next, broken>>
    BY <1>3 DEF Destroy
  <2> QED
    BY <2>2, <2>3, <2>4, <2>5, SessionStep DEF IInv, TypeInv
<1>4. ASSUME UNCHANGED vars PROVE IInv'
  <2>1. EntryStep(0) /\ Owned' = Owned + 0
    <3>1. UNCHANGED <<entry, ref_cnt, session>>
      BY <1>4 DEF vars
    <3> QED
      BY <3>1, UnnamedStep DEF IInv, Owned
  <2> QED
    BY <1>4, <2>1, SessionStep DEF vars, IInv, TypeInv
<1> QED
  BY <1>1, <1>2, <1>3, <1>4, PollKeeps, PollDoneKeeps, EnterKeeps, LeaveKeeps, PacketKeeps
  DEF Next, OnTimer

-----------------------------------------------------------------------------
(* One thread: what the assertions and the promise rest on                 *)

\* The end of the negotiation has still to be reported.
Due == session.told = 0 /\ session.ice_status # "none"

\* The timer may be used for this: the nomination it will start has not begun,
\* the outcome it will report is there and has not been reported.
Fits(id) ==
    /\ id = "start_nominated" => ~session.is_nominating
    /\ id = "completion" => Due

\* The part about one worker.
Fitting(w) ==
    /\ pc[w] \in {"polled", "read", "on_timer"} => ~entry.scheduled
    /\ pc[w] = "on_check" => next[w] = "none" \/ ~entry.scheduled
    /\ pc[w] = "read" => Fits(type[w])
    /\ IF pc[w] \in InSection THEN Fits(next[w]) ELSE next[w] = "none"
    /\ pc[w] = "on_timer" =>
          /\ entry.id = "none"
          /\ type[w] = "completion" => Due /\ next[w] # "completion"

\* With one thread the purpose of the timer is a single one, wherever it is kept:
\* in the entry, in on_timer's copy of the id, or in what a critical section will
\* schedule; and who will schedule has made sure that the entry is free.
Alone ==
    /\ session.ice_status = "none" => session.told = 0
    /\ entry.scheduled => entry.id # "none"
    /\ Fits(entry.id)
    /\ \A w \in Workers : Fitting(w)

OneInv == IInv /\ Alone /\ NoAssertionFails

LEMMA AloneInitially == Init => Alone /\ NoAssertionFails
<1> SUFFICES ASSUME Init PROVE Alone /\ NoAssertionFails
  OBVIOUS
<1>1. /\ entry.id = "none" /\ ~entry.scheduled
      /\ session.ice_status = "none" /\ session.told = 0
      /\ \A w \in Workers : pc[w] = "idle" /\ next[w] = "none"
      /\ broken = {}
  BY DEF Init
<1> QED
  BY <1>1 DEF Alone, Fitting, Fits, InSection, NoAssertionFails

\* Of one worker, the invariant says what it is doing.
LEMMA OneWorker ==
    ASSUME NEW w \in Workers, \A v, u \in Workers : v = u,
           session'.ice_status = "none" => session'.told = 0,
           entry'.scheduled => entry'.id # "none", Fits(entry.id)', Fitting(w)'
    PROVE  Alone'
<1>1. ASSUME NEW v \in Workers PROVE Fitting(v)'
  <2>1. v = w
    OBVIOUS
  <2> QED
    BY <2>1
<1> QED
  BY <1>1 DEF Alone

\* A session keeps or makes its promise.
Promises == [Promise!Next]_(Promise!vars)

\* A step that leaves the outcome, the report and the destruction alone stutters.
LEMMA Stutters ==
    ASSUME session'.ice_status = session.ice_status, session'.told = session.told,
           session'.is_destroying = session.is_destroying
    PROVE  Promises
  BY DEF Promises, Promise!vars

\* A free entry is scheduled and no assertion fails.
LEMMA ScheduleFree ==
    ASSUME OneInv, NEW id \in Types, Schedule(id), id = "none" \/ ~entry.scheduled
    PROVE  /\ NoAssertionFails'
           /\ id = "none" => UNCHANGED entry
           /\ id # "none" => entry'.id = id
<1>1. CASE id = "none"
  BY <1>1 DEF Schedule, OneInv, NoAssertionFails
<1>2. CASE id # "none"
  <2>1. ~entry.scheduled /\ entry' = [id |-> id, scheduled |-> TRUE, locked |-> TRUE]
    BY <1>2 DEF Schedule
  <2>2. broken' = broken
    BY <1>2, <2>1 DEF Schedule, Claim
  <2> QED
    BY <1>2, <2>1, <2>2 DEF OneInv, NoAssertionFails
<1> QED
  BY <1>1, <1>2

\* The end of a negotiation makes the report due and clears the entry for it.
LEMMA CompleteDue ==
    ASSUME OneInv, NEW w \in Workers, NEW outcome \in Outcomes \ {"none"}, ~IsComplete,
           ~session.is_destroying, NEW e, on_ice_complete(w, outcome, e)
    PROVE  /\ Due' /\ Promises /\ next'[w] = "completion"
           /\ entry'.id = "none" /\ ~entry'.scheduled
<1>1. /\ session' = [session EXCEPT !.ice_status = outcome]
      /\ entry' = Cancelled("none") /\ next' = [next EXCEPT ![w] = "completion"]
  BY DEF on_ice_complete
<1>2. session.ice_status = "none" /\ session.told = 0 /\ session \in Session /\ next \in [Workers -> Types]
  BY DEF IsComplete, OneInv, Alone, IInv, TypeInv
<1>3. /\ session'.ice_status = outcome /\ session'.told = session.told
      /\ session'.is_destroying = session.is_destroying
  BY <1>1, <1>2 DEF Session
<1>4. Promises
  BY <1>2, <1>3 DEF Promises, Promise!Next, Promise!Finish, Session
<1> QED
  BY <1>1, <1>2, <1>3, <1>4 DEF Due, Cancelled

\* Nomination starts once, with the timer for it out of the way.
LEMMA NominateOnce ==
    ASSUME OneInv, NEW w \in Workers, ~session.is_nominating, NEW e \in {entry, Unnamed},
           start_nominated_check(w, e)
    PROVE  /\ NoAssertionFails' /\ Promises /\ next'[w] = "none"
           /\ session'.ice_status = session.ice_status /\ session'.told = session.told
           /\ \/ entry' = Cancelled("none")
              \/ entry' = e /\ e.id # "start_nominated"
<1>1. /\ session' = [session EXCEPT !.is_nominating = TRUE]
      /\ Claim(~session.is_nominating, "is_nominating")
      /\ next' = [next EXCEPT ![w] = "none"]
      /\ \/ entry' = Cancelled("none")
         \/ entry' = e /\ e.id # "start_nominated"
  BY DEF start_nominated_check, StopsTimer
<1>2. /\ session'.ice_status = session.ice_status /\ session'.told = session.told
      /\ session'.is_destroying = session.is_destroying /\ next'[w] = "none"
  BY <1>1 DEF OneInv, IInv, TypeInv, Session
<1> QED
  BY <1>1, <1>2, Stutters DEF Claim, OneInv, NoAssertionFails

\* What a step of the only worker has to show.
Good == Alone' /\ NoAssertionFails' /\ Promises

LEMMA PollAlone ==
    ASSUME OneInv, NEW w \in Workers, \A v, u \in Workers : v = u, Poll(w)
    PROVE  Good
<1>1. /\ entry' = [entry EXCEPT !.scheduled = FALSE, !.locked = FALSE]
      /\ pc[w] = "idle" /\ pc' = [pc EXCEPT ![w] = "polled"]
      /\ UNCHANGED <<ref_cnt, session, type, next, broken>>
  BY DEF Poll
<1>2. entry'.id = entry.id /\ ~entry'.scheduled /\ pc'[w] = "polled"
  BY <1>1 DEF OneInv, IInv, TypeInv, Entry
<1>3. Fits(entry.id)' /\ Fitting(w)'
  BY <1>1, <1>2 DEF OneInv, Alone, Fitting, Fits, Due, InSection
<1>4. Alone'
  BY <1>1, <1>2, <1>3, OneWorker DEF OneInv, Alone
<1> QED
  BY <1>1, <1>4, Stutters DEF Good, OneInv, NoAssertionFails

LEMMA ReadAlone ==
    ASSUME OneInv, NEW w \in Workers, \A v, u \in Workers : v = u, ReadType(w)
    PROVE  Good
<1>1. /\ type' = [type EXCEPT ![w] = entry.id] /\ pc[w] = "polled"
      /\ pc' = [pc EXCEPT ![w] = "read"]
      /\ UNCHANGED <<entry, ref_cnt, session, holds, next, broken>>
  BY DEF ReadType
<1>2. type'[w] = entry.id /\ pc'[w] = "read" /\ Fitting(w)
  BY <1>1 DEF OneInv, Alone, IInv, TypeInv
<1>3. Fits(entry.id)'
  BY <1>1 DEF OneInv, Alone, Fits, Due
<1>4. Fitting(w)'
  BY <1>1, <1>2, <1>3 DEF Fitting, Fits, Due, InSection
<1>5. Alone'
  BY <1>1, <1>3, <1>4, OneWorker DEF OneInv, Alone
<1> QED
  BY <1>1, <1>5, Stutters DEF Good, OneInv, NoAssertionFails

LEMMA EnterAlone ==
    ASSUME OneInv, NEW w \in Workers, \A v, u \in Workers : v = u, Enter(w)
    PROVE  Good
<1>1. /\ pc[w] = "read" /\ pc' = [pc EXCEPT ![w] = "on_timer"]
      /\ UNCHANGED <<type, holds>>
  BY DEF Enter
<1>2. pc'[w] = "on_timer" /\ ~entry.scheduled /\ Fits(type[w]) /\ type'[w] = type[w]
  BY <1>1 DEF OneInv, Alone, Fitting, IInv, TypeInv
<1>3. Unnamed.id = "none" /\ ~Unnamed.scheduled
  BY <1>2 DEF Unnamed, OneInv, IInv, TypeInv, Entry
<1>4. session.ice_status = "none" => session.told = 0
  BY DEF OneInv, Alone
<1>5. CASE /\ UNCHANGED <<session, broken>> /\ entry' = Unnamed
           /\ next'[w] \in {"none", "keep_alive"}
  <2>1. Fits(entry.id)' /\ Fitting(w)'
    BY <1>2, <1>3, <1>5 DEF Fitting, Fits, Due, InSection
  <2>2. Alone'
    BY <1>3, <1>4, <1>5, <2>1, OneWorker
  <2> QED
    BY <1>5, <2>2, Stutters DEF Good, OneInv, NoAssertionFails
<1>6. CASE /\ ~session.is_destroying /\ type[w] = "wait_nom"
           /\ on_ice_complete(w, "nom_timeout", Unnamed) /\ UNCHANGED broken /\ ~IsComplete
  <2>1. "nom_timeout" \in Outcomes \ {"none"}
    BY DEF Outcomes
  <2>2. Due' /\ Promises /\ next'[w] = "completion" /\ entry'.id = "none" /\ ~entry'.scheduled
    BY <1>6, <2>1, CompleteDue
  <2>3. Fits(entry.id)' /\ Fitting(w)' /\ (session'.ice_status = "none" => session'.told = 0)
    BY <1>2, <1>6, <2>2 DEF Fitting, Fits, Due, InSection
  <2>4. Alone'
    BY <2>2, <2>3, OneWorker
  <2> QED
    BY <1>6, <2>2, <2>4 DEF Good, OneInv, NoAssertionFails
<1>7. CASE type[w] = "start_nominated" /\ start_nominated_check(w, Unnamed)
  <2>1. ~session.is_nominating
    BY <1>2, <1>7 DEF Fits
  <2>2. /\ NoAssertionFails' /\ Promises /\ next'[w] = "none"
        /\ session'.ice_status = session.ice_status /\ session'.told = session.told
        /\ entry' = Cancelled("none") \/ entry' = Unnamed
    BY <1>7, <2>1, NominateOnce
  <2>3. entry'.id = "none" /\ ~entry'.scheduled
    BY <1>3, <2>2 DEF Cancelled
  <2>4. Fits(entry.id)' /\ Fitting(w)'
    BY <1>2, <1>7, <2>2, <2>3 DEF Fitting, Fits, InSection
  <2>5. Alone'
    BY <1>4, <2>2, <2>3, <2>4, OneWorker
  <2> QED
    BY <2>2, <2>5 DEF Good
<1>8. ASSUME NEW t \in Types, next' = [next EXCEPT ![w] = t] PROVE next'[w] = t
  BY <1>8 DEF OneInv, IInv, TypeInv
<1>9. CASE /\ ~session.is_destroying /\ type[w] = "wait_nom"
           /\ on_ice_complete(w, "nom_timeout", Unnamed) /\ UNCHANGED broken /\ IsComplete
  <2>1. entry' = Unnamed /\ next' = [next EXCEPT ![w] = "none"] /\ UNCHANGED session
    BY <1>9 DEF on_ice_complete
  <2> QED
    BY <1>5, <1>8, <1>9, <2>1 DEF Types
<1>10. CASE /\ entry' = Unnamed /\ UNCHANGED <<session, broken>>
            /\ \E t \in {"none", "keep_alive"} : next' = [next EXCEPT ![w] = t]
  BY <1>5, <1>8, <1>10 DEF Types
<1> QED
  BY <1>6, <1>7, <1>9, <1>10 DEF Enter, Unnamed, AfterCompletion

LEMMA LeaveAlone ==
    ASSUME OneInv, NEW w \in Workers, \A v, u \in Workers : v = u, Leave(w)
    PROVE  Good
<1> DEFINE tells == type[w] = "completion" /\ ~session.is_destroying
<1>1. /\ pc[w] = "on_timer" /\ pc' = [pc EXCEPT ![w] = "handled"]
      /\ next' = [next EXCEPT ![w] = "none"]
  BY DEF Leave
<1>2. /\ pc'[w] = "handled" /\ next'[w] = "none"
      /\ next[w] \in Types /\ session \in Session
      /\ ~entry.scheduled /\ entry.id = "none" /\ Fits(next[w])
      /\ type[w] = "completion" => Due /\ next[w] # "completion"
      /\ session.ice_status = "none" => session.told = 0
  BY <1>1 DEF OneInv, Alone, Fitting, IInv, TypeInv, InSection
<1>3. Fitting(w)'
  BY <1>2 DEF Fitting, InSection
<1>4. CASE /\ Schedule(next[w])
           /\ session' = [session EXCEPT !.told = IF tells THEN @ + 1 ELSE @]
  <2>1. /\ NoAssertionFails'
        /\ entry'.id = next[w] /\ (entry'.scheduled => entry'.id # "none")
    BY <1>2, <1>4, ScheduleFree
  <2>2. /\ session'.ice_status = session.ice_status
        /\ session'.is_nominating = session.is_nominating
        /\ session'.is_destroying = session.is_destroying
        /\ session'.told = IF tells THEN session.told + 1 ELSE session.told
    BY <1>2, <1>4 DEF Session
  <2>3. Fits(entry.id)' /\ (session'.ice_status = "none" => session'.told = 0)
    BY <1>2, <2>1, <2>2 DEF Fits, Due
  <2>4. Alone'
    BY <1>3, <2>1, <2>3, OneWorker
  <2>5. Promises
    <3>1. CASE tells
      <4>1. session.told = 0 /\ session.ice_status # "none" /\ ~session.is_destroying
        BY <1>2, <3>1 DEF Due
      <4>2. session'.told = 1 /\ session'.is_destroying \in BOOLEAN
        BY <1>2, <2>2, <3>1, <4>1 DEF Session
      <4> QED
        BY <1>2, <2>2, <4>1, <4>2 DEF Promises, Promise!Next, Promise!Tell, Session
    <3>2. CASE ~tells
      BY <2>2, <3>2, Stutters
    <3> QED
      BY <3>1, <3>2
  <2> QED
    BY <2>1, <2>4, <2>5 DEF Good
<1>5. CASE /\ tells /\ entry' = Cancelled("none")
           /\ session' = [session EXCEPT !.told = @ + 1, !.is_destroying = TRUE]
           /\ Claim(next[w] = "none" \/ ~entry.scheduled, "schedule")
  <2>1. entry'.id = "none" /\ ~entry'.scheduled
    BY <1>5 DEF Cancelled
  <2>2. NoAssertionFails'
    BY <1>2, <1>5 DEF Claim, OneInv, NoAssertionFails
  <2>3. session.told = 0 /\ session.ice_status # "none" /\ ~session.is_destroying
    BY <1>2, <1>5 DEF Due
  <2>4. session' = [session EXCEPT !.told = 1, !.is_destroying = TRUE]
    BY <1>5, <2>3
  <2>5. /\ session'.ice_status = session.ice_status /\ session'.told = 1
        /\ session'.is_destroying
    BY <1>2, <2>4 DEF Session
  <2>6. Promises
    BY <1>2, <2>3, <2>5 DEF Promises, Promise!Next, Promise!Tell, Session
  <2>7. Alone'
    BY <1>3, <2>1, <2>3, <2>5, OneWorker DEF Fits
  <2> QED
    BY <2>2, <2>6, <2>7 DEF Good
<1> QED
  BY <1>4, <1>5 DEF Leave

LEMMA DoneAlone ==
    ASSUME OneInv, NEW w \in Workers, \A v, u \in Workers : v = u, PollDone(w)
    PROVE  Good
<1>1. /\ pc[w] = "handled" /\ pc' = [pc EXCEPT ![w] = "idle"]
      /\ UNCHANGED <<entry, session, next, broken>>
  BY DEF PollDone
<1>2. pc'[w] = "idle"
  BY <1>1 DEF OneInv, IInv, TypeInv
<1>3. Fitting(w)' /\ Fits(entry.id)'
  BY <1>1, <1>2 DEF OneInv, Alone, Fitting, Fits, Due, InSection
<1>4. Alone'
  BY <1>1, <1>3, OneWorker DEF OneInv, Alone
<1> QED
  BY <1>1, <1>4, Stutters DEF Good, OneInv, NoAssertionFails

LEMMA CheckDoneAlone ==
    ASSUME OneInv, NEW w \in Workers, \A v, u \in Workers : v = u, CheckDone(w)
    PROVE  Good
<1>1. /\ pc[w] = "on_check" /\ pc' = [pc EXCEPT ![w] = "idle"]
      /\ next' = [next EXCEPT ![w] = "none"]
      /\ Schedule(next[w]) /\ UNCHANGED session
  BY DEF CheckDone
<1>2. /\ pc'[w] = "idle" /\ next'[w] = "none" /\ next[w] \in Types
      /\ next[w] = "none" \/ ~entry.scheduled
      /\ Fits(next[w]) /\ Fits(entry.id)
      /\ session.ice_status = "none" => session.told = 0
      /\ entry.scheduled => entry.id # "none"
  BY <1>1 DEF OneInv, Alone, Fitting, IInv, TypeInv, InSection
<1>3. /\ NoAssertionFails' /\ entry'.id \in {entry.id, next[w]}
      /\ entry'.scheduled => entry'.id # "none"
  BY <1>1, <1>2, ScheduleFree
<1>4. Fits(entry.id)' /\ Fitting(w)'
  BY <1>1, <1>2, <1>3 DEF Fits, Due, Fitting, InSection
<1>5. Alone'
  BY <1>1, <1>2, <1>3, <1>4, OneWorker
<1> QED
  BY <1>1, <1>3, <1>5, Stutters DEF Good

LEMMA PacketAlone ==
    ASSUME OneInv, NEW w \in Workers, \A v, u \in Workers : v = u, OnPacket(w)
    PROVE  Good
<1>1. /\ pc[w] = "idle" /\ pc' = [pc EXCEPT ![w] = "on_check"] /\ ~session.is_destroying
  BY DEF OnPacket, OnCheck, CheckEndsNegotiation, CheckAwaitsNomination,
         CheckSchedulesNomination, CheckStartsNomination, CheckSwitchesRole
<1>2. /\ pc'[w] = "on_check" /\ session \in Session /\ entry \in Entry
      /\ session.ice_status = "none" => session.told = 0
      /\ entry.scheduled => entry.id # "none"
      /\ Fits(entry.id) /\ broken = {}
  BY <1>1 DEF OneInv, Alone, IInv, TypeInv, NoAssertionFails
<1>3. ASSUME NEW t \in Types, next' = [next EXCEPT ![w] = t] PROVE next'[w] = t
  BY <1>3 DEF OneInv, IInv, TypeInv
<1>4. CASE CheckEndsNegotiation(w)
  <2>1. PICK outcome \in {"ok", "failed"} : on_ice_complete(w, outcome, entry)
    BY <1>4 DEF CheckEndsNegotiation
  <2>2. outcome \in Outcomes \ {"none"} /\ ~IsComplete /\ UNCHANGED broken
    BY <1>4 DEF CheckEndsNegotiation, Outcomes, IsComplete
  <2>3. Due' /\ Promises /\ next'[w] = "completion" /\ entry'.id = "none" /\ ~entry'.scheduled
    BY <1>1, <2>1, <2>2, CompleteDue
  <2>4. Fits(entry.id)' /\ Fitting(w)' /\ (session'.ice_status = "none" => session'.told = 0)
    BY <1>2, <2>3 DEF Fitting, Fits, Due, InSection
  <2>5. Alone'
    BY <2>3, <2>4, OneWorker
  <2> QED
    BY <1>2, <2>2, <2>3, <2>5 DEF Good, NoAssertionFails
<1>5. CASE CheckAwaitsNomination(w)
  <2>1. /\ entry.id = "none" /\ next' = [next EXCEPT ![w] = "wait_nom"]
        /\ UNCHANGED <<entry, session, broken>>
    BY <1>5 DEF CheckAwaitsNomination
  <2>2. next'[w] = "wait_nom"
    BY <2>1, <1>3 DEF Types
  <2>3. Fits(entry.id)' /\ Fitting(w)'
    BY <1>2, <2>1, <2>2 DEF Fits, Fitting, InSection
  <2>4. Alone'
    BY <1>2, <2>1, <2>3, OneWorker
  <2> QED
    BY <1>2, <2>1, <2>4, Stutters DEF Good, NoAssertionFails
<1>6. CASE CheckSchedulesNomination(w)
  <2>1. /\ ~session.is_nominating /\ entry' = Cancelled("none")
        /\ next' = [next EXCEPT ![w] = "start_nominated"]
        /\ UNCHANGED <<session, broken>>
    BY <1>6 DEF CheckSchedulesNomination
  <2>2. next'[w] = "start_nominated" /\ entry'.id = "none" /\ ~entry'.scheduled
    BY <2>1, <1>3 DEF Types, Cancelled
  <2>3. Fits(entry.id)' /\ Fitting(w)'
    BY <1>2, <2>1, <2>2 DEF Fits, Fitting, InSection
  <2>4. Alone'
    BY <1>2, <2>1, <2>2, <2>3, OneWorker
  <2> QED
    BY <1>2, <2>1, <2>4, Stutters DEF Good, NoAssertionFails
<1>7. CASE CheckStartsNomination(w)
  <2>1. /\ NoAssertionFails' /\ Promises /\ next'[w] = "none"
        /\ session'.ice_status = session.ice_status /\ session'.told = session.told
        /\ \/ entry' = Cancelled("none")
           \/ entry' = entry /\ entry.id # "start_nominated"
    BY <1>7, NominateOnce DEF CheckStartsNomination
  <2>2. Fits(entry.id)' /\ Fitting(w)' /\ (entry'.scheduled => entry'.id # "none")
    BY <1>2, <2>1 DEF Fits, Due, Fitting, Cancelled
  <2>3. Alone'
    BY <1>2, <2>1, <2>2, OneWorker
  <2> QED
    BY <2>1, <2>3 DEF Good
<1>8. CASE CheckSwitchesRole(w)
  <2>1. /\ session' = [session EXCEPT !.role = "controlled"]
        /\ UNCHANGED <<entry, next, broken>>
    BY <1>8 DEF CheckSwitchesRole
  <2>2. /\ session'.ice_status = session.ice_status /\ session'.told = session.told
        /\ session'.is_destroying = session.is_destroying
        /\ session'.is_nominating = session.is_nominating
    BY <1>2, <2>1 DEF Session
  <2>3. next[w] = "none"
    BY <1>1 DEF OneInv, Alone, Fitting, InSection
  <2>4. Fits(entry.id)' /\ Fitting(w)'
    BY <1>2, <2>1, <2>2, <2>3 DEF Fits, Due, Fitting
  <2>5. Alone'
    BY <1>2, <2>1, <2>2, <2>4, OneWorker
  <2> QED
    BY <1>2, <2>1, <2>2, <2>5, Stutters DEF Good, NoAssertionFails
<1> QED
  BY <1>4, <1>5, <1>6, <1>7, <1>8 DEF OnPacket

LEMMA DestroyAlone == ASSUME OneInv, Destroy PROVE Good
<1>1. /\ session' = [session EXCEPT !.is_destroying = TRUE]
      /\ entry' = Cancelled("none") /\ UNCHANGED <<pc, type, next, broken>>
      /\ \A w \in Workers : pc[w] \notin InSection
  BY DEF Destroy, Unlocked
<1>2. /\ entry'.id = "none" /\ ~entry'.scheduled
      /\ session'.ice_status = session.ice_status /\ session'.told = session.told
      /\ session'.is_nominating = session.is_nominating /\ session'.is_destroying
  BY <1>1 DEF OneInv, IInv, TypeInv, Session, Cancelled
<1>3. ASSUME NEW w \in Workers PROVE Fitting(w)'
  <2>1. Fitting(w) /\ pc[w] \notin InSection
    BY <1>1, <1>3 DEF OneInv, Alone
  <2> QED
    BY <1>1, <1>2, <2>1 DEF Fitting, Fits, Due, InSection
<1>4. Fits(entry.id)'
  BY <1>2 DEF Fits
<1>5. Alone'
  BY <1>2, <1>3, <1>4 DEF OneInv, Alone
<1>6. Promises
  BY <1>2 DEF Promises, Promise!Next, Promise!Close, OneInv, IInv, TypeInv, Session
<1> QED
  BY <1>1, <1>5, <1>6 DEF Good, OneInv, NoAssertionFails

LEMMA AloneKeeps ==
    ASSUME OneInv, \A v, u \in Workers : v = u, [Next]_vars
    PROVE  OneInv' /\ Promises
<1>1. IInv'
  BY Keeps DEF OneInv
<1>2. ASSUME UNCHANGED vars PROVE Good
  <2>1. \A w \in Workers : Fitting(w)'
    BY <1>2 DEF vars, OneInv, Alone, Fitting, Fits, Due, InSection
  <2>2. Fits(entry.id)' /\ NoAssertionFails'
    BY <1>2 DEF vars, OneInv, Alone, Fits, Due, NoAssertionFails
  <2>3. Alone'
    BY <1>2, <2>1, <2>2 DEF vars, OneInv, Alone
  <2> QED
    BY <1>2, <2>2, <2>3, Stutters DEF vars, Good
<1>3. Good
  BY <1>2, PollAlone, ReadAlone, EnterAlone, LeaveAlone, DoneAlone, CheckDoneAlone,
     PacketAlone, DestroyAlone DEF Next, OnTimer
<1> QED
  BY <1>1, <1>3 DEF Good, OneInv

-----------------------------------------------------------------------------
(* The theorems                                                            *)

\* No reference to the group lock is lost or dropped twice, whatever the order
\* of polls, cancels, schedules and the destruction of the session.
THEOREM References == Spec => []RefsBalanced
<1>1. IInv => RefsBalanced
  BY DEF IInv
<1> QED
  BY <1>1, Initially, Keeps, PTL DEF Spec

\* Every variable keeps its type; that the counter is never negative follows
\* from its balance.
THEOREM Types_invariant == Spec => []TypeOK
<1>1. IInv => TypeOK
  <2> SUFFICES ASSUME IInv PROVE TypeOK
    OBVIOUS
  <2>1. ref_cnt \in Nat
    BY HoldersFinite DEF IInv, RefsBalanced
  <2> QED
    BY <2>1 DEF IInv, TypeInv, TypeOK, PcStates
<1> QED
  BY <1>1, Initially, Keeps, PTL DEF Spec

\* The session is not freed while a worker is anywhere between the poll that
\* removed the timer entry and the end of its callback.
THEOREM Outlives == Spec => []SessionOutlivesTimer
<1>1. IInv => SessionOutlivesTimer
  <2> SUFFICES ASSUME IInv, NEW w \in Workers, pc[w] \notin {"idle", "on_check"}
               PROVE  ref_cnt > 0
    BY DEF SessionOutlivesTimer
  <2>1. w \in Holders
    BY DEF IInv, HeldWhilePolled, Holders
  <2>2. Cardinality(Holders) > 0
    BY <2>1, HoldersFinite, FS_EmptySet
  <2> QED
    BY <2>2, HoldersFinite DEF IInv, RefsBalanced
<1> QED
  BY <1>1, Initially, Keeps, PTL DEF Spec

\* With one thread the assertions on the timer hold: the entry that is scheduled
\* is not in the heap, and nomination starts once.
THEOREM No_assertion_fails ==
    ASSUME \A v, u \in Workers : v = u
    PROVE  Spec => []NoAssertionFails
<1>1. Init => OneInv
  BY Initially, AloneInitially DEF OneInv
<1>2. OneInv /\ [Next]_vars => OneInv'
  BY AloneKeeps
<1>3. OneInv => NoAssertionFails
  BY DEF OneInv
<1> QED
  BY <1>1, <1>2, <1>3, PTL DEF Spec

\* With one thread the timer keeps the promise of Negotiation.tla: the report that
\* the completion timer makes is the only one, comes after the end, and does not
\* reach an application that has destroyed the session.
THEOREM Promise_kept ==
    ASSUME \A v, u \in Workers : v = u
    PROVE  Spec => KeepsPromise
<1>1. Init => OneInv /\ Promise!Init
  <2>1. Init => OneInv
    BY Initially, AloneInitially DEF OneInv
  <2>2. Init => Promise!Init
    BY DEF Init, Promise!Init
  <2> QED
    BY <2>1, <2>2
<1>2. OneInv /\ [Next]_vars => OneInv' /\ [Promise!Next]_(Promise!vars)
  BY AloneKeeps DEF Promises
<1> QED
  BY <1>1, <1>2, PTL DEF Spec, KeepsPromise, Promise!Spec
=============================================================================
