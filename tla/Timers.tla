------------------------------- MODULE Timers -------------------------------
(***************************************************************************)
(* What the timer heap promises: entries are scheduled and cancelled, and  *)
(* a thread that polls takes those that are due, the earliest first, to    *)
(* run their callbacks.                                                    *)
(***************************************************************************)
EXTENDS Integers
CONSTANTS Threads, Entries, NoEntry
VARIABLES
    due,        \* when an entry is due, or Never
    calling,    \* the entry whose callback a thread runs
    now

vars == <<due, calling, now>>
Never == -1

Init == /\ due = [e \in Entries |-> Never]
        /\ calling = [t \in Threads |-> NoEntry]
        /\ now = 0
Schedule(e) ==
    /\ due[e] = Never
    /\ due'[e] \in Nat /\ due' = [due EXCEPT ![e] = due'[e]]
    /\ UNCHANGED <<calling, now>>
Cancel(e) == due' = [due EXCEPT ![e] = Never] /\ UNCHANGED <<calling, now>>
Expire(t, e) ==
    /\ calling[t] = NoEntry /\ due[e] \in 0..now
    /\ \A f \in Entries : due[f] # Never => due[e] <= due[f]
    /\ due' = [due EXCEPT ![e] = Never]
    /\ calling' = [calling EXCEPT ![t] = e]
    /\ UNCHANGED now
Return(t) == calling' = [calling EXCEPT ![t] = NoEntry] /\ UNCHANGED <<due, now>>
Tick == now' = now + 1 /\ UNCHANGED <<due, calling>>
Next == \/ \E e \in Entries : Schedule(e) \/ Cancel(e) \/ \E t \in Threads : Expire(t, e)
        \/ \E t \in Threads : Return(t)
        \/ Tick
Spec == Init /\ [][Next]_vars
=============================================================================
