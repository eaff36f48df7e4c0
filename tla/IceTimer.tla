------------------------------ MODULE IceTimer ------------------------------
(***************************************************************************)
(* The timer of an ICE session (ice->timer), with the threads that poll    *)
(* the timer heap and the network (ice_session.c, pjlib's timer.c and      *)
(* lock.c).  One entry serves four purposes, told apart by its id: waiting *)
(* for nomination, starting nomination, reporting completion, keep-alive.  *)
(*                                                                         *)
(* pj_timer_heap_poll removes the entry under the lock of the heap and     *)
(* calls on_timer without it; on_timer reads the id and only then takes    *)
(* the group lock of the session.  What the checklist does is reduced to   *)
(* the uses that on_check_complete makes of the timer.                     *)
(***************************************************************************)
EXTENDS Naturals, FiniteSets

CONSTANTS
    Workers         \* threads that poll the timer heap and the network

ASSUME WorkersAssumption == IsFiniteSet(Workers)

Types == {"none", "wait_nom", "completion", "start_nominated", "keep_alive"}
Outcomes == {"none", "ok", "failed", "nom_timeout"}
Roles == {"controlling", "controlled"}
Asserts == {"schedule", "is_nominating"}

VARIABLES
    entry,      \* ice->timer: id, _timer_id >= 1, _grp_lock # NULL
    ref_cnt,    \* references of the session and its timer to the group lock
    session,    \* the fields of pj_ice_sess that matter to the timer
    pc,         \* where each worker is
    type,       \* on_timer's copy of te->id
    holds,      \* pj_timer_heap_poll's grp_lock # NULL
    next,       \* what a critical section schedules at its end
    broken      \* assertions found false

vars == <<entry, ref_cnt, session, pc, type, holds, next, broken>>

Entry == [id: Types, scheduled: BOOLEAN, locked: BOOLEAN]
Session == [role: Roles, is_nominating: BOOLEAN, ice_status: Outcomes,
            is_destroying: BOOLEAN, told: Nat]

-----------------------------------------------------------------------------
(* The timer heap                                                          *)

Claim(holding, assertion) ==
    broken' = IF holding THEN broken ELSE broken \cup {assertion}

\* What cancelling gives back.
\* Faulty: a reference, also when the entry was removed by a poll.
Released_always == 1
Released == IF entry.locked THEN 1 ELSE 0

\* pj_timer_heap_cancel_if_active, whether the entry is in the heap or not.
\* Faulty: the id is reset but the entry stays in the heap.
Cancelled_kept(id) == [entry EXCEPT !.id = id]
Cancelled(id) == [id |-> id, scheduled |-> FALSE, locked |-> FALSE]

\* pj_timer_heap_schedule_w_grp_lock at the end of a critical section.
Schedule(id) ==
    IF id = "none" THEN UNCHANGED <<entry, ref_cnt, broken>>
    ELSE /\ Claim(~entry.scheduled, "schedule")
         /\ IF entry.scheduled THEN UNCHANGED <<entry, ref_cnt>>
            ELSE /\ entry' = [id |-> id, scheduled |-> TRUE, locked |-> TRUE]
                 /\ ref_cnt' = ref_cnt + 1

-----------------------------------------------------------------------------
(* A critical section under the group lock is a worker's step into it, that *)
(* may cancel the entry or clear its id, and its step out of it, that may   *)
(* schedule the entry.                                                      *)

InSection == {"on_timer", "on_check"}
Unlocked == \A w \in Workers : pc[w] \notin InSection

\* is_complete of the session.  Faulty: it is never set.
IsComplete_never == FALSE
IsComplete == session.ice_status # "none"

on_ice_complete(w, outcome, e) ==
    IF IsComplete
    THEN /\ entry' = e /\ next' = [next EXCEPT ![w] = "none"]
         /\ UNCHANGED <<ref_cnt, session>>
    ELSE /\ session' = [session EXCEPT !.ice_status = outcome]
         /\ entry' = Cancelled("none")
         /\ ref_cnt' = ref_cnt - Released
         /\ next' = [next EXCEPT ![w] = "completion"]

\* start_nominated_check stops the timer only if the id still says so.
\* Faulty: it does not stop it.
StopsTimer_never(e) == FALSE
StopsTimer(e) == e.id = "start_nominated"

start_nominated_check(w, e) ==
    /\ session' = [session EXCEPT !.is_nominating = TRUE]
    /\ Claim(~session.is_nominating, "is_nominating")
    /\ next' = [next EXCEPT ![w] = "none"]
    /\ IF StopsTimer(e)
       THEN entry' = Cancelled("none") /\ ref_cnt' = ref_cnt - Released
       ELSE entry' = e /\ UNCHANGED ref_cnt

\* pj_timer_heap_poll: the due entry leaves the heap, with its reference.
Poll(w) ==
    /\ pc[w] = "idle" /\ entry.scheduled
    /\ entry' = [entry EXCEPT !.scheduled = FALSE, !.locked = FALSE]
    /\ holds' = [holds EXCEPT ![w] = entry.locked]
    /\ pc' = [pc EXCEPT ![w] = "polled"]
    /\ UNCHANGED <<ref_cnt, session, type, next, broken>>

\* on_timer, before it has the lock.
ReadType(w) ==
    /\ pc[w] = "polled"
    /\ type' = [type EXCEPT ![w] = entry.id]
    /\ pc' = [pc EXCEPT ![w] = "read"]
    /\ UNCHANGED <<entry, ref_cnt, session, holds, next, broken>>

\* After the callback keep-alives start, if the negotiation succeeded.
\* Faulty: only those of a controlling agent.
AfterCompletion_controlling ==
    IF session.ice_status = "ok" /\ session.role = "controlling" THEN "keep_alive" ELSE "none"
AfterCompletion == IF session.ice_status = "ok" THEN "keep_alive" ELSE "none"

\* on_timer with the lock: the id is cleared, a session being destroyed is left.
Enter(w) ==
    LET e == [entry EXCEPT !.id = "none"]
    IN /\ pc[w] = "read" /\ Unlocked
       /\ pc' = [pc EXCEPT ![w] = "on_timer"]
       /\ UNCHANGED <<type, holds>>
       /\ \/ /\ session.is_destroying \/ type[w] = "none"
             /\ entry' = e /\ next' = [next EXCEPT ![w] = "none"]
             /\ UNCHANGED <<ref_cnt, session, broken>>
          \/ /\ ~session.is_destroying /\ type[w] = "wait_nom"
             /\ on_ice_complete(w, "nom_timeout", e)
             /\ UNCHANGED broken
          \/ /\ ~session.is_destroying /\ type[w] = "start_nominated"
             /\ start_nominated_check(w, e)
          \/ /\ ~session.is_destroying /\ type[w] = "completion"
             /\ entry' = e
             /\ next' = [next EXCEPT ![w] = AfterCompletion]
             /\ UNCHANGED <<ref_cnt, session, broken>>
          \/ /\ ~session.is_destroying /\ type[w] = "keep_alive"
             /\ entry' = e /\ next' = [next EXCEPT ![w] = "keep_alive"]
             /\ UNCHANGED <<ref_cnt, session, broken>>

\* on_timer schedules and releases the lock; reporting completion, it calls the
\* application, which may destroy the session in the callback.
Leave(w) ==
    LET tells == type[w] = "completion" /\ ~session.is_destroying
    IN /\ pc[w] = "on_timer"
       /\ pc' = [pc EXCEPT ![w] = "handled"]
       /\ next' = [next EXCEPT ![w] = "none"]
       /\ UNCHANGED <<type, holds>>
       /\ \/ /\ Schedule(next[w])
             /\ session' = [session EXCEPT !.told = IF tells THEN @ + 1 ELSE @]
          \/ /\ tells
             /\ entry' = Cancelled("none")
             /\ ref_cnt' = ref_cnt - Released - 1
             /\ session' = [session EXCEPT !.told = @ + 1, !.is_destroying = TRUE]
             /\ Claim(next[w] = "none" \/ ~entry.scheduled, "schedule")

\* pj_timer_heap_poll drops the reference that the entry had.
\* Faulty: it keeps it.
Held_none(w) == 0
Held(w) == IF holds[w] THEN 1 ELSE 0

PollDone(w) ==
    /\ pc[w] = "handled"
    /\ ref_cnt' = ref_cnt - Held(w)
    /\ holds' = [holds EXCEPT ![w] = FALSE]
    /\ type' = [type EXCEPT ![w] = "none"]
    /\ pc' = [pc EXCEPT ![w] = "idle"]
    /\ UNCHANGED <<entry, session, next, broken>>

-----------------------------------------------------------------------------
(* on_check_complete, when a packet arrives or a transaction times out      *)

OnCheck(w) ==
    /\ pc[w] = "idle" /\ Unlocked /\ ~session.is_destroying
    /\ pc' = [pc EXCEPT ![w] = "on_check"]
    /\ UNCHANGED <<type, holds>>

\* Every component has a nominated pair, or checking has failed.
CheckEndsNegotiation(w) ==
    /\ OnCheck(w) /\ session.ice_status = "none"
    /\ \E outcome \in {"ok", "failed"} : on_ice_complete(w, outcome, entry)
    /\ UNCHANGED broken

\* A controlled agent has checked everything and waits for nomination.
CheckAwaitsNomination(w) ==
    /\ OnCheck(w) /\ session.role = "controlled" /\ session.ice_status # "ok"
    /\ entry.id = "none"
    /\ next' = [next EXCEPT ![w] = "wait_nom"]
    /\ UNCHANGED <<entry, ref_cnt, session, broken>>

\* A controlling agent has a valid pair for every component.
CheckSchedulesNomination(w) ==
    /\ OnCheck(w) /\ session.role = "controlling" /\ session.ice_status # "ok"
    /\ ~session.is_nominating /\ entry.id = "none"
    /\ entry' = Cancelled("none")
    /\ ref_cnt' = ref_cnt - Released
    /\ next' = [next EXCEPT ![w] = "start_nominated"]
    /\ UNCHANGED <<session, broken>>

\* A controlling agent has checked everything and nominates at once.
CheckStartsNomination(w) ==
    /\ OnCheck(w) /\ session.role = "controlling" /\ session.ice_status # "ok"
    /\ ~session.is_nominating
    /\ start_nominated_check(w, entry)

\* A role conflict.
CheckSwitchesRole(w) ==
    /\ OnCheck(w) /\ session.role = "controlling"
    /\ session' = [session EXCEPT !.role = "controlled"]
    /\ UNCHANGED <<entry, ref_cnt, next, broken>>

CheckDone(w) ==
    /\ pc[w] = "on_check"
    /\ pc' = [pc EXCEPT ![w] = "idle"]
    /\ Schedule(next[w])
    /\ next' = [next EXCEPT ![w] = "none"]
    /\ UNCHANGED <<session, type, holds>>

\* pj_ice_sess_destroy, called by a thread of the application.
Destroy ==
    /\ Unlocked /\ ~session.is_destroying
    /\ session' = [session EXCEPT !.is_destroying = TRUE]
    /\ entry' = Cancelled("none")
    /\ ref_cnt' = ref_cnt - Released - 1
    /\ UNCHANGED <<pc, type, holds, next, broken>>

-----------------------------------------------------------------------------
Init ==
    /\ entry = [id |-> "none", scheduled |-> FALSE, locked |-> FALSE]
    /\ ref_cnt = 1
    /\ \E r \in Roles :
          session = [role |-> r, is_nominating |-> FALSE, ice_status |-> "none",
                     is_destroying |-> FALSE, told |-> 0]
    /\ pc = [w \in Workers |-> "idle"]
    /\ type = [w \in Workers |-> "none"]
    /\ holds = [w \in Workers |-> FALSE]
    /\ next = [w \in Workers |-> "none"]
    /\ broken = {}

OnTimer(w) == Poll(w) \/ ReadType(w) \/ Enter(w) \/ Leave(w) \/ PollDone(w)

OnPacket(w) ==
    \/ CheckEndsNegotiation(w) \/ CheckAwaitsNomination(w)
    \/ CheckSchedulesNomination(w) \/ CheckStartsNomination(w)
    \/ CheckSwitchesRole(w)

Next == Destroy \/ \E w \in Workers : OnTimer(w) \/ OnPacket(w) \/ CheckDone(w)

Spec == Init /\ [][Next]_vars

\* A worker goes on polling and finishes what it has begun; it gets a lock that
\* is free again and again.
FairSpec ==
    /\ Spec
    /\ \A w \in Workers : SF_vars(OnTimer(w)) /\ WF_vars(CheckDone(w))

-----------------------------------------------------------------------------
(***************************************************************************)
(* Properties                                                              *)
(***************************************************************************)

TypeOK ==
    /\ entry \in Entry /\ ref_cnt \in Nat /\ session \in Session
    /\ pc \in [Workers -> {"idle", "polled", "read", "handled"} \cup InSection]
    /\ type \in [Workers -> Types] /\ holds \in [Workers -> BOOLEAN]
    /\ next \in [Workers -> Types] /\ broken \subseteq Asserts

Holders == {w \in Workers : holds[w]}

\* The group lock has one reference for the session until it is destroyed, one
\* for the entry while it is in the heap, and one for each worker between the
\* poll that removed the entry and the end of its callback: whatever the order
\* of polls, cancels and destruction, none is lost and none dropped twice.
RefsBalanced ==
    ref_cnt = (IF session.is_destroying THEN 0 ELSE 1)
              + (IF entry.scheduled THEN 1 ELSE 0) + Cardinality(Holders)

\* The memory of the session, freed with the last reference (ice_on_destroy),
\* outlives every callback of its timer.
SessionOutlivesTimer ==
    \A w \in Workers : pc[w] \notin {"idle", "on_check"} => ref_cnt > 0

\* With one thread, the assertions on the timer hold.
NoAssertionFails == broken = {}

\* The session keeps the promise of Negotiation.tla.
Promise == INSTANCE Negotiation WITH
    outcome <- session.ice_status, told <- session.told, closed <- session.is_destroying
KeepsPromise == Promise!Spec

\* When the negotiation has completed, the application is called
\* (pj_ice_sess_cb.on_ice_complete), unless it destroys the session.
CompletionReported ==
    (session.ice_status # "none") ~> (session.told > 0 \/ session.is_destroying)

\* After a success keep-alives go on until the session is destroyed.
KeepsAlive ==
    (session.ice_status = "ok")
        ~> (entry.scheduled /\ entry.id = "keep_alive") \/ session.is_destroying
=============================================================================
