----------------------------- MODULE Negotiation -----------------------------
(***************************************************************************)
(* What an ICE session promises its owner (pj_ice_sess_cb.on_ice_complete, *)
(* pj_ice_sess_destroy): the negotiation ends at most once, its outcome    *)
(* never changes, and it is reported at most once, after the end and never *)
(* to an owner who has destroyed the session.                              *)
(***************************************************************************)
CONSTANT Outcomes       \* "none" until the negotiation has ended
VARIABLES outcome, told, closed     \* told: how often the owner was told
vars == <<outcome, told, closed>>

Init == outcome = "none" /\ told = 0 /\ closed = FALSE

Finish ==
    /\ ~closed /\ outcome = "none"
    /\ outcome' \in Outcomes \ {"none"}
    /\ UNCHANGED <<told, closed>>

\* The owner may destroy the session from within the callback.
Tell ==
    /\ ~closed /\ told = 0 /\ outcome # "none"
    /\ told' = 1
    /\ closed' \in BOOLEAN
    /\ UNCHANGED outcome

Close ==
    /\ closed' = TRUE
    /\ UNCHANGED <<outcome, told>>

Next == Finish \/ Tell \/ Close

Spec == Init /\ [][Next]_vars
=============================================================================
