------------------------------- MODULE Relay -------------------------------
(***************************************************************************)
(* What IceStrans.tla relies on of a TURN socket: the name of the server   *)
(* is resolved, a relay is requested, there, and given back, in this order *)
(* and each once; its user may leave it at any point, or it leaves its     *)
(* user; nothing but a relay that is there stays as it is for ever; and a  *)
(* socket that has been left lets go of everything it holds.               *)
(***************************************************************************)
VARIABLE relay

Init == relay = "resolving"
Resolve == relay = "resolving" /\ relay' = "alloc"
Ready == relay = "alloc" /\ relay' = "ready"
Leave == relay \in {"resolving", "alloc", "ready"} /\ relay' = "leaving"
Close == relay = "leaving" /\ relay' = "gone"
Next == Resolve \/ Ready \/ Leave \/ Close
Ends == relay # "ready" /\ Next
Spec == Init /\ [][Next]_relay /\ WF_relay(Ends)
=============================================================================
