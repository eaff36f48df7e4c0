---------------------------- MODULE TurnSession ----------------------------
(***************************************************************************)
(* The TURN client: a session of pjnath/turn_session.c and the socket of   *)
(* pjnath/turn_sock.c around it.  The name of the server is resolved, the  *)
(* socket connects, the session requests a relay at one server after the   *)
(* other, keeps it by refreshing it from a timer, and gives it back.       *)
(*                                                                         *)
(* Every handler and every function takes the group lock, so that each is  *)
(* a step; the thread that polls has taken a timer off the heap before it  *)
(* waits for the lock, so that a timer is two.  A callback of the socket   *)
(* is part of the step that changes the state of the session, and may end  *)
(* it in several ways: the operators that change the state return the set  *)
(* of the records it may lead to.                                          *)
(*                                                                         *)
(* The requests, repeated with credentials and answered, given up or       *)
(* cancelled, are those of StunSession.tla.  External: the server.         *)
(***************************************************************************)
EXTENDS Naturals, FiniteSets

CONSTANT Servers   \* number of addresses that the name resolves to
ASSUME ServersAssumption == Servers \in Nat \ {0}

VARIABLES s,    \* the session and its socket
          wk    \* the timer that the polling thread has taken off the heap
vars == <<s, wk>>

States == {"null", "resolving", "resolved", "allocating", "ready",
           "deallocating", "deallocated", "destroying"}
Late == {"deallocating", "deallocated", "destroying"}

\* app: the user has the socket, or has left it.  relay: what the session
\* knows to hold.  refused: history, the network has refused a transmission.
Session == [state : States, srv : 1 .. Servers, pending_destroy : BOOLEAN,
            is_destroying : BOOLEAN, timer : {"none", "keep_alive", "destroy"},
            reqs : SUBSET {"allocate", "refresh", "dealloc", "peer"},
            tcp : BOOLEAN, connecting : BOOLEAN, attached : BOOLEAN,
            sock_timer : BOOLEAN, sock_destroying : BOOLEAN,
            app : {"user", "left"}, relay : {"none", "held", "returned", "lost"},
            refused : BOOLEAN, assert_failed : BOOLEAN]

\* pj_turn_sock_create
NewSession(tcp) ==
    [state |-> "null", srv |-> 1, pending_destroy |-> FALSE, is_destroying |-> FALSE,
     timer |-> "none", reqs |-> {}, tcp |-> tcp, connecting |-> FALSE,
     attached |-> TRUE, sock_timer |-> FALSE, sock_destroying |-> FALSE,
     app |-> "user", relay |-> "none", refused |-> FALSE, assert_failed |-> FALSE]

----------------------------------------------------------------------------
(***************************************************************************)
(* set_state.  The user of the socket leaves it when it hears of the end;  *)
(* at the last state the socket lets go of the session, and schedules its  *)
(* own destruction.  What the socket does when the session is RESOLVED is  *)
(* in Connects.                                                            *)
(***************************************************************************)
set_state(t, new) ==
    LET heard == [t EXCEPT !.state = new,
                           !.app = IF t.attached /\ new \in Late THEN "left" ELSE @]
    IN  IF t.attached /\ new = "destroying" /\ t.state # "destroying"
        THEN [heard EXCEPT !.attached = FALSE, !.sock_timer = TRUE]
        ELSE heard

\* sess_shutdown where the session can be destroyed
\* Faulty: the destruction is not scheduled.
Destroying_never(t) == set_state(t, "destroying")
Destroying(t) == [set_state(t, "destroying") EXCEPT !.timer = "destroy"]

\* A session that ends with a relay it has not asked the server to take back.
Lost(t) == [t EXCEPT !.relay = IF @ = "held" THEN "lost" ELSE @]

\* on_session_fail and pj_turn_session_destroy: there is nothing to give back.
Terminate(t) == Destroying(set_state(Lost(t), "deallocated"))

\* send_refresh with a lifetime of zero
GiveBack(t) ==
    LET leaving == set_state(t, "deallocating")
    IN  {[leaving EXCEPT !.reqs = @ \cup {"dealloc"}, !.relay = "returned"],
         Terminate([leaving EXCEPT !.refused = TRUE])}

\* sess_shutdown, for a request of the user or after the last answer.
sess_shutdown(t) ==
    CASE t.state \in {"resolving", "allocating"} -> {[t EXCEPT !.pending_destroy = TRUE]}
      [] t.state = "ready" -> GiveBack(t)
      [] t.state = "deallocating" -> {t}
      [] OTHER -> {Destroying(t)}

----------------------------------------------------------------------------
(***************************************************************************)
(* on_connect_complete: the ALLOCATE request.  If it is refused the state  *)
(* is RESOLVED again, and the callback opens another socket and asks once  *)
(* more, before the first attempt goes on to terminate the session.  The   *)
(* second attempt may have succeeded by then.                              *)
(***************************************************************************)
Allocates(t) ==
    LET asked == [t EXCEPT !.state = "allocating", !.reqs = @ \cup {"allocate"}]
    IN  {asked, Terminate([asked EXCEPT !.refused = TRUE]),
         Terminate([t EXCEPT !.refused = TRUE])}

\* turn_on_state, state RESOLVED: a socket that cannot be opened is destroyed.
Connects(t) ==
    LET resolved == [t EXCEPT !.state = "resolved"]
    IN  IF ~t.attached THEN {resolved}
        ELSE {Destroying(resolved)}
             \cup (IF t.tcp THEN {[resolved EXCEPT !.connecting = TRUE]}
                            ELSE Allocates(resolved))

Step(outcomes) == s' \in outcomes /\ UNCHANGED wk

\* pj_turn_sock_alloc, pj_turn_session_set_server
Alloc ==
    /\ s.state = "null" /\ s.app = "user"
    /\ \/ Step({[s EXCEPT !.state = "resolving"]})
       \/ Step(Connects(s))
       \/ Step({Terminate(s)})

\* dns_srv_resolver_cb
Resolved ==
    /\ s.state = "resolving" /\ wk = "none"
    /\ Step(IF s.pending_destroy THEN {Destroying(s)} ELSE Connects(s))
Unresolved ==
    /\ s.state = "resolving" /\ wk = "none"
    /\ Step({Destroying(s)})

\* on_connect_complete of a TCP connection, and on_data_read when it closes.
Connected ==
    /\ s.connecting /\ wk = "none"
    /\ LET t == [s EXCEPT !.connecting = FALSE]
       IN Step(IF ~t.attached THEN {t} ELSE Allocates(t) \cup {Terminate(t)})
Closed ==
    /\ s.tcp /\ ~s.connecting /\ s.attached /\ wk = "none"
    /\ s.state \in {"allocating", "ready", "deallocating"}
    /\ Step({Terminate(s)})

----------------------------------------------------------------------------
(***************************************************************************)
(* Answers, stun_on_request_complete.  A socket that has let go of the     *)
(* session passes on no answer (on_data_read); a request may still be      *)
(* given up.                                                               *)
(***************************************************************************)
Answered(req) == [s EXCEPT !.reqs = @ \ {req}]
Answers(req, answered) == req \in s.reqs /\ wk = "none" /\ (answered => s.attached)

\* on_allocate_success, with a lifetime that is not zero
Succeeds(t) ==
    LET checked == [t EXCEPT !.assert_failed = @ \/ t.timer = "destroy", !.relay = "held"]
    IN  IF t.state \in Late THEN checked
        ELSE [checked EXCEPT !.timer = "keep_alive", !.state = "ready"]

\* Faulty: a relay that comes while the session waits to be destroyed is
\* not given back.
AllocateDestroys_lost(t, ok) ==
    {Destroying([t EXCEPT !.state = "deallocated", !.relay = IF ok THEN "held" ELSE @])}
AllocateDestroys(t, ok) ==
    IF ok THEN GiveBack([t EXCEPT !.state = "ready", !.relay = "held"])
          ELSE {Destroying([t EXCEPT !.state = "deallocated"])}

\* on_session_fail of an ALLOCATE request
\* Faulty: the list of servers has no end.
AllocateFails_next(t) == Connects([t EXCEPT !.srv = @ + 1])
AllocateFails(t) ==
    IF t.srv = Servers THEN {Terminate(t)} ELSE Connects([t EXCEPT !.srv = @ + 1])

AllocateAnswer(ok) ==
    /\ Answers("allocate", ok)
    /\ LET t == Answered("allocate")
       IN Step(IF t.pending_destroy THEN AllocateDestroys(t, ok)
               ELSE IF ok THEN {Succeeds(t)} ELSE AllocateFails(t))
RefreshAnswer(ok) ==
    /\ Answers("refresh", ok)
    /\ LET t == Answered("refresh")
       IN Step({IF ok THEN Succeeds(t) ELSE Terminate(t)})
DeallocAnswer ==
    /\ Answers("dealloc", FALSE)
    /\ Step({Terminate(Answered("dealloc"))})

\* ChannelBind and CreatePermission: 437 means that there is no relay.
PeerAnswer(mismatch) ==
    /\ Answers("peer", mismatch)
    /\ LET t == Answered("peer") IN Step({IF mismatch THEN Terminate(t) ELSE t})

----------------------------------------------------------------------------
(***************************************************************************)
(* Timers.  on_timer_event reads the id once it has the lock.              *)
(***************************************************************************)
TimerPop ==
    /\ wk = "none" /\ s.timer # "none"
    /\ wk' = s.timer
    /\ UNCHANGED s
\* The entry is off the heap, and its id is read and cleared under the lock.
Taken == [s EXCEPT !.timer = "none"]

\* do_destroy: the requests are dropped with the STUN session.
do_destroy(t) == [t EXCEPT !.is_destroying = TRUE, !.timer = "none", !.reqs = {}]

\* Refresh the allocation if it is time to do so, and the channels and the
\* permissions of the peers.
\* Faulty: a timer that finds nothing to refresh is not scheduled again.
Refreshes_once(t, due) ==
    IF due THEN {[t EXCEPT !.reqs = @ \cup {"refresh"}], [t EXCEPT !.refused = TRUE]}
           ELSE {t}
Refreshes(t, due) ==
    IF due THEN {[t EXCEPT !.reqs = @ \cup {"refresh"}], [t EXCEPT !.refused = TRUE]}
           ELSE {[t EXCEPT !.timer = "keep_alive"]}
WithPeers(ts) == ts \cup {[t EXCEPT !.reqs = @ \cup {"peer"}] : t \in ts}

on_timer_event(due) ==
    /\ wk \in {"keep_alive", "destroy"}
    /\ wk' = "none"
    /\ s' \in CASE s.timer = "destroy" -> {do_destroy(s)}
                [] s.timer = "keep_alive" /\ s.state \in Late -> {Taken}
                [] s.timer = "keep_alive" /\ s.state \notin Late ->
                       WithPeers(Refreshes(Taken, due))
                [] OTHER -> {[s EXCEPT !.assert_failed = TRUE]}

\* timer_cb of the socket
SockTimer ==
    /\ s.sock_timer /\ wk = "none"
    /\ Step({[s EXCEPT !.sock_timer = FALSE, !.sock_destroying = TRUE]})

----------------------------------------------------------------------------
(***************************************************************************)
(* The user: it creates permissions and binds channels, and leaves the     *)
(* socket (pj_turn_sock_set_user_data, pj_turn_sock_destroy).              *)
(***************************************************************************)
AskForPeer ==
    /\ s.app = "user" /\ s.state \in {"allocating", "ready"}
    /\ Step({[s EXCEPT !.reqs = @ \cup {"peer"}]})
Shutdown ==
    /\ s.app = "user" /\ s.state # "null"
    /\ Step(sess_shutdown([s EXCEPT !.app = "left"]))

----------------------------------------------------------------------------
Init == s \in {NewSession(tcp) : tcp \in BOOLEAN} /\ wk = "none"

Names == Resolved \/ Unresolved
AllocateEnds == \E ok \in BOOLEAN : AllocateAnswer(ok)
Fires == \E due \in BOOLEAN : on_timer_event(due)
Next ==
    \/ Alloc \/ Names \/ Connected \/ Closed
    \/ AllocateEnds \/ (\E ok \in BOOLEAN : RefreshAnswer(ok)) \/ DeallocAnswer
    \/ \E mismatch \in BOOLEAN : PeerAnswer(mismatch)
    \/ TimerPop \/ Fires \/ SockTimer
    \/ AskForPeer \/ Shutdown
Spec == Init /\ [][Next]_vars

(***************************************************************************)
(* Fairness: the user that has created a socket requests the relay; the    *)
(* polling thread comes to every timer and event that is due; a request    *)
(* ends (StunSession.tla), and so do a query and a connection.             *)
(***************************************************************************)
Fairness ==
    /\ WF_vars(Alloc) /\ WF_vars(Fires)
    /\ WF_vars(TimerPop /\ s.timer = "destroy") /\ SF_vars(SockTimer)
    /\ SF_vars(Names) /\ SF_vars(Connected)
    /\ SF_vars(AllocateEnds) /\ SF_vars(DeallocAnswer)
FairSpec == Spec /\ Fairness

----------------------------------------------------------------------------
\* The session, its socket and the polling thread are well formed.
TypeOK == s \in Session /\ wk \in {"none", "keep_alive", "destroy"}

\* A relay is refreshed (turn_session.h): as long as the session is READY it
\* will be, by the timer or by the answer to a request that is under way,
\* unless the network has refused a refresh, which is not tried again.
KeptAlive ==
    s.state = "ready" /\ ~s.refused
        => s.timer = "keep_alive" \/ "refresh" \in s.reqs

\* No relay is left behind: a session that is freed has asked the server to
\* take back what it holds, at whatever point it was left, or knows that there
\* is nothing to take back.
GivenBack == s.is_destroying => s.relay # "held"

\* A timer is never found without an id, and no answer comes to a session that
\* waits to be destroyed (assertions of turn_session.c:1391 and 2046).
NoAssertionFails == ~s.assert_failed

\* The session is the relay of IceStrans.tla.
AbstractRelay ==
    IF s.is_destroying /\ s.sock_destroying THEN "gone"
    ELSE IF s.app = "left" THEN "leaving"
    ELSE IF s.state \in {"null", "resolving"} THEN "resolving"
    ELSE IF s.state = "ready" THEN "ready" ELSE "alloc"
R == INSTANCE Relay WITH relay <- AbstractRelay
KeepsPromise == R!Spec
=============================================================================
