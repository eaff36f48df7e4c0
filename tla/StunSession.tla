---------------------------- MODULE StunSession ----------------------------
(***************************************************************************)
(* A STUN session with the transactions of its requests and the cache of   *)
(* its responses (stun_session.c, stun_transaction.c).                     *)
(*                                                                         *)
(* The application, the network and the threads that poll the timer heap   *)
(* meet at the group lock of the session: what happens under it is one     *)
(* step.  A timer callback is two steps, since pj_timer_heap_poll takes    *)
(* the entry out of the heap before the callback has the lock: anything    *)
(* may happen to the transaction in between.                               *)
(***************************************************************************)
EXTENDS Naturals, FiniteSets

CONSTANTS
    Slot,           \* numbers for the transmit data (tdata), in order of creation
    Pollers,        \* threads that poll the timer heap
    MaxTransmit,    \* PJ_STUN_MAX_TRANSMIT_COUNT
    MaxAuthRetry,   \* the retries with credentials, 3 in the code
    Nonce,          \* the nonces that servers hand out
    AuthTypes,      \* subset of {"short", "long"}, the credentials in use
    Peers,          \* subset of {"final", "any"}, what responses the peer sends
    SendFails,      \* the messages that the transport may refuse
    None

ASSUME SlotAssumption == Slot \subseteq Nat
ASSUME MaxTransmitAssumption == MaxTransmit \in Nat \ {0}
ASSUME MaxAuthRetryAssumption == MaxAuthRetry \in Nat
ASSUME NonceAssumption ==
    /\ None \notin Nonce
    /\ Nonce \cap {"success", "error", "malformed", "provisional", "nothing", "timeout"} = {}
ASSUME NoneAssumption == None \notin Slot \X {"retransmit", "destroy", "cache"}

Timers == {"retransmit", "destroy", "cache"}

VARIABLES
    tdata,          \* pj_stun_tx_data with its pj_stun_client_tsx, by slot
    popped,         \* the entry that a poller took out of the heap
    is_destroying, auth_type, auth_retry, next_nonce,   \* pj_stun_session
    peer,           \* whether the peer sends only well-formed final responses
    user,           \* what the application got back for its request
    calls           \* on_request_complete calls for a request (its token)

vars == <<tdata, popped, is_destroying, auth_type, auth_retry, next_nonce, peer, user, calls>>
auth == <<auth_type, auth_retry, next_nonce>>

Tdata == [state: {"none", "live", "released"},      \* of its pool
          list: {"none", "pending", "cached"},
          token: Slot,                  \* the request the application knows
          tsx: BOOLEAN,                 \* client_tsx # NULL
          retransmit: BOOLEAN,          \* over UDP
          count: 0..(MaxTransmit + 1),  \* transmit_count
          complete: BOOLEAN,
          on_complete: BOOLEAN,         \* cb.on_complete # NULL
          heap: SUBSET Timers,          \* the entries in the timer heap
          id: SUBSET Timers]            \* the entries whose id is active

\* The responses that end a transaction: nonces are those of 401 and 438.
Final == {"success", "error"} \cup Nonce
Answers == IF peer = "final" THEN Final ELSE Final \cup {"malformed", "provisional"}

Users == {"idle", "waiting", "refused", "cancelled"}

-----------------------------------------------------------------------------
(* Timers and transactions: each operator gives the tdata after the call   *)

Schedule(t, k) == [t EXCEPT !.heap = @ \cup {k}, !.id = @ \cup {k}]
Cancel(t, k) == [t EXCEPT !.heap = @ \ {k}, !.id = @ \ {k}]
pj_stun_client_tsx_stop(t) == Cancel(Cancel(t, "retransmit"), "destroy")

\* Faulty: the callback stays set.
schedule_destroy_callback(t) == Schedule(pj_stun_client_tsx_stop(t), "destroy")
schedule_destroy(t) ==
    [Schedule(pj_stun_client_tsx_stop(t), "destroy") EXCEPT !.on_complete = FALSE]

\* A message that the transport refuses is not sent again.
\* Faulty: no timer runs after the last transmission.
tsx_transmit_msg_last(t, ok) ==
    LET u == IF t.retransmit /\ t.count + 1 < MaxTransmit THEN Schedule(t, "retransmit") ELSE t
        sent == [u EXCEPT !.count = t.count + 1]
    IN  IF ok THEN sent ELSE Cancel(sent, "retransmit")
tsx_transmit_msg(t, ok) ==
    LET u == IF t.retransmit THEN Schedule(t, "retransmit") ELSE t
        sent == [u EXCEPT !.count = t.count + 1]
    IN  IF ok THEN sent ELSE Cancel(sent, "retransmit")

\* Over a reliable transport the retransmission timer is the timeout.
\* Faulty: the transmission is counted twice.
tsx_send_msg_twice(t, ok) ==
    tsx_transmit_msg(IF t.retransmit THEN t
                     ELSE Schedule([t EXCEPT !.count = MaxTransmit + 1], "retransmit"), ok)
tsx_send_msg(t, ok) ==
    tsx_transmit_msg(IF t.retransmit THEN t
                     ELSE Schedule([t EXCEPT !.count = MaxTransmit], "retransmit"), ok)

-----------------------------------------------------------------------------
(* Transmit data                                                           *)

\* Faulty: a transaction that is over is freed at once.
destroy_tdata_now(t, force) ==
    [pj_stun_client_tsx_stop(Cancel(t, "cache")) EXCEPT !.list = "none", !.state = "released"]
destroy_tdata(t, force) ==
    LET u == IF "cache" \in t.id THEN [Cancel(t, "cache") EXCEPT !.list = "none"] ELSE t
    IN  IF force THEN [pj_stun_client_tsx_stop(u) EXCEPT !.list = "none", !.state = "released"]
        ELSE IF u.tsx THEN schedule_destroy(u)
        ELSE [u EXCEPT !.state = "released"]

\* References of the timers to the group lock: of those in the heap and of
\* those whose callback runs.
Referenced(td, pp) == \/ \E r \in Slot : td[r].heap # {}
                      \/ \E p \in Pollers : pp[p] # None

\* The destructor, when the last reference to the group lock goes.
\* Faulty: the pending requests stay.
stun_sess_on_destroy_cached(td) ==
    [r \in Slot |-> IF td[r].list = "cached" THEN destroy_tdata(td[r], TRUE) ELSE td[r]]
stun_sess_on_destroy(td) ==
    [r \in Slot |-> IF td[r].list # "none" THEN destroy_tdata(td[r], TRUE) ELSE td[r]]

\* The release of the group lock, at the end of every step.
Release(td, destroying, pp) ==
    tdata' = IF destroying /\ ~Referenced(td, pp) THEN stun_sess_on_destroy(td) ELSE td

\* pj_stun_session_destroy: the timers that hold references are stopped.
StopAll(td) ==
    [r \in Slot |-> CASE td[r].list = "pending" /\ td[r].tsx -> pj_stun_client_tsx_stop(td[r])
                      [] td[r].list = "cached" -> Cancel(td[r], "cache")
                      [] OTHER -> td[r]]

\* The slot of the next tdata, if the bound Slot leaves one.
NextSlot(r) == \A q \in Slot : (tdata[q].state = "none") <=> q >= r

\* A request that was sent is pending; one that was not is destroyed.
Request(token, retransmit) ==
    [state |-> "live", list |-> "none", token |-> token, tsx |-> TRUE,
     retransmit |-> retransmit, count |-> 0, complete |-> FALSE, on_complete |-> TRUE,
     heap |-> {}, id |-> {}]
SentRequest(token, retransmit, ok) ==
    LET t == tsx_send_msg(Request(token, retransmit), ok)
    IN  IF ok THEN [t EXCEPT !.list = "pending"] ELSE destroy_tdata(t, FALSE)

\* A response waits in the cache for its request to be sent again.
SentResponse(token, cache, ok) ==
    LET t == [Request(token, FALSE) EXCEPT !.tsx = FALSE, !.on_complete = FALSE]
        cached == IF cache THEN [Schedule(t, "cache") EXCEPT !.list = "cached"] ELSE t
    IN  IF cache /\ ok THEN cached ELSE destroy_tdata(cached, FALSE)

-----------------------------------------------------------------------------
(* Completion of a request.  An answer is a kind of response, a nonce (that *)
(* of a 401 or 438 response), "nothing" after a send error or "timeout".    *)

\* on_request_complete; the application may destroy the session in it.
Notify(token, r, t, force, pp) ==
    /\ calls' = [calls EXCEPT ![token] = @ + 1]
    /\ \E destroys \in BOOLEAN :
          LET td == [tdata EXCEPT ![r] = t]
              stopped == IF destroys THEN StopAll(td) ELSE td
          IN  /\ is_destroying' = destroys
              /\ Release([stopped EXCEPT ![r] = destroy_tdata(@, force)], destroys, pp)

\* Faulty: also for a session without long term credentials.
Challenged_any(answer) == answer \in Nonce \ {next_nonce}
Challenged(answer) == auth_type = "long" /\ answer \in Nonce \ {next_nonce}

TooManyRetries == auth_retry + 1 > MaxAuthRetry

\* handle_auth_challenge, where it leaves the completion to the caller: the
\* counter is reset by anything but a challenge.
NotChallenged(answer) ==
    /\ ~Challenged(answer)
    /\ ~(auth_type = "long" /\ answer = "malformed")
    /\ auth_retry' = IF auth_type = "long" /\ answer \in {"success", "error"} THEN 0 ELSE auth_retry
    /\ UNCHANGED <<auth_type, next_nonce>>

\* The retries are over, or there is no memory for another request.
ChallengeRefused(answer) ==
    /\ Challenged(answer)
    /\ \/ /\ TooManyRetries
          /\ auth_retry' = MaxAuthRetry + 1
          /\ UNCHANGED <<auth_type, next_nonce>>
       \/ /\ ~TooManyRetries
          /\ \A n \in Slot : tdata[n].state # "none"
          /\ auth_retry' = auth_retry + 1 /\ next_nonce' = answer
          /\ UNCHANGED auth_type

\* The request is sent again with credentials, in a new transaction: its
\* completion will be that of the first one, whether or not it was sent.
ChallengeAnswered(r, t, answer, pp) ==
    /\ Challenged(answer) /\ ~TooManyRetries
    /\ auth_retry' = auth_retry + 1 /\ next_nonce' = answer
    /\ \E n \in Slot, ok \in BOOLEAN :
          /\ NextSlot(n)
          /\ ok \/ "retry" \in SendFails
          /\ Release([tdata EXCEPT ![n] = SentRequest(t.token, t.retransmit, ok),
                                   ![r] = destroy_tdata(t, FALSE)], is_destroying, pp)
    /\ UNCHANGED <<is_destroying, auth_type, calls>>

\* stun_tsx_on_complete
stun_tsx_on_complete(r, t, answer, pp) ==
    \/ /\ is_destroying
       /\ Release([tdata EXCEPT ![r] = destroy_tdata(t, FALSE)], is_destroying, pp)
       /\ UNCHANGED <<is_destroying, auth, calls>>
    \/ /\ ~is_destroying
       /\ NotChallenged(answer) \/ ChallengeRefused(answer)
       /\ Notify(t.token, r, t, answer = "timeout", pp)
    \/ /\ ~is_destroying
       /\ ChallengeAnswered(r, t, answer, pp)
    \/ /\ ~is_destroying /\ auth_type = "long" /\ answer = "malformed"
       /\ Release([tdata EXCEPT ![r] = destroy_tdata(t, FALSE)], is_destroying, pp)
       /\ UNCHANGED <<is_destroying, auth, calls>>

\* The transaction completes, unless it already did.
CompleteTsx(r, t, answer, pp) ==
    LET u == [t EXCEPT !.complete = TRUE]
    IN  IF ~t.complete /\ t.on_complete THEN stun_tsx_on_complete(r, u, answer, pp)
        ELSE /\ Release([tdata EXCEPT ![r] = u], is_destroying, pp)
             /\ UNCHANGED <<is_destroying, auth, calls>>

-----------------------------------------------------------------------------
(* The application                                                         *)

\* pj_stun_session_send_msg of a request.
SendRequest(r) ==
    /\ ~is_destroying /\ NextSlot(r)
    /\ \E retransmit \in BOOLEAN, ok \in BOOLEAN :
          /\ ok \/ "request" \in SendFails
          /\ tdata' = [tdata EXCEPT ![r] = SentRequest(r, retransmit, ok)]
          /\ user' = [user EXCEPT ![r] = IF ok THEN "waiting" ELSE "refused"]
    /\ UNCHANGED <<popped, is_destroying, auth, peer, calls>>

\* pj_stun_session_cancel_req.  ICE calls it, for a check that it has no
\* response to; its sessions have short term credentials.
CancelRequest(r) ==
    /\ ~is_destroying /\ auth_type = "short"
    /\ user[r] = "waiting" /\ calls[r] = 0
    /\ \/ /\ user' = [user EXCEPT ![r] = "cancelled"]
          /\ tdata' = [tdata EXCEPT ![r] = destroy_tdata(@, FALSE)]
          /\ UNCHANGED <<calls, is_destroying>>
       \/ /\ Notify(r, r, tdata[r], FALSE, popped)
          /\ UNCHANGED user
    /\ UNCHANGED <<popped, auth, peer>>

\* pj_stun_session_destroy
DestroySession ==
    /\ ~is_destroying
    /\ is_destroying' = TRUE
    /\ Release(StopAll(tdata), TRUE, popped)
    /\ UNCHANGED <<popped, auth, peer, user, calls>>

-----------------------------------------------------------------------------
(* The network                                                             *)

\* A response to a request in the pending list, in any order and number.
\* The retransmissions stop; a provisional response is otherwise ignored.
RxResponse(r, answer) ==
    /\ ~is_destroying /\ tdata[r].list = "pending"
    /\ LET t == Cancel(tdata[r], "retransmit")
       IN  IF answer = "provisional"
           THEN /\ Release([tdata EXCEPT ![r] = t], is_destroying, popped)
                /\ UNCHANGED <<is_destroying, auth, calls>>
           ELSE CompleteTsx(r, t, answer, popped)
    /\ UNCHANGED <<popped, peer, user>>

\* A request arrives.  No cached response has the type of a request, so that
\* it always goes to the application, which responds.
RxRequest(r) ==
    /\ ~is_destroying /\ NextSlot(r)
    /\ \E cache \in BOOLEAN, ok \in BOOLEAN :
          /\ ok \/ "response" \in SendFails
          /\ tdata' = [tdata EXCEPT ![r] = SentResponse(r, cache, ok)]
    /\ UNCHANGED <<popped, is_destroying, auth, peer, user, calls>>

-----------------------------------------------------------------------------
(* The pollers of the timer heap                                           *)

\* pj_timer_heap_poll removes an entry; its id stays until the callback.
PopTimer(p, r, k) ==
    /\ popped[p] = None /\ k \in tdata[r].heap
    /\ tdata' = [tdata EXCEPT ![r].heap = @ \ {k}]
    /\ popped' = [popped EXCEPT ![p] = <<r, k>>]
    /\ UNCHANGED <<is_destroying, auth, peer, user, calls>>

Callback(p, r, k) ==
    popped[p] = <<r, k>> /\ popped' = [popped EXCEPT ![p] = None] /\ UNCHANGED <<peer, user>>

\* retransmit_timer_callback.  A session being destroyed sends nothing.
RetransmitTimer(p, r) ==
    /\ Callback(p, r, "retransmit")
    /\ LET t == [tdata[r] EXCEPT !.id = @ \ {"retransmit"}]
       IN  \/ t.count >= MaxTransmit /\ CompleteTsx(r, t, "timeout", popped')
           \/ /\ t.count < MaxTransmit /\ ~is_destroying
              /\ tdata' = [tdata EXCEPT ![r] = tsx_transmit_msg(t, TRUE)]
              /\ UNCHANGED <<is_destroying, auth, calls>>
           \/ /\ t.count < MaxTransmit /\ (is_destroying \/ "retransmission" \in SendFails)
              /\ CompleteTsx(r, tsx_transmit_msg(t, FALSE), "nothing", popped')

\* destroy_timer_callback and stun_tsx_on_destroy.
DestroyTimer(p, r) ==
    /\ Callback(p, r, "destroy")
    /\ LET t == [pj_stun_client_tsx_stop(tdata[r]) EXCEPT !.list = "none", !.state = "released"]
       IN  Release([tdata EXCEPT ![r] = t], is_destroying, popped')
    /\ UNCHANGED <<is_destroying, auth, calls>>

\* on_cache_timeout
CacheTimer(p, r) ==
    /\ Callback(p, r, "cache")
    /\ LET t == [tdata[r] EXCEPT !.id = @ \ {"cache"}, !.list = "none"]
       IN  Release([tdata EXCEPT ![r] = destroy_tdata(t, FALSE)], is_destroying, popped')
    /\ UNCHANGED <<is_destroying, auth, calls>>

Poll(p) == \E r \in Slot :
    \/ \E k \in Timers : PopTimer(p, r, k)
    \/ RetransmitTimer(p, r) \/ DestroyTimer(p, r) \/ CacheTimer(p, r)

-----------------------------------------------------------------------------
NewTdata(r) == [Request(r, FALSE) EXCEPT !.state = "none", !.tsx = FALSE, !.on_complete = FALSE]

Init ==
    /\ tdata = [r \in Slot |-> NewTdata(r)]
    /\ popped = [p \in Pollers |-> None]
    /\ is_destroying = FALSE
    /\ auth_type \in AuthTypes /\ auth_retry = 0 /\ next_nonce = None
    /\ peer \in Peers
    /\ user = [r \in Slot |-> "idle"]
    /\ calls = [r \in Slot |-> 0]

Next ==
    \/ \E r \in Slot : \/ SendRequest(r) \/ CancelRequest(r) \/ RxRequest(r)
                       \/ \E answer \in Answers : RxResponse(r, answer)
    \/ DestroySession
    \/ \E p \in Pollers : Poll(p)

Spec == Init /\ [][Next]_vars

\* The worker threads keep polling the timer heap; the application and the
\* network owe nothing.
FairSpec == Spec /\ \A p \in Pollers : WF_vars(Poll(p))

-----------------------------------------------------------------------------
(* Properties                                                              *)

TypeOK ==
    /\ tdata \in [Slot -> Tdata]
    /\ popped \in [Pollers -> (Slot \X Timers) \cup {None}]
    /\ is_destroying \in BOOLEAN
    /\ auth_type \in AuthTypes
    /\ auth_retry \in 0..(MaxAuthRetry + 1)
    /\ next_nonce \in Nonce \cup {None}
    /\ peer \in Peers
    /\ user \in [Slot -> Users]
    /\ calls \in [Slot -> Nat]

\* on_request_complete is called at most once for a request, whatever
\* becomes of its transactions: the one that sent it, those that sent it
\* again with credentials, late responses and timers.  It is never called
\* for a request that was refused or that was cancelled without notification.
NotifiedOnce == \A r \in Slot : calls[r] <= (IF user[r] = "waiting" THEN 1 ELSE 0)

\* Memory that was given back is in no list, in no timer heap, and not in
\* the hands of a thread about to run a callback on it.
NothingDangles == \A r \in Slot : tdata[r].state = "released" =>
    /\ tdata[r].list = "none" /\ tdata[r].heap = {}
    /\ \A p \in Pollers, k \in Timers : popped[p] # <<r, k>>

\* The tdata that ICE keeps to cancel or retransmit a check is good until
\* ICE is told of its completion, or the session is destroyed.
HandleValid == \A r \in Slot :
    (user[r] = "waiting" /\ calls[r] = 0 /\ ~is_destroying /\ auth_type = "short")
        => tdata[r].state = "live" /\ tdata[r].list = "pending" /\ ~tdata[r].complete

\* With a peer that sends final responses only (a provisional one stops the
\* timer), a request that awaits its response always has a timer that will complete
\* it: in the heap or, between the heap and the lock, with a poller.
Watched == \A r \in Slot :
    (/\ tdata[r].list = "pending" /\ tdata[r].on_complete /\ ~tdata[r].complete
     /\ ~is_destroying /\ peer = "final")
        => \/ "retransmit" \in tdata[r].heap
           \/ \E p \in Pollers : popped[p] = <<r, "retransmit">>

\* on_request_complete is called "when response is received or the
\* transaction has timed out": for every request that is neither cancelled
\* nor lost with its session, if the peer sends final responses only.
RequestCompletes == \A r \in Slot :
    (user[r] = "waiting" /\ peer = "final") ~> (calls[r] > 0 \/ user[r] = "cancelled" \/ is_destroying)

\* The timers that hold references to the group lock of a session run out
\* once it is destroyed, and with the last one everything is freed.
EverythingFreed == is_destroying ~> \A r \in Slot : tdata[r].state # "live"
=============================================================================
