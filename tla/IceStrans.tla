----------------------------- MODULE IceStrans -----------------------------
(***************************************************************************)
(* The ICE stream transport of pjnath/ice_strans.c, one component of it,   *)
(* with its STUN socket (stun_sock.c) and the callback through which the   *)
(* application hears of it.  Candidates are gathered, an ICE session is    *)
(* created, negotiates and reports, and the transport is destroyed.        *)
(*                                                                         *)
(* Two threads: the one that calls the functions of the transport (call    *)
(* says where in a function it is), and the worker that polls timers and   *)
(* sockets (wk says where in a handler it is).  A handler holds the group  *)
(* lock from its first step to its last, and so excludes the steps of the  *)
(* caller that take it; pj_ice_strans_create, _init_ice, _start_ice and    *)
(* _stop_ice also have steps that do not.                                  *)
(*                                                                         *)
(* The ICE session is the one of IceSession.tla, of which only the promise *)
(* of Negotiation.tla is left here: an outcome, reported later.  The TURN  *)
(* socket is the one of TurnSession.tla, of which only the promise of      *)
(* Relay.tla is left.                                                      *)
(***************************************************************************)
EXTENDS Naturals, Sequences, SequencesExt

CONSTANTS
    Configs,      \* of the transport: [stun, host, turn, ignore_stun_error]
    Mapped,       \* mapped addresses; "host" is the one of the host candidate
    MaxClosing,   \* relays that are being given back at the same time
    Adversity     \* what may go wrong, see below

(***************************************************************************)
(* Adversity: "send"   the socket refuses to send a keep-alive,            *)
(*            "create" creating the transport, requesting a relay or       *)
(*                     starting the checks fails at once,                  *)
(*            "relay"  an allocated relay is lost,                         *)
(*            "early"  keep-alives are sent before the gathering has ended,*)
(*            "dns"    the names of the servers are resolved by queries    *)
(*                     of their own, which may fail, and the socket of the *)
(*                     relay cannot be opened.                             *)
(***************************************************************************)
ASSUME ConfigsAssumption ==
    /\ Configs \subseteq [stun : BOOLEAN, host : BOOLEAN, turn : BOOLEAN,
                          ignore_stun_error : BOOLEAN]
    /\ \A cfg \in Configs : cfg.stun \/ cfg.host \/ cfg.turn
    /\ "none" \notin Mapped
    /\ MaxClosing \in Nat \ {0}
    /\ Adversity \subseteq {"send", "create", "relay", "early", "dns"}

VARIABLES st,     \* the transport; unnamed is history: a server was silently not reached
          call,   \* where the caller is: "none" outside of the functions
          wk,     \* where the worker is
          told,   \* what the application has been told
          misuse  \* the application has used a transport it has destroyed
tvars == <<st, call, wk, told, misuse>>

Transport(cfg) ==
    [cfg |-> cfg, state |-> "null", cb_called |-> FALSE, destroy_req |-> FALSE,
     cand_list |-> <<>>, default_cand |-> 0,
     ice |-> "none", offered |-> {}, outcome |-> "none", relayed |-> FALSE,
     stun_sock |-> FALSE, req |-> "none", mapped |-> "none", ka_timer |-> FALSE,
     turn_sock |-> "none", turn_err_cnt |-> 0, closing |-> 0, unnamed |-> FALSE,
     ref_cnt |-> 0, assert_failed |-> FALSE]

Idle == [at |-> "idle", op |-> "none", resched |-> FALSE, timer |-> FALSE]
NothingTold == [init |-> "none", nego |-> "none", keep_alive |-> "none", late |-> FALSE]

Freed == st.state # "null" /\ st.ref_cnt = 0
LockFree == wk.at \in {"idle", "ka"}

----------------------------------------------------------------------------
\* The list of candidates is indexed from 0, as in the code.
Indexes(s, type) == {i \in 0 .. Len(s.cand_list) - 1 : s.cand_list[i + 1].type = type}
HasCand(s, type) == Indexes(s, type) # {}
IndexOf(s, type) == CHOOSE i \in Indexes(s, type) : TRUE
Cand(type, status) == [type |-> type, status |-> status]
SetCand(s, type, status) ==
    [s EXCEPT !.cand_list[IndexOf(s, type) + 1].status = status]
Types(s, status) ==
    {type \in {"srflx", "host", "relayed"} :
        \E i \in Indexes(s, type) : s.cand_list[i + 1].status = status}
Pending(s) == Types(s, "pending") # {}

\* pj_grp_lock_add_ref and pj_grp_lock_dec_ref, of one holder.
AddRef(s) == [s EXCEPT !.ref_cnt = @ + 1]
DecRef(s) == [s EXCEPT !.ref_cnt = @ - 1]

\* Faulty: the timer is cancelled and its reference stays.
stun_sock_destroy_keeps(s) ==
    IF ~s.stun_sock THEN s
    ELSE DecRef([s EXCEPT !.stun_sock = FALSE, !.req = "none", !.ka_timer = FALSE])
\* Faulty: the reference is dropped whether there is a socket or not.
stun_sock_destroy_always(s) ==
    DecRef([s EXCEPT !.stun_sock = FALSE, !.req = "none", !.ka_timer = FALSE])
\* pj_stun_sock_destroy: the request and the timer go with the socket.
stun_sock_destroy(s) ==
    IF ~s.stun_sock THEN s
    ELSE [s EXCEPT !.stun_sock = FALSE, !.req = "none", !.ka_timer = FALSE,
                   !.ref_cnt = @ - 1 - (IF s.ka_timer THEN 1 ELSE 0)]

\* pj_turn_sock_destroy: the relay is given back first, and the socket lives
\* on until that is done.
turn_sock_destroy(s) ==
    IF s.turn_sock = "none" THEN s
    ELSE [s EXCEPT !.turn_sock = "none", !.closing = @ + 1]

\* pj_ice_sess_destroy
sess_destroy(s) ==
    IF s.ice = "none" THEN s
    ELSE DecRef([s EXCEPT !.ice = "none", !.offered = {}, !.outcome = "none",
                           !.relayed = FALSE])

destroy_ice_st(s) ==
    IF s.destroy_req THEN s
    ELSE DecRef(turn_sock_destroy(stun_sock_destroy(sess_destroy(
             [s EXCEPT !.destroy_req = TRUE]))))

----------------------------------------------------------------------------
(***************************************************************************)
(* Reports.  cb_on_ice_complete of the application destroys the transport  *)
(* on a failure of any operation.  A handler of the worker first decides   *)
(* to report, then does; create decides and reports without the lock.      *)
(***************************************************************************)
cb_on_ice_complete(s, status) == IF status = "ok" THEN s ELSE destroy_ice_st(s)
Hears(op, status, late) == [told EXCEPT ![op] = status, !.late = @ \/ late]

sess_init_complete(s) == ~s.cb_called /\ ~Pending(s)
\* Faulty: the result of a gathering that is over is reported again.
sess_fail_reports_again(s, op) == TRUE
sess_fail_reports(s, op) == op = "init" => ~s.cb_called

\* Faulty: keep-alives are started even if the socket is being destroyed.
start_ka_timer_always(s) ==
    IF s.ka_timer THEN s ELSE AddRef([s EXCEPT !.ka_timer = TRUE])
start_ka_timer(s) ==
    IF s.ka_timer \/ ~s.stun_sock THEN s ELSE AddRef([s EXCEPT !.ka_timer = TRUE])

EndHandler(s, w) ==
    /\ wk' = Idle
    /\ st' = LET t == IF w.resched THEN start_ka_timer(s) ELSE s
             IN IF w.timer THEN DecRef(t) ELSE t

\* The last part of a handler: nothing to report, or a report to come.
ThenUpdate(s, w) ==
    IF sess_init_complete(s) THEN st' = s /\ wk' = [w EXCEPT !.at = "announce"]
                             ELSE EndHandler(s, w)
ThenFail(s, w, op) ==
    IF sess_fail_reports(s, op)
    THEN st' = s /\ wk' = [w EXCEPT !.at = "fail", !.op = op]
    ELSE EndHandler(s, w)

Announce ==
    /\ wk.at = "announce"
    /\ told' = Hears("init", "ok", st.destroy_req)
    /\ EndHandler([st EXCEPT !.cb_called = TRUE, !.state = "ready"], wk)
    /\ UNCHANGED <<call, misuse>>

Fail ==
    /\ wk.at = "fail"
    /\ told' = Hears(wk.op, "failed", st.destroy_req)
    /\ EndHandler(cb_on_ice_complete([st EXCEPT !.cb_called = TRUE], "failed"), wk)
    /\ UNCHANGED <<call, misuse>>

----------------------------------------------------------------------------
(***************************************************************************)
(* The STUN socket and what the transport makes of its status.             *)
(***************************************************************************)
Request == IF "dns" \in Adversity THEN "dns" ELSE "sent"
Handler(resched, timer) == [Idle EXCEPT !.resched = resched, !.timer = timer]

\* Faulty: the index of the default candidate is not adjusted.
RemoveSrflx_only(s) == [s EXCEPT !.cand_list = RemoveAt(@, IndexOf(s, "srflx") + 1)]
\* stun_on_status, a mapped address: the one of a host candidate is no candidate.
RemoveSrflx(s) ==
    LET idx == IndexOf(s, "srflx")
    IN  [s EXCEPT !.cand_list = RemoveAt(@, idx + 1),
                  !.default_cand = IF @ > idx THEN @ - 1 ELSE IF @ = idx THEN 0 ELSE @]
AddressFound(s, w) ==
    ThenUpdate(IF s.mapped = "host" /\ HasCand(s, "host") THEN RemoveSrflx(s)
               ELSE SetCand(s, "srflx", "ok"), w)

\* Faulty: an error that is ignored leaves the candidate pending.
BindingFailed_ignored(s, w) ==
    IF ~s.cfg.ignore_stun_error \/ Len(s.cand_list) = 1
    THEN ThenFail(SetCand(s, "srflx", "failed"), w, "init")
    ELSE ThenUpdate(s, w)
BindingFailed(s, w) ==
    LET idx == IndexOf(s, "srflx")
        bad == SetCand(s, "srflx", "failed")
    IN  IF ~s.cfg.ignore_stun_error \/ Len(s.cand_list) = 1
        THEN ThenFail(bad, w, "init")
        ELSE ThenUpdate([bad EXCEPT !.default_cand =
                            IF @ # idx THEN @ ELSE IF idx = 0 THEN 1 ELSE 0], w)

\* stun_on_status with a result: nothing is done without such a candidate.
stun_on_status(op, ok, s, w) ==
    IF ~HasCand(s, "srflx") THEN EndHandler(s, w)
    ELSE IF ok THEN IF op = "keep_alive" THEN EndHandler(s, w) ELSE AddressFound(s, w)
    ELSE IF op = "binding" THEN BindingFailed(s, w)
    ELSE IF s.cfg.ignore_stun_error THEN EndHandler(SetCand(s, "srflx", "failed"), w)
    ELSE ThenFail(SetCand(s, "srflx", "failed"), w, "init")

\* sess_on_request_complete
StunAnswer(m) ==
    LET op == IF st.mapped = "none" THEN "binding"
              ELSE IF st.mapped = m THEN "keep_alive" ELSE "change"
    IN  /\ wk = Idle /\ st.req = "sent"
        /\ stun_on_status(op, TRUE, [st EXCEPT !.req = "none", !.mapped = m],
                          Handler(TRUE, FALSE))
        /\ UNCHANGED <<call, told, misuse>>
StunNoAnswer ==
    /\ wk = Idle /\ st.req = "sent"
    /\ stun_on_status(IF st.mapped = "none" THEN "binding" ELSE "keep_alive", FALSE,
                      [st EXCEPT !.req = "none"], Handler(TRUE, FALSE))
    /\ UNCHANGED <<call, told, misuse>>

\* get_mapped_addr: a request that cannot be sent is a Binding that failed.
get_mapped_addr(s, sent, w) ==
    IF sent /\ s.stun_sock THEN EndHandler([s EXCEPT !.req = "sent"], w)
                           ELSE stun_on_status("binding", FALSE, s, w)
Sends == IF "send" \in Adversity THEN BOOLEAN ELSE {TRUE}

\* dns_srv_resolver_cb of the STUN socket.  An error is reported, or ignored.
StunResolved(sent) ==
    /\ wk = Idle /\ st.req = "dns"
    /\ get_mapped_addr([st EXCEPT !.req = "none"], sent, Handler(FALSE, FALSE))
    /\ UNCHANGED <<call, told, misuse>>
StunUnresolved ==
    /\ wk = Idle /\ st.req = "dns"
    /\ LET bad == SetCand([st EXCEPT !.req = "none"], "srflx", "failed") IN
       IF st.cfg.ignore_stun_error THEN EndHandler([bad EXCEPT !.unnamed = TRUE], Idle)
                                   ELSE ThenFail(bad, Idle, "init")
    /\ UNCHANGED <<call, told, misuse>>

\* The keep-alive timer: poll takes the entry off the heap and keeps its
\* reference; ka_timer_cb then takes the lock.
KaFires ==
    /\ wk = Idle /\ st.ka_timer
    /\ st.cb_called \/ "early" \in Adversity
    /\ st' = [st EXCEPT !.ka_timer = FALSE]
    /\ wk' = [Handler(FALSE, TRUE) EXCEPT !.at = "ka"]
    /\ UNCHANGED <<call, told, misuse>>
ka_timer_cb(sent) ==
    /\ wk.at = "ka"
    /\ get_mapped_addr(st, sent, wk)
    /\ UNCHANGED <<call, told, misuse>>

----------------------------------------------------------------------------
(***************************************************************************)
(* The TURN socket and what the transport makes of its state.              *)
(***************************************************************************)
TurnStarts == IF "dns" \in Adversity THEN "resolving" ELSE "alloc"

\* add_update_turn: a relay that is there becomes pending, and is not the
\* default candidate any longer.
InvalidateRelay(s) ==
    IF ~HasCand(s, "relayed") THEN s
    ELSE LET idx == IndexOf(s, "relayed")
         IN [SetCand(s, "relayed", "pending") EXCEPT !.default_cand =
                IF @ # idx THEN @
                ELSE IF HasCand(s, "srflx") THEN IndexOf(s, "srflx") ELSE 0]
add_update_turn(s) ==
    LET inv == AddRef([InvalidateRelay(s) EXCEPT !.turn_sock = TurnStarts])
    IN  IF HasCand(s, "relayed") THEN inv
        ELSE [inv EXCEPT !.cand_list = Append(@, Cand("relayed", "pending"))]

TurnResolved ==
    /\ wk = Idle /\ st.turn_sock = "resolving"
    /\ st' = [st EXCEPT !.turn_sock = "alloc"]
    /\ UNCHANGED <<call, wk, told, misuse>>

\* turn_on_state, state READY
TurnReady ==
    /\ wk = Idle /\ st.turn_sock = "alloc"
    /\ ThenUpdate([SetCand(st, "relayed", "ok") EXCEPT
                      !.turn_sock = "ready", !.turn_err_cnt = 0,
                      !.default_cand = IndexOf(st, "relayed")], Idle)
    /\ UNCHANGED <<call, told, misuse>>

\* turn_on_state, state DEALLOCATING or later.  A name that is not resolved is
\* announced before last_status is set, and a socket that is not opened without
\* any: both look like a normal end.
TurnLeaves(s) == [turn_sock_destroy(s) EXCEPT !.turn_err_cnt = @ + 1]
TurnUnheard ==
    /\ wk = Idle /\ "dns" \in Adversity
    /\ st.turn_sock \in {"resolving", "alloc"} /\ st.closing < MaxClosing
    /\ EndHandler([TurnLeaves(st) EXCEPT !.unnamed = TRUE], Idle)
    /\ UNCHANGED <<call, told, misuse>>

\* Before the gathering is over the failure ends it; after it the relay is
\* requested once more.  A request that fails at once is a second failure.
TurnFails(s, again) ==
    LET gone == TurnLeaves(s)
    IN  IF s.state \in {"null", "init"} THEN ThenFail(gone, Idle, "init")
        ELSE IF gone.turn_err_cnt > 1 THEN ThenFail(gone, Idle, "keep_alive")
        ELSE IF again THEN EndHandler(add_update_turn(gone), Idle)
        ELSE ThenFail(TurnLeaves(add_update_turn(gone)), Idle, "keep_alive")
TurnLost(again) ==
    /\ wk = Idle /\ st.closing + 1 < MaxClosing
    /\ \/ st.turn_sock = "alloc"
       \/ st.turn_sock = "ready" /\ "relay" \in Adversity
    /\ TurnFails(st, again)
    /\ UNCHANGED <<call, told, misuse>>

\* The relay has been given back, and the socket lets go of the lock.
TurnClosed ==
    /\ wk = Idle /\ st.closing > 0
    /\ st' = DecRef([st EXCEPT !.closing = @ - 1])
    /\ UNCHANGED <<call, wk, told, misuse>>

----------------------------------------------------------------------------
(***************************************************************************)
(* The functions that the application calls.  It is one thread: a call     *)
(* begins when call = "none".                                              *)
(***************************************************************************)
create_comp(cfg) ==
    LET sock == cfg.stun \/ cfg.host
    IN  [Transport(cfg) EXCEPT
           !.state = "init", !.stun_sock = sock, !.ref_cnt = IF sock THEN 2 ELSE 1,
           !.req = IF cfg.stun THEN Request ELSE "none",
           !.cand_list = (IF cfg.stun THEN <<Cand("srflx", "pending")>> ELSE <<>>)
                         \o (IF cfg.host THEN <<Cand("host", "ok")>> ELSE <<>>)]

\* pj_ice_strans_create up to the release of the lock.  A relay that cannot
\* even be requested is a failure the application hears of in here.
Create(cfg) ==
    /\ call = "none" /\ wk = Idle /\ st.ref_cnt = 0
    /\ st' = IF cfg.turn THEN add_update_turn(create_comp(cfg)) ELSE create_comp(cfg)
    /\ told' = NothingTold
    /\ call' = "create"
    /\ UNCHANGED <<wk, misuse>>
CreateWithoutRelay(cfg) ==
    /\ "create" \in Adversity /\ cfg.turn
    /\ call = "none" /\ wk = Idle /\ st.ref_cnt = 0
    /\ LET lost == [TurnLeaves([create_comp(cfg) EXCEPT !.turn_sock = TurnStarts,
                                                        !.ref_cnt = @ + 1])
                       EXCEPT !.cb_called = TRUE]
       IN  st' = cb_on_ice_complete(lost, "failed")
    /\ told' = [NothingTold EXCEPT !.init = "failed"]
    /\ call' = "create"
    /\ UNCHANGED <<wk, misuse>>

\* pj_ice_strans_create after the release of the lock.
CreateUpdate ==
    /\ call = "create" /\ ~Freed
    /\ call' = IF sess_init_complete(st) THEN "announce" ELSE "none"
    /\ UNCHANGED <<st, wk, told, misuse>>
CreateAnnounce ==
    /\ call = "announce" /\ ~Freed
    /\ st' = [st EXCEPT !.cb_called = TRUE, !.state = "ready"]
    /\ told' = Hears("init", "ok", FALSE)
    /\ call' = "none"
    /\ UNCHANGED <<wk, misuse>>

\* A function may be called on a transport that the application has not destroyed.
Calls == call = "none" /\ LockFree /\ st.state # "null" /\ ~st.destroy_req

\* pj_ice_strans_init_ice: only candidates that are there are offered.
InitIce ==
    /\ Calls /\ st.ice = "none"
    /\ st' = AddRef([st EXCEPT !.ice = "created", !.offered = Types(st, "ok")])
    /\ call' = "init"
    /\ UNCHANGED <<wk, told, misuse>>
InitIceDone ==
    /\ call = "init" /\ ~Freed
    /\ st' = [st EXCEPT !.state = "sess_ready"]
    /\ call' = "none"
    /\ UNCHANGED <<wk, told, misuse>>

\* pj_ice_strans_start_ice: the check list, then the checks, then the state.
\* There is no check list for a reflexive candidate without its base, and no
\* check without a candidate; if the checks cannot be started the session is
\* stopped.
HasBase == "srflx" \in st.offered => "host" \in st.offered
StartIce ==
    /\ Calls /\ st.ice = "created" /\ HasBase
    /\ st' = [st EXCEPT !.ice = "listed"]
    /\ call' = "start"
    /\ UNCHANGED <<wk, told, misuse>>
StartCheck(ok) ==
    /\ call = "start" /\ LockFree /\ ~Freed
    /\ ok => st.offered # {} \/ st.ice = "none"
    /\ IF st.ice = "none"
       THEN st' = [st EXCEPT !.assert_failed = TRUE] /\ call' = "stop"
       ELSE IF ok THEN st' = [st EXCEPT !.ice = "started"] /\ call' = "started"
       ELSE /\ st' = sess_destroy([st EXCEPT !.assert_failed = @ \/ st.offered = {}])
            /\ call' = "stop"
    /\ UNCHANGED <<wk, told, misuse>>
StartDone ==
    /\ call = "started" /\ ~Freed
    /\ st' = [st EXCEPT !.state = "nego"]
    /\ call' = "none"
    /\ UNCHANGED <<wk, told, misuse>>

\* pj_ice_strans_stop_ice
StopIce ==
    /\ Calls
    /\ st' = sess_destroy(st)
    /\ call' = "stop"
    /\ UNCHANGED <<wk, told, misuse>>
\* Faulty: the state is kept.
StopDone_keeps ==
    /\ call = "stop" /\ ~Freed
    /\ call' = "none"
    /\ UNCHANGED <<st, wk, told, misuse>>
StopDone ==
    /\ call = "stop" /\ ~Freed
    /\ st' = [st EXCEPT !.state = "init"]
    /\ call' = "none"
    /\ UNCHANGED <<wk, told, misuse>>

\* pj_ice_strans_destroy
Destroy ==
    /\ Calls
    /\ st' = destroy_ice_st(st)
    /\ UNCHANGED <<call, wk, told, misuse>>

\* A function that goes on with a transport that is gone: anything may
\* happen, and nothing after it is modelled.
Dangles ==
    /\ call # "none" /\ Freed
    /\ misuse' = TRUE /\ call' = "none"
    /\ UNCHANGED <<st, wk, told>>

----------------------------------------------------------------------------
(***************************************************************************)
(* The ICE session completes, and on_ice_complete follows from a timer.    *)
(***************************************************************************)
IceFinish(o, relayed) ==
    /\ wk = Idle /\ st.ice = "started" /\ st.outcome = "none"
    /\ relayed => "relayed" \in st.offered
    /\ st' = [st EXCEPT !.outcome = o, !.relayed = relayed]
    /\ UNCHANGED <<call, wk, told, misuse>>

\* A channel is bound to the peer if the relay is used; its status replaces
\* the one of the session.
on_ice_complete(s) ==
    LET binds == s.outcome = "ok" /\ s.relayed
        unable == binds /\ s.turn_sock # "ready"
        ok == s.outcome = "ok" /\ ~unable
    IN  [s EXCEPT !.ice = "done", !.outcome = IF ok THEN "ok" ELSE "failed",
                  !.assert_failed = @ \/ unable,
                  !.state = IF ok THEN "running" ELSE "failed"]
IceTell ==
    /\ wk = Idle /\ st.ice = "started" /\ st.outcome # "none"
    /\ LET done == on_ice_complete(st) IN
       /\ told' = Hears("nego", done.outcome, st.destroy_req)
       /\ st' = cb_on_ice_complete(done, done.outcome)
    /\ UNCHANGED <<call, wk, misuse>>

\* pj_ice_strans_sendto: the way that data take.
Route(s) ==
    LET default == s.cand_list[s.default_cand + 1]
    IN  IF s.default_cand >= Len(s.cand_list) THEN "error"
        ELSE IF s.ice # "none" /\ s.state = "running" THEN "ice"
        ELSE IF default.status # "ok" THEN "error"
        ELSE IF default.type = "relayed" /\ s.turn_sock = "none" THEN "error"
        ELSE "default"

----------------------------------------------------------------------------
Init ==
    /\ st \in {Transport(cfg) : cfg \in Configs}
    /\ call = "none" /\ wk = Idle /\ told = NothingTold /\ misuse = FALSE

StunEnds == StunNoAnswer \/ \E m \in Mapped : StunAnswer(m)
StunNamed == StunUnresolved \/ \E sent \in Sends : StunResolved(sent)
KaRuns == \E sent \in Sends : ka_timer_cb(sent)
TurnNamed == st.turn_sock = "resolving" /\ (TurnResolved \/ TurnUnheard)
Again == IF "create" \in Adversity THEN BOOLEAN ELSE {TRUE}
TurnEnds == TurnReady \/ \E again \in Again : TurnLost(again)
IceEnds == \E o \in {"ok", "failed"}, relayed \in BOOLEAN : IceFinish(o, relayed)
StartChecks ==
    \E ok \in Again \cup (IF st.offered = {} THEN {FALSE} ELSE {}) : StartCheck(ok)

WorkerNext ==
    \/ Announce \/ Fail \/ StunEnds \/ StunNamed \/ KaFires \/ KaRuns
    \/ TurnResolved \/ TurnUnheard \/ TurnEnds \/ TurnClosed \/ IceEnds \/ IceTell
ReturnNext ==
    \/ CreateUpdate \/ CreateAnnounce \/ InitIceDone \/ StartChecks
    \/ StartDone \/ StopDone \/ Dangles
CallNext ==
    \/ \E cfg \in Configs : Create(cfg) \/ CreateWithoutRelay(cfg)
    \/ InitIce \/ StartIce \/ StopIce \/ Destroy
Next == WorkerNext \/ ReturnNext \/ CallNext
Spec == Init /\ [][Next]_tvars

----------------------------------------------------------------------------
(***************************************************************************)
(* Properties                                                              *)
(***************************************************************************)
CandsOK == /\ \A i \in DOMAIN st.cand_list :
                 st.cand_list[i] \in [type : {"srflx", "host", "relayed"},
                                      status : {"pending", "ok", "failed"}]
           /\ \A type \in {"srflx", "host", "relayed"} : \A i, j \in Indexes(st, type) : i = j
           /\ st.default_cand \in Nat
\* The state of the transport and of the two threads is well formed.
TypeOK ==
    /\ st.cfg \in Configs /\ CandsOK
    /\ st.state \in {"null", "init", "ready", "sess_ready", "nego", "running", "failed"}
    /\ st.ice \in {"none", "created", "listed", "started", "done"}
    /\ st.outcome \in {"none", "ok", "failed"}
    /\ st.offered \subseteq {"srflx", "host", "relayed"}
    /\ {st.cb_called, st.destroy_req, st.relayed, st.stun_sock, st.ka_timer,
        st.unnamed, st.assert_failed, misuse} \subseteq BOOLEAN
    /\ st.req \in {"none", "dns", "sent"} /\ st.mapped \in Mapped \cup {"none"}
    /\ st.turn_sock \in {"none", "resolving", "alloc", "ready"}
    /\ st.turn_err_cnt \in Nat /\ st.closing \in 0 .. MaxClosing /\ st.ref_cnt \in Nat
    /\ call \in {"none", "create", "announce", "init", "start", "started", "stop"}
    /\ wk \in [at : {"idle", "ka", "announce", "fail"},
               op : {"none", "init", "keep_alive"}, resched : BOOLEAN, timer : BOOLEAN]
    /\ told \in [init : {"none", "ok", "failed"}, nego : {"none", "ok", "failed"},
                 keep_alive : {"none", "failed"}, late : BOOLEAN]

One(b) == IF b THEN 1 ELSE 0
\* The memory of a transport is kept by exactly those that still use it: the
\* transport until it is destroyed, its sockets, its session, the keep-alive
\* timer while it is scheduled or in the hands of the worker, and the relays
\* that are being given back.
RefsBalanced ==
    st.ref_cnt = One(st.state # "null" /\ ~st.destroy_req) + One(st.stun_sock)
                 + One(st.ka_timer) + One(wk.timer) + One(st.ice # "none")
                 + One(st.turn_sock # "none") + st.closing

\* What has been destroyed is silent: no handler reports to an application
\* that has destroyed the transport.
SilentAfterDestroy == ~told.late

\* The default candidate is one of the list, through every removal and every
\* move of the default (the assertion of pj_ice_strans_get_def_cand).
DefaultExists ==
    st.state = "null" \/ st.destroy_req \/ st.default_cand < Len(st.cand_list)

\* Data take the way of the session only once it has completed with success.
RouteIsUsable == Route(st) = "ice" => st.ice = "done" /\ st.outcome = "ok"

\* What pj_ice_strans_sendto promises: once the negotiation has been reported
\* as successful, data take the way of the session.
SuccessIsUsed ==
    told.nego = "ok" /\ st.ice = "done" /\ st.outcome = "ok" => Route(st) = "ice"
=============================================================================
