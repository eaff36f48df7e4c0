----------------------------- MODULE IceSession -----------------------------
(***************************************************************************)
(* PJNATH's ICE session (pjnath/src/pjnath/ice_session.c), as two agents   *)
(* run it against each other over UDP: checklist, connectivity checks,     *)
(* triggered checks, role conflicts, nomination and completion, with the   *)
(* part of pj_ice_strans_start_ice that drives it (ice_strans.c).          *)
(*                                                                         *)
(* The state of an agent is one record, the pj_ice_sess of the code.  A C  *)
(* function that updates the session is an operator from a session to a    *)
(* session; a handler that takes the group lock is one action.             *)
(*                                                                         *)
(* A transport address stands for a candidate.  A candidate pair (a        *)
(* "check" of the code) is <<local address, remote address>>.              *)
(***************************************************************************)
EXTENDS Integers, Sequences, FiniteSets

CONSTANTS
    Agents, Peer,       \* the two agents, and who talks to whom
    CompCnt,            \* comp_cnt: the components are 1..CompCnt
    Addr,               \* transport addresses of both agents, mapped ones too
    Owner, CompOf, Tp,  \* the socket behind an address: agent, component, transport id
    Fnd, Prio,          \* candidate foundation and priority
    Base,               \* base address of a candidate (itself unless reflexive)
    LCand,              \* the candidates an agent gathered and signalled
    SeenAs,             \* <<l, r>>: source address r's side sees on packets from l's socket
    Reach,              \* <<l, r>>: packets from l's socket to r can arrive
    SendErr,            \* <<l, r>>: the transport refuses to send from l to r
    InitRoles,          \* the initial roles of the agents: a set of functions
    Tie,                \* tie-breaker
    Aggressive,         \* opt.aggressive of the agents: a set of functions
    WaitNom,            \* opt.controlled_agent_want_nom_timeout >= 0
    MayDestroy,         \* agents whose application may destroy the session
    Lossy,              \* <<l, r>>: all transmissions of a check there may be lost
    MaxCand,            \* PJ_ICE_MAX_CAND
    MaxChecks,          \* PJ_ICE_MAX_CHECKS
    MaxEarly            \* bound of the model: early checks kept per agent

Comps == 1..CompCnt
Roles == {"controlling", "controlled"}
CheckStates == {"absent", "frozen", "waiting", "in_progress", "succeeded", "failed"}
Timers == {"none", "wait_nom", "completion", "start_nominated", "keep_alive"}
Outcomes == {"none", "ok", "failed", "nom_timeout"}
Phases == {"init", "listed", "replay", "started"}

\* The assertions of the code that a run of the model may find false.
Asserts == {"check_set_state", "is_nominating", "nominated_check", "valid_check",
            "err_code", "tdata", "retransmit", "keep_alive", "schedule", "valid_list"}

Pairs(a) == {p \in Addr \X Addr : /\ Owner[p[1]] = a
                                  /\ Owner[p[2]] = Peer[a]
                                  /\ CompOf[p[1]] = CompOf[p[2]]}
NoPair == <<>>

Check == [state: CheckStates, nominated: BOOLEAN, prio: Nat, born: Nat,
          tdata: Nat, tx: Nat]
Valid == [listed: BOOLEAN, nominated: BOOLEAN, prio: Nat]

\* A STUN transaction: the tx-th Binding request of the check on a pair.
Tx(a) == [pair: Pairs(a), n: Nat, role: Roles, uc: BOOLEAN]
Response(a) == [t: Tx(a), code: {"success", "role_conflict"}]
\* pj_ice_rx_check: <<address the request came to, address it came from>>.
RxCheck(a) == [pair: Pairs(a), uc: BOOLEAN]

Session(a) ==
    [role: Roles, aggressive: BOOLEAN, is_nominating: BOOLEAN, ice_status: Outcomes, timer: Timers,
     clist_timer: BOOLEAN, comp_ka: Comps,
     lcand: SUBSET Addr, rcand: SUBSET Addr,
     clist: [Pairs(a) -> Check], valid_list: [Pairs(a) -> Valid],
     valid_check: [Comps -> Pairs(a) \cup {NoPair}],
     nominated_check: [Comps -> Pairs(a) \cup {NoPair}],
     early_check: Seq(RxCheck(a)),
     pending: SUBSET Tx(a), sent: SUBSET Tx(a), resp: SUBSET Response(a),
     phase: Phases, is_destroying: BOOLEAN,
     completions: Nat, broken: SUBSET Asserts]

ASSUME AgentAssumption ==
    /\ Peer \in [Agents -> Agents]
    /\ \A a \in Agents : Peer[a] # a /\ Peer[Peer[a]] = a
ASSUME AddrAssumption ==
    /\ IsFiniteSet(Addr)
    /\ Owner \in [Addr -> Agents] /\ CompOf \in [Addr -> Comps]
    /\ Prio \in [Addr -> Nat] /\ Base \in [Addr -> Addr]
    /\ LCand \in [Agents -> SUBSET Addr]
    /\ \A a \in Agents : \A x \in LCand[a] : Owner[x] = a
    /\ \A x \in Addr : Owner[Base[x]] = Owner[x] /\ CompOf[Base[x]] = CompOf[x]
ASSUME CompAssumption == CompCnt \in Nat \ {0}
ASSUME NetAssumption ==
    /\ SeenAs \in [Addr \X Addr -> Addr]
    /\ \A p \in Addr \X Addr : /\ Owner[SeenAs[p]] = Owner[p[1]]
                               /\ CompOf[SeenAs[p]] = CompOf[p[1]]
\* The base of a candidate is a socket's own address, and a mapped address has
\* the base of the socket it was learnt for.
ASSUME BaseAssumption ==
    /\ \A x \in Addr : Base[Base[x]] = Base[x]
    /\ \A p \in Addr \X Addr : Base[SeenAs[p]] = Base[p[1]]
ASSUME OptionAssumption ==
    /\ InitRoles \subseteq [Agents -> Roles] /\ Tie \in [Agents -> Nat]
    /\ Aggressive \subseteq [Agents -> BOOLEAN] /\ WaitNom \in BOOLEAN
    /\ \A a \in Agents : Tie[a] # Tie[Peer[a]]
    /\ MaxCand \in Nat /\ MaxChecks \in Nat /\ MaxEarly \in Nat

VARIABLE ice
vars == ice

-----------------------------------------------------------------------------
(* Priorities and the order of the checklist                               *)

\* pair priority 2^32*MIN(G,D) + 2*MAX(G,D) + (G>D), with a scale above every
\* candidate priority of the instance in place of 2^32.
CONSTANT PrioScale
ASSUME ScaleAssumption ==
    PrioScale \in Nat /\ \A x \in Addr : 2 * Prio[x] + 1 < PrioScale

CALC_CHECK_PRIO(role, p) ==
    LET O == IF role = "controlling" THEN Prio[p[1]] ELSE Prio[p[2]]
        A == IF role = "controlling" THEN Prio[p[2]] ELSE Prio[p[1]]
    IN IF O > A THEN PrioScale * A + 2 * O + 1 ELSE PrioScale * O + 2 * A

Listed(s) == {p \in DOMAIN s.clist : s.clist[p].state # "absent"}

\* Checks made by create_check_list (born = 0) stand in priority order,
\* triggered checks are appended behind them.
Before(s, p, q) ==
    \/ s.clist[p].born < s.clist[q].born
    \/ s.clist[p].born = s.clist[q].born /\ s.clist[p].prio > s.clist[q].prio

IsFirst(s, S, p) == \A q \in S \ {p} : Before(s, p, q)
First(s, S) == IF \E p \in S : IsFirst(s, S, p)
               THEN CHOOSE p \in S : IsFirst(s, S, p) ELSE NoPair

Claim(s, holds, assertion) ==
    [s EXCEPT !.broken = IF holds THEN @ ELSE @ \cup {assertion}]

Finished == {"succeeded", "failed"}

check_set_state(s, p, st) ==
    Claim([s EXCEPT !.clist[p].state = st],
          s.clist[p].state \notin Finished, "check_set_state")

-----------------------------------------------------------------------------
(* Sending a check                                                         *)

\* Faulty: the role is forgotten.
UseCandidate_anyRole(s, nominate) == nominate
UseCandidate(s, nominate) == s.role = "controlling" /\ nominate

\* pj_stun_session_send_msg either starts a client transaction or fails at
\* once; then the check keeps its state and has no transmit data.
perform_check(s, p, nominate) ==
    LET uc == UseCandidate(s, nominate)
        t == [pair |-> p, n |-> s.clist[p].tx + 1, role |-> s.role, uc |-> uc]
        flagged == [s EXCEPT !.clist[p].nominated = @ \/ uc]
    IN IF p \in SendErr
       THEN [flagged EXCEPT !.clist[p].tdata = 0]
       ELSE check_set_state([flagged EXCEPT !.clist[p].tdata = t.n,
                                            !.clist[p].tx = t.n,
                                            !.pending = @ \cup {t},
                                            !.sent = @ \cup {t}],
                            p, "in_progress")

-----------------------------------------------------------------------------
(* Completion                                                              *)

\* Faulty: a completed negotiation completes again.
on_ice_complete_again(s, outcome) ==
    [s EXCEPT !.ice_status = outcome, !.timer = "completion"]
on_ice_complete(s, outcome) ==
    IF s.ice_status # "none" THEN s
    ELSE [s EXCEPT !.ice_status = outcome, !.timer = "completion"]

Higher(s, v, w) == s.valid_list[v].prio > s.valid_list[w].prio

\* The better of a component's current check and v.
\* Faulty: the latest one wins.
Better_latest(s, current, v) == v
Better(s, current, v) ==
    IF current = NoPair THEN v ELSE IF Higher(s, v, current) THEN v ELSE current

update_comp_check(s, v) ==
    LET c == CompOf[v[1]]
    IN [s EXCEPT !.valid_check[c] = Better(s, @, v),
                 !.nominated_check[c] = IF s.valid_list[v].nominated
                                        THEN Better(s, @, v) ELSE @]

AllValid(s) == \A c \in Comps : s.valid_check[c] # NoPair
\* Faulty: one component is enough.
AllNominated_some(s) == \E c \in Comps : s.nominated_check[c] # NoPair
AllNominated(s) == \A c \in Comps : s.nominated_check[c] # NoPair
\* Faulty: a failed check counts as one to wait for.
AllDone_succeeded(s) == \A p \in Listed(s) : s.clist[p].state = "succeeded"
AllDone(s) == \A p \in Listed(s) : s.clist[p].state \in Finished

\* The check that start_nominated_check puts back to Waiting for a component:
\* the first one with the transport and remote candidate of its valid pair.
RenominatedCheck(s, c) ==
    First(s, {q \in Listed(s) : /\ Tp[q[1]] = Tp[s.valid_check[c][1]]
                                /\ q[2] = s.valid_check[c][2]})

start_nominated_check(s) ==
    LET again == {RenominatedCheck(s, c) :
                      c \in {d \in Comps : s.valid_check[d] # NoPair}} \ {NoPair}
        reset == [p \in DOMAIN s.clist |->
                      IF p \in again THEN [s.clist[p] EXCEPT !.state = "waiting"]
                      ELSE s.clist[p]]
        s1 == Claim(s, ~s.is_nominating, "is_nominating")
        s2 == Claim(s1, \A c \in Comps : s.nominated_check[c] = NoPair, "nominated_check")
        s3 == Claim(s2, AllValid(s), "valid_check")
        s4 == Claim(s3, \A p \in again : s.clist[p].state # "failed", "err_code")
    IN [s4 EXCEPT !.clist = reset, !.clist_timer = TRUE, !.is_nominating = TRUE,
                  !.timer = IF @ = "start_nominated" THEN "none" ELSE @]

\* 7.1.2.2.2: success thaws the frozen checks of the same foundation.
Unfreeze(s, p) ==
    [s EXCEPT !.clist = [q \in DOMAIN s.clist |->
        IF s.clist[q].state = "frozen" /\ Fnd[q[1]] = Fnd[p[1]]
        THEN [s.clist[q] EXCEPT !.state = "waiting"] ELSE s.clist[q]]]

\* 8.2 with PJ_ICE_CANCEL_ALL: a nominated pair ends every other check of
\* its component, and cancels the transactions of those in progress.
Superseded(s, p) ==
    {q \in Listed(s) : /\ CompOf[q[1]] = CompOf[p[1]]
                       /\ \/ s.clist[q].state \in {"frozen", "waiting"}
                          \/ s.clist[q].state = "in_progress" /\ s.clist[q].tdata # 0}

CancelSuperseded(s, p) ==
    LET gone == Superseded(s, p)
    IN [s EXCEPT
          !.clist = [q \in DOMAIN s.clist |->
                         IF q \in gone
                         THEN [s.clist[q] EXCEPT !.state = "failed", !.tdata = 0]
                         ELSE s.clist[q]],
          !.pending = {t \in @ : ~(t.pair \in gone /\ t.n = s.clist[t.pair].tdata)}]

\* All checks are done and some component has no nominated pair.
ChecksExhausted(s) ==
    IF s.role = "controlled"
    THEN IF ~AllValid(s) THEN on_ice_complete(s, "failed")
         ELSE IF s.timer = "none" /\ WaitNom THEN [s EXCEPT !.timer = "wait_nom"]
         ELSE s
    ELSE IF s.is_nominating \/ ~AllValid(s) THEN on_ice_complete(s, "failed")
    ELSE start_nominated_check(s)

MayScheduleNomination(s) ==
    /\ s.role = "controlling" /\ ~s.is_nominating
    /\ s.timer = "none" /\ AllValid(s)

on_check_complete(s, p) ==
    LET ok == s.clist[p].state = "succeeded"
        s1 == IF ok THEN Unfreeze(s, p) ELSE s
        s2 == IF ok /\ s.clist[p].nominated THEN CancelSuperseded(s1, p) ELSE s1
    IN IF AllNominated(s2) THEN on_ice_complete(s2, "ok")
       ELSE IF AllDone(s2) THEN ChecksExhausted(s2)
       ELSE IF ok /\ MayScheduleNomination(s2)
            THEN [s2 EXCEPT !.timer = "start_nominated"] ELSE s2

check_failed(s, p) == on_check_complete(check_set_state(s, p, "failed"), p)

-----------------------------------------------------------------------------
(* Incoming checks                                                         *)

\* The local candidate of the pair a request belongs to: the first check of
\* that component and transport gives it.
LocalCandidate(s, dst) ==
    First(s, {q \in Listed(s) : CompOf[q[1]] = CompOf[dst] /\ Tp[q[1]] = Tp[dst]})

\* The valid-list entries that USE-CANDIDATE on the succeeded check p nominates.
\* Faulty: USE-CANDIDATE that arrives after the success is ignored.
NominatedBy_none(s, p) == {}
NominatedBy(s, p) ==
    {v \in DOMAIN s.valid_list : /\ s.valid_list[v].listed
                                 /\ Tp[v[1]] = Tp[p[1]] /\ v[2] = p[2]}

IsBest(s, S, v) == \A w \in S : ~Higher(s, w, v)
Best(s, S) == IF \E v \in S : IsBest(s, S, v)
              THEN CHOOSE v \in S : IsBest(s, S, v) ELSE NoPair

NominateValid(s, p) ==
    LET hit == NominatedBy(s, p)
        best == Best(s, hit)
        c == CompOf[p[1]]
        s1 == [s EXCEPT !.valid_list = [v \in DOMAIN s.valid_list |->
                  IF v \in hit THEN [s.valid_list[v] EXCEPT !.nominated = TRUE]
                  ELSE s.valid_list[v]]]
    IN IF best = NoPair THEN s
       ELSE [s1 EXCEPT !.valid_check[c] = Better(s1, @, best),
                       !.nominated_check[c] = Better(s1, @, best)]

\* Faulty: a failed check is tried again.  Faulty: a succeeded one is.
NotYetTried_failed == {"frozen", "waiting", "failed"}
NotYetTried_succeeded == {"frozen", "waiting", "succeeded"}
NotYetTried == {"frozen", "waiting"}

triggered_check(s, p, uc) ==
    LET st == s.clist[p].state
        s1 == [s EXCEPT !.clist[p].nominated = @ \/ uc]
        c == s1.clist[p]
    IN CASE st \in NotYetTried ->
                perform_check(s1, p, c.nominated \/ s1.is_nominating)
         [] st = "in_progress" ->
                Claim(s1, c.tdata # 0, "retransmit")
         [] st = "succeeded" ->
                on_check_complete(IF uc THEN NominateValid(s1, p) ELSE s1, p)
         [] OTHER -> s1

new_check(s, p, uc) ==
    LET c == [s.clist[p] EXCEPT !.state = "waiting", !.nominated = uc,
                                !.prio = CALC_CHECK_PRIO(s.role, p),
                                !.born = Cardinality(Listed(s)) + 1]
    IN perform_check([s EXCEPT !.clist[p] = c], p, uc \/ s.is_nominating)

RoomForCheck(s) == Cardinality(Listed(s)) < MaxChecks

handle_incoming_check(s, rcheck) ==
    LET dst == rcheck.pair[1]
        src == rcheck.pair[2]
        full == src \notin s.rcand /\ Cardinality(s.rcand) >= MaxCand
        s1 == [s EXCEPT !.rcand = @ \cup {src}]
        lq == LocalCandidate(s, dst)
        p == <<lq[1], src>>
    IN IF full THEN s
       ELSE IF lq = NoPair THEN s1
       ELSE IF p \in Listed(s) THEN triggered_check(s1, p, rcheck.uc)
       ELSE IF RoomForCheck(s) THEN new_check(s1, p, rcheck.uc)
       ELSE s1

-----------------------------------------------------------------------------
(* The actions                                                             *)

\* A session that handlers may enter: not being destroyed, and not locked by
\* pj_ice_sess_start_check, which replays the early checks under the lock.
Enterable(a) == ~ice[a].is_destroying /\ ice[a].phase # "replay"

\* Responses to a transaction that is over are discarded (tsx_lookup finds it
\* complete or finds nothing).
Settle(s) == [s EXCEPT !.resp = {m \in @ : m.t \in s.pending}]
Becomes(a, s) == ice' = [ice EXCEPT ![a] = Settle(s)]

InitialChecks(a) ==
    {p \in Pairs(a) : p[2] \in LCand[Peer[a]] /\ \E l \in LCand[a] : Base[l] = p[1]}

\* pj_ice_sess_create_check_list, the first step of pj_ice_strans_start_ice.
CreateCheckList(a) ==
    LET s == ice[a]
    IN /\ s.phase = "init" /\ Enterable(a)
       /\ InitialChecks(a) # {}
       /\ Cardinality(InitialChecks(a)) <= MaxChecks
       /\ Becomes(a, [s EXCEPT
            !.phase = "listed",
            !.rcand = LCand[Peer[a]],
            !.clist = [p \in Pairs(a) |->
                IF p \in InitialChecks(a)
                THEN [s.clist[p] EXCEPT !.state = "frozen",
                                        !.prio = CALC_CHECK_PRIO(s.role, p)]
                ELSE s.clist[p]]])

\* The pairs of component 1 that lead their foundation.
FirstOfFoundation(s) ==
    LET one == {p \in Listed(s) : CompOf[p[1]] = 1}
    IN {p \in one : IsFirst(s, {q \in one : Fnd[q[1]] = Fnd[p[1]]}, p)}

\* pj_ice_sess_start_check up to the replay of the early checks; the lock is
\* kept until StartCheckDone.
StartCheck(a) ==
    LET s == ice[a]
        lead == FirstOfFoundation(s)
    IN /\ s.phase = "listed" /\ Enterable(a)
       /\ Becomes(a, [s EXCEPT
            !.phase = "replay",
            !.is_nominating = @ \/ s.aggressive,
            !.clist = [p \in DOMAIN s.clist |->
                IF p \in lead /\ s.clist[p].state = "frozen"
                THEN [s.clist[p] EXCEPT !.state = "waiting"] ELSE s.clist[p]]])

ReplayEarlyCheck(a) ==
    LET s == ice[a]
    IN /\ s.phase = "replay" /\ ~s.is_destroying
       /\ s.early_check # <<>>
       /\ Becomes(a, handle_incoming_check(
                        [s EXCEPT !.early_check = Tail(@)], Head(s.early_check)))

Destroyed(s) ==
    [s EXCEPT !.is_destroying = TRUE, !.timer = "none", !.clist_timer = FALSE,
              !.pending = {}, !.resp = {}]

\* Schedule the periodic timer and release the lock.  Scheduling an entry that
\* is already in the heap is an assertion and an error, on which
\* pj_ice_strans_start_ice stops the session.
StartCheckDone(a) ==
    LET s == ice[a]
    IN /\ s.phase = "replay" /\ ~s.is_destroying
       /\ s.early_check = <<>>
       /\ Becomes(a,
            IF s.clist_timer
            THEN Destroyed(Claim([s EXCEPT !.phase = "started"], FALSE, "schedule"))
            ELSE [s EXCEPT !.phase = "started", !.clist_timer = TRUE])

\* start_periodic_check: perform the first waiting check, or else the first
\* frozen one, and go on only when it could be sent.
PeriodicTimer(a) ==
    LET s == [ice[a] EXCEPT !.clist_timer = FALSE]
        InState(st) == {p \in Listed(s) : s.clist[p].state = st}
        next == IF InState("waiting") # {} THEN First(s, InState("waiting"))
                ELSE First(s, InState("frozen"))
    IN /\ ice[a].clist_timer /\ Enterable(a)
       /\ Becomes(a,
            IF next = NoPair THEN s
            ELSE LET s1 == perform_check(s, next, s.is_nominating)
                 IN [s1 EXCEPT !.clist_timer = next \notin SendErr])

\* on_timer; for completion it calls the application.
OnTimer(a) ==
    LET type == ice[a].timer
        s == [ice[a] EXCEPT !.timer = "none"]
    IN /\ type \notin {"none", "keep_alive"} /\ Enterable(a)
       /\ \/ /\ type = "wait_nom"
             /\ Becomes(a, on_ice_complete(s, "nom_timeout"))
          \/ /\ type = "start_nominated"
             /\ Becomes(a, start_nominated_check(s))
          \/ /\ type = "completion"
             /\ Becomes(a, [s EXCEPT
                  !.timer = IF s.ice_status = "ok" THEN "keep_alive" ELSE "none",
                  !.completions = @ + 1])

\* Faulty: it does not wrap.
NextComponent_unwrapped(c) == c + 1
NextComponent(c) == (c % CompCnt) + 1

\* on_timer with TIMER_KEEP_ALIVE: one component after the other.
KeepAlive(a) ==
    LET s == ice[a]
    IN /\ s.timer = "keep_alive" /\ Enterable(a)
       /\ Becomes(a, Claim([s EXCEPT !.comp_ka = NextComponent(@)],
                           s.nominated_check[s.comp_ka] # NoPair, "keep_alive"))

OtherRole(role) == IF role = "controlling" THEN "controlled" ELSE "controlling"

\* 7.2.1.1: on a conflict the request is rejected, or else the role switches.
\* Faulty: the tie-breaker is compared the wrong way round when controlling.
RejectsRole_swapped(b, t) == ice[b].role = t.role /\ Tie[b] < Tie[Peer[b]]
\* Faulty: the agent with the larger tie-breaker gives way, too.
RejectsRole_never(b, t) == FALSE
RejectsRole(b, t) ==
    /\ ice[b].role = t.role
    /\ IF t.role = "controlling" THEN Tie[b] >= Tie[Peer[b]] ELSE Tie[b] < Tie[Peer[b]]

\* The response goes back to the source address the request was seen from.
Respond(a, t, code) ==
    IF t \in ice[a].pending /\ <<Base[t.pair[2]], SeenAs[t.pair]>> \in Reach
    THEN [ice[a] EXCEPT !.resp = @ \cup {[t |-> t, code |-> code]}]
    ELSE ice[a]

\* on_stun_rx_request at agent b.  The request stays in the network: it may
\* be retransmitted, duplicated or late.
RecvRequest(b, t) ==
    LET a == Peer[b]
        rcheck == [pair |-> <<t.pair[2], SeenAs[t.pair]>>, uc |-> t.uc]
        s == [ice[b] EXCEPT !.role = IF @ = t.role THEN OtherRole(@) ELSE @]
        early == s.rcand = {}
    IN /\ t \in ice[a].sent /\ t.pair \in Reach /\ Enterable(b)
       /\ \/ /\ RejectsRole(b, t)
             /\ ice' = [ice EXCEPT ![a] = Respond(a, t, "role_conflict")]
          \/ /\ ~RejectsRole(b, t) /\ early
             /\ Len(s.early_check) < MaxEarly
             /\ ice' = [ice EXCEPT ![a] = Respond(a, t, "success"),
                                   ![b] = [s EXCEPT !.early_check = Append(@, rcheck)]]
          \/ /\ ~RejectsRole(b, t) /\ ~early
             /\ ice' = [ice EXCEPT ![a] = Respond(a, t, "success"),
                                   ![b] = Settle(handle_incoming_check(s, rcheck))]

\* The STUN transaction t is over: on_stun_request_complete clears tdata.
\* Faulty: the transaction stays pending.
Complete_kept(s, t) ==
    Claim([s EXCEPT !.clist[t.pair].tdata = 0], s.clist[t.pair].tdata = t.n, "tdata")
Complete(s, t) ==
    Claim([s EXCEPT !.pending = @ \ {t}, !.clist[t.pair].tdata = 0],
          s.clist[t.pair].tdata = t.n, "tdata")

\* A 487 response: take the role the request did not have and send it again.
RoleConflictResponse(s, t) ==
    LET s1 == check_set_state([s EXCEPT !.role = OtherRole(t.role)], t.pair, "waiting")
    IN perform_check(s1, t.pair, s.clist[t.pair].nominated \/ s.is_nominating)

\* The valid pair of a successful check: the mapped address and the remote one.
\* Faulty: the check's own local candidate is taken.
ValidPair_base(p) == p
ValidPair(p) == <<SeenAs[p], p[2]>>

AddValid(s, p) ==
    LET v == ValidPair(p)
        entry == [s.valid_list[v] EXCEPT
                      !.nominated = s.clist[p].nominated,
                      !.prio = IF s.valid_list[v].listed THEN @
                               ELSE CALC_CHECK_PRIO(s.role, v),
                      !.listed = TRUE]
    IN update_comp_check([s EXCEPT !.lcand = @ \cup {SeenAs[p]},
                                   !.valid_list[v] = entry], v)

SuccessResponse(s, p) ==
    LET from == SeenAs[<<p[2], SeenAs[p]>>]
        full == SeenAs[p] \notin s.lcand /\ Cardinality(s.lcand) >= MaxCand
    IN IF from # p[2] \/ full THEN check_failed(s, p)
       ELSE on_check_complete(check_set_state(AddValid(s, p), p, "succeeded"), p)

\* on_stun_request_complete with a response.
RecvResponse(a, m) ==
    LET s == Complete(ice[a], m.t)
    IN /\ m \in ice[a].resp /\ Enterable(a)
       /\ Becomes(a, IF m.code = "role_conflict" THEN RoleConflictResponse(s, m.t)
                     ELSE SuccessResponse(s, m.t.pair))

\* on_stun_request_complete after the last retransmission (or a failed one).
RequestTimeout(a, t) ==
    /\ t \in ice[a].pending /\ t.pair \in Lossy /\ Enterable(a)
    /\ Becomes(a, check_failed(Complete(ice[a], t), t.pair))

\* pj_ice_sess_destroy, by the application.
Destroy(a) ==
    /\ a \in MayDestroy /\ Enterable(a)
    /\ Becomes(a, Destroyed(ice[a]))

NewSession(a, role, aggressive) ==
    [role |-> role, aggressive |-> aggressive, is_nominating |-> FALSE, ice_status |-> "none",
     timer |-> "none", clist_timer |-> FALSE, comp_ka |-> 1,
     lcand |-> LCand[a], rcand |-> {},
     clist |-> [p \in Pairs(a) |-> [state |-> "absent", nominated |-> FALSE,
                                    prio |-> 0, born |-> 0, tdata |-> 0, tx |-> 0]],
     valid_list |-> [p \in Pairs(a) |->
                        [listed |-> FALSE, nominated |-> FALSE, prio |-> 0]],
     valid_check |-> [c \in Comps |-> NoPair],
     nominated_check |-> [c \in Comps |-> NoPair],
     early_check |-> <<>>, pending |-> {}, sent |-> {}, resp |-> {},
     phase |-> "init", is_destroying |-> FALSE,
     completions |-> 0, broken |-> {}]

Init ==
    \E role \in InitRoles, aggressive \in Aggressive :
        ice = [a \in Agents |-> NewSession(a, role[a], aggressive[a])]

Next ==
    \E a \in Agents :
        \/ CreateCheckList(a) \/ StartCheck(a) \/ ReplayEarlyCheck(a)
        \/ StartCheckDone(a)
        \/ PeriodicTimer(a) \/ OnTimer(a) \/ KeepAlive(a) \/ Destroy(a)
        \/ \E t \in ice[Peer[a]].sent : RecvRequest(a, t)
        \/ \E m \in ice[a].resp : RecvResponse(a, m)
        \/ \E t \in ice[a].pending : RequestTimeout(a, t)

Spec == Init /\ [][Next]_vars

\* Timers and transactions run to their end, and the application goes on with a
\* negotiation it began.  Nothing makes a timer win against a packet.
Progress(a) ==
    \/ StartCheck(a) \/ ReplayEarlyCheck(a) \/ StartCheckDone(a)
    \/ PeriodicTimer(a) \/ OnTimer(a)
    \/ \E t \in ice[a].pending : RequestTimeout(a, t)

FairSpec == Spec /\ \A a \in Agents : WF_vars(Progress(a))

\* In addition both start, and what the network does not lose arrives.
Delivery(a) ==
    \/ CreateCheckList(a)
    \/ \E t \in ice[a].pending : RecvRequest(Peer[a], t)
    \/ \E m \in ice[a].resp : RecvResponse(a, m)

Unanswered(a) ==
    {t \in ice[a].pending : /\ t.pair \in Reach
                            /\ <<Base[t.pair[2]], SeenAs[t.pair]>> \in Reach
                            /\ \A m \in ice[a].resp : m.t # t}

\* When a step <<Delivery(a)>>_vars is enabled, in place of ENABLED in its weak
\* fairness, which TLC is slow to evaluate.
CanDeliver(a) ==
    LET b == Peer[a]
    IN \/ ice[a].phase = "init" /\ Enterable(a)
       \/ Enterable(a) /\ ice[a].resp # {}
       \/ /\ Enterable(b) /\ Unanswered(a) # {}
          /\ ice[b].rcand # {} \/ Len(ice[b].early_check) < MaxEarly

ReliableSpec ==
    FairSpec /\ \A a \in Agents : []<>(~CanDeliver(a)) \/ []<><<Delivery(a)>>_vars

-----------------------------------------------------------------------------
\* pj_ice_sess_send_data: where the application's data of component c go.
DataPair(s, c) == s.valid_check[c]

(***************************************************************************)
(* Properties                                                              *)
(***************************************************************************)

\* Every field of every session keeps its type.
TypeOK == DOMAIN ice = Agents /\ \A a \in Agents : ice[a] \in Session(a)

\* Assertions that a packet between pj_ice_sess_create_check_list and
\* pj_ice_sess_start_check, which take the lock one after the other, can break.
WindowAsserts == {"schedule", "is_nominating"}

\* Whatever is lost, repeated or late, the assertions of ice_session.c hold: a
\* finished check is not restarted, a response finds its check waiting for it,
\* a check in progress can be retransmitted, nomination starts with a valid
\* and no nominated check per component.
NoAssertionFails == \A a \in Agents : ice[a].broken \subseteq WindowAsserts

\* A check is in progress exactly as long as one STUN transaction works for it,
\* the one check->tdata points to: cancelling, role conflicts and nomination
\* leave neither a check that nothing will finish nor an orphan transaction.
PendingIsInProgress ==
    \A a \in Agents : ~ice[a].is_destroying =>
        /\ \A t \in ice[a].pending : ice[a].clist[t.pair].tdata = t.n
        /\ \A p \in Pairs(a) : ice[a].clist[p].state = "in_progress" <=>
               \E t \in ice[a].pending : t.pair = p

\* valid_check and nominated_check of a component are the best of its valid
\* pairs and of its nominated ones, in whatever order checks succeed and
\* USE-CANDIDATE arrives.
BestSelected ==
    \A a \in Agents : \A c \in Comps :
        LET s == ice[a]
            inComp == {v \in Pairs(a) : s.valid_list[v].listed /\ CompOf[v[1]] = c}
            Selects(sel, S) == IF S = {} THEN sel = NoPair
                               ELSE sel \in S /\ IsBest(s, S, sel)
        IN /\ Selects(s.valid_check[c], inComp)
           /\ Selects(s.nominated_check[c], {v \in inComp : s.valid_list[v].nominated})

\* Data go where packets pass in both directions: a pair is used only after a
\* request got there and its answer came back, and it is the pair of the
\* mapped address, not of the address behind the NAT.
DataPairWorks ==
    \A a \in Agents : \A c \in Comps :
        LET v == DataPair(ice[a], c)
        IN v # NoPair => <<Base[v[1]], v[2]>> \in Reach /\ <<Base[v[2]], v[1]>> \in Reach

\* Success is reported only when every component has a nominated pair to use.
SuccessCoversComponents ==
    \A a \in Agents : ice[a].ice_status = "ok" =>
        \A c \in Comps : ice[a].nominated_check[c] # NoPair /\ DataPair(ice[a], c) # NoPair

\* A pair of a controlled agent is nominated by a request of the peer with
\* USE-CANDIDATE for it.
Nominated(a, c) ==
    LET v == ice[a].nominated_check[c]
    IN (ice[a].role = "controlled" /\ v # NoPair) =>
           \E t \in ice[Peer[a]].sent : t.uc /\ t.pair[2] = v[1] /\ SeenAs[t.pair] = v[2]

\* That is so for an agent that never checked as controlling, whatever the order
\* of its own success and the peer's nomination, and with aggressive nomination.
NominatedByPeer ==
    \A a \in Agents : (\A t \in ice[a].sent : t.role = "controlled") =>
        \A c \in Comps : Nominated(a, c)

\* Two agents that both report success have settled on different roles.
CompletedRolesDiffer ==
    (\A a \in Agents : ice[a].ice_status = "ok") =>
        \A a \in Agents : ice[a].role # ice[Peer[a]].role

\* Each session keeps the promise of Negotiation.tla: one outcome, that never
\* changes, reported at most once, afterwards, and not once it is destroyed.
Promise(a) == INSTANCE Negotiation WITH
    outcome <- ice[a].ice_status, told <- ice[a].completions, closed <- ice[a].is_destroying
KeepsPromise ==
    /\ \A a \in Agents : Promise(a)!Init
    /\ [][\A a \in Agents : [Promise(a)!Next]_(Promise(a)!vars)]_vars

\* Starting a negotiation never schedules the checklist timer twice (timer.c).
ScheduledOnce == \A a \in Agents : "schedule" \notin ice[a].broken

\* An agent changes its role only towards the one its tie-breaker gives it, so
\* at most once: late and repeated requests or 487s never make it go back.
RoleSettles ==
    [][\A a \in Agents : ice'[a].role # ice[a].role =>
          ice'[a].role = IF Tie[a] > Tie[Peer[a]] THEN "controlling" ELSE "controlled"]_vars

\* A failed check stays failed, and a succeeded one is tried again only by the
\* one step that starts nomination.
CheckLifecycle ==
    [][\A a \in Agents : \A p \in Pairs(a) :
          LET before == ice[a].clist[p].state
              after == ice'[a].clist[p].state
          IN before \in Finished /\ after # before =>
                /\ before = "succeeded" /\ after = "waiting"
                /\ ~ice[a].is_nominating /\ ice'[a].is_nominating]_vars

\* A negotiation that was started ends, and the application is told, unless
\* the session is destroyed.
NegotiationEnds ==
    \A a \in Agents : (ice[a].phase = "started") ~>
        (ice[a].completions = 1 \/ ice[a].is_destroying)

\* Over a network that loses nothing both agents succeed, unless the start of
\* one of them fails on the timer that is already scheduled.
Connects ==
    <>(\/ \A a \in Agents : ice[a].ice_status = "ok" /\ ice[a].completions = 1
       \/ \E a \in Agents : "schedule" \in ice[a].broken)
=============================================================================
