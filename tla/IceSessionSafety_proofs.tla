----------------------- MODULE IceSessionSafety_proofs -----------------------
(***************************************************************************)
(* Proofs of the safety invariants of IceSession.tla, on top of the types  *)
(* and the steps of IceSession_proofs.tla: what success covers, where data *)
(* go, that two agents that succeed have settled on different roles; then, *)
(* that each check in progress has its transaction, that the best pairs    *)
(* are selected, and what becomes of a check that is finished; with        *)
(* regular nomination, that no assertion of the code fails; and that the   *)
(* pairs of a controlled agent were nominated by its peer.                 *)
(***************************************************************************)
EXTENDS IceSession_proofs

-----------------------------------------------------------------------------
(* What every function of the code preserves                               *)

\* A pair starts at a socket of the agent, not at a mapped address.
FromBase(p) == Base[p[1]] = p[1]

\* Packets pass over the pair in both directions.
Passes(v) == <<Base[v[1]], v[2]>> \in Reach /\ <<Base[v[2]], v[1]>> \in Reach

\* A component with a nominated pair has a valid one, and success needs all.
Covered(s) ==
    /\ \A c \in Comps : s.nominated_check[c] # NoPair => s.valid_check[c] # NoPair
    /\ s.ice_status = "ok" => AllNominated(s)

\* Checks are made between sockets, and what is valid passes packets.
Grounded(s) ==
    /\ \A p \in Listed(s) : FromBase(p)
    /\ s.pending \subseteq s.sent /\ \A t \in s.sent : FromBase(t.pair)
    /\ \A v \in DOMAIN s.valid_list : s.valid_list[v].listed => Passes(v)
    /\ \A c \in Comps : s.valid_check[c] # NoPair => Passes(s.valid_check[c])

Fit(s) == Covered(s) /\ Grounded(s)

\* A call that makes r of s keeps the role and the early checks, sends in that
\* role, and leaves a fit session fit.
Follows(a, s, r) ==
    /\ r \in Session(a)
    /\ r.role = s.role /\ r.early_check = s.early_check /\ r.resp = s.resp
    /\ \A t \in r.sent : t \in s.sent \/ t.role = s.role
    /\ Fit(s) => Fit(r)

\* It does so without a new valid or nominated pair.
Quiet(a, s, r) ==
    /\ r \in Session(a)
    /\ r.role = s.role /\ r.early_check = s.early_check /\ r.resp = s.resp
    /\ r.valid_list = s.valid_list /\ r.valid_check = s.valid_check
    /\ r.nominated_check = s.nominated_check
    /\ r.ice_status = "ok" => s.ice_status = "ok" \/ AllNominated(s)
    /\ \A p \in Listed(r) : p \in Listed(s) \/ FromBase(p)
    /\ s.sent \subseteq r.sent /\ r.pending \subseteq s.pending \cup r.sent
    /\ \A t \in r.sent : t \in s.sent \/ (t.role = s.role /\ FromBase(t.pair))

\* Nothing is done to the selected pairs, and nothing to the checks.
SameSelection(s, r) ==
    /\ r.valid_list = s.valid_list /\ r.valid_check = s.valid_check
    /\ r.nominated_check = s.nominated_check /\ r.ice_status = s.ice_status
SamePairs(s, r) ==
    /\ SameSelection(s, r)
    /\ r.clist = s.clist /\ r.sent = s.sent /\ r.pending \subseteq s.pending

LEMMA FollowsType == ASSUME NEW a, NEW s, NEW r, Follows(a, s, r) PROVE r \in Session(a)
  BY DEF Follows

LEMMA FollowsOn ==
    ASSUME NEW a, NEW s, NEW r, NEW q, Follows(a, s, r), Follows(a, r, q)
    PROVE  Follows(a, s, q)
  BY DEF Follows

LEMMA SameFit ==
    ASSUME NEW s, NEW r, SamePairs(s, r), Fit(s)
    PROVE  Fit(r)
  BY DEF SamePairs, SameSelection, Fit, Covered, Grounded, AllNominated, Listed

LEMMA SameQuiet ==
    ASSUME NEW a, NEW s, NEW r \in Session(a), SamePairs(s, r),
           r.role = s.role, r.early_check = s.early_check, r.resp = s.resp
    PROVE  Quiet(a, s, r)
  BY DEF SamePairs, SameSelection, Quiet, Listed

LEMMA QuietType == ASSUME NEW a, NEW s, NEW r, Quiet(a, s, r) PROVE r \in Session(a)
  BY DEF Quiet

LEMMA QuietItself == ASSUME NEW a, NEW s \in Session(a) PROVE Quiet(a, s, s)
  BY DEF Quiet

LEMMA QuietOn ==
    ASSUME NEW a, NEW s, NEW r, NEW q, Quiet(a, s, r), Quiet(a, r, q)
    PROVE  Quiet(a, s, q)
  BY DEF Quiet, AllNominated

LEMMA QuietFollows ==
    ASSUME NEW a, NEW s, NEW r, Quiet(a, s, r)
    PROVE  Follows(a, s, r)
  BY DEF Quiet, Follows, Fit, Covered, Grounded, AllNominated

-----------------------------------------------------------------------------
(* The functions of the code that select no pair                           *)

LEMMA ClaimQuiet ==
    ASSUME NEW a, NEW s \in Session(a), NEW holds, NEW x \in Asserts
    PROVE  Quiet(a, s, Claim(s, holds, x))
<1>1. Claim(s, holds, x) \in Session(a)
  BY KeepsBroken, KeepsType
<1> DEFINE r == Claim(s, holds, x)
<1>2. /\ r.role = s.role /\ r.early_check = s.early_check /\ r.resp = s.resp
      /\ SamePairs(s, r)
  BY SMTT(30) DEF Claim, Session, SamePairs, SameSelection
<1> HIDE DEF r
<1> QED
  BY <1>1, <1>2, SameQuiet DEF r

LEMMA StateQuiet ==
    ASSUME NEW a, NEW s \in Session(a), NEW p \in Pairs(a), NEW st \in CheckStates,
           FromBase(p)
    PROVE  Quiet(a, s, check_set_state(s, p, st))
<1>1. check_set_state(s, p, st) \in Session(a)
  BY SetStateKeeps, KeepsType
<1> DEFINE r == check_set_state(s, p, st)
<1>2. /\ r.role = s.role /\ r.early_check = s.early_check /\ r.resp = s.resp
      /\ r.sent = s.sent /\ r.pending = s.pending /\ SameSelection(s, r)
  BY SMTT(30) DEF check_set_state, Claim, Session, SameSelection
<1>3. \A q \in DOMAIN r.clist : r.clist[q].state # "absent" => q = p \/ q \in Listed(s)
  BY SMTT(30) DEF check_set_state, Claim, Listed, Session
<1> HIDE DEF r
<1> QED
  BY <1>1, <1>2, <1>3 DEF Quiet, Listed, SameSelection, r

LEMMA PerformQuiet ==
    ASSUME NEW a, NEW s \in Session(a), NEW p \in Pairs(a), NEW nominate \in BOOLEAN,
           FromBase(p)
    PROVE  Quiet(a, s, perform_check(s, p, nominate))
<1>1. perform_check(s, p, nominate) \in Session(a)
  BY PerformKeeps, KeepsType
<1> DEFINE r == perform_check(s, p, nominate)
<1>2. /\ r.role = s.role /\ r.early_check = s.early_check /\ r.resp = s.resp
  BY SMTT(30) DEF perform_check, check_set_state, Claim, Session
<1>6. SameSelection(s, r)
  <2>1. r.valid_list = s.valid_list /\ r.valid_check = s.valid_check
    BY SMTT(30) DEF perform_check, check_set_state, Claim, Session
  <2>2. r.nominated_check = s.nominated_check /\ r.ice_status = s.ice_status
    BY SMTT(30) DEF perform_check, check_set_state, Claim, Session
  <2> HIDE DEF r
  <2> QED
    BY <2>1, <2>2 DEF SameSelection
<1>3. \A q \in Pairs(a) : r.clist[q].state # "absent" => q = p \/ s.clist[q].state # "absent"
  <2>1. \A q \in Pairs(a) : q # p => r.clist[q] = s.clist[q]
    <3>1. CASE p \in SendErr
      BY <3>1, SMTT(30) DEF perform_check, Session
    <3>2. CASE p \notin SendErr
      BY <3>2, SMTT(30) DEF perform_check, check_set_state, Claim, Session
    <3> QED
      BY <3>1, <3>2
  <2> HIDE DEF r
  <2> QED
    BY <2>1
<1>4. \A t \in r.sent : t \in s.sent \/ (t.role = s.role /\ t.pair = p)
  BY SMTT(30) DEF perform_check, check_set_state, Claim, Session
<1>7. s.sent \subseteq r.sent /\ r.pending \subseteq s.pending \cup r.sent
  BY SMTT(30) DEF perform_check, check_set_state, Claim, Session
<1>5. DOMAIN r.clist = Pairs(a) /\ DOMAIN s.clist = Pairs(a)
  BY <1>1 DEF Session
<1> HIDE DEF r
<1> QED
  BY <1>1, <1>2, <1>3, <1>4, <1>5, <1>6, <1>7 DEF Quiet, Listed, SameSelection, r

LEMMA FinishQuiet ==
    ASSUME NEW a, NEW s \in Session(a), NEW outcome \in Outcomes, outcome # "none",
           outcome = "ok" => AllNominated(s)
    PROVE  Quiet(a, s, on_ice_complete(s, outcome))
<1>1. on_ice_complete(s, outcome) \in Session(a)
  BY CompleteKeeps, KeepsType
<1> DEFINE r == on_ice_complete(s, outcome)
<1>2. /\ r.role = s.role /\ r.early_check = s.early_check /\ r.resp = s.resp
      /\ r.sent = s.sent /\ r.pending = s.pending /\ r.clist = s.clist
      /\ r.valid_list = s.valid_list /\ r.valid_check = s.valid_check
      /\ r.nominated_check = s.nominated_check /\ r.ice_status \in {s.ice_status, outcome}
  BY SMTT(30) DEF on_ice_complete, Session
<1> HIDE DEF r
<1> QED
  BY <1>1, <1>2 DEF Quiet, Listed, r

LEMMA StartNominatedQuiet ==
    ASSUME NEW a \in Agents, NEW s \in Session(a)
    PROVE  Quiet(a, s, start_nominated_check(s))
<1> DEFINE r == start_nominated_check(s)
           again == {RenominatedCheck(s, c) :
                         c \in {d \in Comps : s.valid_check[d] # NoPair}} \ {NoPair}
<1>1. r \in Session(a)
  BY StartNominatedKeeps, KeepsType
<1>2. again \subseteq Listed(s)
  BY FirstType DEF RenominatedCheck
<1>3. r.clist = [p \in DOMAIN s.clist |->
                    IF p \in again THEN [s.clist[p] EXCEPT !.state = "waiting"]
                    ELSE s.clist[p]]
  <2> HIDE DEF again
  <2> QED
    BY SMTT(30) DEF start_nominated_check, Claim, Session, again
<1>4. Listed(r) \subseteq Listed(s)
  <2> HIDE DEF again, r
  <2> QED
    BY <1>2, <1>3 DEF Listed
<1>5. /\ r.role = s.role /\ r.early_check = s.early_check /\ r.resp = s.resp
      /\ r.sent = s.sent /\ r.pending = s.pending /\ SameSelection(s, r)
  BY SMTT(30) DEF start_nominated_check, Claim, Session, SameSelection
<1> HIDE DEF r
<1> QED
  BY <1>1, <1>4, <1>5 DEF Quiet, SameSelection, r

\* The timers, and the phase of the start.
LEMMA TimerQuiet ==
    ASSUME NEW a, NEW s \in Session(a)
    PROVE  /\ \A x \in Timers : Quiet(a, s, [s EXCEPT !.timer = x])
           /\ \A x \in BOOLEAN : Quiet(a, s, [s EXCEPT !.clist_timer = x])
           /\ \A x \in Phases : Quiet(a, s, [s EXCEPT !.phase = x])
<1>1. ASSUME NEW x \in Timers PROVE Quiet(a, s, [s EXCEPT !.timer = x])
  <2>1. [s EXCEPT !.timer = x] \in Session(a)
    BY ZenonT(30) DEF Session
  <2> DEFINE r == [s EXCEPT !.timer = x]
  <2>2. /\ r.role = s.role /\ r.early_check = s.early_check /\ r.resp = s.resp
        /\ SamePairs(s, r)
    BY SMTT(30) DEF Session, SamePairs, SameSelection
  <2> HIDE DEF r
  <2> QED
    BY <2>1, <2>2, SameQuiet DEF r
<1>2. ASSUME NEW x \in BOOLEAN PROVE Quiet(a, s, [s EXCEPT !.clist_timer = x])
  <2>1. [s EXCEPT !.clist_timer = x] \in Session(a)
    BY ZenonT(30) DEF Session
  <2> DEFINE r == [s EXCEPT !.clist_timer = x]
  <2>2. /\ r.role = s.role /\ r.early_check = s.early_check /\ r.resp = s.resp
        /\ SamePairs(s, r)
    BY SMTT(30) DEF Session, SamePairs, SameSelection
  <2> HIDE DEF r
  <2> QED
    BY <2>1, <2>2, SameQuiet DEF r
<1>3. ASSUME NEW x \in Phases PROVE Quiet(a, s, [s EXCEPT !.phase = x])
  <2>1. [s EXCEPT !.phase = x] \in Session(a)
    BY ZenonT(30) DEF Session
  <2> DEFINE r == [s EXCEPT !.phase = x]
  <2>2. /\ r.role = s.role /\ r.early_check = s.early_check /\ r.resp = s.resp
        /\ SamePairs(s, r)
    BY SMTT(30) DEF Session, SamePairs, SameSelection
  <2> HIDE DEF r
  <2> QED
    BY <2>1, <2>2, SameQuiet DEF r
<1> QED
  BY <1>1, <1>2, <1>3

LEMMA UnfreezeQuiet ==
    ASSUME NEW a \in Agents, NEW s \in Session(a), NEW p \in Pairs(a)
    PROVE  Quiet(a, s, Unfreeze(s, p))
<1>1. Unfreeze(s, p) \in Session(a)
  BY UnfreezeKeeps, KeepsType
<1> DEFINE r == Unfreeze(s, p)
<1>2. /\ r.role = s.role /\ r.early_check = s.early_check /\ r.resp = s.resp
      /\ r.sent = s.sent /\ r.pending = s.pending /\ SameSelection(s, r)
  BY SMTT(30) DEF Unfreeze, Session, SameSelection
<1>3. \A q \in DOMAIN r.clist : r.clist[q].state # "absent" => q \in Listed(s)
  BY SMTT(30) DEF Unfreeze, Listed, Session
<1> HIDE DEF r
<1> QED
  BY <1>1, <1>2, <1>3 DEF Quiet, Listed, SameSelection, r

LEMMA CancelQuiet ==
    ASSUME NEW a \in Agents, NEW s \in Session(a), NEW p \in Pairs(a)
    PROVE  Quiet(a, s, CancelSuperseded(s, p))
<1>1. CancelSuperseded(s, p) \in Session(a)
  BY CancelKeeps, KeepsType
<1> DEFINE r == CancelSuperseded(s, p)
<1>2. /\ r.role = s.role /\ r.early_check = s.early_check /\ r.resp = s.resp
      /\ r.sent = s.sent /\ r.pending \subseteq s.pending /\ SameSelection(s, r)
  BY SMTT(30) DEF CancelSuperseded, Session, SameSelection
<1>3. Superseded(s, p) \subseteq Listed(s)
  BY DEF Superseded
<1>4. \A q \in DOMAIN r.clist : r.clist[q].state # "absent" => q \in Listed(s)
  BY <1>3, SMTT(30) DEF CancelSuperseded, Listed, Session
<1> HIDE DEF r
<1> QED
  BY <1>1, <1>2, <1>4 DEF Quiet, Listed, SameSelection, r

LEMMA ExhaustedQuiet ==
    ASSUME NEW a \in Agents, NEW s \in Session(a)
    PROVE  Quiet(a, s, ChecksExhausted(s))
<1>1. Quiet(a, s, on_ice_complete(s, "failed"))
  BY FinishQuiet DEF Outcomes
<1>2. Quiet(a, s, [s EXCEPT !.timer = "wait_nom"])
  BY TimerQuiet DEF Timers
<1> QED
  BY <1>1, <1>2, QuietItself, StartNominatedQuiet DEF ChecksExhausted

LEMMA CheckCompleteQuiet ==
    ASSUME NEW a \in Agents, NEW s \in Session(a), NEW p \in Pairs(a)
    PROVE  Quiet(a, s, on_check_complete(s, p))
<1> DEFINE ok == s.clist[p].state = "succeeded"
           s1 == IF ok THEN Unfreeze(s, p) ELSE s
           s2 == IF ok /\ s.clist[p].nominated THEN CancelSuperseded(s1, p) ELSE s1
<1>1. on_check_complete(s, p)
      = IF AllNominated(s2) THEN on_ice_complete(s2, "ok")
        ELSE IF AllDone(s2) THEN ChecksExhausted(s2)
        ELSE IF ok /\ MayScheduleNomination(s2)
             THEN [s2 EXCEPT !.timer = "start_nominated"] ELSE s2
  BY DEF on_check_complete
<1>2. Quiet(a, s, s1)
  BY UnfreezeQuiet, QuietItself
<1>3. Quiet(a, s1, s2)
  <2> HIDE DEF s1
  <2> QED
    BY <1>2, CancelQuiet, QuietItself, QuietType
<1> HIDE DEF ok, s1, s2
<1>4. s2 \in Session(a)
  BY <1>3, QuietType
<1>5. AllNominated(s2) => Quiet(a, s2, on_ice_complete(s2, "ok"))
  BY <1>4, FinishQuiet DEF Outcomes
<1>6. Quiet(a, s2, ChecksExhausted(s2))
  BY <1>4, ExhaustedQuiet
<1>7. Quiet(a, s2, [s2 EXCEPT !.timer = "start_nominated"])
  BY <1>4, TimerQuiet DEF Timers
<1>8. Quiet(a, s2, on_check_complete(s, p))
  BY <1>1, <1>4, <1>5, <1>6, <1>7, QuietItself
<1> QED
  BY <1>2, <1>3, <1>8, QuietOn

LEMMA FailedQuiet ==
    ASSUME NEW a \in Agents, NEW s \in Session(a), NEW p \in Pairs(a), FromBase(p)
    PROVE  Quiet(a, s, check_failed(s, p))
<1>1. Quiet(a, s, check_set_state(s, p, "failed"))
  BY StateQuiet DEF CheckStates
<1> QED
  BY <1>1, CheckCompleteQuiet, QuietOn, QuietType DEF check_failed

LEMMA EndQuiet ==
    ASSUME NEW a \in Agents, NEW s \in Session(a), NEW t \in Tx(a)
    PROVE  Quiet(a, s, Complete(s, t))
<1> DEFINE p == t.pair
           c == [s.clist[p] EXCEPT !.tdata = 0]
           rest == s.pending \ {t}
           s1 == [s EXCEPT !.pending = rest]
           r == [s1 EXCEPT !.clist[p] = c]
<1>1. Complete(s, t) = Claim(r, s.clist[t.pair].tdata = t.n, "tdata")
  BY DEF Complete
<1>2. p \in Pairs(a) /\ c \in Check /\ rest \subseteq s.pending
  BY CheckType DEF Tx
<1>3. c.state = s.clist[p].state
  BY <1>2, CheckType DEF Check
<1> HIDE DEF p, c, rest
<1>4. r \in Session(a)
  <2>1. rest \in SUBSET Tx(a)
    BY <1>2 DEF Session
  <2>2. s1 \in Session(a)
    BY <2>1, KeepsPending, KeepsType
  <2> HIDE DEF s1
  <2> QED
    BY <1>2, <2>2, KeepsCheck, KeepsType
<1>5. /\ r.role = s.role /\ r.early_check = s.early_check /\ r.resp = s.resp
      /\ r.sent = s.sent /\ r.pending \subseteq s.pending /\ SameSelection(s, r)
  BY <1>2, SMTT(30) DEF Session, SameSelection
<1>6. \A q \in DOMAIN r.clist : r.clist[q].state # "absent" => q \in Listed(s)
  BY <1>2, <1>3, SMTT(30) DEF Listed, Session
<1> HIDE DEF r
<1>7. Quiet(a, s, r)
  BY <1>4, <1>5, <1>6 DEF Quiet, Listed, SameSelection
<1>8. Quiet(a, r, Complete(s, t))
  BY <1>1, <1>4, ClaimQuiet DEF Asserts
<1> QED
  BY <1>7, <1>8, QuietOn

-----------------------------------------------------------------------------
(* Valid and nominated pairs                                               *)

\* The better of two pairs is one of them.
LEMMA BetterOf ==
    ASSUME NEW s, NEW x, NEW v
    PROVE  Better(s, x, v) \in {x, v} /\ (v # NoPair => Better(s, x, v) # NoPair)
  BY DEF Better

\* A component takes v or keeps what it has.
Takes(s, r, v) ==
    \A d \in Comps :
        /\ r.valid_check[d] \in {s.valid_check[d], v}
        /\ r.nominated_check[d] \in {s.nominated_check[d], v}
        /\ r.nominated_check[d] # s.nominated_check[d] => r.valid_check[d] # NoPair
        /\ r.valid_check[d] = NoPair => s.valid_check[d] = NoPair
        /\ r.nominated_check[d] = NoPair => s.nominated_check[d] = NoPair

LEMMA SelectTakes ==
    ASSUME NEW a, NEW s \in Session(a), NEW c \in Comps, NEW v \in Pairs(a), v # NoPair,
           NEW x \in {s.valid_check[c], v}, x # NoPair,
           NEW y \in {s.nominated_check[c], v}, s.nominated_check[c] # NoPair => y # NoPair,
           NEW r, r = [s EXCEPT !.valid_check[c] = x, !.nominated_check[c] = y]
    PROVE  Takes(s, r, v)
  BY SMTT(30) DEF Takes, Session

LEMMA UpdateTakes ==
    ASSUME NEW a \in Agents, NEW s \in Session(a), NEW v \in Pairs(a), v # NoPair
    PROVE  Takes(s, update_comp_check(s, v), v)
<1> DEFINE c == CompOf[v[1]]
           x == Better(s, s.valid_check[c], v)
           y == IF s.valid_list[v].nominated THEN Better(s, s.nominated_check[c], v)
                ELSE s.nominated_check[c]
<1>1. update_comp_check(s, v) = [s EXCEPT !.valid_check[c] = x, !.nominated_check[c] = y]
  BY DEF update_comp_check
<1>2. c \in Comps /\ x \in {s.valid_check[c], v} /\ x # NoPair
  BY PairEnds, BetterOf
<1>3. y \in {s.nominated_check[c], v} /\ (s.nominated_check[c] # NoPair => y # NoPair)
  BY BetterOf
<1> DEFINE r == update_comp_check(s, v)
<1> HIDE DEF c, x, y, r
<1> QED
  BY <1>1, <1>2, <1>3, SelectTakes DEF r

\* Putting a pair that passes packets on the valid list.
LEMMA AddFollows ==
    ASSUME NEW a \in Agents, NEW s \in Session(a), NEW p \in Pairs(a),
           Passes(ValidPair(p))
    PROVE  Follows(a, s, AddValid(s, p))
<1> DEFINE v == ValidPair(p)
           c == CompOf[v[1]]
           r == AddValid(s, p)
<1>1. r \in Session(a)
  BY AddKeeps, KeepsType
<1>2. v \in Pairs(a) /\ v # NoPair /\ c \in Comps
  <2>1. v \in Pairs(a)
    BY SeenPair DEF ValidPair
  <2> HIDE DEF v
  <2>2. v # <<>> /\ CompOf[v[1]] \in Comps
    BY <2>1, PairEnds
  <2> QED
    BY <2>1, <2>2 DEF NoPair
<1>3. /\ r.role = s.role /\ r.early_check = s.early_check /\ r.resp = s.resp
      /\ r.ice_status = s.ice_status /\ r.sent = s.sent /\ r.pending = s.pending
      /\ r.clist = s.clist
  <2>1. r.role = s.role /\ r.early_check = s.early_check /\ r.resp = s.resp
    BY SMTT(30) DEF AddValid, update_comp_check, Session
  <2>2. r.ice_status = s.ice_status /\ r.sent = s.sent
    BY SMTT(30) DEF AddValid, update_comp_check, Session
  <2>3. r.pending = s.pending /\ r.clist = s.clist
    BY SMTT(30) DEF AddValid, update_comp_check, Session
  <2> QED
    BY <2>1, <2>2, <2>3
<1> DEFINE new == IF s.valid_list[v].listed THEN s.valid_list[v].prio
                  ELSE CALC_CHECK_PRIO(s.role, v)
           entry == [s.valid_list[v] EXCEPT !.nominated = s.clist[p].nominated,
                                            !.prio = new, !.listed = TRUE]
           list == [s.valid_list EXCEPT ![v] = entry]
           s2 == [s EXCEPT !.lcand = s.lcand \cup {SeenAs[p]}, !.valid_list = list]
<1>4. r = update_comp_check(s2, v) /\ s2 \in Session(a)
  BY AddTypes DEF AddValid
<1> HIDE DEF r, v, entry, list
<1>5. /\ s2.valid_list = list /\ s2.valid_check = s.valid_check
      /\ s2.nominated_check = s.nominated_check
  BY SMTT(30) DEF Session
<1> HIDE DEF s2
<1>6. Takes(s, r, v)
  BY <1>2, <1>4, <1>5, UpdateTakes DEF Takes
<1>7. r.valid_list = list
  BY <1>4, <1>5, SMTT(30) DEF update_comp_check, Session
<1>8. /\ DOMAIN r.valid_list = Pairs(a) /\ DOMAIN s.valid_list = Pairs(a)
      /\ \A w \in Pairs(a) : r.valid_list[w].listed => w = v \/ s.valid_list[w].listed
  BY <1>7 DEF list, Session
<1>9. Covered(s) => Covered(r)
  BY <1>2, <1>3, <1>6 DEF Takes, Covered, AllNominated
<1>10. Grounded(s) => Grounded(r)
  BY <1>3, <1>6, <1>8 DEF Takes, Grounded, Listed, v
<1> QED
  BY <1>1, <1>3, <1>9, <1>10 DEF Follows, Fit, r

LEMMA NominateFollows ==
    ASSUME NEW a \in Agents, NEW s \in Session(a), NEW p \in Pairs(a)
    PROVE  Follows(a, s, NominateValid(s, p))
<1> DEFINE r == NominateValid(s, p)
           hit == NominatedBy(s, p)
           best == Best(s, hit)
<1>1. r \in Session(a)
  BY NominateKeeps, KeepsType
<1>2. CASE best = NoPair
  <2>1. r = s
    BY <1>2 DEF NominateValid
  <2> QED
    BY <2>1, QuietItself, QuietFollows
<1>3. CASE best # NoPair
  <2>1. best \in hit
    BY <1>3 DEF Best
  <2>2. best \in Pairs(a) /\ s.valid_list[best].listed
    BY <2>1 DEF NominatedBy, Session
  <2>3. /\ r.role = s.role /\ r.early_check = s.early_check /\ r.resp = s.resp
        /\ r.ice_status = s.ice_status /\ r.sent = s.sent /\ r.pending = s.pending /\ r.clist = s.clist
    BY <1>3, SMTT(30) DEF NominateValid, Session
  <2>4. Takes(s, r, best)
    <3> DEFINE c == CompOf[p[1]]
               list == [v \in DOMAIN s.valid_list |->
                           IF v \in hit THEN [s.valid_list[v] EXCEPT !.nominated = TRUE]
                           ELSE s.valid_list[v]]
               s1 == [s EXCEPT !.valid_list = list]
               x == Better(s1, s.valid_check[c], best)
               y == Better(s1, s.nominated_check[c], best)
    <3>1. s1 \in Session(a) /\ c \in Comps
      BY NominateTypes, PairEnds
    <3> HIDE DEF hit, best, list
    <3>2. /\ s1.valid_check = s.valid_check /\ s1.nominated_check = s.nominated_check
      BY SMTT(30) DEF Session
    <3>3. r = [s1 EXCEPT !.valid_check[c] = Better(s1, s1.valid_check[c], best),
                         !.nominated_check[c] = Better(s1, s1.nominated_check[c], best)]
      BY <1>3 DEF NominateValid, hit, best, list
    <3>4. r = [s1 EXCEPT !.valid_check[c] = x, !.nominated_check[c] = y]
      BY <3>2, <3>3
    <3>5. /\ x \in {s.valid_check[c], best} /\ x # NoPair
          /\ y \in {s.nominated_check[c], best} /\ y # NoPair
      BY <1>3, BetterOf
    <3> HIDE DEF s1, x, y, r, c
    <3>6. Takes(s1, r, best)
      BY <1>3, <2>2, <3>1, <3>2, <3>4, <3>5, SelectTakes
    <3> QED
      BY <3>2, <3>6 DEF Takes
  <2>5. /\ DOMAIN r.valid_list = DOMAIN s.valid_list
        /\ \A w \in DOMAIN s.valid_list : r.valid_list[w].listed = s.valid_list[w].listed
    BY <1>3, SMTT(30) DEF NominateValid, Session, Valid
  <2> HIDE DEF r, hit, best
  <2>6. Covered(s) => Covered(r)
    BY <1>3, <2>3, <2>4 DEF Takes, Covered, AllNominated
  <2>7. Grounded(s) => Grounded(r)
    <3>1. DOMAIN s.valid_list = Pairs(a)
      BY DEF Session
    <3> QED
      BY <2>2, <2>3, <2>4, <2>5, <3>1 DEF Takes, Grounded, Listed
  <2> QED
    BY <1>1, <2>3, <2>6, <2>7 DEF Follows, Fit, r
<1> QED
  BY <1>2, <1>3

-----------------------------------------------------------------------------
(* Incoming checks and responses                                           *)

\* One check of the list changes, and stays where it was or starts at a socket.
LEMMA CheckQuiet ==
    ASSUME NEW a, NEW s \in Session(a), NEW p \in Pairs(a), NEW c \in Check, FromBase(p)
    PROVE  Quiet(a, s, [s EXCEPT !.clist[p] = c])
<1> DEFINE r == [s EXCEPT !.clist[p] = c]
<1>1. r \in Session(a)
  BY KeepsCheck, KeepsType
<1>2. /\ r.role = s.role /\ r.early_check = s.early_check /\ r.resp = s.resp
      /\ r.sent = s.sent /\ r.pending = s.pending /\ SameSelection(s, r)
  BY SMTT(30) DEF Session, SameSelection
<1>3. \A q \in DOMAIN r.clist : r.clist[q].state # "absent" => q = p \/ q \in Listed(s)
  BY SMTT(30) DEF Listed, Session
<1> HIDE DEF r
<1> QED
  BY <1>1, <1>2, <1>3 DEF Quiet, Listed, SameSelection, r

LEMMA TriggeredFollows ==
    ASSUME NEW a \in Agents, NEW s \in Session(a), NEW p \in Pairs(a), NEW uc \in BOOLEAN,
           FromBase(p)
    PROVE  Follows(a, s, triggered_check(s, p, uc))
<1> DEFINE st == s.clist[p].state
           flag == s.clist[p].nominated \/ uc
           s1 == [s EXCEPT !.clist[p] = [s.clist[p] EXCEPT !.nominated = flag]]
           c == s1.clist[p]
           nominate == c.nominated \/ s1.is_nominating
           s2 == IF uc THEN NominateValid(s1, p) ELSE s1
<1>1. triggered_check(s, p, uc)
      = CASE st \in NotYetTried -> perform_check(s1, p, nominate)
          [] st = "in_progress" -> Claim(s1, c.tdata # 0, "retransmit")
          [] st = "succeeded" -> on_check_complete(s2, p)
          [] OTHER -> s1
  BY DEF triggered_check
<1>2. Quiet(a, s, s1)
  <2>1. [s.clist[p] EXCEPT !.nominated = flag] \in Check
    BY CheckType
  <2> QED
    BY <2>1, CheckQuiet
<1> HIDE DEF s1
<1>3. s1 \in Session(a)
  BY <1>2, QuietType
<1>4. Follows(a, s1, perform_check(s1, p, nominate))
  <2>1. nominate \in BOOLEAN
    BY <1>3, CheckType DEF Session
  <2> QED
    BY <1>3, <2>1, PerformQuiet, QuietFollows
<1>5. Follows(a, s1, Claim(s1, c.tdata # 0, "retransmit"))
  BY <1>3, ClaimQuiet, QuietFollows DEF Asserts
<1>6. Follows(a, s1, on_check_complete(s2, p))
  <2>1. Follows(a, s1, s2)
    BY <1>3, NominateFollows, QuietItself, QuietFollows
  <2> HIDE DEF s2
  <2>2. Follows(a, s2, on_check_complete(s2, p))
    BY <2>1, CheckCompleteQuiet, QuietFollows, FollowsType
  <2> QED
    BY <2>1, <2>2, FollowsOn
<1>7. Follows(a, s1, s1)
  BY <1>3, QuietItself, QuietFollows
<1> HIDE DEF st, c, nominate, s2
<1>8. Follows(a, s1, triggered_check(s, p, uc))
  <2>1. CASE st \in NotYetTried
    BY <1>1, <1>4, <2>1 DEF NotYetTried
  <2>2. CASE st = "in_progress"
    BY <1>1, <1>5, <2>2 DEF NotYetTried
  <2>3. CASE st = "succeeded"
    BY <1>1, <1>6, <2>3 DEF NotYetTried
  <2>4. CASE st \notin NotYetTried /\ st # "in_progress" /\ st # "succeeded"
    BY <1>1, <1>7, <2>4
  <2> QED
    BY <2>1, <2>2, <2>3, <2>4
<1> QED
  BY <1>2, <1>8, QuietFollows, FollowsOn

\* The new check of an incoming request, before it is sent.
LEMMA NewCheckType ==
    ASSUME NEW a \in Agents, NEW s \in Session(a), NEW p \in Pairs(a), NEW uc \in BOOLEAN
    PROVE  [s.clist[p] EXCEPT !.state = "waiting", !.nominated = uc,
                              !.prio = CALC_CHECK_PRIO(s.role, p),
                              !.born = Cardinality(Listed(s)) + 1] \in Check
<1> DEFINE prio == CALC_CHECK_PRIO(s.role, p)
           born == Cardinality(Listed(s)) + 1
<1>1. prio \in Nat /\ born \in Nat
  BY PrioType, ListedType
<1>2. s.clist[p] \in Check
  BY CheckType
<1> HIDE DEF prio, born
<1>3. [s.clist[p] EXCEPT !.state = "waiting", !.nominated = uc,
                         !.prio = prio, !.born = born] \in Check
  BY <1>1, <1>2 DEF Check, CheckStates
<1> QED
  BY <1>3 DEF prio, born

LEMMA NewCheckQuiet ==
    ASSUME NEW a \in Agents, NEW s \in Session(a), NEW p \in Pairs(a), NEW uc \in BOOLEAN,
           FromBase(p)
    PROVE  Quiet(a, s, new_check(s, p, uc))
<1> DEFINE c == [s.clist[p] EXCEPT !.state = "waiting", !.nominated = uc,
                                   !.prio = CALC_CHECK_PRIO(s.role, p),
                                   !.born = Cardinality(Listed(s)) + 1]
           s1 == [s EXCEPT !.clist[p] = c]
           nominate == uc \/ s.is_nominating
<1>1. new_check(s, p, uc) = perform_check(s1, p, nominate)
  BY DEF new_check
<1>2. c \in Check /\ nominate \in BOOLEAN
  BY NewCheckType DEF Session
<1> HIDE DEF c
<1>3. Quiet(a, s, s1)
  BY <1>2, CheckQuiet
<1> HIDE DEF s1, nominate
<1>4. Quiet(a, s1, perform_check(s1, p, nominate))
  BY <1>2, <1>3, PerformQuiet, QuietType
<1> QED
  BY <1>1, <1>3, <1>4, QuietOn

LEMMA IncomingFollows ==
    ASSUME NEW a \in Agents, NEW s \in Session(a), NEW rcheck \in RxCheck(a), Fit(s)
    PROVE  Follows(a, s, handle_incoming_check(s, rcheck))
<1> DEFINE dst == rcheck.pair[1]
           src == rcheck.pair[2]
           full == src \notin s.rcand /\ Cardinality(s.rcand) >= MaxCand
           s1 == [s EXCEPT !.rcand = s.rcand \cup {src}]
           lq == LocalCandidate(s, dst)
           p == <<lq[1], src>>
<1>1. handle_incoming_check(s, rcheck)
      = IF full THEN s
        ELSE IF lq = NoPair THEN s1
        ELSE IF p \in Listed(s) THEN triggered_check(s1, p, rcheck.uc)
        ELSE IF RoomForCheck(s) THEN new_check(s1, p, rcheck.uc)
        ELSE s1
  BY DEF handle_incoming_check
<1>2. rcheck.pair \in Pairs(a) /\ rcheck.uc \in BOOLEAN
  BY DEF RxCheck
<1>3. Quiet(a, s, s1) /\ s1 \in Session(a)
  <2>1. s.rcand \cup {src} \in SUBSET Addr
    BY <1>2, PairEnds DEF Session
  <2>2. s1 \in Session(a)
    BY <2>1, KeepsCandidates, KeepsType
  <2> HIDE DEF src
  <2>3. /\ s1.role = s.role /\ s1.early_check = s.early_check /\ s1.resp = s.resp
        /\ SamePairs(s, s1)
    BY SMTT(30) DEF Session, SamePairs, SameSelection
  <2> HIDE DEF s1
  <2> QED
    BY <2>2, <2>3, SameQuiet
<1>4. Follows(a, s, s) /\ Follows(a, s, s1)
  BY <1>3, QuietItself, QuietFollows
<1>5. CASE lq # NoPair
  <2>1. lq \in Pairs(a) /\ CompOf[lq[1]] = CompOf[dst] /\ FromBase(lq)
    <3>1. lq \in Listed(s) /\ CompOf[lq[1]] = CompOf[dst]
      BY <1>5, FirstType DEF LocalCandidate
    <3> QED
      BY <3>1, ListedType DEF Fit, Grounded
  <2>2. p \in Pairs(a)
    BY <1>2, <2>1, PairEnds, PairOf
  <2>3. FromBase(p)
    BY <2>1 DEF FromBase
  <2> HIDE DEF full, s1, lq, p
  <2>4. /\ Follows(a, s1, triggered_check(s1, p, rcheck.uc))
        /\ Follows(a, s1, new_check(s1, p, rcheck.uc))
    BY <1>2, <1>3, <2>2, <2>3, TriggeredFollows, NewCheckQuiet, QuietFollows
  <2> QED
    BY <1>1, <1>4, <1>5, <2>4, FollowsOn
<1>6. CASE lq = NoPair
  BY <1>1, <1>4, <1>6
<1> QED
  BY <1>5, <1>6

\* A request that got to the other side, and whose answer came back.
Answered(p) == FromBase(p) /\ p \in Reach /\ <<Base[p[2]], SeenAs[p]>> \in Reach

\* The valid pair of an answered check passes packets: its local end is mapped
\* to the socket that sent the request.
LEMMA AnsweredPasses ==
    ASSUME NEW a \in Agents, NEW p \in Pairs(a), Answered(p)
    PROVE  Passes(ValidPair(p))
<1>1. Base[SeenAs[p]] = p[1] /\ p = <<p[1], p[2]>>
  BY PairEnds, BaseAssumption DEF Answered, FromBase
<1>2. ValidPair(p)[1] = SeenAs[p] /\ ValidPair(p)[2] = p[2]
  BY DEF ValidPair
<1> QED
  BY <1>1, <1>2 DEF Passes, Answered

LEMMA SuccessFollows ==
    ASSUME NEW a \in Agents, NEW s \in Session(a), NEW p \in Pairs(a), Answered(p)
    PROVE  Follows(a, s, SuccessResponse(s, p))
<1> DEFINE s1 == AddValid(s, p)
           s2 == check_set_state(s1, p, "succeeded")
<1>1. SuccessResponse(s, p) \in {check_failed(s, p), on_check_complete(s2, p)}
  BY DEF SuccessResponse
<1>2. Follows(a, s, s1)
  BY AnsweredPasses, AddFollows
<1> HIDE DEF s1
<1>3. Follows(a, s1, s2)
  BY <1>2, StateQuiet, QuietFollows, FollowsType DEF CheckStates, Answered
<1> HIDE DEF s2
<1>4. Follows(a, s2, on_check_complete(s2, p))
  BY <1>3, CheckCompleteQuiet, QuietFollows, FollowsType
<1>5. Follows(a, s, check_failed(s, p))
  BY FailedQuiet, QuietFollows DEF Answered
<1> QED
  BY <1>1, <1>2, <1>3, <1>4, <1>5, FollowsOn

LEMMA ConflictQuiet ==
    ASSUME NEW a \in Agents, NEW s \in Session(a), NEW t \in Tx(a), FromBase(t.pair),
           NEW s1, s1 = [s EXCEPT !.role = OtherRole(t.role)]
    PROVE  Quiet(a, s1, RoleConflictResponse(s, t))
<1> DEFINE s2 == check_set_state(s1, t.pair, "waiting")
           nominate == s.clist[t.pair].nominated \/ s.is_nominating
<1>1. RoleConflictResponse(s, t) = perform_check(s2, t.pair, nominate)
  BY DEF RoleConflictResponse
<1>2. t.pair \in Pairs(a)
  BY DEF Tx
<1>3. s1 \in Session(a)
  BY OtherRoleType DEF Session
<1>4. Quiet(a, s1, s2)
  BY <1>2, <1>3, StateQuiet DEF CheckStates
<1> HIDE DEF s2
<1>5. nominate \in BOOLEAN
  BY <1>2, CheckType DEF Session
<1> HIDE DEF nominate
<1>6. Quiet(a, s2, perform_check(s2, t.pair, nominate))
  BY <1>2, <1>4, <1>5, PerformQuiet, QuietType
<1> QED
  BY <1>1, <1>4, <1>6, QuietOn

-----------------------------------------------------------------------------
(* The invariant of two agents                                             *)

Fine(s) == Fit(s) /\ \A m \in s.resp : Answered(m.t.pair)

\* An agent that nothing of the other one's success has reached.
Untouched(s) ==
    /\ s.early_check = <<>> /\ \A m \in s.resp : m.code = "role_conflict"
    /\ \A c \in Comps : s.nominated_check[c] = NoPair

\* Agent a with session s against session u.  Requests in another role are left
\* from before a conflict that is settled; whoever gets a 487 gets it from an
\* agent in its final role; and while both have the same role no check succeeds.
Settled(a, s, u) ==
    /\ \A t \in s.sent : t.role # s.role => s.role = Due(a) /\ u.role = Due(Peer[a])
    /\ \A m \in s.resp : m.code = "role_conflict" => u.role = Due(Peer[a])
    /\ s.role = u.role => Untouched(s)

Safe == \A a \in Agents : Fine(ice[a]) /\ Settled(a, ice[a], ice[Peer[a]])

\* A handler that keeps the role.
Acts(s, r) ==
    /\ r.role = s.role /\ r.resp \subseteq s.resp
    /\ \A t \in r.sent : t \in s.sent \/ t.role = s.role
    /\ Fit(s) => Fit(r)

\* A handler of something else than a packet.
Calm(s, r) ==
    Acts(s, r) /\ r.early_check = s.early_check /\ r.nominated_check = s.nominated_check

\* The final roles differ.
LEMMA DueDiffers ==
    ASSUME NEW a \in Agents
    PROVE  /\ Due(a) \in Roles /\ Due(Peer[a]) \in Roles /\ Due(a) # Due(Peer[a])
           /\ \A x \in Roles : x # Due(a) => x = Due(Peer[a])
<1>1. Tie[a] \in Nat /\ Tie[Peer[a]] \in Nat /\ Tie[a] # Tie[Peer[a]] /\ Peer[Peer[a]] = a
  BY PeerType, OptionAssumption
<1> QED
  BY <1>1 DEF Due, Roles

\* Two agents in their final roles are settled.
LEMMA DueSettles ==
    ASSUME NEW a \in Agents, NEW s, NEW u, s.role = Due(a), u.role = Due(Peer[a])
    PROVE  Settled(a, s, u) /\ Settled(Peer[a], u, s)
<1>1. Peer[Peer[a]] = a
  BY PeerType
<1> QED
  BY <1>1, DueDiffers DEF Settled

\* Any handler of one agent keeps them settled when their roles differ, and one
\* of something else than a packet when they do not.
LEMMA ActSettles ==
    ASSUME NEW a \in Agents, NEW s, NEW r, NEW u, Acts(s, r),
           s.role = u.role => Calm(s, r),
           Settled(a, s, u), Settled(Peer[a], u, s)
    PROVE  Settled(a, r, u) /\ Settled(Peer[a], u, r)
  BY DEF Settled, Acts, Calm, Untouched

\* Discarding the responses to what is over.
LEMMA SettleFields ==
    ASSUME NEW a, NEW r \in Session(a)
    PROVE  /\ Settle(r).clist = r.clist /\ Settle(r).valid_list = r.valid_list
           /\ Settle(r).valid_check = r.valid_check
           /\ Settle(r).nominated_check = r.nominated_check
           /\ Settle(r).early_check = r.early_check /\ Settle(r).sent = r.sent
           /\ Settle(r).ice_status = r.ice_status
           /\ Settle(r).role = r.role /\ Settle(r).resp \subseteq r.resp
           /\ Fit(r) => Fit(Settle(r))
<1> DEFINE q == Settle(r)
<1>1. /\ q.early_check = r.early_check /\ q.role = r.role /\ q.resp \subseteq r.resp
      /\ SamePairs(r, q)
  BY SMTT(30) DEF Settle, Session, SamePairs, SameSelection
<1> HIDE DEF q
<1>2. Fit(r) => Fit(q)
  BY <1>1, SameFit
<1> QED
  BY <1>1, <1>2 DEF SamePairs, SameSelection, q

LEMMA FollowsActs ==
    ASSUME NEW a, NEW s, NEW r, Follows(a, s, r)
    PROVE  Acts(s, Settle(r)) /\ Settle(r).early_check = s.early_check
  BY SettleFields DEF Follows, Acts

LEMMA QuietCalm ==
    ASSUME NEW a, NEW s, NEW r, Quiet(a, s, r)
    PROVE  Calm(s, Settle(r))
<1>1. Follows(a, s, r) /\ r \in Session(a)
  BY QuietFollows, QuietType
<1> QED
  BY <1>1, FollowsActs, SettleFields DEF Quiet, Calm

\* A step of one agent.
LEMMA OneStep ==
    ASSUME Safe, IInv, NEW a \in Agents, NEW r, ice' = [ice EXCEPT ![a] = r], Fine(r),
           Settled(a, r, ice[Peer[a]]), Settled(Peer[a], ice[Peer[a]], r)
    PROVE  Safe'
<1>1. ice'[a] = r /\ \A c \in Agents : c # a => ice'[c] = ice[c]
  BY DEF IInv
<1>2. \A c \in Agents : Peer[c] \in Agents /\ Peer[c] # c /\ Peer[Peer[c]] = c
  BY PeerType
<1>3. ASSUME NEW c \in Agents
      PROVE  Fine(ice'[c]) /\ Settled(c, ice'[c], ice'[Peer[c]])
  <2>1. CASE c = a
    BY <1>1, <1>2, <2>1
  <2>2. CASE c = Peer[a]
    BY <1>1, <1>2, <2>2 DEF Safe
  <2>3. CASE c # a /\ c # Peer[a]
    <3>1. Peer[c] # a
      BY <1>2, <2>3
    <3> QED
      BY <1>1, <1>2, <2>3, <3>1 DEF Safe
  <2> QED
    BY <2>1, <2>2, <2>3
<1> QED
  BY <1>3 DEF Safe

LEMMA CalmSafe ==
    ASSUME Safe, IInv, NEW a \in Agents, NEW r, ice' = [ice EXCEPT ![a] = r],
           Calm(ice[a], r)
    PROVE  Safe'
<1>1. /\ Settled(a, ice[a], ice[Peer[a]]) /\ Settled(Peer[a], ice[Peer[a]], ice[a])
      /\ Fine(ice[a])
  BY PeerType DEF Safe
<1>2. Settled(a, r, ice[Peer[a]]) /\ Settled(Peer[a], ice[Peer[a]], r)
  BY <1>1, ActSettles DEF Calm
<1>3. Fine(r)
  BY <1>1 DEF Calm, Acts, Fine
<1> QED
  BY <1>2, <1>3, OneStep

\* Most actions are calls that select no pair.
LEMMA QuietSafe ==
    ASSUME Safe, IInv, NEW a \in Agents, NEW r, Becomes(a, r), Quiet(a, ice[a], r)
    PROVE  Safe'
<1>1. Calm(ice[a], Settle(r))
  BY QuietCalm
<1> QED
  BY <1>1, CalmSafe DEF Becomes

-----------------------------------------------------------------------------
(* The actions                                                             *)

\* The end of a session.
LEMMA DestroySafe ==
    ASSUME Safe, IInv, NEW a \in Agents, NEW r, Becomes(a, Destroyed(r)), Quiet(a, ice[a], r)
    PROVE  Safe'
<1> DEFINE q == Destroyed(r)
<1>1. r \in Session(a)
  BY QuietType
<1>2. /\ q.role = r.role /\ q.early_check = r.early_check /\ q.resp = {}
      /\ SamePairs(r, q)
  BY <1>1, SMTT(30) DEF Destroyed, Session, SamePairs, SameSelection
<1>6. q \in Session(a)
  <2>1. "none" \in Timers
    BY DEF Timers
  <2> QED
    BY <1>1, <2>1, ZenonT(30) DEF Destroyed, Session
<1> HIDE DEF q
<1>3. Follows(a, ice[a], r)
  BY QuietFollows
<1>4. Fit(r) => Fit(q)
  BY <1>2, SameFit
<1>5. Calm(ice[a], Settle(q))
  BY <1>2, <1>3, <1>4, <1>6, SettleFields DEF Follows, Quiet, Calm, Acts, SamePairs, SameSelection
<1> QED
  BY <1>5, CalmSafe DEF Becomes, q

LEMMA CreateSafe ==
    ASSUME Safe, IInv, NEW a \in Agents, CreateCheckList(a)
    PROVE  Safe'
<1> DEFINE s == ice[a]
           list == [p \in Pairs(a) |->
                       IF p \in InitialChecks(a)
                       THEN [s.clist[p] EXCEPT !.state = "frozen",
                                               !.prio = CALC_CHECK_PRIO(s.role, p)]
                       ELSE s.clist[p]]
           r == [s EXCEPT !.phase = "listed", !.rcand = LCand[Peer[a]], !.clist = list]
<1>1. Becomes(a, r) /\ s \in Session(a)
  BY DEF CreateCheckList, IInv, Sound
<1>2. r \in Session(a)
  BY <1>1, CreateType
<1>3. \A p \in InitialChecks(a) : FromBase(p)
  BY AddrAssumption, BaseAssumption DEF InitialChecks, FromBase
<1>4. \A p \in Pairs(a) : list[p].state # "absent" => FromBase(p) \/ p \in Listed(s)
  BY <1>1, <1>3 DEF Listed, Session
<1>5. r.clist = list /\ DOMAIN list = Pairs(a)
  <2> HIDE DEF s, list
  <2>1. r.clist = list
    BY <1>1 DEF Session
  <2> QED
    BY <2>1 DEF list
<1> HIDE DEF list, s
<1>6. /\ r.role = s.role /\ r.early_check = s.early_check /\ r.resp = s.resp
      /\ r.sent = s.sent /\ r.pending = s.pending /\ SameSelection(s, r)
  BY <1>1 DEF Session, SameSelection
<1> HIDE DEF r
<1>7. Quiet(a, s, r)
  BY <1>2, <1>4, <1>5, <1>6 DEF Quiet, Listed, SameSelection
<1> QED
  BY <1>1, <1>7, QuietSafe DEF s

LEMMA StartSafe ==
    ASSUME Safe, IInv, NEW a \in Agents, StartCheck(a)
    PROVE  Safe'
<1> DEFINE s == ice[a]
           lead == FirstOfFoundation(s)
           n == s.is_nominating \/ s.aggressive
           list == [p \in DOMAIN s.clist |->
                       IF p \in lead /\ s.clist[p].state = "frozen"
                       THEN [s.clist[p] EXCEPT !.state = "waiting"] ELSE s.clist[p]]
           r == [s EXCEPT !.phase = "replay", !.is_nominating = n, !.clist = list]
<1>1. Becomes(a, r) /\ s \in Session(a)
  BY DEF StartCheck, IInv, Sound
<1>2. r \in Session(a)
  BY <1>1, StartType
<1>3. \A p \in DOMAIN list : list[p].state # "absent" => p \in Listed(s)
  BY <1>1 DEF Listed, Session
<1> HIDE DEF list, n, s
<1>4. /\ r.role = s.role /\ r.early_check = s.early_check /\ r.resp = s.resp
      /\ r.sent = s.sent /\ r.pending = s.pending /\ r.clist = list
      /\ SameSelection(s, r)
  BY <1>1 DEF Session, SameSelection
<1> HIDE DEF r
<1>5. Quiet(a, s, r)
  BY <1>2, <1>3, <1>4 DEF Quiet, Listed, SameSelection
<1> QED
  BY <1>1, <1>5, QuietSafe DEF s

LEMMA StartDoneSafe ==
    ASSUME Safe, IInv, NEW a \in Agents, StartCheckDone(a)
    PROVE  Safe'
<1> DEFINE s == ice[a]
           s1 == [s EXCEPT !.phase = "started"]
           s2 == [s EXCEPT !.phase = "started", !.clist_timer = TRUE]
           s3 == Claim(s1, FALSE, "schedule")
<1>1. Becomes(a, IF s.clist_timer THEN Destroyed(s3) ELSE s2) /\ s \in Session(a)
  BY DEF StartCheckDone, IInv, Sound
<1> HIDE DEF s
<1>2. Quiet(a, s, s1) /\ Quiet(a, s, s2)
  <2>1. "started" \in Phases /\ s.clist_timer \in BOOLEAN
    BY <1>1 DEF Phases, Session
  <2>2. Quiet(a, s, s1) /\ s1 \in Session(a)
    BY <1>1, <2>1, TimerQuiet, QuietType
  <2> DEFINE q == [s1 EXCEPT !.clist_timer = TRUE]
  <2>3. s2 = q
    OBVIOUS
  <2> HIDE DEF s1
  <2>4. Quiet(a, s1, q)
    BY <2>2, TimerQuiet
  <2> HIDE DEF s2, q
  <2> QED
    BY <2>2, <2>3, <2>4, QuietOn
<1>3. Quiet(a, s, s3)
  <2> HIDE DEF s1
  <2>1. Quiet(a, s1, s3)
    BY <1>2, ClaimQuiet, QuietType DEF Asserts
  <2> QED
    BY <1>2, <2>1, QuietOn
<1> HIDE DEF s1, s2, s3
<1>4. CASE ~s.clist_timer
  BY <1>1, <1>2, <1>4, QuietSafe DEF s
<1>5. CASE s.clist_timer
  BY <1>1, <1>3, <1>5, DestroySafe DEF s
<1> QED
  BY <1>4, <1>5

LEMMA PeriodicSafe ==
    ASSUME Safe, IInv, NEW a \in Agents, PeriodicTimer(a)
    PROVE  Safe'
<1> DEFINE s == [ice[a] EXCEPT !.clist_timer = FALSE]
           InState(st) == {p \in Listed(s) : s.clist[p].state = st}
           nxt == IF InState("waiting") # {} THEN First(s, InState("waiting"))
                  ELSE First(s, InState("frozen"))
           s1 == perform_check(s, nxt, s.is_nominating)
           r == [s1 EXCEPT !.clist_timer = nxt \notin SendErr]
<1>1. /\ Becomes(a, IF nxt = NoPair THEN s ELSE r)
      /\ Fit(ice[a]) /\ ice[a] \in Session(a)
  <2>1. Becomes(a, IF nxt = NoPair THEN s ELSE r)
    BY DEF PeriodicTimer
  <2> QED
    BY <2>1 DEF Safe, Fine, IInv, Sound
<1>2. Quiet(a, ice[a], s)
  BY <1>1, TimerQuiet
<1> HIDE DEF s
<1>3. Fit(s)
  <2>1. Follows(a, ice[a], s)
    BY <1>1, <1>2, QuietFollows
  <2> QED
    BY <1>1, <2>1 DEF Follows
<1>4. s \in Session(a) /\ s.is_nominating \in BOOLEAN
  <2>1. s \in Session(a)
    BY <1>2, QuietType
  <2> QED
    BY <2>1, SMTT(30) DEF Session
<1>5. CASE nxt = NoPair
  BY <1>1, <1>2, <1>5, QuietSafe
<1>6. CASE nxt # NoPair
  <2>1. nxt \in Listed(s)
    BY <1>6, FirstType
  <2>2. nxt \in Pairs(a) /\ FromBase(nxt)
    BY <1>3, <1>4, <2>1, ListedType DEF Fit, Grounded
  <2> HIDE DEF nxt
  <2>3. Quiet(a, s, s1)
    BY <1>4, <2>2, PerformQuiet
  <2> HIDE DEF s1
  <2>4. Quiet(a, s1, r)
    BY <2>3, TimerQuiet, QuietType
  <2> HIDE DEF r
  <2>5. Quiet(a, ice[a], r) /\ Becomes(a, r)
    BY <1>1, <1>2, <1>6, <2>3, <2>4, QuietOn
  <2> QED
    BY <2>5, QuietSafe
<1> QED
  BY <1>5, <1>6

LEMMA TimerSafe ==
    ASSUME Safe, IInv, NEW a \in Agents, OnTimer(a)
    PROVE  Safe'
<1> DEFINE s == [ice[a] EXCEPT !.timer = "none"]
           next == IF s.ice_status = "ok" THEN "keep_alive" ELSE "none"
           n == s.completions + 1
           told == [s EXCEPT !.timer = next, !.completions = n]
<1>1. ice[a] \in Session(a)
  BY DEF IInv, Sound
<1>2. Quiet(a, ice[a], s)
  BY <1>1, TimerQuiet DEF Timers
<1> HIDE DEF s
<1>3. s \in Session(a)
  BY <1>2, QuietType
<1>4. CASE Becomes(a, on_ice_complete(s, "nom_timeout"))
  <2>1. Quiet(a, s, on_ice_complete(s, "nom_timeout"))
    BY <1>3, FinishQuiet DEF Outcomes
  <2> QED
    BY <1>2, <1>4, <2>1, QuietSafe, QuietOn
<1>5. CASE Becomes(a, start_nominated_check(s))
  BY <1>2, <1>3, <1>5, StartNominatedQuiet, QuietSafe, QuietOn
<1>6. CASE Becomes(a, told)
  <2>1. next \in Timers /\ n \in Nat
    BY <1>3 DEF Timers, Session
  <2> HIDE DEF next, n
  <2>2. told \in Session(a)
    BY <1>3, <2>1, ZenonT(30) DEF Session
  <2>3. /\ told.role = s.role /\ told.early_check = s.early_check /\ told.resp = s.resp
        /\ SamePairs(s, told)
    BY <1>3, SMTT(30) DEF Session, SamePairs, SameSelection
  <2> HIDE DEF told
  <2>4. Quiet(a, s, told)
    BY <2>2, <2>3, SameQuiet
  <2> QED
    BY <1>2, <1>6, <2>4, QuietSafe, QuietOn
<1> QED
  BY <1>4, <1>5, <1>6 DEF OnTimer, s

LEMMA KeepAliveSafe ==
    ASSUME Safe, IInv, NEW a \in Agents, KeepAlive(a)
    PROVE  Safe'
<1> DEFINE s == ice[a]
           n == NextComponent(s.comp_ka)
           s1 == [s EXCEPT !.comp_ka = n]
           r == Claim(s1, s.nominated_check[s.comp_ka] # NoPair, "keep_alive")
<1>1. Becomes(a, r)
  BY DEF KeepAlive
<1>2. s \in Session(a) /\ n \in Comps
  BY NextComponentType DEF IInv, Sound, Session
<1> HIDE DEF n, s
<1>3. Quiet(a, s, s1)
  <2>1. s1 \in Session(a)
    BY <1>2, ZenonT(30) DEF Session
  <2>2. /\ s1.role = s.role /\ s1.early_check = s.early_check /\ s1.resp = s.resp
        /\ SamePairs(s, s1)
    BY <1>2, SMTT(30) DEF Session, SamePairs, SameSelection
  <2> HIDE DEF s1
  <2> QED
    BY <2>1, <2>2, SameQuiet
<1> HIDE DEF s1
<1>4. Quiet(a, s1, r)
  BY <1>3, ClaimQuiet, QuietType DEF Asserts
<1> QED
  BY <1>1, <1>3, <1>4, QuietSafe, QuietOn DEF s

LEMMA TimeoutSafe ==
    ASSUME Safe, IInv, NEW a \in Agents, NEW t \in ice[a].pending, RequestTimeout(a, t)
    PROVE  Safe'
<1> DEFINE s == Complete(ice[a], t)
<1>1. Becomes(a, check_failed(s, t.pair)) /\ ice[a] \in Session(a)
  BY DEF RequestTimeout, IInv, Sound
<1>2. t \in Tx(a) /\ t.pair \in Pairs(a)
  BY <1>1 DEF Session, Tx
<1>3. Quiet(a, ice[a], s) /\ FromBase(t.pair)
  BY <1>1, <1>2, EndQuiet DEF Safe, Fine, Fit, Grounded
<1> HIDE DEF s
<1>4. Quiet(a, s, check_failed(s, t.pair))
  BY <1>2, <1>3, FailedQuiet, QuietType
<1> QED
  BY <1>1, <1>3, <1>4, QuietSafe, QuietOn

LEMMA ReplaySafe ==
    ASSUME Safe, IInv, NEW a \in Agents, ReplayEarlyCheck(a)
    PROVE  Safe'
<1> DEFINE s == ice[a]
           u == ice[Peer[a]]
           tail == Tail(s.early_check)
           s1 == [s EXCEPT !.early_check = tail]
           r == handle_incoming_check(s1, Head(s.early_check))
<1>1. Becomes(a, r) /\ s.early_check # <<>>
  BY DEF ReplayEarlyCheck
<1>2. /\ s \in Session(a) /\ Fine(s)
      /\ Settled(a, s, u) /\ Settled(Peer[a], u, s)
  BY PeerType DEF IInv, Sound, Safe
<1>3. Head(s.early_check) \in RxCheck(a) /\ tail \in Seq(RxCheck(a))
  <2>1. s.early_check \in Seq(RxCheck(a))
    BY <1>2 DEF Session
  <2> QED
    BY <1>1, <2>1
<1> HIDE DEF tail, s, u
<1>4. s1 \in Session(a)
  BY <1>2, <1>3, ZenonT(30) DEF Session
<1>5. /\ s1.role = s.role /\ s1.resp = s.resp /\ SamePairs(s, s1)
  BY <1>2, SMTT(30) DEF Session, SamePairs, SameSelection
<1> HIDE DEF s1
<1>6. Fit(s1)
  BY <1>2, <1>5, SameFit DEF Fine
<1>7. Follows(a, s1, r)
  BY <1>3, <1>4, <1>6, IncomingFollows
<1> HIDE DEF r
<1>8. Acts(s1, Settle(r))
  BY <1>7, FollowsActs
<1>9. Acts(s, Settle(r)) /\ Fine(Settle(r))
  BY <1>2, <1>5, <1>6, <1>8 DEF Acts, Fine, SamePairs, SameSelection
<1>10. s.role # u.role
  BY <1>1, <1>2 DEF Settled, Untouched
<1>11. Settled(a, Settle(r), u) /\ Settled(Peer[a], u, Settle(r))
  BY <1>2, <1>9, <1>10, ActSettles
<1> QED
  BY <1>1, <1>9, <1>11, OneStep DEF Becomes, u

LEMMA ResponseSafe ==
    ASSUME Safe, IInv, NEW a \in Agents, NEW m \in ice[a].resp, RecvResponse(a, m)
    PROVE  Safe'
<1> DEFINE s0 == ice[a]
           u == ice[Peer[a]]
           t == m.t
           p == t.pair
           s == Complete(s0, t)
<1>1. Becomes(a, IF m.code = "role_conflict" THEN RoleConflictResponse(s, t)
                 ELSE SuccessResponse(s, p))
  BY DEF RecvResponse
<1>2. /\ s0 \in Session(a) /\ Fine(s0) /\ m \in s0.resp
      /\ Settled(a, s0, u) /\ Settled(Peer[a], u, s0) /\ ConflictsDue(a, s0)
  BY PeerType DEF IInv, Sound, Safe
<1>3. m \in Response(a) /\ t \in Tx(a) /\ p \in Pairs(a) /\ Answered(p)
  BY <1>2 DEF Session, Response, Tx, Fine
<1>4. Quiet(a, s0, s)
  BY <1>2, <1>3, EndQuiet
<1>5. s \in Session(a) /\ Follows(a, s0, s)
  BY <1>4, QuietType, QuietFollows
<1> HIDE DEF s, s0, u, t
<1>6. CASE m.code = "role_conflict"
  <2> DEFINE x == OtherRole(t.role)
             s1 == [s EXCEPT !.role = x]
             r == RoleConflictResponse(s, t)
  <2>1. x = Due(a) /\ u.role = Due(Peer[a])
    BY <1>2, <1>6 DEF ConflictsDue, Settled, t
  <2>2. Quiet(a, s1, r)
    BY <1>3, <1>5, ConflictQuiet DEF Answered
  <2> HIDE DEF x
  <2>3. /\ s1.role = x /\ s1.resp = s.resp /\ SamePairs(s, s1)
    BY <1>5, SMTT(30) DEF Session, SamePairs, SameSelection
  <2> HIDE DEF s1, r
  <2>4. Fit(s1) /\ s1.resp = s0.resp
    <3>1. Fit(s)
      BY <1>2, <1>5 DEF Follows, Fine
    <3> QED
      BY <1>5, <2>3, <3>1, SameFit DEF Follows
  <2>5. Calm(s1, Settle(r))
    BY <2>2, QuietCalm
  <2>6. Fine(Settle(r)) /\ Settle(r).role = Due(a)
    BY <1>2, <2>1, <2>3, <2>4, <2>5 DEF Calm, Acts, Fine
  <2>7. Settled(a, Settle(r), u) /\ Settled(Peer[a], u, Settle(r))
    BY <2>1, <2>6, DueSettles
  <2> QED
    BY <1>1, <1>6, <2>6, <2>7, OneStep DEF Becomes, r, u
<1>7. CASE m.code # "role_conflict"
  <2> DEFINE r == SuccessResponse(s, p)
  <2>1. Follows(a, s, r)
    BY <1>3, <1>5, SuccessFollows
  <2> HIDE DEF r
  <2>2. Follows(a, s0, r)
    BY <1>5, <2>1, FollowsOn
  <2>3. Acts(s0, Settle(r))
    BY <2>2, FollowsActs
  <2>4. Fine(Settle(r))
    BY <1>2, <2>3 DEF Acts, Fine
  <2>5. s0.role # u.role
    BY <1>2, <1>7 DEF Settled, Untouched
  <2>6. Settled(a, Settle(r), u) /\ Settled(Peer[a], u, Settle(r))
    BY <1>2, <2>3, <2>5, ActSettles
  <2> QED
    BY <1>1, <1>7, <2>4, <2>6, OneStep DEF Becomes, r, u, s0
<1> QED
  BY <1>6, <1>7

\* What the sender of a request gets to know of it.
LEMMA RespondFine ==
    ASSUME NEW a \in Agents, ice[a] \in Session(a), Fine(ice[a]),
           NEW t \in ice[a].sent, t.pair \in Reach,
           NEW code \in {"success", "role_conflict"}
    PROVE  LET r == Respond(a, t, code)
           IN /\ Fine(r) /\ r.role = ice[a].role /\ r.sent = ice[a].sent
              /\ r.early_check = ice[a].early_check
              /\ r.nominated_check = ice[a].nominated_check
              /\ \A m \in r.resp : m \in ice[a].resp \/ m.code = code
<1> DEFINE s == ice[a]
           r == Respond(a, t, code)
           m == [t |-> t, code |-> code]
           q == [s EXCEPT !.resp = s.resp \cup {m}]
<1>1. CASE r = s
  BY <1>1
<1>2. CASE r = q /\ <<Base[t.pair[2]], SeenAs[t.pair]>> \in Reach
  <2>1. Answered(m.t.pair) /\ m.code = code
    BY <1>2 DEF Fine, Fit, Grounded, Answered
  <2> HIDE DEF m, s
  <2>2. /\ q.role = s.role /\ q.resp = s.resp \cup {m} /\ q.early_check = s.early_check
        /\ SamePairs(s, q)
    <3>1. s \in Session(a)
      BY DEF s
    <3> QED
      BY <3>1, SMTT(30) DEF Session, SamePairs, SameSelection
  <2> HIDE DEF q
  <2>3. Fit(s) => Fit(q)
    BY <2>2, SameFit
  <2>4. Fine(s)
    BY DEF s
  <2>5. Fine(q)
    BY <2>1, <2>2, <2>3, <2>4 DEF Fine
  <2> HIDE DEF r
  <2> QED
    BY <1>2, <2>1, <2>2, <2>5 DEF SamePairs, SameSelection, r, s
<1> QED
  BY <1>1, <1>2 DEF Respond

\* A request: what its receiver b does, and what its sender gets to know.
LEMMA RequestSafe ==
    ASSUME Safe, IInv, NEW b \in Agents, NEW t \in ice[Peer[b]].sent, RecvRequest(b, t)
    PROVE  Safe'
<1> DEFINE a == Peer[b]
           w == ice[a]
           u == ice[b]
           rcheck == [pair |-> <<t.pair[2], SeenAs[t.pair]>>, uc |-> t.uc]
           x == IF u.role = t.role THEN OtherRole(u.role) ELSE u.role
           s == [u EXCEPT !.role = x]
           early == Append(s.early_check, rcheck)
           kept == [s EXCEPT !.early_check = early]
           handled == handle_incoming_check(s, rcheck)
<1>1. a \in Agents /\ a # b /\ Peer[a] = b
  BY PeerType
<1>2. /\ u \in Session(b) /\ w \in Session(a) /\ Fine(u) /\ Fine(w)
      /\ Settled(a, w, u) /\ Settled(b, u, w)
  BY <1>1 DEF IInv, Sound, Safe
<1>3. t \in Tx(a) /\ t \in w.sent /\ t.role \in Roles /\ t.pair \in Reach
  BY <1>2 DEF Session, Tx, RecvRequest
<1>4. \/ /\ RejectsRole(b, t)
         /\ ice' = [ice EXCEPT ![a] = Respond(a, t, "role_conflict")]
      \/ /\ ~RejectsRole(b, t)
         /\ \/ ice' = [ice EXCEPT ![a] = Respond(a, t, "success"), ![b] = kept]
            \/ ice' = [ice EXCEPT ![a] = Respond(a, t, "success"), ![b] = Settle(handled)]
  BY DEF RecvRequest
<1>5. rcheck \in RxCheck(b)
  <2>1. t.pair \in Pairs(a) /\ t.uc \in BOOLEAN
    BY <1>3 DEF Tx
  <2>2. <<t.pair[2], SeenAs[t.pair]>> \in Pairs(b)
    BY <1>1, <2>1, SeenPair
  <2> QED
    BY <2>1, <2>2 DEF RxCheck
<1> HIDE DEF rcheck
<1>6. CASE RejectsRole(b, t)
  <2> DEFINE r == Respond(a, t, "role_conflict")
  <2>1. u.role = t.role /\ OtherRole(t.role) = Due(a)
    BY <1>1, <1>3, <1>6, TieBreaks DEF RejectsRole
  <2>2. u.role = Due(b)
    BY <1>1, <1>3, <2>1, DueDiffers DEF OtherRole, Roles
  <2>3. /\ Fine(r) /\ r.role = w.role /\ r.sent = w.sent
        /\ r.early_check = w.early_check /\ r.nominated_check = w.nominated_check
        /\ \A m \in r.resp : m \in w.resp \/ m.code = "role_conflict"
    BY <1>1, <1>2, <1>3, RespondFine
  <2> HIDE DEF r, u, w
  <2>4. Settled(a, r, u) /\ Settled(b, u, r)
    BY <1>1, <1>2, <2>2, <2>3 DEF Settled, Untouched
  <2>5. ice' = [ice EXCEPT ![a] = r]
    BY <1>4, <1>6 DEF r
  <2> HIDE DEF a
  <2> QED
    BY <1>1, <2>3, <2>4, <2>5, OneStep DEF u
<1>7. CASE ~RejectsRole(b, t)
  <2> DEFINE r == Respond(a, t, "success")
  <2>1. /\ Fine(r) /\ r.role = w.role /\ r.sent = w.sent
        /\ \A m \in r.resp : m \in w.resp \/ m.code = "success"
    BY <1>1, <1>2, <1>3, RespondFine
  <2>2. \/ x = Due(b) /\ w.role = Due(a)
        \/ x = u.role /\ w.role # u.role
    <3>1. CASE u.role = t.role
      <4>1. OtherRole(u.role) = Due(b) /\ u.role # Due(b)
        BY <1>3, <1>7, <3>1, TieBreaks DEF OtherRole, Roles
      <4>2. w.role = Due(a)
        <5>1. w.role \in Roles /\ u.role = Due(a)
          BY <1>1, <1>2, <1>3, <3>1, <4>1, DueDiffers DEF Session
        <5> QED
          BY <1>2, <1>3, <3>1, <5>1 DEF Settled
      <4> QED
        BY <3>1, <4>1, <4>2
    <3>2. CASE u.role # t.role
      <4>1. w.role # u.role
        BY <1>1, <1>2, <1>3, <3>2, DueDiffers DEF Settled
      <4> QED
        BY <3>2, <4>1
    <3> QED
      BY <3>1, <3>2
  <2>3. x \in Roles
    BY <1>2, OtherRoleType DEF Session
  <2> HIDE DEF r, u, w, x
  <2>4. /\ s \in Session(b) /\ s.role = x /\ s.resp = u.resp
        /\ s.early_check = u.early_check /\ SamePairs(u, s)
    <3>1. s \in Session(b)
      BY <1>2, <2>3, ZenonT(30) DEF Session
    <3>2. u \in Session(b)
      BY <1>2
    <3>3. /\ s.role = x /\ s.resp = u.resp /\ s.early_check = u.early_check
          /\ SamePairs(u, s)
      BY <3>2, SMTT(30) DEF Session, SamePairs, SameSelection
    <3> QED
      BY <3>1, <3>3
  <2> HIDE DEF s
  <2>5. Fit(s)
    BY <1>2, <2>4, SameFit DEF Fine
  <2>6. \A q \in {kept, Settle(handled)} : Acts(s, q)
    <3>1. Acts(s, kept)
      <4>1. /\ kept.role = s.role /\ kept.resp = s.resp /\ SamePairs(s, kept)
        <5> HIDE DEF early
        <5> QED
          BY <2>4, SMTT(30) DEF Session, SamePairs, SameSelection
      <4> HIDE DEF kept
      <4> QED
        BY <4>1, SameFit DEF Acts, SamePairs, SameSelection
    <3>2. Acts(s, Settle(handled))
      <4>1. Follows(b, s, handled)
        BY <1>5, <2>4, <2>5, IncomingFollows
      <4> QED
        BY <4>1, FollowsActs
    <3> QED
      BY <3>1, <3>2
  <2>7. PICK q \in {kept, Settle(handled)} : ice' = [ice EXCEPT ![a] = r, ![b] = q]
    BY <1>4, <1>7 DEF r
  <2>8. Fine(q) /\ q.role = x /\ \A m \in q.resp : m \in u.resp
    BY <1>2, <2>4, <2>5, <2>6 DEF Acts, Fine
  <2>9. Settled(a, r, q) /\ Settled(b, q, r)
    <3>1. CASE x = Due(b) /\ w.role = Due(a)
      BY <1>1, <2>1, <2>8, <3>1, DueSettles
    <3>2. CASE x = u.role /\ w.role # u.role
      <4>1. \A y \in q.sent : y \in u.sent \/ y.role = u.role
        BY <2>4, <2>6, <3>2 DEF Acts, SamePairs, SameSelection
      <4>2. \A m \in r.resp : m.code = "role_conflict" => m \in w.resp
        BY <2>1
      <4> QED
        BY <1>1, <1>2, <2>1, <2>8, <3>2, <4>1, <4>2 DEF Settled
    <3> QED
      BY <2>2, <3>1, <3>2
  <2>10. /\ ice'[a] = r /\ ice'[b] = q
         /\ \A c \in Agents : c # a /\ c # b => ice'[c] = ice[c]
    BY <1>1, <2>7 DEF IInv
  <2> HIDE DEF a
  <2>11. ASSUME NEW c \in Agents
         PROVE  Fine(ice'[c]) /\ Settled(c, ice'[c], ice'[Peer[c]])
    <3>1. CASE c = a
      BY <1>1, <2>1, <2>9, <2>10, <3>1
    <3>2. CASE c = b
      BY <2>8, <2>9, <2>10, <3>2 DEF a
    <3>3. CASE c # a /\ c # b
      <4>1. Peer[c] \in Agents /\ Peer[c] # a /\ Peer[c] # b
        BY <1>1, <3>3, PeerType DEF a
      <4> QED
        BY <2>10, <3>3, <4>1 DEF Safe
    <3> QED
      BY <3>1, <3>2, <3>3
  <2> QED
    BY <2>11 DEF Safe
<1> QED
  BY <1>6, <1>7

-----------------------------------------------------------------------------
(* The invariant                                                           *)

LEMMA InitiallySafe == Init => Safe
<1> SUFFICES ASSUME Init PROVE Safe
  OBVIOUS
<1>1. PICK role \in InitRoles, aggressive \in Aggressive :
          ice = [a \in Agents |-> NewSession(a, role[a], aggressive[a])]
  BY DEF Init
<1>2. ASSUME NEW a \in Agents
      PROVE  /\ ice[a].resp = {} /\ ice[a].sent = {} /\ ice[a].pending = {}
             /\ ice[a].early_check = <<>> /\ ice[a].ice_status = "none"
             /\ \A c \in Comps : /\ ice[a].nominated_check[c] = NoPair
                                 /\ ice[a].valid_check[c] = NoPair
             /\ \A p \in DOMAIN ice[a].valid_list : ~ice[a].valid_list[p].listed
             /\ \A p \in DOMAIN ice[a].clist : ice[a].clist[p].state = "absent"
  BY <1>1 DEF NewSession
<1>3. ASSUME NEW a \in Agents PROVE Fine(ice[a])
  BY <1>2 DEF Fine, Fit, Covered, Grounded, Listed
<1>4. ASSUME NEW a \in Agents PROVE Settled(a, ice[a], ice[Peer[a]])
  BY <1>2 DEF Settled, Untouched
<1> QED
  BY <1>3, <1>4 DEF Safe

LEMMA SafeStep == Safe /\ IInv /\ [Next]_vars => Safe'
<1> SUFFICES ASSUME Safe, IInv, [Next]_vars PROVE Safe'
  OBVIOUS
<1>1. ASSUME NEW a \in Agents, Destroy(a) PROVE Safe'
  <2>1. Becomes(a, Destroyed(ice[a])) /\ Quiet(a, ice[a], ice[a])
    BY <1>1, QuietItself DEF Destroy, IInv, Sound
  <2> QED
    BY <2>1, DestroySafe
<1>2. CASE Next
  BY <1>1, <1>2, CreateSafe, StartSafe, ReplaySafe, StartDoneSafe, PeriodicSafe, TimerSafe,
     KeepAliveSafe, RequestSafe, ResponseSafe, TimeoutSafe DEF Next
<1>3. CASE UNCHANGED vars
  BY <1>3 DEF Safe, vars
<1> QED
  BY <1>2, <1>3

LEMMA SafeInvariant == Spec => []Safe
  BY Invariant, InitiallySafe, SafeStep, PTL DEF Spec

-----------------------------------------------------------------------------
(* The theorems                                                            *)

\* on_ice_complete reports success only when every component has a nominated
\* pair, and a valid one for its data.
THEOREM Success_covers == Spec => []SuccessCoversComponents
<1>1. Safe => SuccessCoversComponents
  BY DEF Safe, Fine, Fit, Covered, AllNominated, SuccessCoversComponents, DataPair
<1> QED
  BY <1>1, SafeInvariant, PTL

\* pj_ice_sess_send_data uses a pair only after a request got over it and its
\* answer came back, and then the mapped address and not the one behind a NAT.
THEOREM Data_pair_works == Spec => []DataPairWorks
<1>1. Safe => DataPairWorks
  BY DEF Safe, Fine, Fit, Grounded, Passes, DataPairWorks, DataPair
<1> QED
  BY <1>1, SafeInvariant, PTL

\* However requests and 487 responses are lost, repeated or late, two agents
\* that both report success do so in different roles.
THEOREM Completed_roles_differ == Spec => []CompletedRolesDiffer
<1>1. Safe => CompletedRolesDiffer
  <2> SUFFICES ASSUME Safe, NEW a \in Agents, ice[a].ice_status = "ok"
               PROVE  ice[a].role # ice[Peer[a]].role
    BY DEF CompletedRolesDiffer
  <2>1. 1 \in Comps
    BY CompAssumption DEF Comps
  <2>2. ice[a].nominated_check[1] # NoPair
    BY <2>1 DEF Safe, Fine, Fit, Covered, AllNominated
  <2> QED
    BY <2>1, <2>2 DEF Safe, Settled, Untouched
<1> QED
  BY <1>1, SafeInvariant, PTL

-----------------------------------------------------------------------------
(* Checks and the transactions that work for them                          *)

\* An agent has one socket per component and transport, as with one host
\* candidate per component.
OneSocket ==
    \A x, y \in Addr :
        (Owner[x] = Owner[y] /\ CompOf[x] = CompOf[y] /\ Tp[x] = Tp[y]) => Base[x] = Base[y]

\* The check a valid pair is the result of.
Origin(v) == <<Base[v[1]], v[2]>>

\* start_nominated_check may still be called.
Renewable(s) == ~s.is_nominating \/ s.timer = "start_nominated"

\* Nomination has started, and is scheduled all the same.
Doubled(s) == s.is_nominating /\ s.timer = "start_nominated"

InProgress(s, p) == s.clist[p].state = "in_progress"
Awaits(s, p) == \E t \in s.pending : t.pair = p

\* Each transaction works for the check whose transmit data it is, alone.
Workers(s) ==
    /\ \A t \in s.pending : InProgress(s, t.pair) /\ s.clist[t.pair].tdata = t.n /\ t.n # 0
    /\ \A t, u \in s.pending : t.pair = u.pair => t = u

\* A valid pair comes from a check that has succeeded, and has not been put
\* back before nomination starts.
Proven(s) ==
    \A v \in DOMAIN s.valid_list : s.valid_list[v].listed =>
        /\ s.clist[Origin(v)].state # "absent"
        /\ Renewable(s) => s.clist[Origin(v)].state = "succeeded"
        /\ s.valid_list[v].nominated => s.clist[Origin(v)].nominated

\* What is selected of a set of valid pairs is the best of them.
Selects(s, sel, S) == IF S = {} THEN sel = NoPair ELSE sel \in S /\ IsBest(s, S, sel)
InComp(s, c) == {v \in DOMAIN s.valid_list : s.valid_list[v].listed /\ CompOf[v[1]] = c}
Marked(s, c) == {v \in InComp(s, c) : s.valid_list[v].nominated}
Selected(s) ==
    \A c \in Comps : /\ Selects(s, s.valid_check[c], InComp(s, c))
                     /\ Selects(s, s.nominated_check[c], Marked(s, c))

\* Nomination is scheduled, and the session kept alive, for a reason.
Timed(s) ==
    /\ s.timer = "start_nominated" => AllValid(s)
    /\ s.timer = "keep_alive" => s.ice_status = "ok"

\* What holds between two calls, and while the transaction of p is over but p
\* has not been given its new state.
Tended(s) ==
    /\ Workers(s) /\ Proven(s) /\ Selected(s) /\ Timed(s)
    /\ \A p \in DOMAIN s.clist : InProgress(s, p) => Awaits(s, p)
Open(s, p) ==
    /\ Workers(s) /\ Proven(s) /\ Selected(s) /\ Timed(s)
    /\ \A q \in DOMAIN s.clist : InProgress(s, q) /\ q # p => Awaits(s, q)
    /\ InProgress(s, p) /\ ~Awaits(s, p)

\* Assertions that are not claimed to hold, here.
Tolerated == WindowAsserts \cup {"nominated_check"}

\* A call that makes r of s leaves what is finished, and takes no check off the
\* list or its nomination back.
Steady(s, r) ==
    /\ \A p \in DOMAIN s.clist :
          /\ s.clist[p].state \in Finished => r.clist[p].state = s.clist[p].state
          /\ s.clist[p].state # "absent" =>
                /\ r.clist[p].state # "absent"
                /\ s.clist[p].nominated => r.clist[p].nominated
    /\ r.phase = s.phase /\ r.broken \subseteq s.broken \cup Tolerated
    /\ Renewable(r) => Renewable(s)
    /\ r.aggressive = s.aggressive /\ (Doubled(r) => Doubled(s))

\* A call that may also start nomination, at its end.
Tends(s, r) ==
    /\ \A p \in DOMAIN s.clist :
          s.clist[p].state \in Finished /\ r.clist[p].state # s.clist[p].state =>
              /\ s.clist[p].state = "succeeded" /\ r.clist[p].state = "waiting"
              /\ Renewable(s) /\ r.is_nominating
    /\ r.phase = s.phase /\ r.broken \subseteq s.broken \cup Tolerated
    /\ r.aggressive = s.aggressive /\ (Doubled(r) => Doubled(s))
    /\ Tended(r)

\* The selected pairs, the timer and the phase stay.
SameRest(s, r) ==
    /\ SameSelection(s, r)
    /\ r.phase = s.phase /\ r.timer = s.timer /\ r.is_nominating = s.is_nominating
    /\ r.aggressive = s.aggressive

LEMMA SteadyItself == ASSUME NEW s PROVE Steady(s, s)
  BY DEF Steady

LEMMA SteadyOn ==
    ASSUME NEW a, NEW s \in Session(a), NEW q \in Session(a), NEW r,
           Steady(s, q), Steady(q, r)
    PROVE  Steady(s, r)
<1>1. DOMAIN s.clist = DOMAIN q.clist
  BY DEF Session
<1> QED
  BY <1>1 DEF Steady

LEMMA SteadyTends ==
    ASSUME NEW a, NEW s \in Session(a), NEW q \in Session(a), NEW r,
           Steady(s, q), Tends(q, r)
    PROVE  Tends(s, r)
<1>1. DOMAIN s.clist = DOMAIN q.clist
  BY DEF Session
<1> QED
  BY <1>1 DEF Steady, Tends

LEMMA TendedTends ==
    ASSUME NEW s, NEW r, Steady(s, r), Tended(r)
    PROVE  Tends(s, r)
  BY DEF Steady, Tends

\* The origin of a valid pair is a pair.
LEMMA OriginType ==
    ASSUME NEW a \in Agents, NEW v \in Pairs(a)
    PROVE  Origin(v) \in Pairs(a)
<1>1. Base[v[1]] \in Addr /\ Owner[Base[v[1]]] = a /\ CompOf[Base[v[1]]] = CompOf[v[2]]
  BY PairEnds, AddrAssumption
<1> QED
  BY <1>1, PairEnds, PairOf DEF Origin

\* The valid pairs stay proven.
LEMMA ProvenOn ==
    ASSUME NEW a \in Agents, NEW s \in Session(a), NEW r, Proven(s),
           r.valid_list = s.valid_list, Steady(s, r)
    PROVE  Proven(r)
<1>1. DOMAIN s.clist = Pairs(a) /\ DOMAIN s.valid_list = Pairs(a)
  BY DEF Session
<1>2. ASSUME NEW v \in Pairs(a), s.valid_list[v].listed
      PROVE  /\ r.clist[Origin(v)].state # "absent"
             /\ Renewable(r) => r.clist[Origin(v)].state = "succeeded"
             /\ s.valid_list[v].nominated => r.clist[Origin(v)].nominated
  <2>1. Origin(v) \in Pairs(a)
    BY OriginType
  <2> QED
    BY <1>1, <1>2, <2>1 DEF Proven, Steady, Finished
<1> QED
  BY <1>1, <1>2 DEF Proven

LEMMA SelectedOn ==
    ASSUME NEW s, NEW r, Selected(s),
           r.valid_list = s.valid_list, r.valid_check = s.valid_check,
           r.nominated_check = s.nominated_check
    PROVE  Selected(r)
  BY DEF Selected, Selects, InComp, Marked, IsBest, Higher

\* The checks and transactions stay, and the timer runs on or may be set so.
Rearms(s, r) ==
    /\ r.clist = s.clist /\ r.pending = s.pending
    /\ r.valid_list = s.valid_list /\ r.valid_check = s.valid_check
    /\ r.nominated_check = s.nominated_check /\ r.phase = s.phase
    /\ r.broken \subseteq s.broken \cup Tolerated
    /\ s.is_nominating => r.is_nominating
    /\ r.timer = "start_nominated" => s.timer = "start_nominated" \/ (AllValid(s) /\ ~s.is_nominating)
    /\ r.timer = "keep_alive" => r.ice_status = "ok"
    /\ r.aggressive = s.aggressive /\ (Doubled(r) => Doubled(s))

LEMMA RearmSteady ==
    ASSUME NEW a \in Agents, NEW s \in Session(a), NEW r, Rearms(s, r)
    PROVE  /\ Steady(s, r) /\ (Tended(s) => Tended(r))
           /\ \A p : Open(s, p) => Open(r, p)
<1>1. Steady(s, r)
  BY DEF Rearms, Steady, Renewable
<1>2. Workers(s) => Workers(r)
  BY DEF Rearms, Workers, InProgress
<1>3. Timed(s) => Timed(r)
  BY DEF Rearms, Timed, AllValid
<1>4. Proven(s) => Proven(r)
  BY <1>1, ProvenOn DEF Rearms
<1>5. Selected(s) => Selected(r)
  BY SelectedOn DEF Rearms
<1>6. Tended(s) => Tended(r)
  BY <1>2, <1>3, <1>4, <1>5 DEF Tended, Rearms, InProgress, Awaits
<1>7. ASSUME NEW p, Open(s, p) PROVE Open(r, p)
  BY <1>2, <1>3, <1>4, <1>5, <1>7 DEF Open, Rearms, InProgress, Awaits
<1> QED
  BY <1>1, <1>6, <1>7

LEMMA ClaimSteady ==
    ASSUME NEW a \in Agents, NEW s \in Session(a), NEW holds, NEW x \in Asserts,
           holds \/ x \in Tolerated
    PROVE  LET r == Claim(s, holds, x)
           IN /\ Steady(s, r) /\ (Tended(s) => Tended(r))
              /\ \A p : Open(s, p) => Open(r, p)
<1> DEFINE r == Claim(s, holds, x)
<1>1. /\ SameRest(s, r) /\ r.clist = s.clist /\ r.pending = s.pending
      /\ r.broken \subseteq s.broken \cup Tolerated
  BY SMTT(30) DEF Claim, Session, SameRest, SameSelection
<1> HIDE DEF r
<1>2. (Tended(s) \/ \E p : Open(s, p)) => Rearms(s, r)
  BY <1>1 DEF SameRest, SameSelection, Rearms, Doubled, Tended, Open, Timed
<1>3. Steady(s, r)
  BY <1>1 DEF Steady, SameRest, Renewable, Doubled
<1> QED
  BY <1>2, <1>3, RearmSteady DEF r

LEMMA FinishSteady ==
    ASSUME NEW a \in Agents, NEW s \in Session(a), NEW outcome \in Outcomes, Tended(s)
    PROVE  LET r == on_ice_complete(s, outcome) IN Steady(s, r) /\ Tended(r)
<1> DEFINE r == on_ice_complete(s, outcome)
<1>1. Rearms(s, r)
  BY SMTT(30) DEF on_ice_complete, Session, Rearms, Doubled, Tended, Timed
<1> HIDE DEF r
<1> QED
  BY <1>1, RearmSteady DEF r

-----------------------------------------------------------------------------
(* The functions of the code, on a tended session                          *)

\* The check p is given a state, others keep theirs.
LEMMA StateFields ==
    ASSUME NEW a \in Agents, NEW s \in Session(a), NEW p \in Pairs(a), NEW st \in CheckStates,
           s.clist[p].state \notin Finished,
           NEW r, r = check_set_state(s, p, st)
    PROVE  /\ SameRest(s, r) /\ r.pending = s.pending /\ r.broken = s.broken
           /\ r.clist[p].state = st
           /\ \A q \in Pairs(a) :
                 /\ q # p => r.clist[q].state = s.clist[q].state
                 /\ r.clist[q].tdata = s.clist[q].tdata
                 /\ r.clist[q].nominated = s.clist[q].nominated
<1>1. SameRest(s, r) /\ r.pending = s.pending /\ r.broken = s.broken
  BY SMTT(30) DEF check_set_state, Claim, Session, SameRest, SameSelection
<1>2. \A q \in Pairs(a) : s.clist[q] \in Check
  BY CheckType
<1>3. r.clist = [s.clist EXCEPT ![p] = [s.clist[p] EXCEPT !.state = st]]
  BY SMTT(30) DEF check_set_state, Claim, Session
<1>4. r.clist[p].state = st
  BY <1>2, <1>3 DEF Session, Check
<1>5. \A q \in Pairs(a) :
          /\ q # p => r.clist[q].state = s.clist[q].state
          /\ r.clist[q].tdata = s.clist[q].tdata
          /\ r.clist[q].nominated = s.clist[q].nominated
  BY <1>2, <1>3 DEF Session, Check
<1> QED
  BY <1>1, <1>4, <1>5

\* The check of a transaction that is over gets its state.
LEMMA CloseTended ==
    ASSUME NEW a \in Agents, NEW s \in Session(a), NEW p \in Pairs(a),
           NEW st \in {"waiting", "succeeded", "failed"}, Open(s, p)
    PROVE  LET r == check_set_state(s, p, st) IN Steady(s, r) /\ Tended(r)
<1> DEFINE r == check_set_state(s, p, st)
<1>1. st \in CheckStates /\ s.clist[p].state \notin Finished /\ s.clist[p].state = "in_progress"
  BY DEF CheckStates, Open, InProgress, Finished
<1>2. r \in Session(a)
  BY <1>1, SetStateKeeps, KeepsType
<1>3. /\ SameRest(s, r) /\ r.pending = s.pending /\ r.broken = s.broken
      /\ r.clist[p].state = st
      /\ \A q \in Pairs(a) :
            /\ q # p => r.clist[q].state = s.clist[q].state
            /\ r.clist[q].tdata = s.clist[q].tdata
            /\ r.clist[q].nominated = s.clist[q].nominated
  BY <1>1, StateFields
<1> HIDE DEF r
<1>4. DOMAIN s.clist = Pairs(a) /\ DOMAIN r.clist = Pairs(a)
  BY <1>2 DEF Session
<1>5. Steady(s, r)
  BY <1>1, <1>3, <1>4 DEF Steady, SameRest, Renewable, Doubled
<1>6. Workers(r)
  <2>1. \A t \in s.pending : t.pair \in Pairs(a) /\ t.pair # p
    BY DEF Open, Awaits, Session, Tx
  <2> QED
    BY <1>3, <2>1 DEF Open, Workers, InProgress
<1>7. Proven(r)
  BY <1>3, <1>5, ProvenOn DEF Open, SameRest, SameSelection
<1>8. Selected(r) /\ Timed(r)
  BY <1>3, SelectedOn DEF Open, SameRest, SameSelection, Timed, AllValid
<1>9. \A q \in Pairs(a) : InProgress(r, q) => Awaits(r, q)
  BY <1>3, <1>4 DEF Open, InProgress, Awaits
<1> QED
  BY <1>4, <1>5, <1>6, <1>7, <1>8, <1>9 DEF Tended, r

\* What perform_check does to a check that is not finished.
LEMMA PerformFields ==
    ASSUME NEW a \in Agents, NEW s \in Session(a), NEW p \in Pairs(a), NEW nominate \in BOOLEAN,
           s.clist[p].state \notin Finished,
           NEW r, r = perform_check(s, p, nominate)
    PROVE  /\ SameRest(s, r) /\ r.broken = s.broken
           /\ \A q \in Pairs(a) : q # p => r.clist[q] = s.clist[q]
           /\ s.clist[p].nominated => r.clist[p].nominated
           /\ \/ r.clist[p].state = s.clist[p].state /\ r.pending = s.pending
              \/ /\ r.clist[p].state = "in_progress"
                 /\ \E t \in Tx(a) : /\ r.pending = s.pending \cup {t} /\ t.pair = p
                                     /\ t.n # 0 /\ r.clist[p].tdata = t.n
<1> DEFINE uc == UseCandidate(s, nominate)
           c == s.clist[p]
           t == [pair |-> p, n |-> c.tx + 1, role |-> s.role, uc |-> uc]
           f == [s EXCEPT !.clist[p].nominated = @ \/ uc]
           g == [f EXCEPT !.clist[p].tdata = t.n, !.clist[p].tx = t.n,
                          !.pending = @ \cup {t}, !.sent = @ \cup {t}]
<1>1. c \in Check /\ uc \in BOOLEAN /\ t \in Tx(a) /\ t.n # 0 /\ t.pair = p /\ t.n = c.tx + 1
  BY CheckType, SMTT(30) DEF UseCandidate, Tx, Session
<1>2. r = IF p \in SendErr THEN [f EXCEPT !.clist[p].tdata = 0]
          ELSE check_set_state(g, p, "in_progress")
  BY DEF perform_check
<1>3. SameRest(s, r) /\ r.broken = s.broken
  BY SMTT(30) DEF perform_check, check_set_state, Claim, Session, SameRest, SameSelection, Check
<1>4. \A q \in Pairs(a) : q # p => r.clist[q] = s.clist[q]
  BY SMTT(30) DEF perform_check, check_set_state, Claim, Session
<1> HIDE DEF uc, t
<1>6. CASE p \in SendErr
  <2>1. r.clist[p].state = s.clist[p].state /\ r.pending = s.pending
    BY <1>1, <1>2, <1>6, SMTT(30) DEF Session, Check
  <2>2. s.clist[p].nominated => r.clist[p].nominated
    BY <1>1, <1>2, <1>6, SMTT(30) DEF Session, Check
  <2> QED
    BY <1>3, <1>4, <2>1, <2>2
<1>7. CASE p \notin SendErr
  <2>1. f \in Session(a) /\ f.pending = s.pending
    <3>1. [s.clist[p] EXCEPT !.nominated = @ \/ uc] \in Check
      BY <1>1, CheckType
    <3>2. f = [s EXCEPT !.clist[p] = [s.clist[p] EXCEPT !.nominated = @ \/ uc]]
      OBVIOUS
    <3>3. f.pending = s.pending
      BY SMTT(30) DEF Session
    <3> HIDE DEF f
    <3> QED
      BY <3>1, <3>2, <3>3, KeepsCheck, KeepsType
  <2>2. f.clist[p] \in Check
    BY <2>1, CheckType
  <2>6. s.clist[p].nominated => f.clist[p].nominated
    BY <1>1, SMTT(30) DEF Session, Check
  <2> HIDE DEF f
  <2>3. r = check_set_state(g, p, "in_progress")
    BY <1>2, <1>7
  <2>4. r.clist[p].state = "in_progress" /\ r.clist[p].tdata = t.n
    BY <2>1, <2>2, <2>3, SMTT(30) DEF check_set_state, Claim, Session, Check
  <2>5. r.pending = f.pending \cup {t}
    BY <2>1, <2>3, SMTT(30) DEF check_set_state, Claim, Session
  <2>7. r.clist[p].nominated = f.clist[p].nominated
    BY <2>1, <2>2, <2>3, SMTT(30) DEF check_set_state, Claim, Session, Check
  <2> QED
    BY <1>1, <1>3, <1>4, <2>1, <2>4, <2>5, <2>6, <2>7
<1> QED
  BY <1>6, <1>7

\* A check that waits is sent.
LEMMA PerformTended ==
    ASSUME NEW a \in Agents, NEW s \in Session(a), NEW p \in Pairs(a), NEW nominate \in BOOLEAN,
           s.clist[p].state \in {"frozen", "waiting"}, Tended(s)
    PROVE  LET r == perform_check(s, p, nominate) IN Steady(s, r) /\ Tended(r)
<1> DEFINE r == perform_check(s, p, nominate)
<1>1. s.clist[p].state \notin Finished /\ s.clist[p].state \notin {"absent", "in_progress"}
  BY DEF Finished
<1>2. r \in Session(a)
  BY PerformKeeps, KeepsType
<1>3. /\ SameRest(s, r) /\ r.broken = s.broken
      /\ \A q \in Pairs(a) : q # p => r.clist[q] = s.clist[q]
      /\ s.clist[p].nominated => r.clist[p].nominated
      /\ \/ r.clist[p].state = s.clist[p].state /\ r.pending = s.pending
         \/ /\ r.clist[p].state = "in_progress"
            /\ \E t \in Tx(a) : /\ r.pending = s.pending \cup {t} /\ t.pair = p
                                /\ t.n # 0 /\ r.clist[p].tdata = t.n
  BY <1>1, PerformFields
<1> HIDE DEF r
<1>4. DOMAIN s.clist = Pairs(a) /\ DOMAIN r.clist = Pairs(a)
  BY <1>2 DEF Session
<1>5. Steady(s, r)
  BY <1>1, <1>3, <1>4 DEF Steady, SameRest, Renewable, Doubled
<1>6. \A t \in s.pending : t.pair \in Pairs(a) /\ t.pair # p
  BY <1>1 DEF Tended, Workers, InProgress, Session, Tx
<1>7. Workers(r)
  BY <1>3, <1>6 DEF Tended, Workers, InProgress
<1>8. Proven(r)
  BY <1>3, <1>5, ProvenOn DEF Tended, SameRest, SameSelection
<1>9. Selected(r) /\ Timed(r)
  BY <1>3, SelectedOn DEF Tended, SameRest, SameSelection, Timed, AllValid
<1>10. \A q \in Pairs(a) : InProgress(r, q) => Awaits(r, q)
  BY <1>1, <1>3, <1>4 DEF Tended, InProgress, Awaits
<1> QED
  BY <1>4, <1>5, <1>7, <1>8, <1>9, <1>10 DEF Tended, r

LEMMA UnfreezeTended ==
    ASSUME NEW a \in Agents, NEW s \in Session(a), NEW p \in Pairs(a), Tended(s)
    PROVE  LET r == Unfreeze(s, p) IN Steady(s, r) /\ Tended(r)
<1> DEFINE r == Unfreeze(s, p)
<1>1. r \in Session(a)
  BY UnfreezeKeeps, KeepsType
<1>2. SameRest(s, r) /\ r.broken = s.broken /\ r.pending = s.pending
  BY SMTT(30) DEF Unfreeze, Session, SameRest, SameSelection
<1>3. \A q \in Pairs(a) :
          /\ s.clist[q].state # "frozen" => r.clist[q] = s.clist[q]
          /\ s.clist[q].state = "frozen" => r.clist[q].state \in {"frozen", "waiting"}
          /\ r.clist[q].nominated = s.clist[q].nominated
  BY SMTT(30) DEF Unfreeze, Session, Check
<1> HIDE DEF r
<1>4. DOMAIN s.clist = Pairs(a) /\ DOMAIN r.clist = Pairs(a)
  BY <1>1 DEF Session
<1>5. Steady(s, r)
  BY <1>2, <1>3, <1>4 DEF Steady, SameRest, Renewable, Doubled, Finished
<1>6. \A t \in s.pending : t.pair \in Pairs(a)
  BY DEF Session, Tx
<1>7. Workers(r)
  BY <1>2, <1>3, <1>6 DEF Tended, Workers, InProgress
<1>8. Proven(r)
  BY <1>2, <1>5, ProvenOn DEF Tended, SameRest, SameSelection
<1>9. Selected(r) /\ Timed(r)
  BY <1>2, SelectedOn DEF Tended, SameRest, SameSelection, Timed, AllValid
<1>10. \A q \in Pairs(a) : InProgress(r, q) => Awaits(r, q)
  BY <1>2, <1>3, <1>4 DEF Tended, InProgress, Awaits
<1> QED
  BY <1>4, <1>5, <1>7, <1>8, <1>9, <1>10 DEF Tended, r

LEMMA CancelTended ==
    ASSUME NEW a \in Agents, NEW s \in Session(a), NEW p \in Pairs(a), Tended(s)
    PROVE  LET r == CancelSuperseded(s, p) IN Steady(s, r) /\ Tended(r)
<1> DEFINE r == CancelSuperseded(s, p)
           gone == Superseded(s, p)
<1>1. r \in Session(a)
  BY CancelKeeps, KeepsType
<1>2. SameRest(s, r) /\ r.broken = s.broken
  BY SMTT(30) DEF CancelSuperseded, Session, SameRest, SameSelection
<1>3. /\ \A q \in Pairs(a) :
            /\ q \in gone => r.clist[q].state = "failed"
            /\ q \notin gone => r.clist[q] = s.clist[q]
            /\ r.clist[q].nominated = s.clist[q].nominated
      /\ r.pending = {t \in s.pending : ~(t.pair \in gone /\ t.n = s.clist[t.pair].tdata)}
  <2> DEFINE ended == [q \in DOMAIN s.clist |->
                          IF q \in gone
                          THEN [s.clist[q] EXCEPT !.state = "failed", !.tdata = 0]
                          ELSE s.clist[q]]
             rest == {t \in s.pending : ~(t.pair \in gone /\ t.n = s.clist[t.pair].tdata)}
  <2>1. r = [s EXCEPT !.clist = ended, !.pending = rest]
    BY DEF CancelSuperseded
  <2>2. \A q \in Pairs(a) :
            /\ q \in gone => ended[q].state = "failed"
            /\ q \notin gone => ended[q] = s.clist[q]
            /\ ended[q].nominated = s.clist[q].nominated
    <3>1. \A k \in Check : LET e == [k EXCEPT !.state = "failed", !.tdata = 0]
                          IN e.state = "failed" /\ e.nominated = k.nominated
      BY DEF Check
    <3>2. \A q \in Pairs(a) : s.clist[q] \in Check
      BY CheckType
    <3>3. DOMAIN s.clist = Pairs(a)
      BY DEF Session
    <3> HIDE DEF gone
    <3> QED
      BY <3>1, <3>2, <3>3
  <2> HIDE DEF gone, ended, rest, r
  <2>3. r.clist = ended /\ r.pending = rest
    BY <2>1, SMTT(30) DEF Session
  <2> QED
    BY <2>2, <2>3 DEF rest
<1>4. \A q \in gone : s.clist[q].state \in {"frozen", "waiting", "in_progress"}
  BY DEF Superseded
<1> HIDE DEF r, gone
<1>5. DOMAIN s.clist = Pairs(a) /\ DOMAIN r.clist = Pairs(a)
  BY <1>1 DEF Session
<1>6. Steady(s, r)
  BY <1>2, <1>3, <1>4, <1>5 DEF Steady, SameRest, Renewable, Doubled, Finished
<1>7. \A t \in s.pending : t.pair \in Pairs(a) /\ t.n = s.clist[t.pair].tdata
  BY DEF Session, Tx, Tended, Workers
<1>8. r.pending = {t \in s.pending : t.pair \notin gone}
  BY <1>3, <1>7
<1>9. Workers(r)
  BY <1>3, <1>7, <1>8 DEF Tended, Workers, InProgress
<1>10. Proven(r)
  BY <1>2, <1>6, ProvenOn DEF Tended, SameRest, SameSelection
<1>11. Selected(r) /\ Timed(r)
  BY <1>2, SelectedOn DEF Tended, SameRest, SameSelection, Timed, AllValid
<1>12. \A q \in Pairs(a) : InProgress(r, q) => Awaits(r, q)
  BY <1>3, <1>5, <1>8 DEF Tended, InProgress, Awaits
<1> QED
  BY <1>5, <1>6, <1>9, <1>10, <1>11, <1>12 DEF Tended, r

\* Nomination may start: each component has a valid pair, and each of the
\* checks they come from has succeeded.
Ready(s) ==
    /\ AllValid(s)
    /\ \A v \in DOMAIN s.valid_list :
          s.valid_list[v].listed => s.clist[Origin(v)].state = "succeeded"

\* With one socket the check that is tried again is the one the pair is from.
LEMMA RenewsOrigin ==
    ASSUME OneSocket, NEW a \in Agents, NEW s \in Session(a), Grounded(s),
           NEW c \in Comps, s.valid_check[c] # NoPair, RenominatedCheck(s, c) # NoPair
    PROVE  /\ s.valid_check[c] \in Pairs(a)
           /\ RenominatedCheck(s, c) = Origin(s.valid_check[c])
<1> DEFINE v == s.valid_check[c]
           q == RenominatedCheck(s, c)
<1>1. v \in Pairs(a)
  BY DEF Session
<1>2. q \in Listed(s) /\ Tp[q[1]] = Tp[v[1]] /\ q[2] = v[2]
  BY FirstType DEF RenominatedCheck
<1>3. q \in Pairs(a) /\ Base[q[1]] = q[1]
  BY <1>2, ListedType DEF Grounded, FromBase
<1>4. Base[q[1]] = Base[v[1]]
  BY <1>1, <1>2, <1>3, PairEnds DEF OneSocket
<1>5. q = <<q[1], q[2]>>
  BY <1>3, PairEnds
<1> QED
  BY <1>1, <1>2, <1>3, <1>4, <1>5 DEF Origin

LEMMA StartNominatedTends ==
    ASSUME OneSocket, NEW a \in Agents, NEW s \in Session(a), Grounded(s),
           NEW s0 \in Session(a), Tended(s0), Ready(s0), Renewable(s0),
           s.clist = s0.clist, s.pending = s0.pending, s.valid_list = s0.valid_list,
           s.valid_check = s0.valid_check, s.nominated_check = s0.nominated_check,
           s.phase = s0.phase, s.broken = s0.broken, s.is_nominating = s0.is_nominating,
           s.aggressive = s0.aggressive,
           s.timer = "keep_alive" => s.ice_status = "ok"
    PROVE  Tends(s0, start_nominated_check(s))
<1> DEFINE r == start_nominated_check(s)
           again == {RenominatedCheck(s, c) :
                         c \in {d \in Comps : s.valid_check[d] # NoPair}} \ {NoPair}
           sound == \A p \in again : s.clist[p].state # "failed"
<1>1. r \in Session(a)
  BY StartNominatedKeeps, KeepsType
<1>2. r.clist = [p \in DOMAIN s.clist |->
                    IF p \in again THEN [s.clist[p] EXCEPT !.state = "waiting"]
                    ELSE s.clist[p]]
  <2> HIDE DEF again
  <2> QED
    BY SMTT(30) DEF start_nominated_check, Claim, Session, again
<1>3. /\ SameSelection(s, r) /\ r.pending = s.pending /\ r.phase = s.phase
      /\ r.is_nominating /\ r.timer # "start_nominated" /\ r.aggressive = s.aggressive
      /\ r.timer = "keep_alive" => s.timer = "keep_alive"
  BY SMTT(30) DEF start_nominated_check, Claim, Session, SameSelection
<1>4. r.broken \subseteq s.broken \cup {"is_nominating", "nominated_check"}
                         \cup (IF AllValid(s) THEN {} ELSE {"valid_check"})
                         \cup (IF sound THEN {} ELSE {"err_code"})
  <2> HIDE DEF again
  <2> QED
    BY SMTT(30) DEF start_nominated_check, Claim, Session, again
<1>5. DOMAIN s.clist = Pairs(a) /\ DOMAIN r.clist = Pairs(a) /\ DOMAIN s.valid_list = Pairs(a)
  BY <1>1 DEF Session
<1>6. \A q \in again : q \in Pairs(a) /\ s.clist[q].state = "succeeded"
  <2> SUFFICES ASSUME NEW c \in Comps, s.valid_check[c] # NoPair,
                      RenominatedCheck(s, c) # NoPair
               PROVE  LET q == RenominatedCheck(s, c)
                      IN q \in Pairs(a) /\ s.clist[q].state = "succeeded"
    OBVIOUS
  <2>1. s.valid_check[c] \in Pairs(a) /\ RenominatedCheck(s, c) = Origin(s.valid_check[c])
    BY RenewsOrigin
  <2>2. s.valid_list[s.valid_check[c]].listed
    BY DEF Tended, Selected, Selects, InComp
  <2> QED
    BY <1>5, <2>1, <2>2, OriginType DEF Ready
<1>7. \A q \in Pairs(a) : s.clist[q] \in Check
  BY CheckType
<1> HIDE DEF again
<1>8. sound /\ AllValid(s)
  BY <1>6 DEF Ready, AllValid
<1> HIDE DEF sound
<1>9. r.broken \subseteq s.broken \cup Tolerated
  BY <1>4, <1>8 DEF Tolerated, WindowAsserts
<1>10. \A q \in Pairs(a) :
           /\ q \in again => r.clist[q].state = "waiting"
           /\ q \notin again => r.clist[q].state = s.clist[q].state
           /\ r.clist[q].nominated = s.clist[q].nominated
           /\ r.clist[q].tdata = s.clist[q].tdata
  BY <1>2, <1>5, <1>7 DEF Check
<1> HIDE DEF r
<1>11. ~Renewable(r)
  BY <1>3 DEF Renewable
<1>12. \A t \in s.pending : t.pair \in Pairs(a) /\ t.pair \notin again
  BY <1>6 DEF Session, Tx, Tended, Workers, InProgress
<1>13. Workers(r)
  BY <1>3, <1>10, <1>12 DEF Tended, Workers, InProgress
<1>14. Proven(r)
  <2>1. \A v \in Pairs(a) : Origin(v) \in Pairs(a)
    BY OriginType
  <2> QED
    BY <1>3, <1>5, <1>6, <1>10, <1>11, <2>1 DEF Tended, Proven, SameSelection
<1>15. Selected(r) /\ Timed(r)
  BY <1>3, SelectedOn DEF Tended, SameSelection, Timed, AllValid
<1>16. \A q \in Pairs(a) : InProgress(r, q) => Awaits(r, q)
  BY <1>3, <1>5, <1>10 DEF Tended, InProgress, Awaits
<1>17. Tended(r)
  BY <1>5, <1>13, <1>14, <1>15, <1>16 DEF Tended
<1>18. \A q \in Pairs(a) : s.clist[q].state \in Finished /\ r.clist[q].state # s.clist[q].state =>
          s.clist[q].state = "succeeded" /\ r.clist[q].state = "waiting"
  BY <1>6, <1>10
<1> QED
  BY <1>3, <1>5, <1>9, <1>17, <1>18 DEF Tends, Doubled, r

LEMMA ExhaustedTends ==
    ASSUME OneSocket, NEW a \in Agents, NEW s \in Session(a), Grounded(s), Tended(s)
    PROVE  Tends(s, ChecksExhausted(s))
<1>1. Tends(s, s)
  BY SteadyItself, TendedTends
<1>2. Tends(s, on_ice_complete(s, "failed"))
  BY FinishSteady, TendedTends DEF Outcomes
<1>3. Tends(s, [s EXCEPT !.timer = "wait_nom"])
  <2> DEFINE r == [s EXCEPT !.timer = "wait_nom"]
  <2>1. Rearms(s, r)
    BY SMTT(30) DEF Session, Rearms, Doubled
  <2> HIDE DEF r
  <2> QED
    BY <2>1, RearmSteady, TendedTends DEF r
<1>4. CASE ~s.is_nominating /\ AllValid(s)
  <2>1. Ready(s) /\ Renewable(s)
    BY <1>4 DEF Ready, Renewable, Tended, Proven
  <2>2. Tends(s, start_nominated_check(s))
    BY <2>1, StartNominatedTends DEF Tended, Timed
  <2> QED
    BY <1>1, <1>2, <1>3, <2>2 DEF ChecksExhausted
<1>5. CASE s.is_nominating \/ ~AllValid(s)
  BY <1>1, <1>2, <1>3, <1>5 DEF ChecksExhausted
<1> QED
  BY <1>4, <1>5

LEMMA CheckCompleteTends ==
    ASSUME OneSocket, NEW a \in Agents, NEW s \in Session(a), NEW p \in Pairs(a),
           Fit(s), Tended(s)
    PROVE  Tends(s, on_check_complete(s, p))
<1> DEFINE ok == s.clist[p].state = "succeeded"
           s1 == IF ok THEN Unfreeze(s, p) ELSE s
           s2 == IF ok /\ s.clist[p].nominated THEN CancelSuperseded(s1, p) ELSE s1
<1>1. on_check_complete(s, p)
      = IF AllNominated(s2) THEN on_ice_complete(s2, "ok")
        ELSE IF AllDone(s2) THEN ChecksExhausted(s2)
        ELSE IF ok /\ MayScheduleNomination(s2)
             THEN [s2 EXCEPT !.timer = "start_nominated"] ELSE s2
  BY DEF on_check_complete
<1>2. Quiet(a, s, s1) /\ Steady(s, s1) /\ Tended(s1)
  BY UnfreezeQuiet, QuietItself, UnfreezeTended, SteadyItself
<1>3. Quiet(a, s1, s2) /\ Steady(s1, s2) /\ Tended(s2)
  <2> HIDE DEF s1
  <2> QED
    BY <1>2, CancelQuiet, QuietItself, QuietType, CancelTended, SteadyItself
<1> HIDE DEF ok, s1, s2
<1>4. s1 \in Session(a) /\ s2 \in Session(a) /\ Grounded(s2)
  BY <1>2, <1>3, QuietType, QuietFollows DEF Follows, Fit
<1>5. Steady(s, s2)
  BY <1>2, <1>3, <1>4, SteadyOn
<1>6. Tends(s2, on_ice_complete(s2, "ok"))
  BY <1>3, <1>4, FinishSteady, TendedTends DEF Outcomes
<1>7. Tends(s2, ChecksExhausted(s2))
  BY <1>3, <1>4, ExhaustedTends
<1>8. MayScheduleNomination(s2) => Tends(s2, [s2 EXCEPT !.timer = "start_nominated"])
  <2> SUFFICES ASSUME MayScheduleNomination(s2)
               PROVE  Tends(s2, [s2 EXCEPT !.timer = "start_nominated"])
    OBVIOUS
  <2> DEFINE r == [s2 EXCEPT !.timer = "start_nominated"]
  <2>1. Rearms(s2, r)
    BY <1>4, SMTT(30) DEF Session, Rearms, Doubled, MayScheduleNomination
  <2> HIDE DEF r
  <2> QED
    BY <1>3, <1>4, <2>1, RearmSteady, TendedTends DEF r
<1>9. Tends(s2, s2)
  BY <1>3, SteadyItself, TendedTends
<1>10. Tends(s2, on_check_complete(s, p))
  BY <1>1, <1>6, <1>7, <1>8, <1>9
<1> QED
  BY <1>4, <1>5, <1>10, SteadyTends

\* A check whose transaction is over fails.
LEMMA FailedTends ==
    ASSUME OneSocket, NEW a \in Agents, NEW s \in Session(a), NEW p \in Pairs(a),
           Fit(s), FromBase(p), Open(s, p)
    PROVE  Tends(s, check_failed(s, p))
<1> DEFINE s1 == check_set_state(s, p, "failed")
<1>1. Quiet(a, s, s1) /\ Steady(s, s1) /\ Tended(s1)
  BY StateQuiet, CloseTended DEF CheckStates
<1> HIDE DEF s1
<1>2. s1 \in Session(a) /\ Fit(s1)
  BY <1>1, QuietType, QuietFollows DEF Follows
<1>3. Tends(s1, on_check_complete(s1, p))
  BY <1>1, <1>2, CheckCompleteTends
<1> QED
  BY <1>1, <1>2, <1>3, SteadyTends DEF check_failed, s1

\* The transaction of a check is over.
LEMMA EndOpens ==
    ASSUME NEW a \in Agents, NEW s \in Session(a), NEW t \in s.pending, Tended(s)
    PROVE  LET r == Complete(s, t) IN Steady(s, r) /\ Open(r, t.pair)
<1> DEFINE p == t.pair
           c == [s.clist[p] EXCEPT !.tdata = 0]
           rest == s.pending \ {t}
           r == [s EXCEPT !.pending = rest, !.clist[p] = c]
<1>1. Complete(s, t) = Claim(r, s.clist[t.pair].tdata = t.n, "tdata")
  BY DEF Complete
<1>2. s.clist[t.pair].tdata = t.n /\ InProgress(s, p)
  BY DEF Tended, Workers
<1>3. t \in Tx(a) /\ p \in Pairs(a) /\ s.clist[p] \in Check
  BY CheckType DEF Session, Tx
<1>4. c \in Check /\ c.state = s.clist[p].state /\ c.nominated = s.clist[p].nominated
  BY <1>3 DEF Check
<1> HIDE DEF p, c, rest
<1>5. SameRest(s, r) /\ r.broken = s.broken /\ r.pending = rest
  BY <1>3, SMTT(30) DEF Session, SameRest, SameSelection
<1>6. r.clist[p] = c /\ \A q \in Pairs(a) : q # p => r.clist[q] = s.clist[q]
  BY <1>3, SMTT(30) DEF Session
<1>7. r \in Session(a)
  <2> DEFINE s1 == [s EXCEPT !.pending = rest]
  <2>1. s1 \in Session(a)
    BY KeepsPending, KeepsType DEF Session, rest
  <2>2. r = [s1 EXCEPT !.clist[p] = c]
    OBVIOUS
  <2> HIDE DEF s1, r
  <2> QED
    BY <1>3, <1>4, <2>1, <2>2, KeepsCheck, KeepsType
<1> HIDE DEF r
<1>8. DOMAIN s.clist = Pairs(a) /\ DOMAIN r.clist = Pairs(a)
  BY <1>7 DEF Session
<1>9. Steady(s, r)
  BY <1>4, <1>5, <1>6, <1>8 DEF Steady, SameRest, Renewable, Doubled
<1>10. \A u \in rest : u.pair \in Pairs(a) /\ u.pair # p /\ u \in s.pending
  BY DEF Tended, Workers, Session, Tx, rest, p
<1>11. Workers(r)
  BY <1>5, <1>6, <1>10 DEF Tended, Workers, InProgress
<1>12. Proven(r)
  BY <1>5, <1>9, ProvenOn DEF Tended, SameRest, SameSelection
<1>13. Selected(r) /\ Timed(r)
  BY <1>5, SelectedOn DEF Tended, SameRest, SameSelection, Timed, AllValid
<1>14. \A q \in Pairs(a) : InProgress(r, q) /\ q # p => Awaits(r, q)
  BY <1>5, <1>6, <1>8 DEF Tended, InProgress, Awaits, rest, p
<1>15. InProgress(r, p) /\ ~Awaits(r, p)
  BY <1>2, <1>4, <1>5, <1>6, <1>10 DEF InProgress, Awaits
<1>16. Open(r, p)
  BY <1>8, <1>11, <1>12, <1>13, <1>14, <1>15 DEF Open
<1>17. LET q == Claim(r, s.clist[t.pair].tdata = t.n, "tdata") IN Steady(r, q) /\ Open(q, p)
  BY <1>2, <1>7, <1>16, ClaimSteady DEF Asserts
<1> QED
  BY <1>1, <1>7, <1>9, <1>17, SteadyOn DEF p

-----------------------------------------------------------------------------
(* The best of the valid pairs                                             *)

\* Priorities of valid pairs are numbers, and no pair is no pair.
LEMMA ValidType ==
    ASSUME NEW a \in Agents, NEW s \in Session(a)
    PROVE  /\ \A v \in Pairs(a) : s.valid_list[v] \in Valid /\ s.valid_list[v].prio \in Nat /\ v # NoPair
           /\ DOMAIN s.valid_list = Pairs(a)
           /\ \A c \in Comps : InComp(s, c) \subseteq Pairs(a) /\ Marked(s, c) \subseteq Pairs(a)
<1>1. \A v \in Pairs(a) : s.valid_list[v] \in Valid
  BY DEF Session
<1>2. \A v \in Pairs(a) : v # NoPair
  BY PairEnds DEF NoPair
<1>3. DOMAIN s.valid_list = Pairs(a)
  BY DEF Session
<1> QED
  BY <1>1, <1>2, <1>3 DEF Valid, InComp, Marked

\* The better of the best of S and the best of T is the best of both.
LEMMA BetterSelects ==
    ASSUME NEW a \in Agents, NEW s \in Session(a), NEW r \in Session(a),
           NEW S \in SUBSET Pairs(a), NEW T \in SUBSET Pairs(a),
           \A w \in S : r.valid_list[w].prio = s.valid_list[w].prio,
           NEW cur, Selects(s, cur, S), NEW v \in T, IsBest(r, T, v)
    PROVE  Selects(r, Better(r, cur, v), S \cup T)
<1>1. \A w \in Pairs(a) : r.valid_list[w].prio \in Nat /\ w # NoPair
  BY ValidType
<1>2. CASE S = {}
  BY <1>1, <1>2 DEF Selects, Better
<1>3. CASE S # {}
  <2>1. cur \in S /\ cur # NoPair /\ \A w \in S : ~Higher(r, w, cur)
    BY <1>1, <1>3 DEF Selects, IsBest, Higher
  <2>2. CASE Higher(r, v, cur)
    BY <1>1, <2>1, <2>2 DEF Selects, Better, IsBest, Higher
  <2>3. CASE ~Higher(r, v, cur)
    BY <1>1, <2>1, <2>3 DEF Selects, Better, IsBest, Higher
  <2> QED
    BY <2>2, <2>3
<1> QED
  BY <1>2, <1>3

\* What is selected of S depends on the priorities alone.
LEMMA SelectsOn ==
    ASSUME NEW s, NEW r, NEW S, NEW cur, Selects(s, cur, S),
           \A w \in S : r.valid_list[w].prio = s.valid_list[w].prio
    PROVE  Selects(r, cur, S)
  BY DEF Selects, IsBest, Higher

\* What AddValid does.
LEMMA AddFields ==
    ASSUME NEW a \in Agents, NEW s \in Session(a), NEW p \in Pairs(a),
           NEW v, v = ValidPair(p), NEW c, c = CompOf[v[1]],
           NEW x, x = AddValid(s, p)
    PROVE  /\ x \in Session(a) /\ v \in Pairs(a) /\ c \in Comps
           /\ x.clist = s.clist /\ x.pending = s.pending /\ x.broken = s.broken
           /\ x.phase = s.phase /\ x.timer = s.timer /\ x.is_nominating = s.is_nominating
           /\ x.ice_status = s.ice_status /\ x.aggressive = s.aggressive
           /\ \A w \in Pairs(a) : w # v => x.valid_list[w] = s.valid_list[w]
           /\ x.valid_list[v].listed /\ x.valid_list[v].nominated = s.clist[p].nominated
           /\ s.valid_list[v].listed => x.valid_list[v].prio = s.valid_list[v].prio
           /\ \A d \in Comps : d # c => /\ x.valid_check[d] = s.valid_check[d]
                                        /\ x.nominated_check[d] = s.nominated_check[d]
           /\ x.valid_check[c] = Better(x, s.valid_check[c], v)
           /\ x.nominated_check[c] = IF s.clist[p].nominated
                                     THEN Better(x, s.nominated_check[c], v)
                                     ELSE s.nominated_check[c]
<1>1. x \in Session(a)
  BY AddKeeps, KeepsType
<1>2. v \in Pairs(a) /\ c \in Comps
  <2>1. v \in Pairs(a)
    BY SeenPair DEF ValidPair
  <2> QED
    BY <2>1, PairEnds
<1>3. /\ x.clist = s.clist /\ x.pending = s.pending /\ x.broken = s.broken
      /\ x.phase = s.phase /\ x.timer = s.timer /\ x.is_nominating = s.is_nominating
      /\ x.ice_status = s.ice_status /\ x.aggressive = s.aggressive
  BY SMTT(30) DEF AddValid, update_comp_check, Session
<1> DEFINE new == IF s.valid_list[v].listed THEN s.valid_list[v].prio
                  ELSE CALC_CHECK_PRIO(s.role, v)
           nom == s.clist[p].nominated
           entry == [s.valid_list[v] EXCEPT !.nominated = nom, !.prio = new, !.listed = TRUE]
           list == [s.valid_list EXCEPT ![v] = entry]
           s2 == [s EXCEPT !.lcand = s.lcand \cup {SeenAs[p]}, !.valid_list = list]
           vc == Better(s2, s.valid_check[c], v)
           nc == IF nom THEN Better(s2, s.nominated_check[c], v) ELSE s.nominated_check[c]
<1>4. x = update_comp_check(s2, v) /\ s2 \in Session(a)
  BY AddTypes DEF AddValid
<1>5. s.valid_list[v] \in Valid /\ DOMAIN s.valid_list = Pairs(a)
  BY <1>2, ValidType
<1>6. entry.nominated = nom /\ entry.prio = new /\ entry.listed
  BY <1>5 DEF Valid
<1> HIDE DEF nom, new, entry
<1>7. /\ list[v] = entry /\ \A w \in Pairs(a) : w # v => list[w] = s.valid_list[w]
  BY <1>2, <1>5
<1> HIDE DEF list
<1>8. /\ s2.valid_list = list /\ s2.valid_check = s.valid_check
      /\ s2.nominated_check = s.nominated_check
  BY SMTT(30) DEF Session
<1> HIDE DEF s2
<1>9. x = [s2 EXCEPT !.valid_check[c] = vc, !.nominated_check[c] = nc]
  <2>1. s2.valid_list[v].nominated = nom
    BY <1>6, <1>7, <1>8
  <2> QED
    BY <1>4, <1>8, <2>1 DEF update_comp_check
<1> HIDE DEF vc, nc
<1>10. /\ x.valid_list = list
       /\ x.valid_check = [s.valid_check EXCEPT ![c] = vc]
       /\ x.nominated_check = [s.nominated_check EXCEPT ![c] = nc]
  BY <1>4, <1>8, <1>9, SMTT(30) DEF Session
<1>11. x.valid_check[c] = vc /\ x.nominated_check[c] = nc
  BY <1>2, <1>10 DEF Session
<1>12. \A d \in Comps : d # c => /\ x.valid_check[d] = s.valid_check[d]
                                 /\ x.nominated_check[d] = s.nominated_check[d]
  BY <1>2, <1>10 DEF Session
<1>13. vc = Better(x, s.valid_check[c], v)
  BY <1>8, <1>10 DEF vc, Better, Higher
<1>14. nc = IF nom THEN Better(x, s.nominated_check[c], v) ELSE s.nominated_check[c]
  BY <1>8, <1>10 DEF nc, Better, Higher
<1> QED
  BY <1>1, <1>2, <1>3, <1>6, <1>7, <1>10, <1>11, <1>12, <1>13, <1>14 DEF nom, new

\* A new valid pair leaves the best selected.
LEMMA AddSelected ==
    ASSUME NEW a \in Agents, NEW s \in Session(a), NEW p \in Pairs(a), FromBase(p),
           Proven(s), Selected(s)
    PROVE  Selected(AddValid(s, p)) /\ Origin(ValidPair(p)) = p
<1>1. PICK v : v = ValidPair(p)
  OBVIOUS
<1>2. PICK c : c = CompOf[v[1]]
  OBVIOUS
<1>3. PICK x : x = AddValid(s, p)
  OBVIOUS
<1>4. /\ x \in Session(a) /\ v \in Pairs(a) /\ c \in Comps
      /\ \A w \in Pairs(a) : w # v => x.valid_list[w] = s.valid_list[w]
      /\ x.valid_list[v].listed /\ x.valid_list[v].nominated = s.clist[p].nominated
      /\ s.valid_list[v].listed => x.valid_list[v].prio = s.valid_list[v].prio
      /\ \A d \in Comps : d # c => /\ x.valid_check[d] = s.valid_check[d]
                                   /\ x.nominated_check[d] = s.nominated_check[d]
      /\ x.valid_check[c] = Better(x, s.valid_check[c], v)
      /\ x.nominated_check[c] = IF s.clist[p].nominated
                                THEN Better(x, s.nominated_check[c], v)
                                ELSE s.nominated_check[c]
  BY <1>1, <1>2, <1>3, AddFields
<1>5. Origin(v) = p
  <2>1. Base[SeenAs[p]] = p[1] /\ p = <<p[1], p[2]>>
    BY PairEnds, BaseAssumption DEF FromBase
  <2> QED
    BY <1>1, <2>1 DEF Origin, ValidPair
<1>6. s.valid_list[v].listed /\ s.valid_list[v].nominated => s.clist[p].nominated
  BY <1>4, <1>5, ValidType DEF Proven
<1>7. /\ \A w \in Pairs(a) : s.valid_list[w].listed => x.valid_list[w].prio = s.valid_list[w].prio
      /\ \A d \in Comps : InComp(s, d) \subseteq Pairs(a) /\ Marked(s, d) \subseteq Pairs(a)
      /\ \A d \in Comps : \A w \in InComp(s, d) : s.valid_list[w].listed
      /\ \A d \in Comps : \A w \in Marked(s, d) : s.valid_list[w].listed
      /\ DOMAIN s.valid_list = Pairs(a) /\ DOMAIN x.valid_list = Pairs(a)
  BY <1>4, ValidType DEF InComp, Marked
<1>8. IsBest(x, {v}, v)
  BY <1>4, ValidType DEF IsBest, Higher
<1>9. ASSUME NEW d \in Comps, d # c
      PROVE  /\ Selects(x, x.valid_check[d], InComp(x, d))
             /\ Selects(x, x.nominated_check[d], Marked(x, d))
  <2>1. InComp(x, d) = InComp(s, d)
    BY <1>2, <1>4, <1>7, <1>9 DEF InComp
  <2>2. Marked(x, d) = Marked(s, d)
    BY <1>2, <1>4, <1>7, <1>9, <2>1 DEF Marked, InComp
  <2> QED
    BY <1>4, <1>7, <1>9, <2>1, <2>2, SelectsOn DEF Selected
<1>10. Selects(x, x.valid_check[c], InComp(x, c))
  <2>1. InComp(x, c) = InComp(s, c) \cup {v}
    BY <1>2, <1>4, <1>7 DEF InComp
  <2> QED
    BY <1>4, <1>7, <1>8, <2>1, BetterSelects DEF Selected
<1>11. Selects(x, x.nominated_check[c], Marked(x, c))
  <2>1. CASE s.clist[p].nominated
    <3>1. Marked(x, c) = Marked(s, c) \cup {v}
      BY <1>2, <1>4, <1>7, <2>1 DEF Marked, InComp
    <3> QED
      BY <1>4, <1>7, <1>8, <2>1, <3>1, BetterSelects DEF Selected
  <2>2. CASE ~s.clist[p].nominated
    <3>1. Marked(x, c) = Marked(s, c)
      BY <1>2, <1>4, <1>6, <1>7, <2>2 DEF Marked, InComp
    <3> QED
      BY <1>4, <1>7, <2>2, <3>1, SelectsOn DEF Selected
  <2> QED
    BY <2>1, <2>2
<1> QED
  BY <1>1, <1>3, <1>5, <1>9, <1>10, <1>11 DEF Selected

\* A check succeeds: its pair becomes valid and the check gets its state.
LEMMA AddClose ==
    ASSUME NEW a \in Agents, NEW s \in Session(a), NEW p \in Pairs(a), FromBase(p), Open(s, p)
    PROVE  LET r == check_set_state(AddValid(s, p), p, "succeeded") IN Steady(s, r) /\ Tended(r)
<1>1. PICK v : v = ValidPair(p)
  OBVIOUS
<1>2. PICK x : x = AddValid(s, p)
  OBVIOUS
<1>3. /\ x \in Session(a) /\ v \in Pairs(a) /\ CompOf[v[1]] \in Comps
      /\ x.clist = s.clist /\ x.pending = s.pending /\ x.broken = s.broken
      /\ x.phase = s.phase /\ x.timer = s.timer /\ x.is_nominating = s.is_nominating
      /\ x.ice_status = s.ice_status /\ x.aggressive = s.aggressive
      /\ \A w \in Pairs(a) : w # v => x.valid_list[w] = s.valid_list[w]
      /\ x.valid_list[v].listed /\ x.valid_list[v].nominated = s.clist[p].nominated
  BY <1>1, <1>2, AddFields
<1>4. Selected(x) /\ Origin(v) = p
  BY <1>1, <1>2, AddSelected DEF Open
<1>5. AllValid(s) => AllValid(x)
  <2>1. v # NoPair
    BY <1>3, ValidType
  <2>2. /\ \A d \in Comps : d # CompOf[v[1]] => x.valid_check[d] = s.valid_check[d]
        /\ x.valid_check[CompOf[v[1]]] = Better(x, s.valid_check[CompOf[v[1]]], v)
    BY <1>1, <1>2, AddFields
  <2> QED
    BY <2>1, <2>2, BetterOf DEF AllValid
<1>6. PICK r : r = check_set_state(x, p, "succeeded")
  OBVIOUS
<1>7. "succeeded" \in CheckStates /\ s.clist[p].state \notin Finished /\ s.clist[p].state = "in_progress"
  BY DEF CheckStates, Open, InProgress, Finished
<1>8. r \in Session(a)
  BY <1>3, <1>6, <1>7, SetStateKeeps, KeepsType
<1>9. /\ SameRest(x, r) /\ r.pending = x.pending /\ r.broken = x.broken
      /\ r.clist[p].state = "succeeded"
      /\ \A q \in Pairs(a) :
            /\ q # p => r.clist[q].state = x.clist[q].state
            /\ r.clist[q].tdata = x.clist[q].tdata
            /\ r.clist[q].nominated = x.clist[q].nominated
  BY <1>3, <1>6, <1>7, StateFields
<1>10. DOMAIN s.clist = Pairs(a) /\ DOMAIN r.clist = Pairs(a)
       /\ DOMAIN s.valid_list = Pairs(a) /\ DOMAIN r.valid_list = Pairs(a)
  BY <1>8 DEF Session
<1>11. Steady(s, r)
  BY <1>3, <1>7, <1>9, <1>10 DEF Steady, SameRest, Renewable, Doubled
<1>12. Workers(r)
  <2>1. \A t \in s.pending : t.pair \in Pairs(a) /\ t.pair # p
    BY DEF Open, Awaits, Session, Tx
  <2> QED
    BY <1>3, <1>9, <2>1 DEF Open, Workers, InProgress
<1>13. Proven(r)
  <2> SUFFICES ASSUME NEW w \in Pairs(a), r.valid_list[w].listed
               PROVE  /\ r.clist[Origin(w)].state # "absent"
                      /\ Renewable(r) => r.clist[Origin(w)].state = "succeeded"
                      /\ r.valid_list[w].nominated => r.clist[Origin(w)].nominated
    BY <1>10 DEF Proven
  <2>1. Origin(w) \in Pairs(a) /\ r.valid_list = x.valid_list
    BY <1>9, OriginType DEF SameRest, SameSelection
  <2>2. CASE w = v
    BY <1>3, <1>4, <1>9, <2>1, <2>2
  <2>3. CASE w # v
    <3>1. s.valid_list[w].listed /\ r.valid_list[w] = s.valid_list[w]
      BY <1>3, <2>1, <2>3
    <3>2. /\ s.clist[Origin(w)].state # "absent"
          /\ Renewable(s) => s.clist[Origin(w)].state = "succeeded"
          /\ s.valid_list[w].nominated => s.clist[Origin(w)].nominated
      BY <1>10, <3>1 DEF Open, Proven
    <3> QED
      BY <1>3, <1>9, <1>11, <2>1, <3>1, <3>2 DEF Steady
  <2> QED
    BY <2>2, <2>3
<1>14. Selected(r) /\ Timed(r)
  BY <1>3, <1>4, <1>5, <1>9, SelectedOn DEF Open, SameRest, SameSelection, Timed, AllValid
<1>15. \A q \in Pairs(a) : InProgress(r, q) => Awaits(r, q)
  BY <1>3, <1>9, <1>10 DEF Open, InProgress, Awaits
<1> QED
  BY <1>2, <1>6, <1>10, <1>11, <1>12, <1>13, <1>14, <1>15 DEF Tended

\* What NominateValid does, when it finds a valid pair.
LEMMA NominateFields ==
    ASSUME NEW a \in Agents, NEW s \in Session(a), NEW p \in Pairs(a),
           NEW hit, hit = NominatedBy(s, p), NEW best, best = Best(s, hit), best # NoPair,
           NEW c, c = CompOf[p[1]],
           NEW x, x = NominateValid(s, p)
    PROVE  /\ x \in Session(a) /\ c \in Comps
           /\ x.clist = s.clist /\ x.pending = s.pending /\ x.broken = s.broken
           /\ x.phase = s.phase /\ x.timer = s.timer /\ x.is_nominating = s.is_nominating
           /\ x.ice_status = s.ice_status /\ x.aggressive = s.aggressive
           /\ \A w \in Pairs(a) : /\ x.valid_list[w].listed = s.valid_list[w].listed
                                  /\ x.valid_list[w].prio = s.valid_list[w].prio
                                  /\ x.valid_list[w].nominated = (w \in hit \/ s.valid_list[w].nominated)
           /\ \A d \in Comps : d # c => /\ x.valid_check[d] = s.valid_check[d]
                                        /\ x.nominated_check[d] = s.nominated_check[d]
           /\ x.valid_check[c] = Better(x, s.valid_check[c], best)
           /\ x.nominated_check[c] = Better(x, s.nominated_check[c], best)
<1>1. x \in Session(a) /\ c \in Comps
  BY NominateKeeps, KeepsType, PairEnds
<1>2. /\ x.clist = s.clist /\ x.pending = s.pending /\ x.broken = s.broken
      /\ x.phase = s.phase /\ x.timer = s.timer /\ x.is_nominating = s.is_nominating
      /\ x.ice_status = s.ice_status /\ x.aggressive = s.aggressive
  BY SMTT(30) DEF NominateValid, Session
<1> DEFINE list == [v \in DOMAIN s.valid_list |->
                       IF v \in hit THEN [s.valid_list[v] EXCEPT !.nominated = TRUE]
                       ELSE s.valid_list[v]]
           s1 == [s EXCEPT !.valid_list = list]
           vc == Better(s1, s.valid_check[c], best)
           nc == Better(s1, s.nominated_check[c], best)
<1>3. s1 \in Session(a)
  BY NominateTypes
<1>4. \A w \in Pairs(a) : /\ list[w].listed = s.valid_list[w].listed
                          /\ list[w].prio = s.valid_list[w].prio
                          /\ list[w].nominated = (w \in hit \/ s.valid_list[w].nominated)
  <2>1. \A k \in Valid : LET e == [k EXCEPT !.nominated = TRUE]
                         IN e.listed = k.listed /\ e.prio = k.prio /\ e.nominated = TRUE
    BY DEF Valid
  <2>2. \A w \in Pairs(a) : s.valid_list[w] \in Valid /\ s.valid_list[w].nominated \in BOOLEAN
    BY ValidType DEF Valid
  <2>3. DOMAIN s.valid_list = Pairs(a)
    BY ValidType
  <2> QED
    BY <2>1, <2>2, <2>3
<1> HIDE DEF list
<1>5. /\ s1.valid_list = list /\ s1.valid_check = s.valid_check
      /\ s1.nominated_check = s.nominated_check
  BY SMTT(30) DEF Session
<1>6. x = [s1 EXCEPT !.valid_check[c] = Better(s1, s1.valid_check[c], best),
                     !.nominated_check[c] = Better(s1, s1.nominated_check[c], best)]
  BY DEF NominateValid, list
<1>7. x = [s1 EXCEPT !.valid_check[c] = vc, !.nominated_check[c] = nc]
  BY <1>5, <1>6
<1> HIDE DEF s1, vc, nc
<1>8. /\ x.valid_list = list
      /\ x.valid_check = [s.valid_check EXCEPT ![c] = vc]
      /\ x.nominated_check = [s.nominated_check EXCEPT ![c] = nc]
  BY <1>3, <1>5, <1>7, SMTT(30) DEF Session
<1>9. x.valid_check[c] = vc /\ x.nominated_check[c] = nc
  BY <1>1, <1>8 DEF Session
<1>10. \A d \in Comps : d # c => /\ x.valid_check[d] = s.valid_check[d]
                                 /\ x.nominated_check[d] = s.nominated_check[d]
  BY <1>1, <1>8 DEF Session
<1>11. /\ vc = Better(x, s.valid_check[c], best)
       /\ nc = Better(x, s.nominated_check[c], best)
  BY <1>5, <1>8 DEF vc, nc, Better, Higher
<1> QED
  BY <1>1, <1>2, <1>4, <1>8, <1>9, <1>10, <1>11

\* With one socket USE-CANDIDATE for a check nominates only what comes from it.
LEMMA NominatesOwn ==
    ASSUME OneSocket, NEW a \in Agents, NEW s \in Session(a), NEW p \in Pairs(a), FromBase(p),
           NEW v \in NominatedBy(s, p)
    PROVE  /\ v \in Pairs(a) /\ s.valid_list[v].listed
           /\ CompOf[v[1]] = CompOf[p[1]] /\ Origin(v) = p
<1>1. v \in Pairs(a) /\ s.valid_list[v].listed /\ Tp[v[1]] = Tp[p[1]] /\ v[2] = p[2]
  BY ValidType DEF NominatedBy
<1>2. Base[v[1]] = p[1]
  BY <1>1, PairEnds DEF OneSocket, FromBase
<1>3. p = <<p[1], p[2]>> /\ CompOf[v[1]] = CompOf[v[2]] /\ CompOf[p[1]] = CompOf[p[2]]
  BY <1>1, PairEnds
<1> QED
  BY <1>1, <1>2, <1>3 DEF Origin

LEMMA NominateTended ==
    ASSUME OneSocket, NEW a \in Agents, NEW s \in Session(a), NEW p \in Pairs(a), FromBase(p),
           s.clist[p].nominated, Tended(s)
    PROVE  LET r == NominateValid(s, p) IN Steady(s, r) /\ Tended(r)
<1>1. PICK x : x = NominateValid(s, p)
  OBVIOUS
<1>2. PICK hit : hit = NominatedBy(s, p)
  OBVIOUS
<1>3. PICK best : best = Best(s, hit)
  OBVIOUS
<1>4. CASE best = NoPair
  <2>1. x = s
    BY <1>1, <1>2, <1>3, <1>4 DEF NominateValid
  <2> QED
    BY <1>1, <2>1, SteadyItself
<1>5. CASE best # NoPair
  <2>1. PICK c : c = CompOf[p[1]]
    OBVIOUS
  <2>2. /\ x \in Session(a) /\ c \in Comps
        /\ x.clist = s.clist /\ x.pending = s.pending /\ x.broken = s.broken
        /\ x.phase = s.phase /\ x.timer = s.timer /\ x.is_nominating = s.is_nominating
        /\ x.ice_status = s.ice_status /\ x.aggressive = s.aggressive
        /\ \A w \in Pairs(a) : /\ x.valid_list[w].listed = s.valid_list[w].listed
                               /\ x.valid_list[w].prio = s.valid_list[w].prio
                               /\ x.valid_list[w].nominated = (w \in hit \/ s.valid_list[w].nominated)
        /\ \A d \in Comps : d # c => /\ x.valid_check[d] = s.valid_check[d]
                                     /\ x.nominated_check[d] = s.nominated_check[d]
        /\ x.valid_check[c] = Better(x, s.valid_check[c], best)
        /\ x.nominated_check[c] = Better(x, s.nominated_check[c], best)
    BY <1>1, <1>2, <1>3, <1>5, <2>1, NominateFields
  <2>3. \A v \in hit : /\ v \in Pairs(a) /\ s.valid_list[v].listed
                       /\ CompOf[v[1]] = c /\ Origin(v) = p
    BY <1>2, <2>1, NominatesOwn
  <2>4. best \in hit /\ IsBest(s, hit, best)
    BY <1>3, <1>5 DEF Best
  <2>5. IsBest(x, hit, best)
    BY <2>2, <2>3, <2>4 DEF IsBest, Higher
  <2>6. /\ \A d \in Comps : /\ InComp(s, d) \subseteq Pairs(a) /\ Marked(s, d) \subseteq Pairs(a)
                            /\ InComp(x, d) = InComp(s, d)
        /\ DOMAIN s.valid_list = Pairs(a) /\ DOMAIN x.valid_list = Pairs(a)
    BY <2>2, ValidType DEF InComp
  <2>6a. hit \subseteq InComp(s, c) /\ \A d \in Comps : d # c => hit \cap InComp(s, d) = {}
    BY <2>3, <2>6 DEF InComp
  <2>6b. \A d \in Comps : \A v \in InComp(s, d) :
             x.valid_list[v].nominated <=> v \in hit \/ s.valid_list[v].nominated
    BY <2>2, <2>6
  <2>7. Marked(x, c) = Marked(s, c) \cup hit
    <3>1. \A v : v \in Marked(x, c) <=> v \in InComp(s, c) /\ (v \in hit \/ s.valid_list[v].nominated)
      BY <2>2, <2>6, <2>6b DEF Marked
    <3>2. \A v : v \in Marked(s, c) <=> v \in InComp(s, c) /\ s.valid_list[v].nominated
      BY DEF Marked
    <3> QED
      BY <3>1, <3>2, <2>6a
  <2>8. \A d \in Comps : d # c => Marked(x, d) = Marked(s, d)
    <3> SUFFICES ASSUME NEW d \in Comps, d # c PROVE Marked(x, d) = Marked(s, d)
      OBVIOUS
    <3>1. \A v : v \in Marked(x, d) <=> v \in InComp(s, d) /\ (v \in hit \/ s.valid_list[v].nominated)
      BY <2>6, <2>6b DEF Marked
    <3>2. \A v : v \in Marked(s, d) <=> v \in InComp(s, d) /\ s.valid_list[v].nominated
      BY DEF Marked
    <3> QED
      BY <3>1, <3>2, <2>6a
  <2>9. \A d \in Comps : d # c => /\ Selects(x, x.valid_check[d], InComp(x, d))
                                  /\ Selects(x, x.nominated_check[d], Marked(x, d))
    BY <2>2, <2>6, <2>8, SelectsOn DEF Tended, Selected
  <2>10. Selects(x, x.nominated_check[c], Marked(x, c))
    <3>1. hit \in SUBSET Pairs(a)
      BY <2>3
    <3> QED
      BY <2>2, <2>4, <2>5, <2>6, <2>7, <3>1, BetterSelects DEF Tended, Selected
  <2>11. Selects(x, x.valid_check[c], InComp(x, c))
    <3>1. best \in InComp(s, c)
      BY <2>3, <2>4, <2>6 DEF InComp
    <3>2. IsBest(x, {best}, best)
      BY <2>2, <2>3, <2>4, ValidType DEF IsBest, Higher
    <3>3. InComp(x, c) = InComp(s, c) \cup {best}
      BY <2>2, <2>6, <3>1
    <3>4. {best} \in SUBSET Pairs(a) /\ best \in {best} /\ InComp(s, c) \in SUBSET Pairs(a)
      BY <2>2, <2>3, <2>4, <2>6
    <3>5. Selects(s, s.valid_check[c], InComp(s, c))
      BY <2>2 DEF Tended, Selected
    <3>6. \A w \in InComp(s, c) : x.valid_list[w].prio = s.valid_list[w].prio
      BY <2>2, <2>6
    <3> QED
      BY <2>2, <3>2, <3>3, <3>4, <3>5, <3>6, BetterSelects
  <2>12. Selected(x)
    BY <2>9, <2>10, <2>11 DEF Selected
  <2>13. Steady(s, x)
    BY <2>2 DEF Steady, Renewable, Doubled
  <2>14. Workers(x) /\ \A q \in DOMAIN x.clist : InProgress(x, q) => Awaits(x, q)
    BY <2>2 DEF Tended, Workers, InProgress, Awaits
  <2>15. AllValid(s) => AllValid(x)
    <3>1. best # NoPair
      BY <1>5
    <3> QED
      BY <2>2, <3>1, BetterOf DEF AllValid
  <2>16. Timed(x)
    BY <2>2, <2>15 DEF Tended, Timed
  <2>17. Proven(x)
    <3> SUFFICES ASSUME NEW w \in Pairs(a), x.valid_list[w].listed
                 PROVE  /\ x.clist[Origin(w)].state # "absent"
                        /\ Renewable(x) => x.clist[Origin(w)].state = "succeeded"
                        /\ x.valid_list[w].nominated => x.clist[Origin(w)].nominated
      BY <2>6 DEF Proven
    <3>1. /\ s.clist[Origin(w)].state # "absent"
          /\ Renewable(s) => s.clist[Origin(w)].state = "succeeded"
          /\ s.valid_list[w].nominated => s.clist[Origin(w)].nominated
      BY <2>2, <2>6 DEF Tended, Proven
    <3>2. x.valid_list[w].nominated <=> w \in hit \/ s.valid_list[w].nominated
      BY <2>2
    <3>3. Renewable(x) => Renewable(s)
      BY <2>13 DEF Steady
    <3>4. w \in hit => Origin(w) = p
      BY <2>3
    <3> QED
      BY <2>2, <3>1, <3>2, <3>3, <3>4
  <2> QED
    BY <1>1, <2>12, <2>13, <2>14, <2>16, <2>17 DEF Tended
<1> QED
  BY <1>4, <1>5

-----------------------------------------------------------------------------
(* Incoming checks and responses, on a tended session                      *)

\* A check is marked as nominated.
Flagged(s, p, uc) ==
    [s EXCEPT !.clist[p] = [s.clist[p] EXCEPT !.nominated = s.clist[p].nominated \/ uc]]

LEMMA FlagTended ==
    ASSUME NEW a \in Agents, NEW s \in Session(a), NEW p \in Pairs(a), NEW uc \in BOOLEAN,
           Tended(s),
           NEW r, r = Flagged(s, p, uc)
    PROVE  /\ r \in Session(a) /\ (FromBase(p) => Quiet(a, s, r))
           /\ Steady(s, r) /\ Tended(r)
           /\ uc => r.clist[p].nominated
           /\ \A q \in Pairs(a) : r.clist[q].state = s.clist[q].state /\ r.clist[q].tdata = s.clist[q].tdata
<1> DEFINE k == [s.clist[p] EXCEPT !.nominated = s.clist[p].nominated \/ uc]
<1>1. k \in Check /\ s.clist[p] \in Check
  BY CheckType
<1>2. /\ k.nominated = (s.clist[p].nominated \/ uc) /\ k.state = s.clist[p].state
      /\ k.tdata = s.clist[p].tdata
  BY <1>1 DEF Check
<1> HIDE DEF k
<1>3. r = [s EXCEPT !.clist[p] = k]
  BY DEF k, Flagged
<1>4. r \in Session(a) /\ (FromBase(p) => Quiet(a, s, r))
  BY <1>1, <1>3, KeepsCheck, KeepsType, CheckQuiet
<1>5. SameRest(s, r) /\ r.broken = s.broken /\ r.pending = s.pending
  BY <1>3, SMTT(30) DEF Session, SameRest, SameSelection
<1>6. r.clist[p] = k /\ \A q \in Pairs(a) : q # p => r.clist[q] = s.clist[q]
  BY <1>3, SMTT(30) DEF Session
<1>7. \A q \in Pairs(a) : /\ r.clist[q].state = s.clist[q].state /\ r.clist[q].tdata = s.clist[q].tdata
                          /\ s.clist[q].nominated => r.clist[q].nominated
  BY <1>2, <1>6
<1>8. DOMAIN s.clist = Pairs(a) /\ DOMAIN r.clist = Pairs(a)
  BY <1>4 DEF Session
<1>9. Steady(s, r)
  BY <1>5, <1>7, <1>8 DEF Steady, SameRest, Renewable, Doubled
<1>10. Workers(r)
  <2>1. \A t \in s.pending : t.pair \in Pairs(a)
    BY DEF Session, Tx
  <2> QED
    BY <1>5, <1>7, <2>1 DEF Tended, Workers, InProgress
<1>11. Proven(r)
  BY <1>5, <1>9, ProvenOn DEF Tended, SameRest, SameSelection
<1>12. Selected(r) /\ Timed(r)
  BY <1>5, SelectedOn DEF Tended, SameRest, SameSelection, Timed, AllValid
<1>13. \A q \in Pairs(a) : InProgress(r, q) => Awaits(r, q)
  BY <1>5, <1>7, <1>8 DEF Tended, InProgress, Awaits
<1> QED
  BY <1>2, <1>4, <1>6, <1>7, <1>8, <1>9, <1>10, <1>11, <1>12, <1>13 DEF Tended

LEMMA TriggeredTends ==
    ASSUME OneSocket, NEW a \in Agents, NEW s \in Session(a), NEW p \in Pairs(a), NEW uc \in BOOLEAN,
           Fit(s), FromBase(p), Tended(s)
    PROVE  Tends(s, triggered_check(s, p, uc))
<1>1. PICK s1 : s1 = Flagged(s, p, uc)
  OBVIOUS
<1> DEFINE st == s.clist[p].state
           c == s1.clist[p]
           nominate == c.nominated \/ s1.is_nominating
           s2 == IF uc THEN NominateValid(s1, p) ELSE s1
<1>2. triggered_check(s, p, uc)
      = CASE st \in NotYetTried -> perform_check(s1, p, nominate)
          [] st = "in_progress" -> Claim(s1, c.tdata # 0, "retransmit")
          [] st = "succeeded" -> on_check_complete(s2, p)
          [] OTHER -> s1
  BY <1>1 DEF triggered_check, Flagged
<1>3. /\ s1 \in Session(a) /\ Quiet(a, s, s1) /\ Steady(s, s1) /\ Tended(s1)
      /\ uc => s1.clist[p].nominated
      /\ s1.clist[p].state = st /\ s1.clist[p].tdata = s.clist[p].tdata
  BY <1>1, FlagTended
<1>4. Fit(s1)
  BY <1>3, QuietFollows DEF Follows
<1>5. CASE st \in NotYetTried
  <2> HIDE DEF s2
  <2>1. nominate \in BOOLEAN
    BY <1>3, CheckType DEF Session
  <2>2. Tends(s1, perform_check(s1, p, nominate))
    BY <1>3, <1>5, <2>1, PerformTended, TendedTends DEF NotYetTried
  <2>3. triggered_check(s, p, uc) = perform_check(s1, p, nominate)
    BY <1>2, <1>5 DEF NotYetTried
  <2> QED
    BY <1>3, <2>2, <2>3, SteadyTends
<1>6. CASE st = "in_progress"
  <2>1. DOMAIN s1.clist = Pairs(a)
    BY <1>3 DEF Session
  <2>2. c.tdata # 0
    BY <1>3, <1>6, <2>1 DEF Tended, InProgress, Awaits, Workers
  <2>3. Tends(s1, Claim(s1, c.tdata # 0, "retransmit"))
    BY <1>3, <2>2, ClaimSteady, TendedTends DEF Asserts
  <2>4. triggered_check(s, p, uc) = Claim(s1, c.tdata # 0, "retransmit")
    BY <1>2, <1>6 DEF NotYetTried
  <2> QED
    BY <1>3, <2>3, <2>4, SteadyTends
<1>7. CASE st = "succeeded"
  <2>1. Follows(a, s1, s2) /\ Steady(s1, s2) /\ Tended(s2)
    BY <1>3, NominateFollows, QuietItself, QuietFollows, NominateTended, SteadyItself
  <2> HIDE DEF s2
  <2>2. s2 \in Session(a) /\ Fit(s2)
    BY <1>4, <2>1 DEF Follows
  <2>3. Tends(s2, on_check_complete(s2, p))
    BY <2>1, <2>2, CheckCompleteTends
  <2>4. Tends(s1, on_check_complete(s2, p))
    BY <1>3, <2>1, <2>2, <2>3, SteadyTends
  <2>5. triggered_check(s, p, uc) = on_check_complete(s2, p)
    BY <1>2, <1>7 DEF NotYetTried
  <2> QED
    BY <1>3, <2>4, <2>5, SteadyTends
<1>8. CASE st \notin NotYetTried /\ st # "in_progress" /\ st # "succeeded"
  BY <1>2, <1>3, <1>8, TendedTends
<1> QED
  BY <1>5, <1>6, <1>7, <1>8

\* A new check is put on the list and sent.
LEMMA NewCheckTends ==
    ASSUME NEW a \in Agents, NEW s \in Session(a), NEW p \in Pairs(a), NEW uc \in BOOLEAN,
           p \notin Listed(s), Tended(s)
    PROVE  Tends(s, new_check(s, p, uc))
<1> DEFINE k == [s.clist[p] EXCEPT !.state = "waiting", !.nominated = uc,
                                   !.prio = CALC_CHECK_PRIO(s.role, p),
                                   !.born = Cardinality(Listed(s)) + 1]
           r == [s EXCEPT !.clist[p] = k]
           nominate == uc \/ s.is_nominating
<1>1. new_check(s, p, uc) = perform_check(r, p, nominate)
  BY DEF new_check
<1>2. k \in Check /\ nominate \in BOOLEAN /\ s.clist[p] \in Check
  BY NewCheckType, CheckType DEF Session
<1>3. k.state = "waiting"
  BY <1>2 DEF Check
<1> HIDE DEF k
<1>4. r \in Session(a)
  BY <1>2, KeepsCheck, KeepsType
<1>5. SameRest(s, r) /\ r.broken = s.broken /\ r.pending = s.pending
  BY SMTT(30) DEF Session, SameRest, SameSelection
<1>6. r.clist[p] = k /\ \A q \in Pairs(a) : q # p => r.clist[q] = s.clist[q]
  BY SMTT(30) DEF Session
<1> HIDE DEF r, nominate
<1>7. DOMAIN s.clist = Pairs(a) /\ DOMAIN r.clist = Pairs(a) /\ s.clist[p].state = "absent"
  BY <1>4 DEF Session, Listed
<1>8. Steady(s, r)
  BY <1>3, <1>5, <1>6, <1>7 DEF Steady, SameRest, Renewable, Doubled, Finished
<1>9. Workers(r)
  <2>1. \A t \in s.pending : t.pair \in Pairs(a) /\ t.pair # p
    BY <1>7 DEF Session, Tx, Tended, Workers, InProgress
  <2> QED
    BY <1>5, <1>6, <2>1 DEF Tended, Workers, InProgress
<1>10. Proven(r)
  BY <1>5, <1>8, ProvenOn DEF Tended, SameRest, SameSelection
<1>11. Selected(r) /\ Timed(r)
  BY <1>5, SelectedOn DEF Tended, SameRest, SameSelection, Timed, AllValid
<1>12. \A q \in Pairs(a) : InProgress(r, q) => Awaits(r, q)
  BY <1>3, <1>5, <1>6, <1>7 DEF Tended, InProgress, Awaits
<1>13. Tended(r)
  BY <1>7, <1>9, <1>10, <1>11, <1>12 DEF Tended
<1>14. Tends(r, perform_check(r, p, nominate))
  BY <1>2, <1>3, <1>4, <1>6, <1>13, PerformTended, TendedTends
<1> QED
  BY <1>1, <1>4, <1>8, <1>14, SteadyTends

LEMMA IncomingTends ==
    ASSUME OneSocket, NEW a \in Agents, NEW s \in Session(a), NEW rcheck \in RxCheck(a),
           Fit(s), Tended(s)
    PROVE  Tends(s, handle_incoming_check(s, rcheck))
<1> DEFINE dst == rcheck.pair[1]
           src == rcheck.pair[2]
           full == src \notin s.rcand /\ Cardinality(s.rcand) >= MaxCand
           cands == s.rcand \cup {src}
           s1 == [s EXCEPT !.rcand = cands]
           lq == LocalCandidate(s, dst)
           p == <<lq[1], src>>
<1>1. handle_incoming_check(s, rcheck)
      = IF full THEN s
        ELSE IF lq = NoPair THEN s1
        ELSE IF p \in Listed(s) THEN triggered_check(s1, p, rcheck.uc)
        ELSE IF RoomForCheck(s) THEN new_check(s1, p, rcheck.uc)
        ELSE s1
  BY DEF handle_incoming_check
<1>2. rcheck.pair \in Pairs(a) /\ rcheck.uc \in BOOLEAN
  BY DEF RxCheck
<1>3. cands \in SUBSET Addr
  BY <1>2, PairEnds DEF Session
<1> HIDE DEF cands
<1>4. s1 \in Session(a)
  BY <1>3, KeepsCandidates, KeepsType
<1>5. Rearms(s, s1) /\ SamePairs(s, s1)
  BY SMTT(30) DEF Session, Rearms, Doubled, Tended, Timed, SamePairs, SameSelection
<1> HIDE DEF s1, full
<1>6. Steady(s, s1) /\ Tended(s1) /\ Fit(s1) /\ Listed(s1) = Listed(s)
  BY <1>5, RearmSteady, SameFit DEF SamePairs, Listed
<1>7. Tends(s, s) /\ Tends(s, s1)
  BY <1>6, SteadyItself, TendedTends
<1>8. CASE lq # NoPair
  <2>1. lq \in Pairs(a) /\ CompOf[lq[1]] = CompOf[dst] /\ FromBase(lq)
    <3>1. lq \in Listed(s) /\ CompOf[lq[1]] = CompOf[dst]
      BY <1>8, FirstType DEF LocalCandidate
    <3> QED
      BY <3>1, ListedType DEF Fit, Grounded
  <2>2. p \in Pairs(a)
    BY <1>2, <2>1, PairEnds, PairOf
  <2>3. FromBase(p)
    BY <2>1 DEF FromBase
  <2> HIDE DEF lq, p
  <2>4. Tends(s1, triggered_check(s1, p, rcheck.uc))
    BY <1>2, <1>4, <1>6, <2>2, <2>3, TriggeredTends
  <2>5. p \notin Listed(s) => Tends(s1, new_check(s1, p, rcheck.uc))
    BY <1>2, <1>4, <1>6, <2>2, NewCheckTends
  <2>6. /\ Tends(s, triggered_check(s1, p, rcheck.uc))
        /\ p \notin Listed(s) => Tends(s, new_check(s1, p, rcheck.uc))
    BY <1>4, <1>6, <2>4, <2>5, SteadyTends
  <2> QED
    BY <1>1, <1>7, <1>8, <2>6
<1>9. CASE lq = NoPair
  BY <1>1, <1>7, <1>9
<1> QED
  BY <1>8, <1>9

LEMMA SuccessTends ==
    ASSUME OneSocket, NEW a \in Agents, NEW s \in Session(a), NEW p \in Pairs(a), Answered(p),
           Fit(s), Open(s, p)
    PROVE  Tends(s, SuccessResponse(s, p))
<1> DEFINE s1 == AddValid(s, p)
           s2 == check_set_state(s1, p, "succeeded")
<1>1. SuccessResponse(s, p) \in {check_failed(s, p), on_check_complete(s2, p)}
  BY DEF SuccessResponse
<1>2. Steady(s, s2) /\ Tended(s2)
  BY AddClose DEF Answered
<1>3. Follows(a, s, s1)
  BY AnsweredPasses, AddFollows
<1> HIDE DEF s1
<1>4. Follows(a, s1, s2)
  BY <1>3, StateQuiet, QuietFollows, FollowsType DEF CheckStates, Answered
<1> HIDE DEF s2
<1>5. s2 \in Session(a) /\ Fit(s2)
  BY <1>3, <1>4 DEF Follows
<1>6. Tends(s, on_check_complete(s2, p))
  BY <1>2, <1>5, CheckCompleteTends, SteadyTends
<1>7. Tends(s, check_failed(s, p))
  BY FailedTends DEF Answered
<1> QED
  BY <1>1, <1>6, <1>7

LEMMA ConflictTends ==
    ASSUME NEW a \in Agents, NEW s \in Session(a), NEW t \in Tx(a), Open(s, t.pair)
    PROVE  Tends(s, RoleConflictResponse(s, t))
<1> DEFINE p == t.pair
           x == OtherRole(t.role)
           s1 == [s EXCEPT !.role = x]
           s2 == check_set_state(s1, p, "waiting")
           nominate == s.clist[p].nominated \/ s.is_nominating
<1>1. RoleConflictResponse(s, t) = perform_check(s2, p, nominate)
  BY DEF RoleConflictResponse
<1>2. p \in Pairs(a) /\ x \in Roles
  BY OtherRoleType DEF Tx
<1>3. nominate \in BOOLEAN
  BY <1>2, CheckType DEF Session
<1> HIDE DEF p, x, nominate
<1>4. s1 \in Session(a)
  BY <1>2, ZenonT(30) DEF Session
<1>5. Rearms(s, s1)
  BY SMTT(30) DEF Session, Rearms, Doubled, Open, Timed
<1> HIDE DEF s1
<1>6. Steady(s, s1) /\ Open(s1, p)
  BY <1>5, RearmSteady DEF p
<1>7. Steady(s1, s2) /\ Tended(s2)
  BY <1>2, <1>4, <1>6, CloseTended
<1>8. s1.clist[p].state \notin Finished
  BY <1>6 DEF Open, InProgress, Finished
<1>9. s2 \in Session(a) /\ s2.clist[p].state = "waiting"
  <2>1. "waiting" \in CheckStates
    BY DEF CheckStates
  <2>2. s2 \in Session(a)
    BY <1>2, <1>4, <2>1, SetStateKeeps, KeepsType
  <2>3. s2.clist[p].state = "waiting"
    BY <1>2, <1>4, <1>8, <2>1, StateFields
  <2> QED
    BY <2>2, <2>3
<1> HIDE DEF s2
<1>10. Tends(s2, perform_check(s2, p, nominate))
  BY <1>2, <1>3, <1>7, <1>9, PerformTended, TendedTends
<1> QED
  BY <1>1, <1>4, <1>6, <1>7, <1>9, <1>10, SteadyTends

-----------------------------------------------------------------------------
(* The invariant of an agent and its checks                                *)

\* Nothing has happened to a session that has no checklist yet.
Fresh(s) ==
    s.phase = "init" =>
        /\ s.rcand = {} /\ s.pending = {} /\ Listed(s) = {}
        /\ s.timer = "none" /\ ~s.clist_timer
        /\ \A v \in DOMAIN s.valid_list : ~s.valid_list[v].listed

Whole(s) ==
    /\ Selected(s) /\ Fresh(s) /\ s.broken \subseteq Tolerated
    /\ ~s.is_destroying => Tended(s) /\ \A m \in s.resp : m.t \in s.pending
    /\ ~s.aggressive => ~Doubled(s)

\* A step that takes up a finished check only where nomination starts.
Lives(s, r) ==
    /\ r.aggressive = s.aggressive
    /\ \A p \in DOMAIN s.clist :
          s.clist[p].state \in Finished /\ r.clist[p].state # s.clist[p].state =>
              /\ s.clist[p].state = "succeeded" /\ r.clist[p].state = "waiting"
              /\ Renewable(s) /\ r.is_nominating

AllWhole == \A a \in Agents : Whole(ice[a])
AllLive == \A a \in Agents : Lives(ice[a], ice'[a])

\* Discarding responses keeps the rest, and leaves those that are awaited.
LEMMA SettleRest ==
    ASSUME NEW a, NEW r \in Session(a)
    PROVE  LET q == Settle(r)
           IN /\ SameRest(r, q) /\ q.clist = r.clist /\ q.pending = r.pending
              /\ q.broken = r.broken /\ \A m \in q.resp : m.t \in q.pending
  BY SMTT(30) DEF Settle, Session, SameRest, SameSelection

LEMMA RestTended ==
    ASSUME NEW a \in Agents, NEW s \in Session(a), NEW r, Tended(s),
           SameSelection(s, r), r.clist = s.clist, r.pending = s.pending,
           r.timer = s.timer, r.is_nominating = s.is_nominating
    PROVE  Tended(r)
<1>1. Selected(r)
  BY SelectedOn DEF Tended, SameSelection
<1>2. Workers(r) /\ Proven(r) /\ Timed(r)
  BY DEF Tended, SameSelection, Workers, InProgress, Proven, Renewable, Timed, AllValid
<1> QED
  BY <1>1, <1>2 DEF Tended, InProgress, Awaits

\* What a handler leaves of a session that has a checklist.
LEMMA SettleWhole ==
    ASSUME NEW a \in Agents, NEW s, NEW r \in Session(a), Tended(r), Lives(s, r),
           r.broken \subseteq Tolerated, r.phase # "init", ~r.aggressive => ~Doubled(r)
    PROVE  Whole(Settle(r)) /\ Lives(s, Settle(r))
<1> DEFINE q == Settle(r)
<1>1. /\ SameRest(r, q) /\ q.clist = r.clist /\ q.pending = r.pending
      /\ q.broken = r.broken /\ \A m \in q.resp : m.t \in q.pending
  BY SettleRest
<1> HIDE DEF q
<1>2. Tended(q)
  BY <1>1, RestTended DEF SameRest
<1>3. Whole(q)
  BY <1>1, <1>2 DEF Whole, Tended, Fresh, SameRest, Doubled
<1>4. Lives(s, q)
  BY <1>1 DEF Lives, SameRest
<1> QED
  BY <1>3, <1>4 DEF q

LEMMA TendsWhole ==
    ASSUME NEW a \in Agents, NEW s \in Session(a), NEW r \in Session(a),
           Whole(s), s.phase # "init", Tends(s, r)
    PROVE  Whole(Settle(r)) /\ Lives(s, Settle(r))
<1>1. Lives(s, r) /\ Tended(r) /\ r.phase # "init" /\ r.broken \subseteq Tolerated
  BY DEF Tends, Lives, Whole
<1>2. ~r.aggressive => ~Doubled(r)
  BY DEF Tends, Whole
<1> QED
  BY <1>1, <1>2, SettleWhole

\* What happens to a session, if anything, leaves its checks as they are.
LEMMA RestWhole ==
    ASSUME NEW a \in Agents, NEW s \in Session(a), NEW r, Whole(s), SameRest(s, r),
           r.clist = s.clist, r.pending = s.pending, r.broken = s.broken,
           r.rcand = s.rcand, r.clist_timer = s.clist_timer,
           r.is_destroying = s.is_destroying,
           \A m \in r.resp : m \in s.resp \/ m.t \in s.pending
    PROVE  Whole(r) /\ Lives(s, r)
<1>1. Selected(r)
  BY SelectedOn DEF Whole, SameRest, SameSelection
<1>2. ~s.is_destroying => Tended(r)
  BY RestTended DEF Whole, SameRest
<1>3. Fresh(r)
  BY DEF Whole, Fresh, SameRest, SameSelection, Listed
<1>4. Whole(r)
  BY <1>1, <1>2, <1>3 DEF Whole, SameRest, Doubled
<1>5. Lives(s, r)
  BY DEF Lives, SameRest
<1> QED
  BY <1>4, <1>5

\* A session that is destroyed.
LEMMA DestroyWhole ==
    ASSUME NEW a \in Agents, NEW s \in Session(a), NEW r \in Session(a), Whole(s),
           SameSelection(s, r), r.clist = s.clist, r.aggressive = s.aggressive,
           r.broken \subseteq Tolerated, r.rcand = s.rcand, r.phase = "init" => s.phase = "init"
    PROVE  Whole(Settle(Destroyed(r))) /\ Lives(s, Settle(Destroyed(r)))
<1> DEFINE d == Destroyed(r)
           q == Settle(d)
<1>1. /\ SameSelection(r, d) /\ d.clist = r.clist /\ d.aggressive = r.aggressive
      /\ d.broken = r.broken /\ d.rcand = r.rcand /\ d.phase = r.phase
      /\ d.is_destroying /\ d.timer = "none" /\ ~d.clist_timer /\ d.pending = {}
  BY SMTT(30) DEF Destroyed, Session, SameSelection
<1>2. d \in Session(a)
  <2>1. "none" \in Timers
    BY DEF Timers
  <2> QED
    BY <2>1, ZenonT(30) DEF Destroyed, Session
<1> HIDE DEF d
<1>3. /\ SameSelection(d, q) /\ q.clist = d.clist /\ q.aggressive = d.aggressive
      /\ q.broken = d.broken /\ q.rcand = d.rcand /\ q.phase = d.phase
      /\ q.is_destroying /\ q.timer = "none" /\ ~q.clist_timer /\ q.pending = {}
  BY <1>1, <1>2, SMTT(30) DEF Settle, Session, SameSelection
<1> HIDE DEF q
<1>4. Selected(q)
  BY <1>1, <1>3, SelectedOn DEF Whole, SameSelection
<1>5. Fresh(q)
  BY <1>1, <1>3 DEF Whole, Fresh, SameSelection, Listed
<1>6. Whole(q)
  BY <1>1, <1>3, <1>4, <1>5 DEF Whole, Doubled
<1>7. Lives(s, q)
  BY <1>1, <1>3 DEF Lives
<1> QED
  BY <1>6, <1>7 DEF d, q

\* A step of one agent.
LEMMA BecomesWhole ==
    ASSUME AllWhole, IInv, NEW a \in Agents, NEW r, Becomes(a, r),
           Whole(Settle(r)), Lives(ice[a], Settle(r))
    PROVE  AllWhole' /\ AllLive
<1>1. ice' = [ice EXCEPT ![a] = Settle(r)]
  BY DEF Becomes
<1>2. ice'[a] = Settle(r) /\ \A b \in Agents : b # a => ice'[b] = ice[b]
  BY <1>1 DEF IInv
<1>3. \A b \in Agents : Lives(ice[b], ice[b])
  BY DEF Lives
<1> QED
  BY <1>2, <1>3 DEF AllWhole, AllLive

LEMMA TendsSteps ==
    ASSUME AllWhole, IInv, NEW a \in Agents, NEW r \in Session(a), Becomes(a, r),
           ice[a].phase # "init", Tends(ice[a], r)
    PROVE  AllWhole' /\ AllLive
  BY TendsWhole, BecomesWhole DEF AllWhole, IInv, Sound

-----------------------------------------------------------------------------
(* The actions, on checks and transactions                                 *)

LEMMA CreateWhole ==
    ASSUME AllWhole, IInv, NEW a \in Agents, CreateCheckList(a)
    PROVE  AllWhole' /\ AllLive
<1> DEFINE s == ice[a]
           list == [p \in Pairs(a) |->
                       IF p \in InitialChecks(a)
                       THEN [s.clist[p] EXCEPT !.state = "frozen",
                                               !.prio = CALC_CHECK_PRIO(s.role, p)]
                       ELSE s.clist[p]]
           r == [s EXCEPT !.phase = "listed", !.rcand = LCand[Peer[a]], !.clist = list]
<1>1. Becomes(a, r) /\ s \in Session(a) /\ s.phase = "init" /\ ~s.is_destroying /\ Whole(s)
  BY DEF CreateCheckList, Enterable, IInv, Sound, AllWhole
<1>2. r \in Session(a)
  BY <1>1, CreateType
<1>3. \A p \in Pairs(a) : s.clist[p].state = "absent" /\ s.clist[p] \in Check
  BY <1>1, CheckType DEF Whole, Fresh, Listed, Session
<1>4. \A p \in Pairs(a) : list[p].state \in {"frozen", "absent"}
  <2>1. \A k \in Check, n \in Nat : [k EXCEPT !.state = "frozen", !.prio = n].state = "frozen"
    BY DEF Check
  <2>2. \A p \in Pairs(a) : CALC_CHECK_PRIO(s.role, p) \in Nat
    BY PrioType
  <2> QED
    BY <1>3, <2>1, <2>2
<1>5. DOMAIN list = Pairs(a) /\ DOMAIN s.clist = Pairs(a) /\ DOMAIN s.valid_list = Pairs(a)
  BY <1>1 DEF Session
<1> HIDE DEF list, s
<1>6. /\ SameSelection(s, r) /\ r.clist = list /\ r.pending = s.pending /\ r.timer = s.timer
      /\ r.is_nominating = s.is_nominating /\ r.aggressive = s.aggressive
      /\ r.broken = s.broken /\ r.phase = "listed"
  BY <1>1, SMTT(30) DEF Session, SameSelection
<1> HIDE DEF r
<1>7. Selected(r)
  BY <1>1, <1>6, SelectedOn DEF Whole, SameSelection
<1>8. Workers(r) /\ Proven(r) /\ Timed(r)
  BY <1>1, <1>6 DEF Whole, Fresh, Workers, Proven, Timed, SameSelection
<1>9. Tended(r)
  BY <1>4, <1>5, <1>6, <1>7, <1>8 DEF Tended, InProgress
<1>10. Lives(s, r)
  BY <1>3, <1>5, <1>6 DEF Lives, Finished
<1>11. ~r.aggressive => ~Doubled(r)
  BY <1>1, <1>6 DEF Whole, Doubled
<1>12. Whole(Settle(r)) /\ Lives(s, Settle(r))
  BY <1>1, <1>2, <1>6, <1>9, <1>10, <1>11, SettleWhole DEF Whole
<1> QED
  BY <1>1, <1>12, BecomesWhole DEF s

LEMMA StartWhole ==
    ASSUME AllWhole, IInv, NEW a \in Agents, StartCheck(a)
    PROVE  AllWhole' /\ AllLive
<1> DEFINE s == ice[a]
           lead == FirstOfFoundation(s)
           n == s.is_nominating \/ s.aggressive
           list == [p \in DOMAIN s.clist |->
                       IF p \in lead /\ s.clist[p].state = "frozen"
                       THEN [s.clist[p] EXCEPT !.state = "waiting"] ELSE s.clist[p]]
           r == [s EXCEPT !.phase = "replay", !.is_nominating = n, !.clist = list]
<1>1. Becomes(a, r) /\ s \in Session(a) /\ ~s.is_destroying /\ Whole(s) /\ Tended(s)
  BY DEF StartCheck, Enterable, IInv, Sound, AllWhole, Whole
<1>2. r \in Session(a)
  BY <1>1, StartType
<1>3. \A p \in Pairs(a) :
          /\ \/ list[p].state = s.clist[p].state
             \/ s.clist[p].state = "frozen" /\ list[p].state = "waiting"
          /\ list[p].tdata = s.clist[p].tdata /\ list[p].nominated = s.clist[p].nominated
  <2>1. \A k \in Check : LET e == [k EXCEPT !.state = "waiting"]
                         IN e.state = "waiting" /\ e.tdata = k.tdata /\ e.nominated = k.nominated
    BY DEF Check
  <2>2. \A p \in Pairs(a) : s.clist[p] \in Check
    BY <1>1, CheckType
  <2>3. DOMAIN s.clist = Pairs(a)
    BY <1>1 DEF Session
  <2> HIDE DEF lead, s
  <2>4. ASSUME NEW p \in Pairs(a)
        PROVE  list[p] \in {s.clist[p], [s.clist[p] EXCEPT !.state = "waiting"]}
               /\ (s.clist[p].state # "frozen" => list[p] = s.clist[p])
    BY <2>3
  <2> HIDE DEF list
  <2>5. ASSUME NEW p \in Pairs(a)
        PROVE  LET e == [s.clist[p] EXCEPT !.state = "waiting"]
               IN /\ e.state = "waiting" /\ e.tdata = s.clist[p].tdata
                  /\ e.nominated = s.clist[p].nominated
    BY <2>1, <2>2
  <2> SUFFICES ASSUME NEW p \in Pairs(a)
               PROVE  /\ \/ list[p].state = s.clist[p].state
                         \/ s.clist[p].state = "frozen" /\ list[p].state = "waiting"
                      /\ list[p].tdata = s.clist[p].tdata
                      /\ list[p].nominated = s.clist[p].nominated
    OBVIOUS
  <2>6. CASE list[p] = s.clist[p]
    BY <2>6
  <2>7. CASE list[p] # s.clist[p]
    BY <2>4, <2>5, <2>7
  <2> QED
    BY <2>6, <2>7
<1>4. n \in BOOLEAN /\ (~s.aggressive => n = s.is_nominating) /\ (s.is_nominating => n)
  BY <1>1 DEF Session
<1>5. DOMAIN list = Pairs(a) /\ DOMAIN s.clist = Pairs(a) /\ DOMAIN s.valid_list = Pairs(a)
  BY <1>1 DEF Session
<1> HIDE DEF list, n, s
<1>6. /\ SameSelection(s, r) /\ r.clist = list /\ r.pending = s.pending /\ r.timer = s.timer
      /\ r.is_nominating = n /\ r.aggressive = s.aggressive
      /\ r.broken = s.broken /\ r.phase = "replay"
  BY <1>1, SMTT(30) DEF Session, SameSelection
<1> HIDE DEF r
<1>7. Selected(r)
  BY <1>1, <1>6, SelectedOn DEF Whole, SameSelection
<1>8. Workers(r)
  <2>1. \A t \in s.pending : t.pair \in Pairs(a)
    BY <1>1 DEF Session, Tx
  <2> QED
    BY <1>1, <1>3, <1>6, <2>1 DEF Tended, Workers, InProgress
<1>9. Proven(r)
  <2>1. \A v \in Pairs(a) : Origin(v) \in Pairs(a)
    BY OriginType
  <2>2. Renewable(r) => Renewable(s)
    BY <1>4, <1>6 DEF Renewable
  <2> QED
    BY <1>1, <1>3, <1>5, <1>6, <2>1, <2>2 DEF Tended, Proven, SameSelection
<1>10. Timed(r)
  BY <1>1, <1>6 DEF Tended, Timed, AllValid, SameSelection
<1>11. \A q \in Pairs(a) : InProgress(r, q) => Awaits(r, q)
  BY <1>1, <1>3, <1>5, <1>6 DEF Tended, InProgress, Awaits
<1>12. Tended(r)
  BY <1>5, <1>6, <1>7, <1>8, <1>9, <1>10, <1>11 DEF Tended
<1>13. Lives(s, r)
  BY <1>3, <1>5, <1>6 DEF Lives, Finished
<1>14. ~r.aggressive => ~Doubled(r)
  BY <1>1, <1>4, <1>6 DEF Whole, Doubled
<1>15. Whole(Settle(r)) /\ Lives(s, Settle(r))
  BY <1>1, <1>2, <1>6, <1>12, <1>13, <1>14, SettleWhole DEF Whole
<1> QED
  BY <1>1, <1>15, BecomesWhole DEF s

LEMMA StartDoneWhole ==
    ASSUME AllWhole, IInv, NEW a \in Agents, StartCheckDone(a)
    PROVE  AllWhole' /\ AllLive
<1> DEFINE s == ice[a]
           s1 == [s EXCEPT !.phase = "started"]
           s2 == [s EXCEPT !.phase = "started", !.clist_timer = TRUE]
           s3 == Claim(s1, FALSE, "schedule")
<1>1. Becomes(a, IF s.clist_timer THEN Destroyed(s3) ELSE s2)
  BY DEF StartCheckDone
<1>2. s \in Session(a) /\ Whole(s) /\ Tended(s)
  BY DEF StartCheckDone, IInv, Sound, AllWhole, Whole
<1> HIDE DEF s
<1>3. /\ SameSelection(s, s2) /\ s2.clist = s.clist /\ s2.pending = s.pending
      /\ s2.timer = s.timer /\ s2.is_nominating = s.is_nominating
      /\ s2.aggressive = s.aggressive /\ s2.broken = s.broken /\ s2.phase = "started"
  BY <1>2, SMTT(30) DEF Session, SameSelection
<1>4. /\ SameSelection(s, s3) /\ s3.clist = s.clist /\ s3.aggressive = s.aggressive
      /\ s3.broken = s.broken \cup {"schedule"} /\ s3.rcand = s.rcand /\ s3.phase = "started"
  BY <1>2, SMTT(30) DEF Claim, Session, SameSelection
<1>5. s1 \in Session(a) /\ s2 \in Session(a)
  <2>1. "started" \in Phases /\ TRUE \in BOOLEAN
    BY DEF Phases
  <2> QED
    BY <1>2, <2>1, ZenonT(30) DEF Session
<1> HIDE DEF s1
<1>6. s3 \in Session(a)
  BY <1>5, KeepsBroken, KeepsType DEF Asserts
<1> HIDE DEF s2, s3
<1>7. Tended(s2) /\ Lives(s, s2)
  BY <1>2, <1>3, RestTended DEF Lives
<1>8. ~s2.aggressive => ~Doubled(s2)
  BY <1>2, <1>3 DEF Whole, Doubled
<1>9. Whole(Settle(s2)) /\ Lives(s, Settle(s2))
  BY <1>2, <1>3, <1>5, <1>7, <1>8, SettleWhole DEF Whole
<1>10. s3.broken \subseteq Tolerated
  BY <1>2, <1>4 DEF Whole, Tolerated, WindowAsserts
<1>11. Whole(Settle(Destroyed(s3))) /\ Lives(s, Settle(Destroyed(s3)))
  BY <1>2, <1>4, <1>6, <1>10, DestroyWhole
<1> QED
  BY <1>1, <1>9, <1>11, BecomesWhole DEF s

LEMMA EndWhole ==
    ASSUME AllWhole, IInv, NEW a \in Agents, Destroy(a)
    PROVE  AllWhole' /\ AllLive
<1>1. Becomes(a, Destroyed(ice[a])) /\ ice[a] \in Session(a) /\ Whole(ice[a])
  BY DEF Destroy, IInv, Sound, AllWhole
<1>2. Whole(Settle(Destroyed(ice[a]))) /\ Lives(ice[a], Settle(Destroyed(ice[a])))
  BY <1>1, DestroyWhole DEF Whole, SameSelection
<1> QED
  BY <1>1, <1>2, BecomesWhole

LEMMA PeriodicWhole ==
    ASSUME AllWhole, IInv, NEW a \in Agents, PeriodicTimer(a)
    PROVE  AllWhole' /\ AllLive
<1> DEFINE s0 == ice[a]
           s == [s0 EXCEPT !.clist_timer = FALSE]
           InState(st) == {p \in Listed(s) : s.clist[p].state = st}
           nxt == IF InState("waiting") # {} THEN First(s, InState("waiting"))
                  ELSE First(s, InState("frozen"))
           s1 == perform_check(s, nxt, s.is_nominating)
           r == [s1 EXCEPT !.clist_timer = nxt \notin SendErr]
<1>1. Becomes(a, IF nxt = NoPair THEN s ELSE r)
  BY DEF PeriodicTimer
<1>2. /\ s0 \in Session(a) /\ Whole(s0) /\ Tended(s0) /\ s0.phase # "init"
  BY DEF PeriodicTimer, Enterable, IInv, Sound, AllWhole, Whole, Fresh
<1> HIDE DEF s0
<1>3. s \in Session(a) /\ Rearms(s0, s)
  <2>1. s \in Session(a)
    BY <1>2, TimerQuiet, QuietType
  <2>2. /\ SameRest(s0, s) /\ s.clist = s0.clist /\ s.pending = s0.pending
        /\ s.broken = s0.broken
    BY <1>2, SMTT(30) DEF Session, SameRest, SameSelection
  <2> HIDE DEF s
  <2> QED
    BY <1>2, <2>1, <2>2 DEF Rearms, SameRest, SameSelection, Doubled, Tended, Timed
<1> HIDE DEF s
<1>4. Steady(s0, s) /\ Tended(s)
  BY <1>2, <1>3, RearmSteady
<1>5. CASE nxt = NoPair
  <2>1. Tends(s0, s)
    BY <1>4, TendedTends
  <2> QED
    BY <1>1, <1>2, <1>3, <1>5, <2>1, TendsSteps DEF s0
<1>6. CASE nxt # NoPair
  <2>1. nxt \in Listed(s) /\ s.clist[nxt].state \in {"frozen", "waiting"}
    BY <1>6, FirstType
  <2>2. nxt \in Pairs(a) /\ s.is_nominating \in BOOLEAN
    BY <1>3, <2>1, ListedType DEF Session
  <2> HIDE DEF nxt
  <2>3. s1 \in Session(a) /\ Steady(s, s1) /\ Tended(s1)
    BY <1>3, <1>4, <2>1, <2>2, PerformKeeps, KeepsType, PerformTended
  <2> HIDE DEF s1
  <2>4. r \in Session(a) /\ Rearms(s1, r)
    <3>1. r \in Session(a)
      BY <2>3, TimerQuiet, QuietType
    <3>2. /\ SameRest(s1, r) /\ r.clist = s1.clist /\ r.pending = s1.pending
          /\ r.broken = s1.broken
      BY <2>3, SMTT(30) DEF Session, SameRest, SameSelection
    <3> HIDE DEF r
    <3> QED
      BY <2>3, <3>1, <3>2 DEF Rearms, SameRest, SameSelection, Doubled, Tended, Timed
  <2> HIDE DEF r
  <2>5. Steady(s1, r) /\ Tended(r)
    BY <2>3, <2>4, RearmSteady
  <2>6. Tends(s0, r)
    BY <1>2, <1>3, <1>4, <2>3, <2>5, TendedTends, SteadyTends
  <2> QED
    BY <1>1, <1>2, <1>6, <2>4, <2>6, TendsSteps DEF s0
<1> QED
  BY <1>5, <1>6

LEMMA TimerWhole ==
    ASSUME OneSocket, AllWhole, Safe, IInv, NEW a \in Agents, OnTimer(a)
    PROVE  AllWhole' /\ AllLive
<1> DEFINE s0 == ice[a]
           s == [s0 EXCEPT !.timer = "none"]
           next == IF s.ice_status = "ok" THEN "keep_alive" ELSE "none"
           n == s.completions + 1
           told == [s EXCEPT !.timer = next, !.completions = n]
<1>1. \/ Becomes(a, on_ice_complete(s, "nom_timeout"))
      \/ s0.timer = "start_nominated" /\ Becomes(a, start_nominated_check(s))
      \/ Becomes(a, told)
  BY DEF OnTimer
<1>2. /\ s0 \in Session(a) /\ Whole(s0) /\ Tended(s0) /\ Fit(s0) /\ s0.phase # "init"
  BY DEF OnTimer, Enterable, IInv, Sound, AllWhole, Whole, Fresh, Safe, Fine
<1> HIDE DEF s0
<1>3. s \in Session(a)
  BY <1>2, TimerQuiet, QuietType DEF Timers
<1>4. /\ SameSelection(s0, s) /\ s.clist = s0.clist /\ s.pending = s0.pending
      /\ s.sent = s0.sent /\ s.phase = s0.phase /\ s.broken = s0.broken
      /\ s.is_nominating = s0.is_nominating /\ s.aggressive = s0.aggressive
      /\ s.timer = "none"
  BY <1>2, SMTT(30) DEF Session, SameSelection
<1> HIDE DEF s
<1>5. Steady(s0, s) /\ Tended(s)
  <2>1. Rearms(s0, s)
    BY <1>4 DEF Rearms, Doubled, SameSelection
  <2> QED
    BY <1>2, <2>1, RearmSteady
<1>6. CASE Becomes(a, on_ice_complete(s, "nom_timeout"))
  <2> DEFINE r == on_ice_complete(s, "nom_timeout")
  <2>1. r \in Session(a) /\ Steady(s, r) /\ Tended(r)
    BY <1>3, <1>5, CompleteKeeps, KeepsType, FinishSteady DEF Outcomes
  <2> HIDE DEF r
  <2>2. Tends(s0, r)
    BY <1>2, <1>3, <1>5, <2>1, TendedTends, SteadyTends
  <2> QED
    BY <1>2, <1>6, <2>1, <2>2, TendsSteps DEF r, s0
<1>7. CASE s0.timer = "start_nominated" /\ Becomes(a, start_nominated_check(s))
  <2>1. Ready(s0) /\ Renewable(s0)
    BY <1>2, <1>7 DEF Ready, Renewable, Tended, Proven, Timed
  <2>2. Grounded(s)
    BY <1>2, <1>4 DEF Fit, Grounded, SameSelection, Listed
  <2>3. Tends(s0, start_nominated_check(s))
    BY <1>2, <1>3, <1>4, <2>1, <2>2, StartNominatedTends DEF SameSelection
  <2>4. start_nominated_check(s) \in Session(a)
    BY <1>3, StartNominatedKeeps, KeepsType
  <2> QED
    BY <1>2, <1>7, <2>3, <2>4, TendsSteps DEF s0
<1>8. CASE Becomes(a, told)
  <2>1. next \in Timers /\ n \in Nat /\ next # "start_nominated"
        /\ (next = "keep_alive" => s.ice_status = "ok")
    BY <1>3 DEF Timers, Session
  <2> HIDE DEF next, n
  <2>2. told \in Session(a)
    BY <1>3, <2>1, ZenonT(30) DEF Session
  <2>3. Rearms(s, told)
    BY <1>3, <2>1, SMTT(30) DEF Session, Rearms, Doubled
  <2> HIDE DEF told
  <2>4. Tends(s0, told)
    BY <1>2, <1>3, <1>5, <2>3, RearmSteady, TendedTends, SteadyTends
  <2> QED
    BY <1>2, <1>8, <2>2, <2>4, TendsSteps DEF s0
<1> QED
  BY <1>1, <1>6, <1>7, <1>8

LEMMA KeepAliveWhole ==
    ASSUME AllWhole, Safe, IInv, NEW a \in Agents, KeepAlive(a)
    PROVE  AllWhole' /\ AllLive
<1> DEFINE s == ice[a]
           n == NextComponent(s.comp_ka)
           s1 == [s EXCEPT !.comp_ka = n]
           holds == s.nominated_check[s.comp_ka] # NoPair
           r == Claim(s1, holds, "keep_alive")
<1>1. Becomes(a, r)
  BY DEF KeepAlive
<1>2. /\ s \in Session(a) /\ Whole(s) /\ Tended(s) /\ Fit(s)
      /\ s.timer = "keep_alive" /\ s.phase # "init"
  BY DEF KeepAlive, Enterable, IInv, Sound, AllWhole, Whole, Fresh, Safe, Fine
<1>3. n \in Comps /\ s.comp_ka \in Comps
  BY <1>2, NextComponentType DEF Session
<1> HIDE DEF s
<1>4. holds
  BY <1>2, <1>3 DEF Tended, Timed, Fit, Covered, AllNominated
<1> HIDE DEF n, holds
<1>5. s1 \in Session(a)
  BY <1>2, <1>3, ZenonT(30) DEF Session
<1>6. Rearms(s, s1)
  BY <1>2, SMTT(30) DEF Session, Rearms, Doubled, Tended, Timed
<1> HIDE DEF s1
<1>7. Steady(s, s1) /\ Tended(s1)
  BY <1>2, <1>6, RearmSteady
<1>8. r \in Session(a) /\ Steady(s1, r) /\ Tended(r)
  BY <1>4, <1>5, <1>7, KeepsBroken, KeepsType, ClaimSteady DEF Asserts
<1> HIDE DEF r
<1>9. Tends(s, r)
  BY <1>2, <1>5, <1>7, <1>8, TendedTends, SteadyTends
<1> QED
  BY <1>1, <1>2, <1>8, <1>9, TendsSteps DEF s, r

LEMMA ReplayWhole ==
    ASSUME OneSocket, AllWhole, Safe, IInv, NEW a \in Agents, ReplayEarlyCheck(a)
    PROVE  AllWhole' /\ AllLive
<1> DEFINE s == ice[a]
           tail == Tail(s.early_check)
           s1 == [s EXCEPT !.early_check = tail]
           r == handle_incoming_check(s1, Head(s.early_check))
<1>1. Becomes(a, r) /\ s.early_check # <<>>
  BY DEF ReplayEarlyCheck
<1>2. s \in Session(a) /\ Whole(s) /\ Tended(s) /\ Fit(s) /\ s.phase # "init"
  BY DEF ReplayEarlyCheck, IInv, Sound, AllWhole, Whole, Safe, Fine
<1>3. Head(s.early_check) \in RxCheck(a) /\ tail \in Seq(RxCheck(a))
  <2>1. s.early_check \in Seq(RxCheck(a))
    BY <1>2 DEF Session
  <2> QED
    BY <1>1, <2>1
<1> HIDE DEF tail, s
<1>4. s1 \in Session(a)
  BY <1>2, <1>3, ZenonT(30) DEF Session
<1>5. /\ SameRest(s, s1) /\ SamePairs(s, s1) /\ s1.clist = s.clist
      /\ s1.pending = s.pending /\ s1.broken = s.broken
  BY <1>2, SMTT(30) DEF Session, SameRest, SamePairs, SameSelection
<1> HIDE DEF s1
<1>6. Rearms(s, s1) /\ Fit(s1)
  BY <1>2, <1>5, SameFit DEF Rearms, SameRest, SameSelection, Doubled, Tended, Timed
<1>7. Steady(s, s1) /\ Tended(s1)
  BY <1>2, <1>6, RearmSteady
<1>8. r \in Session(a) /\ Tends(s1, r)
  BY <1>3, <1>4, <1>6, <1>7, IncomingKeeps, KeepsType, IncomingTends
<1> HIDE DEF r
<1>9. Tends(s, r)
  BY <1>2, <1>4, <1>7, <1>8, SteadyTends
<1> QED
  BY <1>1, <1>2, <1>8, <1>9, TendsSteps DEF s

\* A transaction that is over, before its check is looked at.
LEMMA EndEnds ==
    ASSUME AllWhole, Safe, IInv, NEW a \in Agents, ~ice[a].is_destroying, NEW t \in ice[a].pending
    PROVE  LET s == Complete(ice[a], t)
           IN /\ s \in Session(a) /\ Fit(s) /\ t \in Tx(a) /\ t.pair \in Pairs(a)
              /\ FromBase(t.pair) /\ Steady(ice[a], s) /\ Open(s, t.pair)
              /\ ice[a] \in Session(a) /\ ice[a].phase # "init"
<1> DEFINE s0 == ice[a]
           s == Complete(s0, t)
<1>1. s0 \in Session(a) /\ Whole(s0) /\ Tended(s0) /\ Fit(s0)
  BY DEF IInv, Sound, AllWhole, Whole, Safe, Fine
<1>2. t \in Tx(a) /\ t.pair \in Pairs(a)
  BY <1>1 DEF Session, Tx
<1>3. Quiet(a, s0, s) /\ FromBase(t.pair)
  BY <1>1, <1>2, EndQuiet DEF Fit, Grounded
<1> HIDE DEF s0
<1>4. Steady(s0, s) /\ Open(s, t.pair)
  BY <1>1, EndOpens DEF s0
<1> HIDE DEF s
<1>5. s \in Session(a) /\ Fit(s)
  BY <1>1, <1>3, QuietType, QuietFollows DEF Follows
<1>6. s0.phase # "init"
  BY <1>1 DEF Whole, Fresh, s0
<1> QED
  BY <1>1, <1>2, <1>3, <1>4, <1>5, <1>6 DEF s0, s

LEMMA TimeoutWhole ==
    ASSUME OneSocket, AllWhole, Safe, IInv, NEW a \in Agents, NEW t \in ice[a].pending,
           RequestTimeout(a, t)
    PROVE  AllWhole' /\ AllLive
<1> DEFINE s == Complete(ice[a], t)
           r == check_failed(s, t.pair)
<1>1. Becomes(a, r) /\ ~ice[a].is_destroying
  BY DEF RequestTimeout, Enterable
<1>2. /\ s \in Session(a) /\ Fit(s) /\ t \in Tx(a) /\ t.pair \in Pairs(a)
      /\ FromBase(t.pair) /\ Steady(ice[a], s) /\ Open(s, t.pair)
      /\ ice[a] \in Session(a) /\ ice[a].phase # "init"
  BY <1>1, EndEnds
<1> HIDE DEF s
<1>3. r \in Session(a) /\ Tends(s, r)
  BY <1>2, FailedKeeps, KeepsType, FailedTends
<1> HIDE DEF r
<1>4. Tends(ice[a], r)
  BY <1>2, <1>3, SteadyTends
<1> QED
  BY <1>1, <1>2, <1>3, <1>4, TendsSteps

LEMMA ResponseWhole ==
    ASSUME OneSocket, AllWhole, Safe, IInv, NEW a \in Agents, NEW m \in ice[a].resp,
           RecvResponse(a, m)
    PROVE  AllWhole' /\ AllLive
<1> DEFINE t == m.t
           s == Complete(ice[a], t)
           r == IF m.code = "role_conflict" THEN RoleConflictResponse(s, t)
                ELSE SuccessResponse(s, t.pair)
<1>1. Becomes(a, r) /\ ~ice[a].is_destroying /\ Answered(t.pair)
  BY DEF RecvResponse, Enterable, Safe, Fine
<1>2. t \in ice[a].pending
  BY <1>1 DEF AllWhole, Whole
<1> HIDE DEF t
<1>3. /\ s \in Session(a) /\ Fit(s) /\ t \in Tx(a) /\ t.pair \in Pairs(a)
      /\ FromBase(t.pair) /\ Steady(ice[a], s) /\ Open(s, t.pair)
      /\ ice[a] \in Session(a) /\ ice[a].phase # "init"
  BY <1>1, <1>2, EndEnds
<1> HIDE DEF s
<1>4. CASE m.code = "role_conflict"
  <2> DEFINE q == RoleConflictResponse(s, t)
             s1 == [s EXCEPT !.role = OtherRole(t.role)]
  <2>1. Quiet(a, s1, q) /\ Tends(s, q)
    BY <1>3, ConflictQuiet, ConflictTends
  <2> HIDE DEF s1, q
  <2>2. q \in Session(a) /\ Tends(ice[a], q)
    BY <1>3, <2>1, QuietType, SteadyTends
  <2> QED
    BY <1>1, <1>3, <1>4, <2>2, TendsSteps DEF q
<1>5. CASE m.code # "role_conflict"
  <2> DEFINE q == SuccessResponse(s, t.pair)
  <2>1. Follows(a, s, q) /\ Tends(s, q)
    BY <1>1, <1>3, SuccessFollows, SuccessTends
  <2> HIDE DEF q
  <2>2. q \in Session(a) /\ Tends(ice[a], q)
    BY <1>3, <2>1, FollowsType, SteadyTends
  <2> QED
    BY <1>1, <1>3, <1>5, <2>2, TendsSteps DEF q
<1> QED
  BY <1>4, <1>5

\* A request: its sender b's peer may await the response, b handles the check.
LEMMA RequestWhole ==
    ASSUME OneSocket, AllWhole, Safe, IInv, NEW b \in Agents, NEW t \in ice[Peer[b]].sent,
           RecvRequest(b, t)
    PROVE  AllWhole' /\ AllLive
<1> DEFINE a == Peer[b]
           w == ice[a]
           u == ice[b]
           rcheck == [pair |-> <<t.pair[2], SeenAs[t.pair]>>, uc |-> t.uc]
           x == IF u.role = t.role THEN OtherRole(u.role) ELSE u.role
           s == [u EXCEPT !.role = x]
           early == Append(s.early_check, rcheck)
           kept == [s EXCEPT !.early_check = early]
           handled == handle_incoming_check(s, rcheck)
<1>1. a \in Agents /\ a # b /\ Peer[a] = b
  BY PeerType
<1>2. /\ u \in Session(b) /\ w \in Session(a) /\ Whole(u) /\ Whole(w) /\ Fit(u)
      /\ ~u.is_destroying /\ Tended(u)
  BY <1>1 DEF RecvRequest, Enterable, IInv, Sound, AllWhole, Whole, Safe, Fine
<1>3. \/ ice' = [ice EXCEPT ![a] = Respond(a, t, "role_conflict")]
      \/ ice' = [ice EXCEPT ![a] = Respond(a, t, "success"), ![b] = kept]
      \/ /\ u.rcand # {}
         /\ ice' = [ice EXCEPT ![a] = Respond(a, t, "success"), ![b] = Settle(handled)]
  <2>1. s.rcand = u.rcand
    BY <1>2 DEF Session
  <2> QED
    BY <2>1 DEF RecvRequest
<1>4. rcheck \in RxCheck(b)
  <2>1. t \in Tx(a)
    BY <1>2 DEF Session
  <2>2. t.pair \in Pairs(a) /\ t.uc \in BOOLEAN
    BY <2>1 DEF Tx
  <2>3. <<t.pair[2], SeenAs[t.pair]>> \in Pairs(b)
    BY <1>1, <2>2, SeenPair
  <2> QED
    BY <2>2, <2>3 DEF RxCheck
<1>5. ASSUME NEW code
      PROVE  Whole(Respond(a, t, code)) /\ Lives(w, Respond(a, t, code))
  <2> DEFINE q == [w EXCEPT !.resp = w.resp \cup {[t |-> t, code |-> code]}]
  <2>1. Respond(a, t, code) = w \/ (t \in w.pending /\ Respond(a, t, code) = q)
    BY DEF Respond
  <2>2. Lives(w, w)
    BY DEF Lives
  <2>3. CASE t \in w.pending
    <3> DEFINE m == [t |-> t, code |-> code]
               resps == w.resp \cup {m}
    <3>1. \A k \in resps : k \in w.resp \/ k.t \in w.pending
      BY <2>3
    <3>2. q = [w EXCEPT !.resp = resps]
      OBVIOUS
    <3> HIDE DEF resps, q, w
    <3>3. /\ SameRest(w, q) /\ q.clist = w.clist /\ q.pending = w.pending
          /\ q.broken = w.broken /\ q.rcand = w.rcand /\ q.clist_timer = w.clist_timer
          /\ q.is_destroying = w.is_destroying /\ q.resp = resps
      BY <1>2, <3>2, SMTT(30) DEF Session, SameRest, SameSelection
    <3>4. Whole(q) /\ Lives(w, q)
      BY <1>1, <1>2, <3>1, <3>3, RestWhole
    <3> QED
      BY <1>2, <2>1, <2>2, <3>4
  <2> QED
    BY <1>2, <2>1, <2>2, <2>3
<1>6. x \in Roles /\ early \in Seq(RxCheck(b))
  <2>1. x \in Roles
    BY <1>2, OtherRoleType DEF Session
  <2>2. u.early_check \in Seq(RxCheck(b)) /\ s.early_check = u.early_check
    BY <1>2 DEF Session
  <2> HIDE DEF s, rcheck
  <2> QED
    BY <1>4, <2>1, <2>2
<1> HIDE DEF u, x, early, rcheck
<1>7. Whole(kept) /\ Lives(u, kept)
  <2>1. /\ SameRest(u, kept) /\ kept.clist = u.clist /\ kept.pending = u.pending
        /\ kept.broken = u.broken /\ kept.rcand = u.rcand /\ kept.clist_timer = u.clist_timer
        /\ kept.is_destroying = u.is_destroying /\ kept.resp = u.resp
    BY <1>2, SMTT(30) DEF Session, SameRest, SameSelection
  <2> HIDE DEF kept
  <2> QED
    BY <1>2, <2>1, RestWhole
<1> HIDE DEF kept
<1>8. u.rcand # {} => Whole(Settle(handled)) /\ Lives(u, Settle(handled))
  <2> SUFFICES ASSUME u.rcand # {}
               PROVE  Whole(Settle(handled)) /\ Lives(u, Settle(handled))
    OBVIOUS
  <2>1. s \in Session(b)
    BY <1>2, <1>6, ZenonT(30) DEF Session
  <2>2. SameRest(u, s) /\ SamePairs(u, s) /\ s.pending = u.pending /\ s.broken = u.broken
    BY <1>2, SMTT(30) DEF Session, SameRest, SamePairs, SameSelection
  <2> HIDE DEF s
  <2>3. Rearms(u, s) /\ Fit(s)
    BY <1>2, <2>2, SameFit DEF Rearms, SameRest, SamePairs, SameSelection, Doubled, Tended, Timed
  <2>4. Steady(u, s) /\ Tended(s)
    BY <1>2, <2>3, RearmSteady
  <2>5. handled \in Session(b) /\ Tends(s, handled)
    BY <1>4, <2>1, <2>3, <2>4, IncomingKeeps, KeepsType, IncomingTends
  <2> HIDE DEF handled
  <2>6. Tends(u, handled)
    BY <1>2, <2>1, <2>4, <2>5, SteadyTends
  <2>7. u.phase # "init"
    BY <1>2 DEF Whole, Fresh
  <2> QED
    BY <1>2, <2>5, <2>6, <2>7, TendsWhole
<1> HIDE DEF s, handled
<1>9. /\ Whole(ice'[a]) /\ Lives(w, ice'[a])
      /\ Whole(ice'[b]) /\ Lives(u, ice'[b])
      /\ \A c \in Agents : c # a /\ c # b => ice'[c] = ice[c]
  <2>1. Lives(u, u)
    BY DEF Lives
  <2> HIDE DEF a
  <2>2. CASE ice' = [ice EXCEPT ![a] = Respond(a, t, "role_conflict")]
    BY <1>1, <1>2, <1>5, <2>1, <2>2 DEF IInv, u
  <2>3. CASE ice' = [ice EXCEPT ![a] = Respond(a, t, "success"), ![b] = kept]
    BY <1>1, <1>5, <1>7, <2>3 DEF IInv
  <2>4. CASE u.rcand # {} /\ ice' = [ice EXCEPT ![a] = Respond(a, t, "success"), ![b] = Settle(handled)]
    BY <1>1, <1>5, <1>8, <2>4 DEF IInv
  <2> QED
    BY <1>3, <2>2, <2>3, <2>4
<1>10. \A c \in Agents : Lives(ice[c], ice[c])
  BY DEF Lives
<1> QED
  BY <1>9, <1>10 DEF AllWhole, AllLive, u

-----------------------------------------------------------------------------
(* The invariant of all agents                                             *)

LEMMA InitiallyWhole == Init => AllWhole
<1> SUFFICES ASSUME Init, NEW a \in Agents PROVE Whole(ice[a])
  BY DEF AllWhole
<1>1. PICK role \in InitRoles, aggressive \in Aggressive :
          ice = [c \in Agents |-> NewSession(c, role[c], aggressive[c])]
  BY DEF Init
<1>2. /\ ice[a].resp = {} /\ ice[a].pending = {} /\ ice[a].rcand = {}
      /\ ice[a].ice_status = "none" /\ ice[a].timer = "none" /\ ice[a].clist_timer = FALSE
      /\ ice[a].is_nominating = FALSE /\ ice[a].broken = {}
      /\ \A c \in Comps : /\ ice[a].nominated_check[c] = NoPair
                          /\ ice[a].valid_check[c] = NoPair
      /\ \A p \in DOMAIN ice[a].valid_list : ice[a].valid_list[p].listed = FALSE
      /\ \A p \in DOMAIN ice[a].clist : ice[a].clist[p].state = "absent"
  BY <1>1 DEF NewSession
<1> DEFINE s == ice[a]
<1> HIDE DEF s
<1>3. Selected(s)
  BY <1>2 DEF Selected, Selects, InComp, Marked, s
<1>4. Tended(s)
  BY <1>2, <1>3 DEF Tended, Workers, Proven, Timed, InProgress, s
<1>5. Fresh(s)
  BY <1>2 DEF Fresh, Listed, s
<1> QED
  BY <1>2, <1>3, <1>4, <1>5 DEF Whole, Doubled, s

LEMMA WholeStep ==
    ASSUME OneSocket
    PROVE  AllWhole /\ Safe /\ IInv /\ [Next]_vars => AllWhole' /\ AllLive
<1> SUFFICES ASSUME AllWhole, Safe, IInv, [Next]_vars PROVE AllWhole' /\ AllLive
  OBVIOUS
<1>1. CASE Next
  BY <1>1, CreateWhole, StartWhole, ReplayWhole, StartDoneWhole, PeriodicWhole, TimerWhole,
     KeepAliveWhole, EndWhole, RequestWhole, ResponseWhole, TimeoutWhole DEF Next
<1>2. CASE UNCHANGED vars
  BY <1>2 DEF AllWhole, AllLive, Lives, vars
<1> QED
  BY <1>1, <1>2

LEMMA WholeInvariant == ASSUME OneSocket PROVE Spec => []AllWhole
  BY Invariant, SafeInvariant, InitiallyWhole, WholeStep, PTL DEF Spec

LEMMA WholeLives == ASSUME OneSocket PROVE Spec => [][AllLive]_vars
  BY Invariant, SafeInvariant, WholeInvariant, WholeStep, PTL DEF Spec

\* With one socket per component and transport, a check is in progress as long
\* as one STUN transaction, its transmit data, works for it: whatever is
\* cancelled, retried in another role or nominated, no check is left without
\* one and no transaction without its check.
THEOREM Pending_in_progress == ASSUME OneSocket PROVE Spec => []PendingIsInProgress
<1>1. AllWhole /\ IInv => PendingIsInProgress
  <2> SUFFICES ASSUME AllWhole, IInv, NEW a \in Agents, ~ice[a].is_destroying
               PROVE  /\ \A t \in ice[a].pending : ice[a].clist[t.pair].tdata = t.n
                      /\ \A p \in Pairs(a) : ice[a].clist[p].state = "in_progress" <=>
                             \E t \in ice[a].pending : t.pair = p
    BY DEF PendingIsInProgress
  <2>1. Tended(ice[a]) /\ DOMAIN ice[a].clist = Pairs(a)
    BY DEF AllWhole, Whole, IInv, Sound, Session
  <2> QED
    BY <2>1 DEF Tended, Workers, InProgress, Awaits
<1> QED
  BY <1>1, Invariant, WholeInvariant, PTL

\* Each component uses the best of its valid pairs and the best of those that
\* are nominated, in whatever order responses and USE-CANDIDATE come in.
THEOREM Best_selected == ASSUME OneSocket PROVE Spec => []BestSelected
<1>1. AllWhole /\ IInv => BestSelected
  <2> SUFFICES ASSUME AllWhole, IInv, NEW a \in Agents, NEW c \in Comps
               PROVE  LET s == ice[a]
                          inComp == {v \in Pairs(a) : s.valid_list[v].listed /\ CompOf[v[1]] = c}
                      IN /\ Selects(s, s.valid_check[c], inComp)
                         /\ Selects(s, s.nominated_check[c],
                                    {v \in inComp : s.valid_list[v].nominated})
    BY DEF BestSelected, Selects
  <2>1. Selected(ice[a]) /\ DOMAIN ice[a].valid_list = Pairs(a)
    BY DEF AllWhole, Whole, IInv, Sound, Session
  <2> QED
    BY <2>1 DEF Selected, InComp, Marked
<1> QED
  BY <1>1, Invariant, WholeInvariant, PTL

\* No agent nominates aggressively.
Regular == \A a \in Agents : ~ice[a].aggressive

LEMMA RegularInvariant ==
    ASSUME OneSocket, \A f \in Aggressive : \A a \in Agents : ~f[a]
    PROVE  Spec => []Regular
<1>1. Init => Regular
  BY DEF Init, NewSession, Regular
<1>2. Regular /\ AllLive => Regular'
  BY DEF AllLive, Lives, Regular
<1>3. Regular /\ UNCHANGED vars => Regular'
  BY DEF vars, Regular
<1> QED
  BY <1>1, <1>2, <1>3, WholeLives, PTL DEF Spec

\* With regular nomination a check that has failed stays so, and one that has
\* succeeded is tried again only by the step that starts nomination.
THEOREM Check_lifecycle ==
    ASSUME OneSocket, \A f \in Aggressive : \A a \in Agents : ~f[a]
    PROVE  Spec => CheckLifecycle
<1>1. AllWhole /\ IInv /\ Regular /\ AllLive =>
         \A a \in Agents : \A p \in Pairs(a) :
             LET before == ice[a].clist[p].state
                 after == ice'[a].clist[p].state
             IN before \in Finished /\ after # before =>
                   /\ before = "succeeded" /\ after = "waiting"
                   /\ ~ice[a].is_nominating /\ ice'[a].is_nominating
  <2> SUFFICES ASSUME AllWhole, IInv, Regular, AllLive, NEW a \in Agents, NEW p \in Pairs(a),
                      ice[a].clist[p].state \in Finished,
                      ice'[a].clist[p].state # ice[a].clist[p].state
               PROVE  /\ ice[a].clist[p].state = "succeeded" /\ ice'[a].clist[p].state = "waiting"
                      /\ ~ice[a].is_nominating /\ ice'[a].is_nominating
    OBVIOUS
  <2>1. DOMAIN ice[a].clist = Pairs(a)
    BY DEF IInv, Sound, Session
  <2>2. Lives(ice[a], ice'[a]) /\ ~Doubled(ice[a])
    BY DEF AllLive, AllWhole, Whole, Regular
  <2> QED
    BY <2>1, <2>2 DEF Lives, Renewable, Doubled
<1> QED
  BY <1>1, RegularInvariant, Invariant, WholeInvariant, WholeLives, PTL DEF CheckLifecycle

-----------------------------------------------------------------------------
(* Regular nomination: who may mark a pair                                 *)

\* Nothing is nominated, nor by a check that waits to be replayed.
Unmarked(s) ==
    /\ \A p \in DOMAIN s.clist : ~s.clist[p].nominated
    /\ \A v \in DOMAIN s.valid_list : ~s.valid_list[v].nominated
    /\ \A c \in Comps : s.nominated_check[c] = NoPair
    /\ \A i \in DOMAIN s.early_check : ~s.early_check[i].uc

\* A session that only a controlling agent nominates for, and a controlling one
\* only after the start of nomination.  m: no peer has nominated a pair of it.
Neat(s, m) ==
    /\ s.is_nominating => AllValid(s)
    /\ s.timer = "start_nominated" => s.role = "controlling"
    /\ "nominated_check" \notin s.broken
    /\ \A t \in s.sent : t.uc => t.role = "controlling"
    /\ s.role = "controlling" => m
    /\ m /\ ~s.is_nominating => Unmarked(s)

\* A call that makes r of s nominates nothing and does not begin to.
Plain(s, r) ==
    /\ r.role = s.role /\ r.is_nominating = s.is_nominating
    /\ r.valid_list = s.valid_list /\ r.valid_check = s.valid_check
    /\ r.nominated_check = s.nominated_check /\ r.early_check = s.early_check
    /\ \A p \in DOMAIN r.clist :
          r.clist[p].nominated => p \in DOMAIN s.clist /\ s.clist[p].nominated
    /\ r.timer = "start_nominated" => s.timer = "start_nominated" \/ s.role = "controlling"
    /\ r.broken \subseteq s.broken \cup (Asserts \ {"nominated_check"})
    /\ s.sent \subseteq r.sent
    /\ \A t \in r.sent : t \in s.sent \/ (~t.uc /\ t.pair \notin SendErr)

LEMMA PlainNeat ==
    ASSUME NEW s, NEW r, NEW m, Plain(s, r), Neat(s, m)
    PROVE  Neat(r, m)
<1>1. Unmarked(s) => Unmarked(r)
  BY DEF Plain, Unmarked
<1> QED
  BY <1>1 DEF Plain, Neat, AllValid

LEMMA PlainOn ==
    ASSUME NEW s, NEW q, NEW r, Plain(s, q), Plain(q, r)
    PROVE  Plain(s, r)
  BY DEF Plain

LEMMA PlainItself == ASSUME NEW s PROVE Plain(s, s)
  BY DEF Plain

\* Assertions other than that of the nominated pair, timers and counters.
LEMMA PlainRest ==
    ASSUME NEW s, NEW r, SameSelection(s, r), r.role = s.role, r.clist = s.clist,
           r.is_nominating = s.is_nominating, r.early_check = s.early_check, r.sent = s.sent,
           r.timer = "start_nominated" => s.timer = "start_nominated" \/ s.role = "controlling",
           r.broken \subseteq s.broken \cup (Asserts \ {"nominated_check"})
    PROVE  Plain(s, r)
  BY DEF Plain, SameSelection

LEMMA ClaimPlain ==
    ASSUME NEW a, NEW s \in Session(a), NEW holds, NEW x \in Asserts \ {"nominated_check"}
    PROVE  Plain(s, Claim(s, holds, x))
<1> DEFINE r == Claim(s, holds, x)
<1>1. /\ SameSelection(s, r) /\ r.role = s.role /\ r.clist = s.clist
      /\ r.is_nominating = s.is_nominating /\ r.early_check = s.early_check
      /\ r.sent = s.sent /\ r.timer = s.timer /\ r.broken \subseteq s.broken \cup {x}
  BY SMTT(30) DEF Claim, Session, SameSelection
<1> HIDE DEF r
<1>2. Plain(s, r)
  BY <1>1, PlainRest
<1> QED
  BY <1>2 DEF r

LEMMA TimerPlain ==
    ASSUME NEW a, NEW s \in Session(a), NEW x \in Timers,
           x = "start_nominated" => s.role = "controlling"
    PROVE  Plain(s, [s EXCEPT !.timer = x])
<1> DEFINE r == [s EXCEPT !.timer = x]
<1>1. /\ SameSelection(s, r) /\ r.role = s.role /\ r.clist = s.clist
      /\ r.is_nominating = s.is_nominating /\ r.early_check = s.early_check
      /\ r.sent = s.sent /\ r.timer = x /\ r.broken = s.broken
  BY SMTT(30) DEF Session, SameSelection
<1> HIDE DEF r
<1>2. Plain(s, r)
  BY <1>1, PlainRest
<1> QED
  BY <1>2 DEF r

LEMMA StatePlain ==
    ASSUME NEW a, NEW s \in Session(a), NEW p \in Pairs(a), NEW st \in CheckStates
    PROVE  Plain(s, check_set_state(s, p, st))
<1> DEFINE r == check_set_state(s, p, st)
<1>1. /\ SameSelection(s, r) /\ r.role = s.role
      /\ r.is_nominating = s.is_nominating /\ r.early_check = s.early_check
      /\ r.sent = s.sent /\ r.timer = s.timer
      /\ r.broken \subseteq s.broken \cup {"check_set_state"}
  BY SMTT(30) DEF check_set_state, Claim, Session, SameSelection
<1>2. DOMAIN r.clist = Pairs(a) /\ DOMAIN s.clist = Pairs(a)
      /\ \A q \in Pairs(a) : r.clist[q].nominated = s.clist[q].nominated
  BY SMTT(30) DEF check_set_state, Claim, Session, Check
<1> HIDE DEF r
<1>3. Plain(s, r)
  BY <1>1, <1>2 DEF Plain, SameSelection, Asserts
<1> QED
  BY <1>3 DEF r

LEMMA FinishPlain ==
    ASSUME NEW a, NEW s \in Session(a), NEW outcome \in Outcomes
    PROVE  Plain(s, on_ice_complete(s, outcome))
<1> DEFINE r == on_ice_complete(s, outcome)
<1>1. /\ r.role = s.role /\ r.clist = s.clist /\ r.valid_list = s.valid_list
      /\ r.valid_check = s.valid_check /\ r.nominated_check = s.nominated_check
      /\ r.is_nominating = s.is_nominating /\ r.early_check = s.early_check
      /\ r.sent = s.sent /\ r.timer \in {s.timer, "completion"} /\ r.broken = s.broken
  BY SMTT(30) DEF on_ice_complete, Session
<1> HIDE DEF r
<1>2. Plain(s, r)
  BY <1>1 DEF Plain
<1> QED
  BY <1>2 DEF r

LEMMA UnfreezePlain ==
    ASSUME NEW a, NEW s \in Session(a), NEW p \in Pairs(a)
    PROVE  Plain(s, Unfreeze(s, p))
<1> DEFINE r == Unfreeze(s, p)
<1>1. /\ SameSelection(s, r) /\ r.role = s.role
      /\ r.is_nominating = s.is_nominating /\ r.early_check = s.early_check
      /\ r.sent = s.sent /\ r.timer = s.timer /\ r.broken = s.broken
  BY SMTT(30) DEF Unfreeze, Session, SameSelection
<1>2. DOMAIN r.clist = Pairs(a) /\ DOMAIN s.clist = Pairs(a)
      /\ \A q \in Pairs(a) : r.clist[q].nominated = s.clist[q].nominated
  BY SMTT(30) DEF Unfreeze, Session, Check
<1> HIDE DEF r
<1>3. Plain(s, r)
  BY <1>1, <1>2 DEF Plain, SameSelection
<1> QED
  BY <1>3 DEF r

LEMMA CancelPlain ==
    ASSUME NEW a, NEW s \in Session(a), NEW p \in Pairs(a)
    PROVE  Plain(s, CancelSuperseded(s, p))
<1> DEFINE r == CancelSuperseded(s, p)
           gone == Superseded(s, p)
           ended == [q \in DOMAIN s.clist |->
                        IF q \in gone
                        THEN [s.clist[q] EXCEPT !.state = "failed", !.tdata = 0]
                        ELSE s.clist[q]]
<1>1. /\ SameSelection(s, r) /\ r.role = s.role
      /\ r.is_nominating = s.is_nominating /\ r.early_check = s.early_check
      /\ r.sent = s.sent /\ r.timer = s.timer /\ r.broken = s.broken
  BY SMTT(30) DEF CancelSuperseded, Session, SameSelection
<1>2. DOMAIN s.clist = Pairs(a) /\ \A q \in Pairs(a) : s.clist[q] \in Check
  BY DEF Session
<1>3. r.clist = ended
  BY SMTT(30) DEF CancelSuperseded, Session
<1> HIDE DEF r, gone
<1>4. \A q \in Pairs(a) : ended[q].nominated = s.clist[q].nominated
  BY <1>2, SMTT(30) DEF Check
<1>5. DOMAIN ended = Pairs(a)
  BY <1>2
<1> HIDE DEF ended
<1>6. Plain(s, r)
  BY <1>1, <1>2, <1>3, <1>4, <1>5 DEF Plain, SameSelection
<1> QED
  BY <1>6 DEF r

LEMMA EndPlain ==
    ASSUME NEW a, NEW s \in Session(a), NEW t \in Tx(a)
    PROVE  Plain(s, Complete(s, t))
<1> DEFINE r == Complete(s, t)
<1>1. /\ SameSelection(s, r) /\ r.role = s.role
      /\ r.is_nominating = s.is_nominating /\ r.early_check = s.early_check
      /\ r.sent = s.sent /\ r.timer = s.timer /\ r.broken \subseteq s.broken \cup {"tdata"}
  BY SMTT(30) DEF Complete, Claim, Session, SameSelection
<1>2. DOMAIN r.clist = Pairs(a) /\ DOMAIN s.clist = Pairs(a)
      /\ \A q \in Pairs(a) : r.clist[q].nominated = s.clist[q].nominated
  BY SMTT(30) DEF Complete, Claim, Session, Check, Tx
<1> HIDE DEF r
<1>3. Plain(s, r)
  BY <1>1, <1>2 DEF Plain, SameSelection, Asserts
<1> QED
  BY <1>3 DEF r

\* A check is sent, with USE-CANDIDATE or without.
LEMMA PerformSends ==
    ASSUME NEW a, NEW s \in Session(a), NEW p \in Pairs(a), NEW nominate \in BOOLEAN,
           NEW uc, uc = UseCandidate(s, nominate), NEW r, r = perform_check(s, p, nominate)
    PROVE  /\ SameSelection(s, r) /\ r.role = s.role
           /\ r.is_nominating = s.is_nominating /\ r.early_check = s.early_check
           /\ r.timer = s.timer /\ r.broken \subseteq s.broken \cup {"check_set_state"}
           /\ s.sent \subseteq r.sent
           /\ \A t \in r.sent : t \in s.sent \/ (t.role = s.role /\ t.uc = uc /\ t.pair \notin SendErr)
           /\ p \notin SendErr => \E t \in r.sent : t.role = s.role
           /\ DOMAIN r.clist = Pairs(a) /\ DOMAIN s.clist = Pairs(a)
           /\ \A q \in Pairs(a) : r.clist[q].nominated => s.clist[q].nominated \/ (q = p /\ uc)
<1>1. /\ SameSelection(s, r) /\ r.role = s.role
      /\ r.is_nominating = s.is_nominating /\ r.early_check = s.early_check
      /\ r.timer = s.timer
      /\ r.broken \subseteq s.broken \cup {"check_set_state"}
  <2>1. r.role = s.role /\ r.is_nominating = s.is_nominating /\ r.early_check = s.early_check
    BY SMTT(30) DEF perform_check, check_set_state, Claim, Session
  <2>2. r.timer = s.timer /\ r.broken \subseteq s.broken \cup {"check_set_state"}
    BY SMTT(30) DEF perform_check, check_set_state, Claim, Session
  <2>3. r.valid_list = s.valid_list /\ r.valid_check = s.valid_check
    BY SMTT(30) DEF perform_check, check_set_state, Claim, Session
  <2>4. r.nominated_check = s.nominated_check /\ r.ice_status = s.ice_status
    BY SMTT(30) DEF perform_check, check_set_state, Claim, Session
  <2> QED
    BY <2>1, <2>2, <2>3, <2>4 DEF SameSelection
<1>2. DOMAIN r.clist = Pairs(a) /\ DOMAIN s.clist = Pairs(a)
  BY PerformKeeps, KeepsType DEF Session
<1>3. s.clist[p] \in Check
  BY CheckType
<1>4. CASE p \in SendErr
  <2>1. r.sent = s.sent
    BY <1>4, SMTT(30) DEF perform_check, Session
  <2>2. \A q \in Pairs(a) : q # p => r.clist[q] = s.clist[q]
    BY <1>4, SMTT(30) DEF perform_check, Session
  <2>3. r.clist[p].nominated => s.clist[p].nominated \/ uc
    BY <1>3, <1>4, SMTT(30) DEF perform_check, Session, Check
  <2>4. \A q \in Pairs(a) : r.clist[q].nominated => s.clist[q].nominated \/ (q = p /\ uc)
    BY <2>2, <2>3
  <2> QED
    BY <1>1, <1>2, <1>4, <2>1, <2>4
<1>5. CASE p \notin SendErr
  <2> DEFINE t == [pair |-> p, n |-> s.clist[p].tx + 1, role |-> s.role, uc |-> uc]
  <2>1. r.sent = s.sent \cup {t}
    BY <1>5, SMTT(30) DEF perform_check, check_set_state, Claim, Session
  <2>2. t.role = s.role /\ t.uc = uc /\ t.pair = p
    OBVIOUS
  <2> HIDE DEF t
  <2> DEFINE k == [s.clist[p] EXCEPT !.nominated = s.clist[p].nominated \/ uc]
             f == [s EXCEPT !.clist[p] = k]
             g == [f EXCEPT !.clist[p].tdata = t.n, !.clist[p].tx = t.n,
                            !.pending = @ \cup {t}, !.sent = @ \cup {t}]
  <2>3. r = check_set_state(g, p, "in_progress")
    BY <1>5 DEF perform_check, t
  <2>4. k \in Check /\ k.nominated = (s.clist[p].nominated \/ uc)
    <3>1. uc \in BOOLEAN
      BY DEF UseCandidate
    <3>2. \A c \in Check, y \in BOOLEAN : LET d == [c EXCEPT !.nominated = c.nominated \/ y]
                                         IN d \in Check /\ d.nominated = (c.nominated \/ y)
      BY DEF Check
    <3> QED
      BY <1>3, <3>1, <3>2
  <2> HIDE DEF k
  <2>5. f \in Session(a)
    BY <2>4, KeepsCheck, KeepsType
  <2>6. f.clist = [s.clist EXCEPT ![p] = k]
    BY SMTT(30) DEF Session
  <2>7. f.clist[p] = k /\ \A q \in Pairs(a) : q # p => f.clist[q] = s.clist[q]
    BY <1>2, <2>6
  <2> HIDE DEF f
  <2>8. \A q \in Pairs(a) : q # p => r.clist[q] = f.clist[q]
    BY <2>3, <2>5, SMTT(30) DEF check_set_state, Claim, Session
  <2>9. r.clist[p].nominated = f.clist[p].nominated
    BY <2>3, <2>4, <2>5, <2>7, SMTT(30) DEF check_set_state, Claim, Session, Check
  <2>10. \A q \in Pairs(a) : r.clist[q].nominated => s.clist[q].nominated \/ (q = p /\ uc)
    BY <2>4, <2>7, <2>8, <2>9
  <2>11. /\ s.sent \subseteq r.sent /\ \E x \in r.sent : x.role = s.role
         /\ \A x \in r.sent : x \in s.sent \/ (x.role = s.role /\ x.uc = uc /\ x.pair \notin SendErr)
    BY <1>5, <2>1, <2>2
  <2> QED
    BY <1>1, <1>2, <2>10, <2>11, Zenon
<1> QED
  BY <1>4, <1>5

LEMMA PerformNeat ==
    ASSUME NEW a, NEW s \in Session(a), NEW p \in Pairs(a), NEW nominate \in BOOLEAN,
           NEW m \in BOOLEAN, Neat(s, m), m /\ ~s.is_nominating => ~nominate
    PROVE  Neat(perform_check(s, p, nominate), m)
<1>1. PICK r : r = perform_check(s, p, nominate)
  OBVIOUS
<1>2. PICK uc : uc = UseCandidate(s, nominate)
  OBVIOUS
<1>3. /\ SameSelection(s, r) /\ r.role = s.role
      /\ r.is_nominating = s.is_nominating /\ r.early_check = s.early_check
      /\ r.timer = s.timer /\ r.broken \subseteq s.broken \cup {"check_set_state"}
      /\ s.sent \subseteq r.sent
      /\ \A t \in r.sent : t \in s.sent \/ (t.role = s.role /\ t.uc = uc /\ t.pair \notin SendErr)
      /\ DOMAIN r.clist = Pairs(a) /\ DOMAIN s.clist = Pairs(a)
      /\ \A q \in Pairs(a) : r.clist[q].nominated => s.clist[q].nominated \/ (q = p /\ uc)
  BY <1>1, <1>2, PerformSends
<1>4. CASE ~uc
  <2>1. Plain(s, r)
    BY <1>3, <1>4 DEF Plain, SameSelection, Asserts
  <2> QED
    BY <1>1, <2>1, PlainNeat
<1>5. CASE uc
  <2>1. r.is_nominating /\ s.role = "controlling"
    BY <1>2, <1>3, <1>5 DEF Neat, UseCandidate
  <2>2. \A t \in r.sent : t.uc => t.role = "controlling"
    BY <1>3, <2>1 DEF Neat
  <2>3. AllValid(r) /\ "nominated_check" \notin r.broken
    BY <1>3, <2>1 DEF Neat, AllValid, SameSelection
  <2>4. Neat(r, m)
    BY <1>3, <2>1, <2>2, <2>3 DEF Neat
  <2> QED
    BY <1>1, <2>4
<1> QED
  BY <1>4, <1>5

\* Nomination starts: every component has a valid pair, none a nominated one.
LEMMA StartNominatedNeat ==
    ASSUME NEW a, NEW s \in Session(a), NEW m \in BOOLEAN, Neat(s, m),
           s.role = "controlling", ~s.is_nominating, AllValid(s)
    PROVE  Neat(start_nominated_check(s), m)
<1> DEFINE r == start_nominated_check(s)
<1>1. \A c \in Comps : s.nominated_check[c] = NoPair
  BY DEF Neat, Unmarked
<1>2. r.broken \subseteq s.broken \cup {"is_nominating", "valid_check", "err_code"}
  BY <1>1, SMTT(30) DEF start_nominated_check, Claim, Session
<1>3. /\ r.role = s.role /\ r.sent = s.sent /\ r.is_nominating
      /\ r.valid_check = s.valid_check
  BY SMTT(30) DEF start_nominated_check, Claim, Session
<1> HIDE DEF r
<1>4. Neat(r, m)
  BY <1>2, <1>3 DEF Neat, AllValid
<1> QED
  BY <1>4 DEF r

\* What follows when a check has ended.
LEMMA ExhaustedNeat ==
    ASSUME NEW a \in Agents, NEW s \in Session(a), NEW m \in BOOLEAN, Neat(s, m)
    PROVE  Neat(ChecksExhausted(s), m)
<1>1. Neat(on_ice_complete(s, "failed"), m)
  BY FinishPlain, PlainNeat DEF Outcomes
<1>2. Neat([s EXCEPT !.timer = "wait_nom"], m)
  BY TimerPlain, PlainNeat DEF Timers
<1>3. s.role # "controlled" => s.role = "controlling"
  BY DEF Session, Roles
<1>4. s.role # "controlled" /\ ~s.is_nominating /\ AllValid(s) => Neat(start_nominated_check(s), m)
  BY <1>3, StartNominatedNeat
<1> QED
  BY <1>1, <1>2, <1>4 DEF ChecksExhausted

LEMMA CheckCompleteNeat ==
    ASSUME NEW a \in Agents, NEW s \in Session(a), NEW p \in Pairs(a),
           NEW m \in BOOLEAN, Neat(s, m)
    PROVE  Neat(on_check_complete(s, p), m)
<1> DEFINE ok == s.clist[p].state = "succeeded"
           s1 == IF ok THEN Unfreeze(s, p) ELSE s
           s2 == IF ok /\ s.clist[p].nominated THEN CancelSuperseded(s1, p) ELSE s1
<1>1. on_check_complete(s, p)
      = IF AllNominated(s2) THEN on_ice_complete(s2, "ok")
        ELSE IF AllDone(s2) THEN ChecksExhausted(s2)
        ELSE IF ok /\ MayScheduleNomination(s2)
             THEN [s2 EXCEPT !.timer = "start_nominated"] ELSE s2
  BY DEF on_check_complete
<1>2. s1 \in Session(a) /\ Neat(s1, m)
  BY UnfreezeQuiet, QuietType, UnfreezePlain, PlainNeat
<1>3. s2 \in Session(a) /\ Neat(s2, m)
  <2> HIDE DEF s1
  <2> QED
    BY <1>2, CancelQuiet, QuietType, CancelPlain, PlainNeat
<1> HIDE DEF ok, s1, s2
<1>4. Neat(on_ice_complete(s2, "ok"), m)
  BY <1>3, FinishPlain, PlainNeat DEF Outcomes
<1>5. Neat(ChecksExhausted(s2), m)
  BY <1>3, ExhaustedNeat
<1>6. MayScheduleNomination(s2) => Neat([s2 EXCEPT !.timer = "start_nominated"], m)
  BY <1>3, TimerPlain, PlainNeat DEF Timers, MayScheduleNomination
<1> QED
  BY <1>1, <1>3, <1>4, <1>5, <1>6

LEMMA FailedNeat ==
    ASSUME NEW a \in Agents, NEW s \in Session(a), NEW p \in Pairs(a),
           NEW m \in BOOLEAN, Neat(s, m)
    PROVE  Neat(check_failed(s, p), m)
<1> DEFINE r == check_set_state(s, p, "failed")
<1>1. "failed" \in CheckStates
  BY DEF CheckStates
<1>2. r \in Session(a)
  BY <1>1, SetStateKeeps, KeepsType
<1>3. Neat(r, m)
  BY <1>1, StatePlain, PlainNeat
<1> HIDE DEF r
<1>4. Neat(on_check_complete(r, p), m)
  BY <1>2, <1>3, CheckCompleteNeat
<1> QED
  BY <1>4 DEF check_failed, r

\* A successful check puts a pair on the valid list, nominated if it is.
LEMMA AddNeat ==
    ASSUME NEW a \in Agents, NEW s \in Session(a), NEW p \in Pairs(a),
           NEW m \in BOOLEAN, Neat(s, m)
    PROVE  AddValid(s, p) \in Session(a) /\ Neat(AddValid(s, p), m)
<1>1. PICK v : v = ValidPair(p)
  OBVIOUS
<1>2. PICK c : c = CompOf[v[1]]
  OBVIOUS
<1>3. PICK x : x = AddValid(s, p)
  OBVIOUS
<1>4. /\ x \in Session(a) /\ v \in Pairs(a) /\ c \in Comps
      /\ x.clist = s.clist /\ x.broken = s.broken
      /\ x.timer = s.timer /\ x.is_nominating = s.is_nominating
      /\ \A w \in Pairs(a) : w # v => x.valid_list[w] = s.valid_list[w]
      /\ x.valid_list[v].nominated = s.clist[p].nominated
      /\ \A d \in Comps : d # c => /\ x.valid_check[d] = s.valid_check[d]
                                   /\ x.nominated_check[d] = s.nominated_check[d]
      /\ x.valid_check[c] = Better(x, s.valid_check[c], v)
      /\ x.nominated_check[c] = IF s.clist[p].nominated
                                THEN Better(x, s.nominated_check[c], v)
                                ELSE s.nominated_check[c]
  BY <1>1, <1>2, <1>3, AddFields
<1>5. x.role = s.role /\ x.early_check = s.early_check /\ x.sent = s.sent
  BY <1>3, SMTT(30) DEF AddValid, update_comp_check, Session
<1>6. x.valid_check[c] # NoPair
  BY <1>4, BetterOf, PairEnds DEF NoPair
<1>7. AllValid(s) => AllValid(x)
  BY <1>4, <1>6 DEF AllValid
<1>8. Unmarked(s) => Unmarked(x)
  <2>1. DOMAIN x.valid_list = Pairs(a) /\ DOMAIN s.valid_list = Pairs(a) /\ DOMAIN s.clist = Pairs(a)
    BY <1>4 DEF Session
  <2> QED
    BY <1>4, <1>5, <2>1 DEF Unmarked
<1>9. Neat(x, m)
  BY <1>4, <1>5, <1>7, <1>8 DEF Neat
<1> QED
  BY <1>3, <1>4, <1>9

\* The peer nominates pairs, or they are nominated after the start.
LEMMA NominateNeat ==
    ASSUME NEW a \in Agents, NEW s \in Session(a), NEW p \in Pairs(a),
           NEW m \in BOOLEAN, Neat(s, m), ~m \/ s.is_nominating
    PROVE  NominateValid(s, p) \in Session(a) /\ Neat(NominateValid(s, p), m)
<1>1. PICK hit : hit = NominatedBy(s, p)
  OBVIOUS
<1>2. PICK best : best = Best(s, hit)
  OBVIOUS
<1>3. PICK c : c = CompOf[p[1]]
  OBVIOUS
<1>4. PICK x : x = NominateValid(s, p)
  OBVIOUS
<1>5. CASE best = NoPair
  BY <1>1, <1>2, <1>4, <1>5 DEF NominateValid
<1>6. CASE best # NoPair
  <2>1. /\ x \in Session(a) /\ c \in Comps
        /\ x.broken = s.broken /\ x.timer = s.timer /\ x.is_nominating = s.is_nominating
        /\ \A d \in Comps : d # c => x.valid_check[d] = s.valid_check[d]
        /\ x.valid_check[c] = Better(x, s.valid_check[c], best)
    BY <1>1, <1>2, <1>3, <1>4, <1>6, NominateFields
  <2>2. x.role = s.role /\ x.sent = s.sent
    BY <1>4, SMTT(30) DEF NominateValid, Session
  <2>3. AllValid(s) => AllValid(x)
    BY <1>6, <2>1, BetterOf DEF AllValid
  <2>4. Neat(x, m)
    BY <2>1, <2>2, <2>3 DEF Neat
  <2> QED
    BY <1>4, <2>1, <2>4
<1> QED
  BY <1>5, <1>6

\* A check of the list is replaced by one that is nominated for a reason.
LEMMA MarkNeat ==
    ASSUME NEW a \in Agents, NEW s \in Session(a), NEW p \in Pairs(a), NEW k \in Check,
           NEW m \in BOOLEAN, Neat(s, m),
           m /\ ~s.is_nominating => (k.nominated => s.clist[p].nominated)
    PROVE  /\ [s EXCEPT !.clist[p] = k] \in Session(a) /\ Neat([s EXCEPT !.clist[p] = k], m)
           /\ [s EXCEPT !.clist[p] = k].is_nominating = s.is_nominating
           /\ [s EXCEPT !.clist[p] = k].clist[p] = k
<1> DEFINE r == [s EXCEPT !.clist[p] = k]
<1>1. r \in Session(a)
  BY KeepsCheck, KeepsType
<1>2. /\ SameSelection(s, r) /\ r.role = s.role
      /\ r.is_nominating = s.is_nominating /\ r.early_check = s.early_check
      /\ r.sent = s.sent /\ r.timer = s.timer /\ r.broken = s.broken
  BY SMTT(30) DEF Session, SameSelection
<1>3. r.clist[p] = k /\ \A q \in Pairs(a) : q # p => r.clist[q] = s.clist[q]
  BY SMTT(30) DEF Session
<1>4. DOMAIN r.clist = Pairs(a) /\ DOMAIN s.clist = Pairs(a)
  BY <1>1 DEF Session
<1> HIDE DEF r
<1>5. m /\ ~s.is_nominating /\ Unmarked(s) => Unmarked(r)
  BY <1>2, <1>3, <1>4 DEF Unmarked, SameSelection
<1>6. Neat(r, m)
  BY <1>2, <1>5 DEF Neat, AllValid, SameSelection
<1> QED
  BY <1>1, <1>2, <1>3, <1>6 DEF r

\* An incoming check that nominates comes from the peer, or after the start.
LEMMA TriggeredNeat ==
    ASSUME NEW a \in Agents, NEW s \in Session(a), NEW p \in Pairs(a), NEW uc \in BOOLEAN,
           NEW m \in BOOLEAN, Neat(s, m), m /\ ~s.is_nominating => ~uc
    PROVE  Neat(triggered_check(s, p, uc), m)
<1>1. PICK s1 : s1 = Flagged(s, p, uc)
  OBVIOUS
<1> DEFINE st == s.clist[p].state
           c == s1.clist[p]
           nominate == c.nominated \/ s1.is_nominating
           s2 == IF uc THEN NominateValid(s1, p) ELSE s1
<1>2. triggered_check(s, p, uc)
      = CASE st \in NotYetTried -> perform_check(s1, p, nominate)
          [] st = "in_progress" -> Claim(s1, c.tdata # 0, "retransmit")
          [] st = "succeeded" -> on_check_complete(s2, p)
          [] OTHER -> s1
  BY <1>1 DEF triggered_check, Flagged
<1>3. s1 \in Session(a) /\ Neat(s1, m) /\ s1.is_nominating = s.is_nominating /\ c \in Check
  <2> DEFINE k == [s.clist[p] EXCEPT !.nominated = s.clist[p].nominated \/ uc]
  <2>1. k \in Check /\ s.clist[p] \in Check
    BY CheckType
  <2>2. k.nominated = (s.clist[p].nominated \/ uc)
    BY <2>1 DEF Check
  <2> HIDE DEF k
  <2>3. s1 = [s EXCEPT !.clist[p] = k]
    BY <1>1 DEF Flagged, k
  <2> QED
    BY <2>1, <2>2, <2>3, MarkNeat
<1>4. CASE st \in NotYetTried
  <2>1. nominate \in BOOLEAN
    BY <1>3 DEF Check, Session
  <2>2. m /\ ~s1.is_nominating => ~nominate
    <3>1. DOMAIN s1.clist = Pairs(a)
      BY <1>3 DEF Session
    <3> QED
      BY <1>3, <3>1 DEF Neat, Unmarked
  <2> HIDE DEF nominate
  <2>3. Neat(perform_check(s1, p, nominate), m)
    BY <1>3, <2>1, <2>2, PerformNeat
  <2> QED
    BY <1>2, <1>4, <2>3 DEF NotYetTried
<1>5. CASE st = "in_progress"
  <2>1. Neat(Claim(s1, c.tdata # 0, "retransmit"), m)
    BY <1>3, ClaimPlain, PlainNeat DEF Asserts
  <2> QED
    BY <1>2, <1>5, <2>1 DEF NotYetTried
<1>6. CASE st = "succeeded"
  <2>1. s2 \in Session(a) /\ Neat(s2, m)
    BY <1>3, NominateNeat
  <2> HIDE DEF s2
  <2>2. Neat(on_check_complete(s2, p), m)
    BY <2>1, CheckCompleteNeat
  <2> QED
    BY <1>2, <1>6, <2>2 DEF NotYetTried
<1>7. CASE st \notin NotYetTried /\ st # "in_progress" /\ st # "succeeded"
  BY <1>2, <1>3, <1>7
<1> QED
  BY <1>4, <1>5, <1>6, <1>7

LEMMA NewCheckNeat ==
    ASSUME NEW a \in Agents, NEW s \in Session(a), NEW p \in Pairs(a), NEW uc \in BOOLEAN,
           NEW m \in BOOLEAN, Neat(s, m), m /\ ~s.is_nominating => ~uc
    PROVE  Neat(new_check(s, p, uc), m)
<1> DEFINE k == [s.clist[p] EXCEPT !.state = "waiting", !.nominated = uc,
                                   !.prio = CALC_CHECK_PRIO(s.role, p),
                                   !.born = Cardinality(Listed(s)) + 1]
           r == [s EXCEPT !.clist[p] = k]
           nominate == uc \/ s.is_nominating
<1>1. new_check(s, p, uc) = perform_check(r, p, nominate)
  BY DEF new_check
<1>2. k \in Check /\ nominate \in BOOLEAN /\ s.clist[p] \in Check
  BY NewCheckType, CheckType DEF Session
<1>3. k.nominated = uc
  BY <1>2 DEF Check
<1> HIDE DEF k
<1>4. r \in Session(a) /\ Neat(r, m) /\ r.is_nominating = s.is_nominating
  BY <1>2, <1>3, MarkNeat
<1> HIDE DEF r
<1>5. m /\ ~r.is_nominating => ~nominate
  BY <1>4
<1> HIDE DEF nominate
<1> QED
  BY <1>1, <1>2, <1>4, <1>5, PerformNeat

LEMMA IncomingNeat ==
    ASSUME NEW a \in Agents, NEW s \in Session(a), NEW rcheck \in RxCheck(a),
           NEW m \in BOOLEAN, Neat(s, m), m /\ ~s.is_nominating => ~rcheck.uc
    PROVE  Neat(handle_incoming_check(s, rcheck), m)
<1> DEFINE dst == rcheck.pair[1]
           src == rcheck.pair[2]
           full == src \notin s.rcand /\ Cardinality(s.rcand) >= MaxCand
           cands == s.rcand \cup {src}
           s1 == [s EXCEPT !.rcand = cands]
           lq == LocalCandidate(s, dst)
           p == <<lq[1], src>>
<1>1. handle_incoming_check(s, rcheck)
      = IF full THEN s
        ELSE IF lq = NoPair THEN s1
        ELSE IF p \in Listed(s) THEN triggered_check(s1, p, rcheck.uc)
        ELSE IF RoomForCheck(s) THEN new_check(s1, p, rcheck.uc)
        ELSE s1
  BY DEF handle_incoming_check
<1>2. rcheck.pair \in Pairs(a) /\ rcheck.uc \in BOOLEAN
  BY DEF RxCheck
<1>3. cands \in SUBSET Addr
  BY <1>2, PairEnds DEF Session
<1> HIDE DEF cands
<1>4. s1 \in Session(a)
  BY <1>3, KeepsCandidates, KeepsType
<1>5. /\ SameSelection(s, s1) /\ s1.role = s.role /\ s1.clist = s.clist
      /\ s1.is_nominating = s.is_nominating /\ s1.early_check = s.early_check
      /\ s1.sent = s.sent /\ s1.timer = s.timer /\ s1.broken = s.broken
  BY SMTT(30) DEF Session, SameSelection
<1> HIDE DEF s1, full
<1>6. Neat(s1, m)
  BY <1>5, PlainRest, PlainNeat
<1>7. CASE lq # NoPair
  <2>1. lq \in Pairs(a) /\ CompOf[lq[1]] = CompOf[dst]
    <3>1. lq \in Listed(s) /\ CompOf[lq[1]] = CompOf[dst]
      BY <1>7, FirstType DEF LocalCandidate
    <3> QED
      BY <3>1, ListedType
  <2>2. p \in Pairs(a)
    BY <1>2, <2>1, PairEnds, PairOf
  <2> HIDE DEF lq, p
  <2>3. Neat(triggered_check(s1, p, rcheck.uc), m) /\ Neat(new_check(s1, p, rcheck.uc), m)
    BY <1>2, <1>4, <1>5, <1>6, <2>2, TriggeredNeat, NewCheckNeat
  <2> QED
    BY <1>1, <1>6, <1>7, <2>3
<1>8. CASE lq = NoPair
  BY <1>1, <1>6, <1>8
<1> QED
  BY <1>7, <1>8

LEMMA SuccessNeat ==
    ASSUME NEW a \in Agents, NEW s \in Session(a), NEW p \in Pairs(a),
           NEW m \in BOOLEAN, Neat(s, m)
    PROVE  Neat(SuccessResponse(s, p), m)
<1> DEFINE s1 == AddValid(s, p)
           s2 == check_set_state(s1, p, "succeeded")
<1>1. SuccessResponse(s, p) \in {check_failed(s, p), on_check_complete(s2, p)}
  BY DEF SuccessResponse
<1>2. s1 \in Session(a) /\ Neat(s1, m)
  BY AddNeat
<1> HIDE DEF s1
<1>3. "succeeded" \in CheckStates
  BY DEF CheckStates
<1>4. s2 \in Session(a) /\ Neat(s2, m)
  BY <1>2, <1>3, SetStateKeeps, KeepsType, StatePlain, PlainNeat
<1> HIDE DEF s2
<1>5. Neat(on_check_complete(s2, p), m)
  BY <1>4, CheckCompleteNeat
<1>6. Neat(check_failed(s, p), m)
  BY FailedNeat
<1> QED
  BY <1>1, <1>5, <1>6

\* A 487: the check is repeated in the role the request did not have.
LEMMA ConflictNeat ==
    ASSUME NEW a \in Agents, NEW s \in Session(a), NEW t \in Tx(a),
           NEW s1, s1 = [s EXCEPT !.role = OtherRole(t.role)],
           NEW m \in BOOLEAN, Neat(s1, m)
    PROVE  Neat(RoleConflictResponse(s, t), m)
<1> DEFINE p == t.pair
           x == OtherRole(t.role)
           s2 == check_set_state(s1, p, "waiting")
           nominate == s.clist[p].nominated \/ s.is_nominating
<1>1. RoleConflictResponse(s, t) = perform_check(s2, p, nominate)
  BY DEF RoleConflictResponse
<1>2. p \in Pairs(a) /\ x \in Roles /\ "waiting" \in CheckStates
  BY OtherRoleType DEF Tx, CheckStates
<1>3. nominate \in BOOLEAN
  BY <1>2, CheckType DEF Session
<1> HIDE DEF p, x
<1>4. s1 \in Session(a) /\ s1.clist = s.clist /\ s1.is_nominating = s.is_nominating
  <2>1. s1 = [s EXCEPT !.role = x]
    BY DEF x
  <2>2. s1 \in Session(a)
    BY <1>2, <2>1, ZenonT(30) DEF Session
  <2>3. s1.clist = s.clist /\ s1.is_nominating = s.is_nominating
    BY <2>1, SMTT(30) DEF Session
  <2> QED
    BY <2>2, <2>3
<1>5. m /\ ~s1.is_nominating => ~nominate
  <2>1. DOMAIN s1.clist = Pairs(a)
    BY <1>4 DEF Session
  <2> QED
    BY <1>2, <1>4, <2>1 DEF Neat, Unmarked
<1> HIDE DEF nominate
<1>6. s2 \in Session(a) /\ Neat(s2, m) /\ s2.is_nominating = s1.is_nominating
  <2>1. Plain(s1, s2)
    BY <1>2, <1>4, StatePlain
  <2> QED
    BY <1>2, <1>4, <2>1, SetStateKeeps, KeepsType, PlainNeat DEF Plain
<1> HIDE DEF s2
<1> QED
  BY <1>1, <1>2, <1>3, <1>5, <1>6, PerformNeat

-----------------------------------------------------------------------------
(* The steps that nominate nothing                                         *)

Plainly(a) == \E r \in Session(a) : Becomes(a, r) /\ Plain(ice[a], r)

LEMMA SettlePlain ==
    ASSUME NEW a, NEW r \in Session(a)
    PROVE  Plain(r, Settle(r))
<1> DEFINE q == Settle(r)
<1>1. /\ SameSelection(r, q) /\ q.role = r.role /\ q.clist = r.clist
      /\ q.is_nominating = r.is_nominating /\ q.early_check = r.early_check
      /\ q.sent = r.sent /\ q.timer = r.timer /\ q.broken = r.broken
  BY SMTT(30) DEF Settle, Session, SameSelection
<1> HIDE DEF q
<1>2. Plain(r, q)
  BY <1>1, PlainRest
<1> QED
  BY <1>2 DEF q

LEMMA CreatePlain ==
    ASSUME IInv, NEW a \in Agents, CreateCheckList(a)
    PROVE  Plainly(a)
<1> DEFINE s == ice[a]
           list == [p \in Pairs(a) |->
                       IF p \in InitialChecks(a)
                       THEN [s.clist[p] EXCEPT !.state = "frozen",
                                               !.prio = CALC_CHECK_PRIO(s.role, p)]
                       ELSE s.clist[p]]
           r == [s EXCEPT !.phase = "listed", !.rcand = LCand[Peer[a]], !.clist = list]
<1>1. Becomes(a, r) /\ s \in Session(a)
  BY DEF CreateCheckList, IInv, Sound
<1>2. r \in Session(a)
  BY <1>1, CreateType
<1>3. DOMAIN list = Pairs(a) /\ DOMAIN s.clist = Pairs(a)
      /\ \A p \in Pairs(a) : list[p].nominated = s.clist[p].nominated
  <2>1. \A k \in Check, n \in Nat :
            [k EXCEPT !.state = "frozen", !.prio = n].nominated = k.nominated
    BY DEF Check
  <2>2. \A p \in Pairs(a) : CALC_CHECK_PRIO(s.role, p) \in Nat /\ s.clist[p] \in Check
    BY <1>1, PrioType, CheckType
  <2> QED
    BY <1>1, <2>1, <2>2 DEF Session
<1> HIDE DEF list, s
<1>4. /\ SameSelection(s, r) /\ r.role = s.role /\ r.clist = list
      /\ r.is_nominating = s.is_nominating /\ r.early_check = s.early_check
      /\ r.sent = s.sent /\ r.timer = s.timer /\ r.broken = s.broken
  BY <1>1, SMTT(30) DEF Session, SameSelection
<1> HIDE DEF r
<1>5. Plain(s, r)
  BY <1>3, <1>4 DEF Plain, SameSelection
<1> QED
  BY <1>1, <1>2, <1>5 DEF Plainly, s

LEMMA DestroyPlain ==
    ASSUME IInv, NEW a \in Agents, NEW r \in Session(a), Becomes(a, Destroyed(r)),
           Plain(ice[a], r)
    PROVE  Plainly(a)
<1> DEFINE q == Destroyed(r)
<1>1. q \in Session(a)
  <2>1. "none" \in Timers
    BY DEF Timers
  <2> QED
    BY <2>1, ZenonT(30) DEF Destroyed, Session
<1>2. /\ SameSelection(r, q) /\ q.role = r.role /\ q.clist = r.clist
      /\ q.is_nominating = r.is_nominating /\ q.early_check = r.early_check
      /\ q.sent = r.sent /\ q.timer = "none" /\ q.broken = r.broken
  BY SMTT(30) DEF Destroyed, Session, SameSelection
<1> HIDE DEF q
<1>3. Plain(ice[a], q)
  BY <1>2, PlainRest, PlainOn
<1> QED
  BY <1>1, <1>3 DEF Plainly, q

LEMMA StopPlain ==
    ASSUME IInv, NEW a \in Agents, Destroy(a)
    PROVE  Plainly(a)
<1>1. Becomes(a, Destroyed(ice[a])) /\ ice[a] \in Session(a)
  BY DEF Destroy, IInv, Sound
<1> QED
  BY <1>1, DestroyPlain, PlainItself

LEMMA StartDonePlain ==
    ASSUME IInv, NEW a \in Agents, StartCheckDone(a)
    PROVE  Plainly(a)
<1> DEFINE s == ice[a]
           s1 == [s EXCEPT !.phase = "started"]
           s2 == [s EXCEPT !.phase = "started", !.clist_timer = TRUE]
           s3 == Claim(s1, FALSE, "schedule")
<1>1. Becomes(a, IF s.clist_timer THEN Destroyed(s3) ELSE s2)
  BY DEF StartCheckDone
<1>2. s \in Session(a)
  BY DEF IInv, Sound
<1> HIDE DEF s
<1>3. s1 \in Session(a) /\ s2 \in Session(a)
  <2>1. "started" \in Phases /\ TRUE \in BOOLEAN
    BY DEF Phases
  <2> QED
    BY <1>2, <2>1, ZenonT(30) DEF Session
<1>4. /\ SameSelection(s, s2) /\ s2.role = s.role /\ s2.clist = s.clist
      /\ s2.is_nominating = s.is_nominating /\ s2.early_check = s.early_check
      /\ s2.sent = s.sent /\ s2.timer = s.timer /\ s2.broken = s.broken
  BY <1>2, SMTT(30) DEF Session, SameSelection
<1>5. /\ SameSelection(s, s1) /\ s1.role = s.role /\ s1.clist = s.clist
      /\ s1.is_nominating = s.is_nominating /\ s1.early_check = s.early_check
      /\ s1.sent = s.sent /\ s1.timer = s.timer /\ s1.broken = s.broken
  BY <1>2, SMTT(30) DEF Session, SameSelection
<1> HIDE DEF s1, s2
<1>6. Plain(s, s2) /\ Plain(s, s1)
  BY <1>4, <1>5, PlainRest
<1>7. s3 \in Session(a) /\ Plain(s1, s3)
  BY <1>3, KeepsBroken, KeepsType, ClaimPlain DEF Asserts
<1> HIDE DEF s3
<1>8. Plain(s, s3)
  BY <1>6, <1>7, PlainOn
<1> QED
  BY <1>1, <1>3, <1>6, <1>7, <1>8, DestroyPlain DEF Plainly, s

LEMMA KeepAlivePlain ==
    ASSUME IInv, NEW a \in Agents, KeepAlive(a)
    PROVE  Plainly(a)
<1> DEFINE s == ice[a]
           n == NextComponent(s.comp_ka)
           s1 == [s EXCEPT !.comp_ka = n]
           r == Claim(s1, s.nominated_check[s.comp_ka] # NoPair, "keep_alive")
<1>1. Becomes(a, r)
  BY DEF KeepAlive
<1>2. s \in Session(a) /\ n \in Comps
  BY NextComponentType DEF IInv, Sound, Session
<1> HIDE DEF n, s
<1>3. s1 \in Session(a)
  BY <1>2, ZenonT(30) DEF Session
<1>4. /\ SameSelection(s, s1) /\ s1.role = s.role /\ s1.clist = s.clist
      /\ s1.is_nominating = s.is_nominating /\ s1.early_check = s.early_check
      /\ s1.sent = s.sent /\ s1.timer = s.timer /\ s1.broken = s.broken
  BY <1>2, SMTT(30) DEF Session, SameSelection
<1> HIDE DEF s1
<1>5. Plain(s, s1)
  BY <1>4, PlainRest
<1>6. r \in Session(a) /\ Plain(s1, r)
  BY <1>3, KeepsBroken, KeepsType, ClaimPlain DEF Asserts
<1> QED
  BY <1>1, <1>5, <1>6, PlainOn DEF Plainly, s

\* With aggressive nomination the first checks nominate already.
LEMMA StartLeaves ==
    ASSUME IInv, NEW a \in Agents, StartCheck(a)
    PROVE  \E r \in Session(a) :
               /\ Becomes(a, r) /\ SameSelection(ice[a], r) /\ r.role = ice[a].role
               /\ r.is_nominating = (ice[a].is_nominating \/ ice[a].aggressive)
               /\ r.early_check = ice[a].early_check /\ r.sent = ice[a].sent
               /\ r.timer = ice[a].timer /\ r.broken = ice[a].broken
               /\ DOMAIN r.clist = Pairs(a) /\ DOMAIN ice[a].clist = Pairs(a)
               /\ \A p \in Pairs(a) : r.clist[p].nominated = ice[a].clist[p].nominated
<1> DEFINE s == ice[a]
           lead == FirstOfFoundation(s)
           n == s.is_nominating \/ s.aggressive
           list == [p \in DOMAIN s.clist |->
                       IF p \in lead /\ s.clist[p].state = "frozen"
                       THEN [s.clist[p] EXCEPT !.state = "waiting"] ELSE s.clist[p]]
           r == [s EXCEPT !.phase = "replay", !.is_nominating = n, !.clist = list]
<1>1. Becomes(a, r) /\ s \in Session(a)
  BY DEF StartCheck, IInv, Sound
<1>2. r \in Session(a)
  BY <1>1, StartType
<1>3. DOMAIN list = Pairs(a) /\ DOMAIN s.clist = Pairs(a)
      /\ \A p \in Pairs(a) : list[p].nominated = s.clist[p].nominated
  <2>1. \A k \in Check : [k EXCEPT !.state = "waiting"].nominated = k.nominated
    BY DEF Check
  <2>2. \A p \in Pairs(a) : s.clist[p] \in Check
    BY <1>1, CheckType
  <2>3. DOMAIN s.clist = Pairs(a)
    BY <1>1 DEF Session
  <2> HIDE DEF lead, s
  <2>4. ASSUME NEW p \in Pairs(a)
        PROVE  list[p] \in {s.clist[p], [s.clist[p] EXCEPT !.state = "waiting"]}
    BY <2>3
  <2>5. DOMAIN list = Pairs(a)
    BY <2>3
  <2> HIDE DEF list
  <2>6. \A p \in Pairs(a) : [s.clist[p] EXCEPT !.state = "waiting"].nominated = s.clist[p].nominated
    BY <2>1, <2>2
  <2> QED
    BY <2>3, <2>4, <2>5, <2>6
<1> HIDE DEF list, n, s
<1>4. /\ SameSelection(s, r) /\ r.role = s.role /\ r.clist = list
      /\ r.is_nominating = n /\ r.early_check = s.early_check
      /\ r.sent = s.sent /\ r.timer = s.timer /\ r.broken = s.broken
  BY <1>1, SMTT(30) DEF Session, SameSelection
<1> HIDE DEF r
<1> QED
  BY <1>1, <1>2, <1>3, <1>4 DEF n, s

\* The periodic timer sends at most one check.
LEMMA PeriodicPlain ==
    ASSUME IInv, NEW a \in Agents, PeriodicTimer(a)
    PROVE  \/ Plainly(a)
           \/ \E s, s1, r \in Session(a), p \in Pairs(a) :
                 /\ Plain(ice[a], s) /\ s1 = perform_check(s, p, s.is_nominating)
                 /\ Plain(s1, r) /\ Becomes(a, r)
<1> DEFINE s0 == ice[a]
           s == [s0 EXCEPT !.clist_timer = FALSE]
           InState(st) == {p \in Listed(s) : s.clist[p].state = st}
           nxt == IF InState("waiting") # {} THEN First(s, InState("waiting"))
                  ELSE First(s, InState("frozen"))
           s1 == perform_check(s, nxt, s.is_nominating)
           r == [s1 EXCEPT !.clist_timer = nxt \notin SendErr]
<1>1. Becomes(a, IF nxt = NoPair THEN s ELSE r)
  BY DEF PeriodicTimer
<1>2. s0 \in Session(a)
  BY DEF IInv, Sound
<1> HIDE DEF s0
<1>3. s \in Session(a) /\ Plain(s0, s)
  <2>1. s \in Session(a)
    BY <1>2, TimerQuiet, QuietType
  <2>2. /\ SameSelection(s0, s) /\ s.role = s0.role /\ s.clist = s0.clist
        /\ s.is_nominating = s0.is_nominating /\ s.early_check = s0.early_check
        /\ s.sent = s0.sent /\ s.timer = s0.timer /\ s.broken = s0.broken
    BY <1>2, SMTT(30) DEF Session, SameSelection
  <2> HIDE DEF s
  <2> QED
    BY <2>1, <2>2, PlainRest
<1> HIDE DEF s
<1>4. CASE nxt = NoPair
  BY <1>1, <1>3, <1>4 DEF Plainly, s0
<1>5. CASE nxt # NoPair
  <2>1. nxt \in Listed(s)
    BY <1>5, FirstType
  <2>2. nxt \in Pairs(a) /\ s.is_nominating \in BOOLEAN
    BY <1>3, <2>1, ListedType DEF Session
  <2> HIDE DEF nxt
  <2>3. s1 \in Session(a)
    BY <1>3, <2>2, PerformKeeps, KeepsType
  <2>4. s1 = perform_check(s, nxt, s.is_nominating)
    OBVIOUS
  <2> HIDE DEF s1
  <2>5. r \in Session(a) /\ Plain(s1, r)
    <3>1. r \in Session(a)
      BY <2>3, TimerQuiet, QuietType
    <3>2. /\ SameSelection(s1, r) /\ r.role = s1.role /\ r.clist = s1.clist
          /\ r.is_nominating = s1.is_nominating /\ r.early_check = s1.early_check
          /\ r.sent = s1.sent /\ r.timer = s1.timer /\ r.broken = s1.broken
      BY <2>3, SMTT(30) DEF Session, SameSelection
    <3> HIDE DEF r
    <3> QED
      BY <3>1, <3>2, PlainRest
  <2> HIDE DEF r
  <2> QED
    BY <1>1, <1>3, <1>5, <2>2, <2>3, <2>4, <2>5 DEF s0
<1> QED
  BY <1>4, <1>5

\* The session's timer nominates only where it was set for that.
LEMMA OnTimerPlain ==
    ASSUME IInv, NEW a \in Agents, OnTimer(a)
    PROVE  \/ Plainly(a)
           \/ /\ ice[a].timer = "start_nominated"
              /\ \E s \in Session(a) : Plain(ice[a], s) /\ Becomes(a, start_nominated_check(s))
<1> DEFINE s0 == ice[a]
           s == [s0 EXCEPT !.timer = "none"]
           next == IF s.ice_status = "ok" THEN "keep_alive" ELSE "none"
           n == s.completions + 1
           told == [s EXCEPT !.timer = next, !.completions = n]
<1>1. \/ Becomes(a, on_ice_complete(s, "nom_timeout"))
      \/ s0.timer = "start_nominated" /\ Becomes(a, start_nominated_check(s))
      \/ Becomes(a, told)
  BY DEF OnTimer
<1>2. s0 \in Session(a)
  BY DEF IInv, Sound
<1> HIDE DEF s0
<1>3. s \in Session(a) /\ Plain(s0, s)
  BY <1>2, TimerQuiet, QuietType, TimerPlain DEF Timers
<1> HIDE DEF s
<1>4. CASE Becomes(a, on_ice_complete(s, "nom_timeout"))
  <2>1. /\ on_ice_complete(s, "nom_timeout") \in Session(a)
        /\ Plain(s, on_ice_complete(s, "nom_timeout"))
    BY <1>3, CompleteKeeps, KeepsType, FinishPlain DEF Outcomes
  <2> QED
    BY <1>3, <1>4, <2>1, PlainOn DEF Plainly, s0
<1>5. CASE s0.timer = "start_nominated" /\ Becomes(a, start_nominated_check(s))
  BY <1>3, <1>5 DEF s0
<1>6. CASE Becomes(a, told)
  <2>1. next \in Timers /\ n \in Nat /\ next # "start_nominated"
    BY <1>3 DEF Timers, Session
  <2> HIDE DEF next, n
  <2>2. told \in Session(a)
    BY <1>3, <2>1, ZenonT(30) DEF Session
  <2>3. /\ SameSelection(s, told) /\ told.role = s.role /\ told.clist = s.clist
        /\ told.is_nominating = s.is_nominating /\ told.early_check = s.early_check
        /\ told.sent = s.sent /\ told.timer = next /\ told.broken = s.broken
    BY <1>3, SMTT(30) DEF Session, SameSelection
  <2> HIDE DEF told
  <2>4. Plain(s, told)
    BY <2>1, <2>3, PlainRest
  <2> QED
    BY <1>3, <1>6, <2>2, <2>4, PlainOn DEF Plainly, s0
<1> QED
  BY <1>1, <1>4, <1>5, <1>6

-----------------------------------------------------------------------------
(* Regular nomination: both agents                                         *)

\* The peer of s with session u has not nominated a pair of s: it cannot, or it
\* has the same role still and no check was answered.
Ahead(s, u) == s.role = "controlling" \/ s.role = u.role
NoneAnswered(s) == \A c \in Comps : s.valid_check[c] = NoPair

AllNeat ==
    \A a \in Agents :
        /\ Neat(ice[a], Ahead(ice[a], ice[Peer[a]]))
        /\ ice[a].role = ice[Peer[a]].role => NoneAnswered(ice[a])

LEMMA NeatLess ==
    ASSUME NEW s, NEW m, NEW n, Neat(s, m), n => m, s.role = "controlling" => n
    PROVE  Neat(s, n)
  BY DEF Neat

\* In the same role nomination has not begun.
LEMMA NotBegun ==
    ASSUME AllNeat, NEW a \in Agents, ice[a].role = ice[Peer[a]].role
    PROVE  /\ Neat(ice[a], TRUE) /\ ~ice[a].is_nominating
           /\ ~ice[a].is_destroying /\ AllWhole => ice[a].timer # "start_nominated"
<1>1. 1 \in Comps
  BY CompAssumption DEF Comps
<1>2. ~AllValid(ice[a])
  BY <1>1 DEF AllNeat, NoneAnswered, AllValid
<1>3. Neat(ice[a], Ahead(ice[a], ice[Peer[a]])) /\ Ahead(ice[a], ice[Peer[a]])
  BY DEF AllNeat, Ahead
<1> QED
  BY <1>2, <1>3 DEF Neat, AllWhole, Whole, Tended, Timed

\* One agent moves and keeps its role.
LEMMA OneNeat ==
    ASSUME AllNeat, IInv, NEW a \in Agents, NEW r, ice' = [ice EXCEPT ![a] = r],
           r.role = ice[a].role, Neat(r, Ahead(ice[a], ice[Peer[a]])),
           ice[a].role = ice[Peer[a]].role => r.valid_check = ice[a].valid_check
    PROVE  AllNeat'
<1>1. /\ ice'[a] = r /\ \A c \in Agents : c # a => ice'[c] = ice[c]
      /\ Peer[a] \in Agents /\ Peer[a] # a
  BY PeerType DEF IInv
<1>2. \A c \in Agents : ice'[c].role = ice[c].role
  BY <1>1
<1>3. ASSUME NEW c \in Agents
      PROVE  /\ Neat(ice'[c], Ahead(ice'[c], ice'[Peer[c]]))
             /\ ice'[c].role = ice'[Peer[c]].role => NoneAnswered(ice'[c])
  <2>1. Peer[c] \in Agents /\ Peer[c] # c
    BY PeerType
  <2>2. Ahead(ice'[c], ice'[Peer[c]]) = Ahead(ice[c], ice[Peer[c]])
    BY <1>2, <2>1 DEF Ahead
  <2>3. CASE c = a
    BY <1>1, <1>2, <2>1, <2>2, <2>3 DEF AllNeat, NoneAnswered
  <2>4. CASE c # a
    BY <1>1, <1>2, <2>1, <2>2, <2>4 DEF AllNeat
  <2> QED
    BY <2>3, <2>4
<1> QED
  BY <1>3 DEF AllNeat

\* What remains when responses are discarded.
LEMMA SettleNeat ==
    ASSUME NEW a, NEW r \in Session(a), NEW m, Neat(r, m)
    PROVE  /\ Neat(Settle(r), m) /\ Settle(r).role = r.role
           /\ Settle(r).valid_check = r.valid_check
<1>1. Plain(r, Settle(r))
  BY SettlePlain
<1> QED
  BY <1>1, PlainNeat DEF Plain

LEMMA BecomesNeat ==
    ASSUME AllNeat, IInv, NEW a \in Agents, NEW r \in Session(a), Becomes(a, r),
           r.role = ice[a].role, Neat(r, Ahead(ice[a], ice[Peer[a]])),
           ice[a].role = ice[Peer[a]].role => r.valid_check = ice[a].valid_check
    PROVE  AllNeat'
<1>1. /\ Neat(Settle(r), Ahead(ice[a], ice[Peer[a]])) /\ Settle(r).role = r.role
      /\ Settle(r).valid_check = r.valid_check
  BY SettleNeat
<1> QED
  BY <1>1, OneNeat DEF Becomes

\* Most actions select no pair, and many nominate none.
LEMMA QuietNeat ==
    ASSUME AllNeat, IInv, NEW a \in Agents, NEW r, Becomes(a, r), Quiet(a, ice[a], r),
           Neat(r, Ahead(ice[a], ice[Peer[a]]))
    PROVE  AllNeat'
  BY BecomesNeat DEF Quiet

LEMMA PlainStep ==
    ASSUME AllNeat, IInv, NEW a \in Agents, Plainly(a)
    PROVE  AllNeat'
<1>1. PICK r \in Session(a) : Becomes(a, r) /\ Plain(ice[a], r)
  BY DEF Plainly
<1>2. Neat(r, Ahead(ice[a], ice[Peer[a]]))
  BY <1>1, PlainNeat DEF AllNeat
<1> QED
  BY <1>1, <1>2, BecomesNeat DEF Plain

LEMMA StartNeat ==
    ASSUME AllNeat, IInv, Regular, NEW a \in Agents, StartCheck(a)
    PROVE  AllNeat'
<1>1. PICK r \in Session(a) :
          /\ Becomes(a, r) /\ SameSelection(ice[a], r) /\ r.role = ice[a].role
          /\ r.is_nominating = (ice[a].is_nominating \/ ice[a].aggressive)
          /\ r.early_check = ice[a].early_check /\ r.sent = ice[a].sent
          /\ r.timer = ice[a].timer /\ r.broken = ice[a].broken
          /\ DOMAIN r.clist = Pairs(a) /\ DOMAIN ice[a].clist = Pairs(a)
          /\ \A p \in Pairs(a) : r.clist[p].nominated = ice[a].clist[p].nominated
  BY StartLeaves
<1>2. r.is_nominating = ice[a].is_nominating
  BY <1>1 DEF Regular, IInv, Sound, Session
<1>3. Plain(ice[a], r)
  BY <1>1, <1>2 DEF Plain, SameSelection
<1> QED
  BY <1>1, <1>3, PlainStep DEF Plainly

LEMMA PeriodicNeat ==
    ASSUME AllNeat, IInv, NEW a \in Agents, PeriodicTimer(a)
    PROVE  AllNeat'
<1> DEFINE m == Ahead(ice[a], ice[Peer[a]])
<1>1. CASE Plainly(a)
  BY <1>1, PlainStep
<1>2. CASE ~Plainly(a)
  <2>1. PICK s, s1, r \in Session(a), p \in Pairs(a) :
            /\ Plain(ice[a], s) /\ s1 = perform_check(s, p, s.is_nominating)
            /\ Plain(s1, r) /\ Becomes(a, r)
    BY <1>2, PeriodicPlain
  <2>2. Neat(s, m) /\ m \in BOOLEAN /\ s.is_nominating \in BOOLEAN
    BY <2>1, PlainNeat DEF AllNeat, Ahead, Session
  <2>3. Neat(s1, m)
    <3> HIDE DEF m
    <3> QED
      BY <2>1, <2>2, PerformNeat
  <2>4. s1.role = s.role /\ s1.valid_check = s.valid_check
    BY <2>1, <2>2, PerformSends DEF SameSelection
  <2>5. Neat(r, m) /\ r.role = ice[a].role /\ r.valid_check = ice[a].valid_check
    BY <2>1, <2>3, <2>4, PlainNeat DEF Plain
  <2> QED
    BY <2>1, <2>5, BecomesNeat
<1> QED
  BY <1>1, <1>2

LEMMA TimerNeat ==
    ASSUME AllNeat, AllWhole, IInv, Regular, NEW a \in Agents, OnTimer(a)
    PROVE  AllNeat'
<1> DEFINE s0 == ice[a]
           m == Ahead(s0, ice[Peer[a]])
<1>1. CASE Plainly(a)
  BY <1>1, PlainStep
<1>2. CASE ~Plainly(a)
  <2>1. s0.timer = "start_nominated"
    BY <1>2, OnTimerPlain
  <2>2. PICK s \in Session(a) : Plain(s0, s) /\ Becomes(a, start_nominated_check(s))
    BY <1>2, OnTimerPlain
  <2>3. s0 \in Session(a) /\ Tended(s0) /\ ~Doubled(s0) /\ Neat(s0, m) /\ m \in BOOLEAN
    BY DEF OnTimer, Enterable, IInv, Sound, AllWhole, Whole, Regular, AllNeat, Ahead
  <2> HIDE DEF s0, m
  <2>4. s0.role = "controlling" /\ ~s0.is_nominating /\ AllValid(s0)
    BY <2>1, <2>3 DEF Neat, Doubled, Tended, Timed
  <2>5. Neat(s, m) /\ AllValid(s) /\ s.role = "controlling" /\ ~s.is_nominating
    BY <2>2, <2>3, <2>4, PlainNeat DEF AllValid, Plain
  <2> DEFINE r == start_nominated_check(s)
  <2>6. Neat(r, m)
    BY <2>2, <2>3, <2>5, StartNominatedNeat
  <2>7. Quiet(a, s, r)
    BY <2>2, StartNominatedQuiet
  <2> HIDE DEF r
  <2>8. r \in Session(a) /\ r.role = s0.role /\ r.valid_check = s0.valid_check
    BY <2>2, <2>7 DEF Quiet, Plain
  <2> QED
    BY <2>2, <2>6, <2>8, BecomesNeat DEF s0, m, r
<1> QED
  BY <1>1, <1>2

LEMMA TimeoutNeat ==
    ASSUME AllNeat, Safe, IInv, NEW a \in Agents, NEW t \in ice[a].pending, RequestTimeout(a, t)
    PROVE  AllNeat'
<1> DEFINE s0 == ice[a]
           m == Ahead(s0, ice[Peer[a]])
           s == Complete(s0, t)
           r == check_failed(s, t.pair)
<1>1. Becomes(a, r) /\ s0 \in Session(a) /\ Neat(s0, m) /\ m \in BOOLEAN
  BY DEF RequestTimeout, IInv, Sound, AllNeat, Ahead
<1>2. t \in Tx(a) /\ t.pair \in Pairs(a)
  BY <1>1 DEF Session, Tx
<1>3. Quiet(a, s0, s) /\ FromBase(t.pair)
  BY <1>1, <1>2, EndQuiet DEF Safe, Fine, Fit, Grounded
<1> HIDE DEF s0, m
<1>4. Neat(s, m)
  BY <1>1, <1>2, EndPlain, PlainNeat
<1> HIDE DEF s
<1>5. Quiet(a, s, r) /\ Neat(r, m)
  BY <1>1, <1>2, <1>3, <1>4, FailedQuiet, FailedNeat, QuietType
<1> HIDE DEF r
<1> QED
  BY <1>1, <1>3, <1>5, QuietOn, QuietNeat DEF s0, m

LEMMA ReplayNeat ==
    ASSUME AllNeat, Safe, IInv, NEW a \in Agents, ReplayEarlyCheck(a)
    PROVE  AllNeat'
<1> DEFINE s == ice[a]
           u == ice[Peer[a]]
           m == Ahead(s, u)
           head == Head(s.early_check)
           tail == Tail(s.early_check)
           s1 == [s EXCEPT !.early_check = tail]
           r == handle_incoming_check(s1, head)
<1>1. Becomes(a, r) /\ s.early_check # <<>>
  BY DEF ReplayEarlyCheck
<1>2. s \in Session(a) /\ Settled(a, s, u) /\ Neat(s, m) /\ m \in BOOLEAN
  BY PeerType DEF IInv, Sound, Safe, AllNeat, Ahead
<1>3. s.role # u.role
  BY <1>1, <1>2 DEF Settled, Untouched
<1>4. /\ head \in RxCheck(a) /\ tail \in Seq(RxCheck(a))
      /\ 1 \in DOMAIN s.early_check /\ head = s.early_check[1]
      /\ \A i \in DOMAIN tail : i + 1 \in DOMAIN s.early_check /\ tail[i] = s.early_check[i + 1]
  <2> DEFINE e == s.early_check
  <2>1. e \in Seq(RxCheck(a)) /\ e # <<>>
    BY <1>1, <1>2 DEF Session
  <2> HIDE DEF e
  <2>2. /\ Head(e) \in RxCheck(a) /\ Tail(e) \in Seq(RxCheck(a))
        /\ 1 \in DOMAIN e /\ Head(e) = e[1]
        /\ \A i \in DOMAIN Tail(e) : i + 1 \in DOMAIN e /\ Tail(e)[i] = e[i + 1]
    BY <2>1
  <2> QED
    BY <2>2 DEF e
<1> HIDE DEF head, tail, s, u, m
<1>5. s1 \in Session(a)
  BY <1>2, <1>4, ZenonT(30) DEF Session
<1>6. /\ SameSelection(s, s1) /\ s1.role = s.role /\ s1.clist = s.clist
      /\ s1.is_nominating = s.is_nominating /\ s1.early_check = tail
      /\ s1.sent = s.sent /\ s1.timer = s.timer /\ s1.broken = s.broken
  BY <1>2, SMTT(30) DEF Session, SameSelection
<1> HIDE DEF s1
<1>7. Unmarked(s) => Unmarked(s1)
  BY <1>4, <1>6 DEF Unmarked, SameSelection
<1>8. Neat(s1, m)
  BY <1>2, <1>6, <1>7 DEF Neat, AllValid, SameSelection
<1>9. m /\ ~s1.is_nominating => ~head.uc
  BY <1>2, <1>4, <1>6 DEF Neat, Unmarked
<1>10. Neat(r, m) /\ r \in Session(a) /\ r.role = s1.role
  BY <1>2, <1>4, <1>5, <1>8, <1>9, IncomingNeat, IncomingKeeps DEF Keeps
<1> HIDE DEF r
<1> QED
  BY <1>1, <1>3, <1>6, <1>10, BecomesNeat DEF s, u, m

\* Two agents whose roles differ after a step.
LEMMA TwoNeat ==
    ASSUME AllNeat, IInv, NEW a \in Agents, NEW b, b = Peer[a], NEW r, NEW w,
           ice'[a] = r, ice'[b] = w,
           \A c \in Agents : c # a /\ c # b => ice'[c] = ice[c],
           r.role # w.role,
           Neat(r, r.role = "controlling"), Neat(w, w.role = "controlling")
    PROVE  AllNeat'
<1>1. b \in Agents /\ a # b /\ Peer[b] = a
  BY PeerType
<1>2. ASSUME NEW c \in Agents
      PROVE  /\ Neat(ice'[c], Ahead(ice'[c], ice'[Peer[c]]))
             /\ ice'[c].role = ice'[Peer[c]].role => NoneAnswered(ice'[c])
  <2>1. CASE c = a
    BY <1>1, <2>1 DEF Ahead
  <2>2. CASE c = b
    BY <1>1, <2>2 DEF Ahead
  <2>3. CASE c # a /\ c # b
    <3>1. Peer[c] \in Agents /\ Peer[c] # a /\ Peer[c] # b
      BY <1>1, <2>3, PeerType
    <3>2. ice'[c] = ice[c] /\ ice'[Peer[c]] = ice[Peer[c]]
      BY <2>3, <3>1
    <3> QED
      BY <3>2 DEF AllNeat
  <2> QED
    BY <2>1, <2>2, <2>3
<1> QED
  BY <1>2 DEF AllNeat

\* A session that takes another role, when none of the two has nominated.
LEMMA TurnNeat ==
    ASSUME NEW a, NEW s \in Session(a), NEW x \in Roles, NEW m \in BOOLEAN, NEW n \in BOOLEAN,
           Neat(s, m), n => m, x = "controlling" => n,
           s.role = x \/ s.timer # "start_nominated"
    PROVE  Neat([s EXCEPT !.role = x], n)
<1> DEFINE r == [s EXCEPT !.role = x]
<1>1. /\ SameSelection(s, r) /\ r.role = x /\ r.clist = s.clist
      /\ r.is_nominating = s.is_nominating /\ r.early_check = s.early_check
      /\ r.sent = s.sent /\ r.timer = s.timer /\ r.broken = s.broken
  BY SMTT(30) DEF Session, SameSelection
<1> HIDE DEF r
<1>2. Unmarked(s) => Unmarked(r)
  BY <1>1 DEF Unmarked, SameSelection
<1>3. Neat(r, n)
  BY <1>1, <1>2 DEF Neat, AllValid, SameSelection
<1> QED
  BY <1>3 DEF r

LEMMA ConflictEndsNeat ==
    ASSUME AllNeat, AllWhole, Safe, IInv, NEW a \in Agents, ~ice[a].is_destroying,
           NEW m \in ice[a].resp, m.code = "role_conflict",
           Becomes(a, RoleConflictResponse(Complete(ice[a], m.t), m.t))
    PROVE  AllNeat'
<1> DEFINE s0 == ice[a]
           u == ice[Peer[a]]
           t == m.t
           x == OtherRole(t.role)
           s == Complete(s0, t)
           s1 == [s EXCEPT !.role = x]
           r == RoleConflictResponse(s, t)
           past == Ahead(s0, u)
<1>1. /\ s0 \in Session(a) /\ Fine(s0) /\ u \in Session(Peer[a])
      /\ Settled(a, s0, u) /\ ConflictsDue(a, s0) /\ Neat(s0, past) /\ Neat(u, Ahead(u, s0))
      /\ past \in BOOLEAN
  <2>1. Peer[a] \in Agents /\ Peer[Peer[a]] = a
    BY PeerType
  <2> QED
    BY <2>1 DEF IInv, Sound, Safe, AllNeat, Ahead
<1>2. m \in Response(a) /\ t \in Tx(a) /\ t.pair \in Pairs(a) /\ Answered(t.pair)
  BY <1>1 DEF Session, Response, Tx, Fine
<1>3. x = Due(a) /\ u.role = Due(Peer[a]) /\ x \in Roles /\ x # u.role
  BY <1>1, DueDiffers DEF ConflictsDue, Settled, t
<1>4. s \in Session(a) /\ Neat(s, past)
  BY <1>1, <1>2, EndKeeps, KeepsType, EndPlain, PlainNeat
<1>5. s.timer = s0.timer /\ s.role = s0.role
  BY <1>1, <1>2, SMTT(30) DEF Complete, Claim, Session
<1>6. s0.role = x \/ s0.role = u.role
  BY <1>1, <1>3, DueDiffers DEF Session
<1>7. s0.role = u.role => s0.timer # "start_nominated"
  BY NotBegun
<1>8. Neat(s1, past) /\ (x = "controlling" => past)
  <2>1. x = "controlling" => past
    BY <1>6 DEF Ahead
  <2> HIDE DEF s, s0, u, t, x, past
  <2> QED
    BY <1>1, <1>3, <1>4, <1>5, <1>6, <1>7, <2>1, TurnNeat
<1>9. Neat(r, past) /\ Quiet(a, s1, r)
  <2> HIDE DEF s, past
  <2> QED
    BY <1>1, <1>2, <1>4, <1>8, ConflictNeat, ConflictQuiet DEF Answered
<1>10. r \in Session(a) /\ r.role = x
  <2>1. s1.role = x
    <3> HIDE DEF s, x
    <3> QED
      BY <1>4, SMTT(30) DEF Session
  <2> QED
    BY <1>9, <2>1 DEF Quiet
<1> HIDE DEF r, s, x, t, past
<1>11. Neat(Settle(r), r.role = "controlling") /\ Settle(r).role = r.role
  <2>1. Neat(r, r.role = "controlling")
    BY <1>8, <1>9, <1>10, NeatLess
  <2> QED
    BY <1>10, <2>1, SettleNeat
<1>12. Neat(u, u.role = "controlling")
  BY <1>1, NeatLess DEF Ahead
<1>13. /\ ice'[a] = Settle(r) /\ ice'[Peer[a]] = u
       /\ \A c \in Agents : c # a /\ c # Peer[a] => ice'[c] = ice[c]
  BY PeerType DEF Becomes, IInv, r, s, t
<1> HIDE DEF u
<1> QED
  BY <1>3, <1>10, <1>11, <1>12, <1>13, TwoNeat

LEMMA ResponseNeat ==
    ASSUME AllNeat, AllWhole, Safe, IInv, NEW a \in Agents, NEW m \in ice[a].resp,
           RecvResponse(a, m)
    PROVE  AllNeat'
<1>1. CASE m.code = "role_conflict"
  BY <1>1, ConflictEndsNeat DEF RecvResponse, Enterable
<1>2. CASE m.code # "role_conflict"
  <2> DEFINE s0 == ice[a]
             u == ice[Peer[a]]
             past == Ahead(s0, u)
             p == m.t.pair
             s == Complete(s0, m.t)
             r == SuccessResponse(s, p)
  <2>1. Becomes(a, r)
    BY <1>2 DEF RecvResponse
  <2>2. /\ s0 \in Session(a) /\ Fine(s0) /\ Settled(a, s0, u) /\ Neat(s0, past)
        /\ past \in BOOLEAN
    BY DEF IInv, Sound, Safe, AllNeat, Ahead
  <2>3. m.t \in Tx(a) /\ p \in Pairs(a) /\ Answered(p)
    BY <2>2 DEF Session, Response, Tx, Fine
  <2>4. s0.role # u.role
    BY <1>2, <2>2 DEF Settled, Untouched
  <2> HIDE DEF s0, u, past, p
  <2>5. s \in Session(a) /\ Neat(s, past) /\ s.role = s0.role
    BY <2>2, <2>3, EndKeeps, EndPlain, PlainNeat DEF Keeps
  <2> HIDE DEF s
  <2>6. Neat(r, past) /\ r \in Session(a) /\ r.role = s.role
    BY <2>2, <2>3, <2>5, SuccessNeat, SuccessFollows DEF Follows
  <2> HIDE DEF r
  <2> QED
    BY <2>1, <2>4, <2>5, <2>6, BecomesNeat DEF s0, u, past
<1> QED
  BY <1>1, <1>2

LEMMA RespondPlain ==
    ASSUME NEW a \in Agents, ice[a] \in Session(a), NEW t, NEW code
    PROVE  Plain(ice[a], Respond(a, t, code))
<1> DEFINE s == ice[a]
           all == s.resp \cup {[t |-> t, code |-> code]}
           q == [s EXCEPT !.resp = all]
<1>1. Respond(a, t, code) \in {s, q}
  BY DEF Respond
<1>2. s \in Session(a)
  OBVIOUS
<1> HIDE DEF s, all
<1>3. /\ SameSelection(s, q) /\ q.role = s.role /\ q.clist = s.clist
      /\ q.is_nominating = s.is_nominating /\ q.early_check = s.early_check
      /\ q.sent = s.sent /\ q.timer = s.timer /\ q.broken = s.broken
  BY <1>2, SMTT(30) DEF Session, SameSelection
<1> HIDE DEF q
<1> QED
  BY <1>1, <1>3, PlainRest, PlainItself DEF s

LEMMA RespondNeat ==
    ASSUME NEW a \in Agents, ice[a] \in Session(a), NEW t, NEW code
    PROVE  LET r == Respond(a, t, code)
           IN /\ r.role = ice[a].role /\ r.valid_check = ice[a].valid_check
              /\ \A m : Neat(ice[a], m) => Neat(r, m)
  BY RespondPlain, PlainNeat DEF Plain

\* A check that comes before the own candidates are known.
LEMMA EarlyNeat ==
    ASSUME NEW a, NEW s \in Session(a), NEW rcheck \in RxCheck(a), NEW m \in BOOLEAN,
           Neat(s, m), m => ~rcheck.uc,
           NEW r, r = [s EXCEPT !.early_check = Append(s.early_check, rcheck)]
    PROVE  Neat(r, m) /\ r.role = s.role
<1> DEFINE e == Append(s.early_check, rcheck)
<1>1. \A i \in DOMAIN e : \/ i \in DOMAIN s.early_check /\ e[i] = s.early_check[i]
                          \/ e[i] = rcheck
  <2> DEFINE q == s.early_check
  <2>1. q \in Seq(RxCheck(a))
    BY DEF Session
  <2> HIDE DEF q
  <2>2. \A i \in DOMAIN Append(q, rcheck) :
            \/ i \in DOMAIN q /\ Append(q, rcheck)[i] = q[i]
            \/ Append(q, rcheck)[i] = rcheck
    BY <2>1
  <2> QED
    BY <2>2 DEF q
<1>5. r = [s EXCEPT !.early_check = e]
  OBVIOUS
<1> HIDE DEF e
<1>2. /\ SameSelection(s, r) /\ r.role = s.role /\ r.clist = s.clist
      /\ r.is_nominating = s.is_nominating /\ r.early_check = e
      /\ r.sent = s.sent /\ r.timer = s.timer /\ r.broken = s.broken
  BY <1>5, SMTT(30) DEF Session, SameSelection
<1>3. m /\ Unmarked(s) => Unmarked(r)
  BY <1>1, <1>2 DEF Unmarked, SameSelection
<1>4. Neat(r, m)
  BY <1>2, <1>3 DEF Neat, AllValid, SameSelection
<1> QED
  BY <1>2, <1>4

\* Whoever takes a request nominates with it only in the role of the controlled
\* agent, which it then keeps.
LEMMA RequestNeat ==
    ASSUME AllNeat, AllWhole, Safe, IInv, NEW b \in Agents, NEW t \in ice[Peer[b]].sent,
           RecvRequest(b, t)
    PROVE  AllNeat'
<1> DEFINE a == Peer[b]
           w == ice[a]
           u == ice[b]
           rcheck == [pair |-> <<t.pair[2], SeenAs[t.pair]>>, uc |-> t.uc]
           x == IF u.role = t.role THEN OtherRole(u.role) ELSE u.role
           n == x = "controlling"
           s == [u EXCEPT !.role = x]
           kept == [s EXCEPT !.early_check = Append(s.early_check, rcheck)]
           handled == handle_incoming_check(s, rcheck)
<1>1. a \in Agents /\ a # b /\ Peer[a] = b
  BY PeerType
<1>2. /\ u \in Session(b) /\ w \in Session(a) /\ ~u.is_destroying
      /\ Settled(a, w, u) /\ Settled(b, u, w)
      /\ Neat(u, Ahead(u, w)) /\ Neat(w, Ahead(w, u))
  BY <1>1 DEF IInv, Sound, Safe, AllNeat, RecvRequest, Enterable
<1>3. /\ t \in Tx(a) /\ t \in w.sent /\ t.role \in Roles /\ t.uc \in BOOLEAN
      /\ t.pair \in Pairs(a) /\ (t.uc => t.role = "controlling")
  BY <1>2 DEF Session, Tx, Neat
<1>4. \/ /\ RejectsRole(b, t)
         /\ ice' = [ice EXCEPT ![a] = Respond(a, t, "role_conflict")]
      \/ /\ ~RejectsRole(b, t)
         /\ \/ ice' = [ice EXCEPT ![a] = Respond(a, t, "success"), ![b] = kept]
            \/ ice' = [ice EXCEPT ![a] = Respond(a, t, "success"), ![b] = Settle(handled)]
  BY DEF RecvRequest
<1>5. rcheck \in RxCheck(b) /\ rcheck.uc = t.uc
  <2>1. <<t.pair[2], SeenAs[t.pair]>> \in Pairs(b)
    BY <1>1, <1>3, SeenPair
  <2> QED
    BY <1>3, <2>1 DEF RxCheck
<1> HIDE DEF rcheck
<1>6. CASE RejectsRole(b, t)
  <2> DEFINE r == Respond(a, t, "role_conflict")
  <2>1. r.role = w.role /\ r.valid_check = w.valid_check /\ Neat(r, Ahead(w, u))
    BY <1>1, <1>2, RespondNeat
  <2> HIDE DEF r
  <2>2. ice' = [ice EXCEPT ![a] = r]
    BY <1>4, <1>6 DEF r
  <2> HIDE DEF a
  <2> QED
    BY <1>1, <2>1, <2>2, OneNeat
<1>7. CASE ~RejectsRole(b, t)
  <2> DEFINE r == Respond(a, t, "success")
  <2>1. r.role = w.role /\ Neat(r, Ahead(w, u))
    BY <1>1, <1>2, RespondNeat
  <2>2. x \in Roles /\ n \in BOOLEAN
    BY <1>2, OtherRoleType DEF Session
  <2>3. x # w.role /\ Neat(s, n) /\ (n => ~t.uc)
    <3>1. CASE u.role = t.role
      <4>1. OtherRole(u.role) = Due(b) /\ u.role # Due(b) /\ x # t.role /\ x = Due(b)
        BY <1>3, <1>7, <3>1, TieBreaks DEF OtherRole, Roles
      <4>2. w.role = Due(a) /\ u.role = Due(a)
        <5>1. w.role \in Roles /\ u.role = Due(a)
          BY <1>1, <1>2, <1>3, <3>1, <4>1, DueDiffers DEF Session
        <5> QED
          BY <1>2, <1>3, <3>1, <5>1 DEF Settled
      <4>3. Neat(u, TRUE) /\ u.timer # "start_nominated"
        BY <1>2, <4>2, NotBegun
      <4>4. x # w.role /\ (n => ~t.uc)
        BY <1>3, <3>1, <4>1, <4>2
      <4> HIDE DEF x, u, w
      <4> HIDE DEF n
      <4>5. x = "controlling" => n
        BY DEF n
      <4>6. Neat(s, n)
        BY <1>2, <2>2, <4>3, <4>5, TurnNeat
      <4> QED
        BY <4>4, <4>6
    <3>2. CASE u.role # t.role
      <4>1. w.role # u.role /\ x = u.role
        BY <1>1, <1>2, <1>3, <3>2, DueDiffers DEF Settled
      <4>2. n => ~t.uc
        BY <1>3, <3>2, <4>1
      <4>3. Ahead(u, w) = n
        BY <4>1 DEF Ahead
      <4> HIDE DEF x, u, w
      <4>4. x = "controlling" => n
        OBVIOUS
      <4> HIDE DEF n
      <4>5. Neat(s, n)
        BY <1>2, <2>2, <4>1, <4>3, <4>4, TurnNeat
      <4> QED
        BY <4>1, <4>2, <4>5
    <3> QED
      BY <3>1, <3>2
  <2>4. s \in Session(b) /\ s.role = x
    <3> HIDE DEF x, u
    <3>1. s \in Session(b)
      BY <1>2, <2>2, ZenonT(30) DEF Session
    <3>2. s.role = x
      BY <1>2, SMTT(30) DEF Session
    <3> QED
      BY <3>1, <3>2
  <2> HIDE DEF s
  <2>5. \A q \in {kept, Settle(handled)} : Neat(q, n) /\ q.role = x
    <3> HIDE DEF n
    <3>1. Neat(kept, n) /\ kept.role = x
      <4>1. n => ~rcheck.uc
        BY <1>5, <2>3
      <4>2. kept = [s EXCEPT !.early_check = Append(s.early_check, rcheck)]
        OBVIOUS
      <4> HIDE DEF kept
      <4> QED
        BY <1>5, <2>2, <2>3, <2>4, <4>1, <4>2, EarlyNeat
    <3>2. handled \in Session(b) /\ Neat(handled, n) /\ handled.role = x
      <4>1. Neat(handled, n)
        BY <1>5, <2>2, <2>3, <2>4, IncomingNeat
      <4>2. Keeps(b, s, handled)
        BY <1>5, <2>4, IncomingKeeps
      <4> HIDE DEF handled
      <4> QED
        BY <2>4, <4>1, <4>2 DEF Keeps
    <3>3. Neat(Settle(handled), n) /\ Settle(handled).role = x
      <4> HIDE DEF handled
      <4> QED
        BY <3>2, SettleNeat
    <3> QED
      BY <3>1, <3>3
  <2>6. PICK q \in {kept, Settle(handled)} : ice' = [ice EXCEPT ![a] = r, ![b] = q]
    BY <1>4, <1>7 DEF r
  <2> HIDE DEF r, u, w, x, kept, handled
  <2>7. Neat(q, q.role = "controlling") /\ q.role = x
    BY <2>5
  <2>8. Neat(r, r.role = "controlling")
    BY <2>1, NeatLess DEF Ahead
  <2>9. /\ ice'[a] = r /\ ice'[b] = q
        /\ \A c \in Agents : c # b /\ c # a => ice'[c] = ice[c]
    BY <1>1, <2>6 DEF IInv
  <2>10. q.role # r.role
    BY <2>1, <2>3, <2>7
  <2> HIDE DEF a
  <2> QED
    BY <1>1, <2>7, <2>8, <2>9, <2>10, TwoNeat DEF a
<1> QED
  BY <1>6, <1>7

LEMMA InitiallyNeat == Init => AllNeat
<1> SUFFICES ASSUME Init, NEW a \in Agents
             PROVE  /\ Neat(ice[a], Ahead(ice[a], ice[Peer[a]]))
                    /\ ice[a].role = ice[Peer[a]].role => NoneAnswered(ice[a])
  BY DEF AllNeat
<1>1. PICK role \in InitRoles, aggressive \in Aggressive :
          ice = [c \in Agents |-> NewSession(c, role[c], aggressive[c])]
  BY DEF Init
<1>2. /\ ice[a].is_nominating = FALSE /\ ice[a].timer = "none" /\ ice[a].broken = {}
      /\ ice[a].sent = {} /\ ice[a].early_check = <<>>
      /\ \A c \in Comps : /\ ice[a].nominated_check[c] = NoPair
                          /\ ice[a].valid_check[c] = NoPair
      /\ \A p \in DOMAIN ice[a].valid_list : ice[a].valid_list[p].nominated = FALSE
      /\ \A p \in DOMAIN ice[a].clist : ice[a].clist[p].nominated = FALSE
  BY <1>1 DEF NewSession
<1>3. Unmarked(ice[a])
  BY <1>2 DEF Unmarked
<1>4. Neat(ice[a], Ahead(ice[a], ice[Peer[a]]))
  BY <1>2, <1>3 DEF Neat, Ahead
<1> QED
  BY <1>2, <1>4 DEF NoneAnswered

LEMMA NeatStep ==
    AllNeat /\ AllWhole /\ Safe /\ IInv /\ Regular /\ [Next]_vars => AllNeat'
<1> SUFFICES ASSUME AllNeat, AllWhole, Safe, IInv, Regular, [Next]_vars PROVE AllNeat'
  OBVIOUS
<1>1. CASE Next
  BY <1>1, PlainStep, CreatePlain, StartDonePlain, KeepAlivePlain, StopPlain, StartNeat,
     ReplayNeat, PeriodicNeat, TimerNeat, RequestNeat, ResponseNeat, TimeoutNeat DEF Next
<1>2. CASE UNCHANGED vars
  BY <1>2 DEF AllNeat, vars
<1> QED
  BY <1>1, <1>2

\* With regular nomination and one socket per component and transport, no packet
\* that is lost, repeated or late breaks an assertion of ice_session.c, save the
\* two that a packet in the window between pj_ice_sess_create_check_list and
\* pj_ice_sess_start_check can: in particular nomination starts once, with a
\* valid pair for every component and none that is nominated already.
THEOREM No_assertion_fails ==
    ASSUME OneSocket, \A f \in Aggressive : \A a \in Agents : ~f[a]
    PROVE  Spec => []NoAssertionFails
<1>1. AllNeat /\ AllWhole => NoAssertionFails
  BY DEF AllNeat, AllWhole, Whole, Neat, Tolerated, NoAssertionFails
<1> QED
  BY <1>1, InitiallyNeat, NeatStep, RegularInvariant, Invariant, SafeInvariant, WholeInvariant,
     PTL DEF Spec

-----------------------------------------------------------------------------
(* Who nominated the pairs of a controlled agent                           *)

\* Where packets pass in both directions, what answers comes from the address
\* the request went to.
Mutual ==
    \A a \in Agents : \A p \in Pairs(a) :
        Answered(p) => SeenAs[<<Base[p[2]], SeenAs[p]>>] = p[2]

\* The checks that requests of session u with USE-CANDIDATE belong to, where they
\* can arrive.
Granted(u) ==
    {<<Base[t.pair[2]], SeenAs[t.pair]>> : t \in {x \in u.sent : x.uc /\ x.pair \in Reach}}

\* What is nominated, or is to be when it is replayed, the peer has granted.  A
\* check that is refused by the transport has no effect.
Marks(s, G) ==
    /\ \A p \in DOMAIN s.clist : s.clist[p].nominated /\ p \notin SendErr => p \in G
    /\ \A v \in DOMAIN s.valid_list : s.valid_list[v].nominated => Origin(v) \in G
    /\ \A i \in DOMAIN s.early_check : s.early_check[i].uc => Origin(s.early_check[i].pair) \in G

\* So it is until the agent checks as controlling.
Backed(s, G) ==
    /\ \A v \in DOMAIN s.valid_list : s.valid_list[v].listed => ValidPair(Origin(v)) = v
    /\ \A t \in s.sent : t.pair \notin SendErr
    /\ (\E t \in s.sent : t.role = "controlling") \/ Marks(s, G)

AllBacked == \A a \in Agents : Backed(ice[a], Granted(ice[Peer[a]]))

\* A call that makes r of s forgets no request, and leaves the session backed.
Backs(s, r, G) == s.sent \subseteq r.sent /\ (Backed(s, G) => Backed(r, G))

LEMMA BackedMore ==
    ASSUME NEW s, NEW G, NEW H, G \subseteq H, Backed(s, G)
    PROVE  Backed(s, H)
  BY DEF Backed, Marks

LEMMA GrantedMore ==
    ASSUME NEW u, NEW w, u.sent \subseteq w.sent
    PROVE  Granted(u) \subseteq Granted(w)
  BY DEF Granted

LEMMA BacksItself == ASSUME NEW s, NEW G PROVE Backs(s, s, G)
  BY DEF Backs

LEMMA BacksOn ==
    ASSUME NEW s, NEW q, NEW r, NEW G, Backs(s, q, G), Backs(q, r, G)
    PROVE  Backs(s, r, G)
  BY DEF Backs

LEMMA PlainBacks ==
    ASSUME NEW s, NEW r, NEW G, Plain(s, r)
    PROVE  Backs(s, r, G)
<1>1. Marks(s, G) => Marks(r, G)
  BY DEF Plain, Marks
<1>2. (\E t \in s.sent : t.role = "controlling") => \E t \in r.sent : t.role = "controlling"
  BY DEF Plain
<1>3. Backed(s, G) => Backed(r, G)
  BY <1>1, <1>2 DEF Plain, Backed
<1> QED
  BY <1>3 DEF Backs, Plain

LEMMA PerformBacks ==
    ASSUME NEW a, NEW s \in Session(a), NEW p \in Pairs(a), NEW nominate \in BOOLEAN, NEW G
    PROVE  Backs(s, perform_check(s, p, nominate), G)
<1>1. PICK r : r = perform_check(s, p, nominate)
  OBVIOUS
<1>2. PICK uc : uc = UseCandidate(s, nominate)
  OBVIOUS
<1>3. /\ SameSelection(s, r) /\ r.role = s.role /\ r.early_check = s.early_check
      /\ s.sent \subseteq r.sent
      /\ \A t \in r.sent : t \in s.sent \/ (t.role = s.role /\ t.uc = uc /\ t.pair \notin SendErr)
      /\ p \notin SendErr => \E t \in r.sent : t.role = s.role
      /\ DOMAIN r.clist = Pairs(a) /\ DOMAIN s.clist = Pairs(a)
      /\ \A q \in Pairs(a) : r.clist[q].nominated => s.clist[q].nominated \/ (q = p /\ uc)
  BY <1>1, <1>2, PerformSends
<1>4. (\E t \in s.sent : t.role = "controlling") => \E t \in r.sent : t.role = "controlling"
  BY <1>3
<1>5. CASE ~uc \/ p \in SendErr
  <2>1. Marks(s, G) => Marks(r, G)
    BY <1>3, <1>5 DEF Marks, SameSelection
  <2>2. Backed(s, G) => Backed(r, G)
    BY <1>3, <1>4, <2>1 DEF Backed, SameSelection
  <2> QED
    BY <1>1, <1>3, <2>2 DEF Backs
<1>6. CASE uc /\ p \notin SendErr
  <2>1. \E t \in r.sent : t.role = "controlling"
    BY <1>2, <1>3, <1>6 DEF UseCandidate
  <2>2. Backed(s, G) => Backed(r, G)
    BY <1>3, <2>1 DEF Backed, SameSelection
  <2> QED
    BY <1>1, <1>3, <2>2 DEF Backs
<1> QED
  BY <1>5, <1>6

LEMMA StartNominatedBacks ==
    ASSUME NEW a \in Agents, NEW s \in Session(a), NEW G
    PROVE  Backs(s, start_nominated_check(s), G)
<1> DEFINE r == start_nominated_check(s)
           again == {RenominatedCheck(s, c) :
                         c \in {d \in Comps : s.valid_check[d] # NoPair}} \ {NoPair}
           list == [p \in DOMAIN s.clist |->
                       IF p \in again THEN [s.clist[p] EXCEPT !.state = "waiting"]
                       ELSE s.clist[p]]
<1>1. r.clist = list /\ r.early_check = s.early_check /\ r.sent = s.sent
      /\ r.valid_list = s.valid_list
  <2> HIDE DEF again
  <2> QED
    BY SMTT(30) DEF start_nominated_check, Claim, Session, again
<1> HIDE DEF r, again
<1>2. DOMAIN list = DOMAIN s.clist /\ \A p \in DOMAIN s.clist : list[p].nominated = s.clist[p].nominated
  <2>1. DOMAIN s.clist = Pairs(a) /\ \A p \in Pairs(a) : s.clist[p] \in Check
    BY CheckType DEF Session
  <2>2. \A k \in Check : [k EXCEPT !.state = "waiting"].nominated = k.nominated
    BY DEF Check
  <2>3. \A p \in Pairs(a) : list[p] \in {s.clist[p], [s.clist[p] EXCEPT !.state = "waiting"]}
    BY <2>1
  <2>4. DOMAIN list = DOMAIN s.clist
    OBVIOUS
  <2> HIDE DEF list
  <2>5. \A p \in Pairs(a) : [s.clist[p] EXCEPT !.state = "waiting"].nominated = s.clist[p].nominated
    BY <2>1, <2>2
  <2> QED
    BY <2>1, <2>3, <2>4, <2>5
<1> HIDE DEF list
<1>3. Marks(s, G) => Marks(r, G)
  BY <1>1, <1>2 DEF Marks
<1>4. Backed(s, G) => Backed(r, G)
  BY <1>1, <1>3 DEF Backed
<1>5. Backs(s, r, G)
  BY <1>1, <1>4 DEF Backs
<1> QED
  BY <1>5 DEF r

LEMMA ExhaustedBacks ==
    ASSUME NEW a \in Agents, NEW s \in Session(a), NEW G
    PROVE  Backs(s, ChecksExhausted(s), G)
<1>1. Backs(s, on_ice_complete(s, "failed"), G)
  BY FinishPlain, PlainBacks DEF Outcomes
<1>2. Backs(s, [s EXCEPT !.timer = "wait_nom"], G)
  BY TimerPlain, PlainBacks DEF Timers
<1>3. Backs(s, start_nominated_check(s), G) /\ Backs(s, s, G)
  BY StartNominatedBacks, BacksItself
<1> QED
  BY <1>1, <1>2, <1>3 DEF ChecksExhausted

LEMMA CheckCompleteBacks ==
    ASSUME NEW a \in Agents, NEW s \in Session(a), NEW p \in Pairs(a), NEW G
    PROVE  Backs(s, on_check_complete(s, p), G)
<1> DEFINE ok == s.clist[p].state = "succeeded"
           s1 == IF ok THEN Unfreeze(s, p) ELSE s
           s2 == IF ok /\ s.clist[p].nominated THEN CancelSuperseded(s1, p) ELSE s1
<1>1. on_check_complete(s, p)
      = IF AllNominated(s2) THEN on_ice_complete(s2, "ok")
        ELSE IF AllDone(s2) THEN ChecksExhausted(s2)
        ELSE IF ok /\ MayScheduleNomination(s2)
             THEN [s2 EXCEPT !.timer = "start_nominated"] ELSE s2
  BY DEF on_check_complete
<1>2. s1 \in Session(a) /\ Plain(s, s1)
  BY UnfreezeQuiet, QuietType, UnfreezePlain, PlainItself
<1>3. s2 \in Session(a) /\ Plain(s1, s2)
  <2> HIDE DEF s1
  <2> QED
    BY <1>2, CancelQuiet, QuietType, CancelPlain, PlainItself
<1> HIDE DEF ok, s1, s2
<1>4. Backs(s, s2, G)
  BY <1>2, <1>3, PlainOn, PlainBacks
<1>5. Backs(s2, on_ice_complete(s2, "ok"), G)
  BY <1>3, FinishPlain, PlainBacks DEF Outcomes
<1>6. Backs(s2, ChecksExhausted(s2), G)
  BY <1>3, ExhaustedBacks
<1>7. MayScheduleNomination(s2) => Backs(s2, [s2 EXCEPT !.timer = "start_nominated"], G)
  BY <1>3, TimerPlain, PlainBacks DEF Timers, MayScheduleNomination
<1> QED
  BY <1>1, <1>4, <1>5, <1>6, <1>7, BacksOn

LEMMA FailedBacks ==
    ASSUME NEW a \in Agents, NEW s \in Session(a), NEW p \in Pairs(a), NEW G
    PROVE  Backs(s, check_failed(s, p), G)
<1> DEFINE r == check_set_state(s, p, "failed")
<1>1. r \in Session(a) /\ Plain(s, r)
  BY SetStateKeeps, KeepsType, StatePlain DEF CheckStates
<1> HIDE DEF r
<1>2. Backs(s, r, G) /\ Backs(r, on_check_complete(r, p), G)
  BY <1>1, PlainBacks, CheckCompleteBacks
<1>3. Backs(s, on_check_complete(r, p), G)
  BY <1>2, BacksOn
<1> QED
  BY <1>3 DEF check_failed, r

\* What a check that was sent has found is the pair it stands for.
LEMMA AddBacks ==
    ASSUME NEW a \in Agents, NEW s \in Session(a), NEW p \in Pairs(a), FromBase(p),
           p \notin SendErr, NEW G
    PROVE  AddValid(s, p) \in Session(a) /\ Backs(s, AddValid(s, p), G)
<1>1. PICK v : v = ValidPair(p)
  OBVIOUS
<1>2. PICK x : x = AddValid(s, p)
  OBVIOUS
<1>3. /\ x \in Session(a) /\ v \in Pairs(a) /\ x.clist = s.clist
      /\ \A w \in Pairs(a) : w # v => x.valid_list[w] = s.valid_list[w]
      /\ x.valid_list[v].nominated = s.clist[p].nominated
  BY <1>1, <1>2, AddFields
<1>4. x.early_check = s.early_check /\ x.sent = s.sent
  BY <1>2, SMTT(30) DEF AddValid, update_comp_check, Session
<1>5. Origin(v) = p
  <2>1. p = <<p[1], p[2]>> /\ p \in Addr \X Addr
    BY PairEnds DEF Pairs
  <2>2. Base[SeenAs[p]] = Base[p[1]]
    BY <2>1, BaseAssumption
  <2> QED
    BY <1>1, <2>1, <2>2 DEF Origin, ValidPair, FromBase
<1>6. DOMAIN x.valid_list = Pairs(a) /\ DOMAIN s.valid_list = Pairs(a) /\ DOMAIN s.clist = Pairs(a)
  BY <1>3 DEF Session
<1>7. Marks(s, G) => Marks(x, G)
  BY <1>3, <1>4, <1>5, <1>6 DEF Marks
<1>8. Backed(s, G) => Backed(x, G)
  BY <1>1, <1>3, <1>4, <1>5, <1>6, <1>7 DEF Backed
<1> QED
  BY <1>2, <1>3, <1>4, <1>8 DEF Backs

LEMMA NominateBacks ==
    ASSUME OneSocket, NEW a \in Agents, NEW s \in Session(a), NEW p \in Pairs(a), FromBase(p),
           NEW G, p \in G
    PROVE  NominateValid(s, p) \in Session(a) /\ Backs(s, NominateValid(s, p), G)
<1>1. PICK hit : hit = NominatedBy(s, p)
  OBVIOUS
<1>2. PICK best : best = Best(s, hit)
  OBVIOUS
<1>3. PICK x : x = NominateValid(s, p)
  OBVIOUS
<1>4. CASE best = NoPair
  BY <1>1, <1>2, <1>3, <1>4, BacksItself DEF NominateValid
<1>5. CASE best # NoPair
  <2>1. /\ x \in Session(a) /\ x.clist = s.clist
        /\ \A w \in Pairs(a) : /\ x.valid_list[w].listed = s.valid_list[w].listed
                               /\ x.valid_list[w].nominated = (w \in hit \/ s.valid_list[w].nominated)
    BY <1>1, <1>2, <1>3, <1>5, NominateFields
  <2>2. x.early_check = s.early_check /\ x.sent = s.sent
    BY <1>3, SMTT(30) DEF NominateValid, Session
  <2>3. \A v \in hit : Origin(v) = p
    BY <1>1, NominatesOwn
  <2>4. DOMAIN x.valid_list = Pairs(a) /\ DOMAIN s.valid_list = Pairs(a)
    BY <2>1 DEF Session
  <2>5. Marks(s, G) => Marks(x, G)
    BY <2>1, <2>2, <2>3, <2>4 DEF Marks
  <2>6. Backed(s, G) => Backed(x, G)
    BY <2>1, <2>2, <2>4, <2>5 DEF Backed
  <2> QED
    BY <1>3, <2>1, <2>2, <2>6 DEF Backs
<1> QED
  BY <1>4, <1>5

\* A check of the list is replaced by one that is nominated with a grant.
LEMMA MarkBacks ==
    ASSUME NEW a \in Agents, NEW s \in Session(a), NEW p \in Pairs(a), NEW k \in Check,
           NEW G, k.nominated => s.clist[p].nominated \/ p \in G
    PROVE  /\ [s EXCEPT !.clist[p] = k] \in Session(a) /\ Backs(s, [s EXCEPT !.clist[p] = k], G)
           /\ [s EXCEPT !.clist[p] = k].is_nominating = s.is_nominating
           /\ [s EXCEPT !.clist[p] = k].clist[p] = k
<1> DEFINE r == [s EXCEPT !.clist[p] = k]
<1>1. r \in Session(a)
  BY KeepsCheck, KeepsType
<1>2. /\ r.is_nominating = s.is_nominating /\ r.early_check = s.early_check
      /\ r.sent = s.sent /\ r.valid_list = s.valid_list
  BY SMTT(30) DEF Session
<1>3. r.clist[p] = k /\ \A q \in Pairs(a) : q # p => r.clist[q] = s.clist[q]
  BY SMTT(30) DEF Session
<1>4. DOMAIN r.clist = Pairs(a) /\ DOMAIN s.clist = Pairs(a)
  BY <1>1 DEF Session
<1> HIDE DEF r
<1>5. Marks(s, G) => Marks(r, G)
  BY <1>2, <1>3, <1>4 DEF Marks
<1>6. Backed(s, G) => Backed(r, G)
  BY <1>2, <1>5 DEF Backed
<1> QED
  BY <1>1, <1>2, <1>3, <1>6 DEF Backs, r

\* An incoming check that nominates has the grant for it.
LEMMA TriggeredBacks ==
    ASSUME OneSocket, NEW a \in Agents, NEW s \in Session(a), NEW p \in Pairs(a), FromBase(p),
           NEW uc \in BOOLEAN, NEW G, uc => p \in G
    PROVE  Backs(s, triggered_check(s, p, uc), G)
<1>1. PICK s1 : s1 = Flagged(s, p, uc)
  OBVIOUS
<1> DEFINE st == s.clist[p].state
           c == s1.clist[p]
           nominate == c.nominated \/ s1.is_nominating
           s2 == IF uc THEN NominateValid(s1, p) ELSE s1
<1>2. triggered_check(s, p, uc)
      = CASE st \in NotYetTried -> perform_check(s1, p, nominate)
          [] st = "in_progress" -> Claim(s1, c.tdata # 0, "retransmit")
          [] st = "succeeded" -> on_check_complete(s2, p)
          [] OTHER -> s1
  BY <1>1 DEF triggered_check, Flagged
<1>3. s1 \in Session(a) /\ Backs(s, s1, G) /\ c \in Check
  <2> DEFINE k == [s.clist[p] EXCEPT !.nominated = s.clist[p].nominated \/ uc]
  <2>1. k \in Check /\ s.clist[p] \in Check
    BY CheckType
  <2>2. k.nominated = (s.clist[p].nominated \/ uc)
    BY <2>1 DEF Check
  <2> HIDE DEF k
  <2>3. s1 = [s EXCEPT !.clist[p] = k]
    BY <1>1 DEF Flagged, k
  <2> QED
    BY <2>1, <2>2, <2>3, MarkBacks
<1>4. CASE st \in NotYetTried
  <2>1. nominate \in BOOLEAN
    BY <1>3 DEF Check, Session
  <2> HIDE DEF nominate
  <2>2. Backs(s1, perform_check(s1, p, nominate), G)
    BY <1>3, <2>1, PerformBacks
  <2> QED
    BY <1>2, <1>3, <1>4, <2>2, BacksOn DEF NotYetTried
<1>5. CASE st = "in_progress"
  <2>1. Backs(s1, Claim(s1, c.tdata # 0, "retransmit"), G)
    BY <1>3, ClaimPlain, PlainBacks DEF Asserts
  <2> QED
    BY <1>2, <1>3, <1>5, <2>1, BacksOn DEF NotYetTried
<1>6. CASE st = "succeeded"
  <2>1. s2 \in Session(a) /\ Backs(s1, s2, G)
    BY <1>3, NominateBacks, BacksItself
  <2> HIDE DEF s2
  <2>2. Backs(s2, on_check_complete(s2, p), G)
    BY <2>1, CheckCompleteBacks
  <2> QED
    BY <1>2, <1>3, <1>6, <2>1, <2>2, BacksOn DEF NotYetTried
<1>7. CASE st \notin NotYetTried /\ st # "in_progress" /\ st # "succeeded"
  BY <1>2, <1>3, <1>7
<1> QED
  BY <1>4, <1>5, <1>6, <1>7

LEMMA NewCheckBacks ==
    ASSUME NEW a \in Agents, NEW s \in Session(a), NEW p \in Pairs(a), NEW uc \in BOOLEAN,
           NEW G, uc => p \in G
    PROVE  Backs(s, new_check(s, p, uc), G)
<1> DEFINE k == [s.clist[p] EXCEPT !.state = "waiting", !.nominated = uc,
                                   !.prio = CALC_CHECK_PRIO(s.role, p),
                                   !.born = Cardinality(Listed(s)) + 1]
           r == [s EXCEPT !.clist[p] = k]
           nominate == uc \/ s.is_nominating
<1>1. new_check(s, p, uc) = perform_check(r, p, nominate)
  BY DEF new_check
<1>2. k \in Check /\ nominate \in BOOLEAN /\ s.clist[p] \in Check
  BY NewCheckType, CheckType DEF Session
<1>3. k.nominated = uc
  BY <1>2 DEF Check
<1> HIDE DEF k
<1>4. r \in Session(a) /\ Backs(s, r, G)
  BY <1>2, <1>3, MarkBacks
<1> HIDE DEF r, nominate
<1>5. Backs(r, perform_check(r, p, nominate), G)
  BY <1>2, <1>4, PerformBacks
<1> QED
  BY <1>1, <1>4, <1>5, BacksOn

\* The check of a request is the one at the socket the request came to.
LEMMA IncomingBacks ==
    ASSUME OneSocket, NEW a \in Agents, NEW s \in Session(a), NEW rcheck \in RxCheck(a),
           Fit(s), NEW G, rcheck.uc => Origin(rcheck.pair) \in G
    PROVE  Backs(s, handle_incoming_check(s, rcheck), G)
<1> DEFINE dst == rcheck.pair[1]
           src == rcheck.pair[2]
           full == src \notin s.rcand /\ Cardinality(s.rcand) >= MaxCand
           cands == s.rcand \cup {src}
           s1 == [s EXCEPT !.rcand = cands]
           lq == LocalCandidate(s, dst)
           p == <<lq[1], src>>
<1>1. handle_incoming_check(s, rcheck)
      = IF full THEN s
        ELSE IF lq = NoPair THEN s1
        ELSE IF p \in Listed(s) THEN triggered_check(s1, p, rcheck.uc)
        ELSE IF RoomForCheck(s) THEN new_check(s1, p, rcheck.uc)
        ELSE s1
  BY DEF handle_incoming_check
<1>2. rcheck.pair \in Pairs(a) /\ rcheck.uc \in BOOLEAN
  BY DEF RxCheck
<1>3. cands \in SUBSET Addr
  BY <1>2, PairEnds DEF Session
<1> HIDE DEF cands
<1>4. s1 \in Session(a)
  BY <1>3, KeepsCandidates, KeepsType
<1>5. /\ SameSelection(s, s1) /\ s1.role = s.role /\ s1.clist = s.clist
      /\ s1.is_nominating = s.is_nominating /\ s1.early_check = s.early_check
      /\ s1.sent = s.sent /\ s1.timer = s.timer /\ s1.broken = s.broken
  BY SMTT(30) DEF Session, SameSelection
<1> HIDE DEF s1, full
<1>6. Backs(s, s1, G) /\ Backs(s, s, G)
  BY <1>5, PlainRest, PlainBacks, BacksItself
<1>7. CASE lq # NoPair
  <2>1. /\ lq \in Pairs(a) /\ CompOf[lq[1]] = CompOf[dst] /\ Tp[lq[1]] = Tp[dst]
        /\ FromBase(lq)
    <3>1. lq \in Listed(s) /\ CompOf[lq[1]] = CompOf[dst] /\ Tp[lq[1]] = Tp[dst]
      BY <1>7, FirstType DEF LocalCandidate
    <3> QED
      BY <3>1, ListedType DEF Fit, Grounded
  <2>2. p \in Pairs(a) /\ FromBase(p)
    BY <1>2, <2>1, PairEnds, PairOf DEF FromBase
  <2>3. p = Origin(rcheck.pair)
    <3>1. Owner[lq[1]] = Owner[dst] /\ lq[1] \in Addr /\ dst \in Addr
      BY <1>2, <2>1, PairEnds
    <3>2. Base[lq[1]] = Base[dst]
      BY <2>1, <3>1 DEF OneSocket
    <3> QED
      BY <2>1, <3>2 DEF Origin, FromBase
  <2> HIDE DEF lq, p
  <2>4. Backs(s1, triggered_check(s1, p, rcheck.uc), G) /\ Backs(s1, new_check(s1, p, rcheck.uc), G)
    BY <1>2, <1>4, <2>2, <2>3, TriggeredBacks, NewCheckBacks
  <2> QED
    BY <1>1, <1>6, <1>7, <2>4, BacksOn
<1>8. CASE lq = NoPair
  BY <1>1, <1>6, <1>8
<1> QED
  BY <1>7, <1>8

LEMMA SuccessBacks ==
    ASSUME NEW a \in Agents, NEW s \in Session(a), NEW p \in Pairs(a), FromBase(p),
           p \notin SendErr, NEW G
    PROVE  Backs(s, SuccessResponse(s, p), G)
<1> DEFINE s1 == AddValid(s, p)
           s2 == check_set_state(s1, p, "succeeded")
<1>1. SuccessResponse(s, p) \in {check_failed(s, p), on_check_complete(s2, p)}
  BY DEF SuccessResponse
<1>2. s1 \in Session(a) /\ Backs(s, s1, G)
  BY AddBacks
<1> HIDE DEF s1
<1>3. s2 \in Session(a) /\ Backs(s1, s2, G)
  BY <1>2, SetStateKeeps, KeepsType, StatePlain, PlainBacks DEF CheckStates
<1> HIDE DEF s2
<1>4. Backs(s2, on_check_complete(s2, p), G) /\ Backs(s, check_failed(s, p), G)
  BY <1>3, CheckCompleteBacks, FailedBacks
<1> QED
  BY <1>1, <1>2, <1>3, <1>4, BacksOn

\* Whatever role an agent takes, the grants are the same.
LEMMA RoleBacks ==
    ASSUME NEW a, NEW s \in Session(a), NEW x \in Roles, NEW G,
           NEW r, r = [s EXCEPT !.role = x]
    PROVE  r \in Session(a) /\ Backs(s, r, G)
<1>1. r \in Session(a)
  BY ZenonT(30) DEF Session
<1>2. /\ r.clist = s.clist /\ r.valid_list = s.valid_list
      /\ r.early_check = s.early_check /\ r.sent = s.sent
  BY SMTT(30) DEF Session
<1>3. Backed(s, G) => Backed(r, G)
  BY <1>2 DEF Backed, Marks
<1> QED
  BY <1>1, <1>2, <1>3 DEF Backs

LEMMA ConflictBacks ==
    ASSUME NEW a \in Agents, NEW s \in Session(a), NEW t \in Tx(a), NEW G
    PROVE  Backs(s, RoleConflictResponse(s, t), G)
<1> DEFINE p == t.pair
           x == OtherRole(t.role)
           s1 == [s EXCEPT !.role = x]
           s2 == check_set_state(s1, p, "waiting")
           nominate == s.clist[p].nominated \/ s.is_nominating
<1>1. RoleConflictResponse(s, t) = perform_check(s2, p, nominate)
  BY DEF RoleConflictResponse
<1>2. p \in Pairs(a) /\ x \in Roles /\ "waiting" \in CheckStates
  BY OtherRoleType DEF Tx, CheckStates
<1>3. nominate \in BOOLEAN
  BY <1>2, CheckType DEF Session
<1> HIDE DEF p, x, nominate
<1>4. s1 \in Session(a) /\ Backs(s, s1, G)
  BY <1>2, RoleBacks
<1> HIDE DEF s1
<1>5. s2 \in Session(a) /\ Backs(s1, s2, G)
  BY <1>2, <1>4, SetStateKeeps, KeepsType, StatePlain, PlainBacks
<1> HIDE DEF s2
<1>6. Backs(s2, perform_check(s2, p, nominate), G)
  BY <1>2, <1>3, <1>5, PerformBacks
<1> QED
  BY <1>1, <1>4, <1>5, <1>6, BacksOn

-----------------------------------------------------------------------------
(* The grants of both agents                                               *)

\* A step at which each agent keeps to the grants there were.
LEMMA StepBacked ==
    ASSUME AllBacked, \A a \in Agents : Backs(ice[a], ice'[a], Granted(ice[Peer[a]]))
    PROVE  AllBacked'
<1> SUFFICES ASSUME NEW a \in Agents PROVE Backed(ice'[a], Granted(ice'[Peer[a]]))
  BY DEF AllBacked
<1>1. Peer[a] \in Agents
  BY PeerType
<1>2. Granted(ice[Peer[a]]) \subseteq Granted(ice'[Peer[a]])
  BY <1>1, GrantedMore DEF Backs
<1>3. Backed(ice'[a], Granted(ice[Peer[a]]))
  BY DEF AllBacked, Backs
<1> QED
  BY <1>2, <1>3, BackedMore

LEMMA BecomesBacked ==
    ASSUME AllBacked, IInv, NEW a \in Agents, NEW r \in Session(a), Becomes(a, r),
           Backs(ice[a], r, Granted(ice[Peer[a]]))
    PROVE  AllBacked'
<1> DEFINE q == Settle(r)
<1>1. Backs(ice[a], q, Granted(ice[Peer[a]]))
  BY SettlePlain, PlainBacks, BacksOn
<1> HIDE DEF q
<1>2. ice'[a] = q /\ \A c \in Agents : c # a => ice'[c] = ice[c]
  BY DEF Becomes, IInv, q
<1> QED
  BY <1>1, <1>2, BacksItself, StepBacked

LEMMA PlainlyBacked ==
    ASSUME AllBacked, IInv, NEW a \in Agents, Plainly(a)
    PROVE  AllBacked'
  BY PlainBacks, BecomesBacked DEF Plainly

LEMMA StartBacked ==
    ASSUME AllBacked, IInv, NEW a \in Agents, StartCheck(a)
    PROVE  AllBacked'
<1> DEFINE G == Granted(ice[Peer[a]])
<1>1. PICK r \in Session(a) :
          /\ Becomes(a, r) /\ SameSelection(ice[a], r)
          /\ r.early_check = ice[a].early_check /\ r.sent = ice[a].sent
          /\ DOMAIN r.clist = Pairs(a) /\ DOMAIN ice[a].clist = Pairs(a)
          /\ \A p \in Pairs(a) : r.clist[p].nominated = ice[a].clist[p].nominated
  BY StartLeaves
<1>2. Marks(ice[a], G) => Marks(r, G)
  BY <1>1 DEF Marks, SameSelection
<1>3. Backed(ice[a], G) => Backed(r, G)
  BY <1>1, <1>2 DEF Backed, SameSelection
<1> QED
  BY <1>1, <1>3, BecomesBacked DEF Backs

LEMMA PeriodicBacked ==
    ASSUME AllBacked, IInv, NEW a \in Agents, PeriodicTimer(a)
    PROVE  AllBacked'
<1>1. CASE Plainly(a)
  BY <1>1, PlainlyBacked
<1>2. CASE ~Plainly(a)
  <2>1. PICK s, s1, r \in Session(a), p \in Pairs(a) :
            /\ Plain(ice[a], s) /\ s1 = perform_check(s, p, s.is_nominating)
            /\ Plain(s1, r) /\ Becomes(a, r)
    BY <1>2, PeriodicPlain
  <2>2. s.is_nominating \in BOOLEAN
    BY <2>1 DEF Session
  <2>3. \A G : Backs(ice[a], s, G) /\ Backs(s, s1, G) /\ Backs(s1, r, G)
    BY <2>1, <2>2, PlainBacks, PerformBacks
  <2> QED
    BY <2>1, <2>3, BacksOn, BecomesBacked
<1> QED
  BY <1>1, <1>2

LEMMA TimerBacked ==
    ASSUME AllBacked, IInv, NEW a \in Agents, OnTimer(a)
    PROVE  AllBacked'
<1>1. CASE Plainly(a)
  BY <1>1, PlainlyBacked
<1>2. CASE ~Plainly(a)
  <2>1. PICK s \in Session(a) : Plain(ice[a], s) /\ Becomes(a, start_nominated_check(s))
    BY <1>2, OnTimerPlain
  <2> DEFINE r == start_nominated_check(s)
  <2>2. r \in Session(a)
    BY <2>1, StartNominatedQuiet, QuietType
  <2>3. \A G : Backs(ice[a], s, G) /\ Backs(s, r, G)
    BY <2>1, PlainBacks, StartNominatedBacks
  <2>4. Becomes(a, r)
    BY <2>1
  <2> HIDE DEF r
  <2> QED
    BY <2>2, <2>3, <2>4, BacksOn, BecomesBacked
<1> QED
  BY <1>1, <1>2

LEMMA TimeoutBacked ==
    ASSUME AllBacked, IInv, NEW a \in Agents, NEW t \in ice[a].pending, RequestTimeout(a, t)
    PROVE  AllBacked'
<1> DEFINE s0 == ice[a]
           s == Complete(s0, t)
           r == check_failed(s, t.pair)
<1>1. Becomes(a, r) /\ s0 \in Session(a)
  BY DEF RequestTimeout, IInv, Sound
<1>2. t \in Tx(a) /\ t.pair \in Pairs(a)
  BY <1>1 DEF Session, Tx
<1>3. s \in Session(a) /\ Plain(s0, s)
  BY <1>1, <1>2, EndKeeps, KeepsType, EndPlain
<1> HIDE DEF s0, s
<1>4. r \in Session(a) /\ \A G : Backs(s0, s, G) /\ Backs(s, r, G)
  BY <1>2, <1>3, FailedKeeps, KeepsType, PlainBacks, FailedBacks
<1> HIDE DEF r
<1> QED
  BY <1>1, <1>4, BacksOn, BecomesBacked DEF s0

\* Once an agent has checked as controlling any grant will do.
LEMMA FreeBacked ==
    ASSUME NEW s, NEW G, NEW H, Backed(s, H), \E t \in s.sent : t.role = "controlling"
    PROVE  Backed(s, G)
  BY DEF Backed

\* An early check has the grant it came with.
LEMMA ReplayBacked ==
    ASSUME OneSocket, AllBacked, Safe, IInv, NEW a \in Agents, ReplayEarlyCheck(a)
    PROVE  AllBacked'
<1> DEFINE s == ice[a]
           G == Granted(ice[Peer[a]])
           head == Head(s.early_check)
           tail == Tail(s.early_check)
           s1 == [s EXCEPT !.early_check = tail]
           r == handle_incoming_check(s1, head)
           H == IF head.uc THEN G \cup {Origin(head.pair)} ELSE G
<1>1. Becomes(a, r) /\ s.early_check # <<>>
  BY DEF ReplayEarlyCheck
<1>2. s \in Session(a) /\ Fit(s) /\ Backed(s, G)
  BY DEF IInv, Sound, Safe, Fine, AllBacked
<1>3. /\ head \in RxCheck(a) /\ tail \in Seq(RxCheck(a))
      /\ 1 \in DOMAIN s.early_check /\ head = s.early_check[1]
      /\ \A i \in DOMAIN tail : i + 1 \in DOMAIN s.early_check /\ tail[i] = s.early_check[i + 1]
  <2> DEFINE e == s.early_check
  <2>1. e \in Seq(RxCheck(a)) /\ e # <<>>
    BY <1>1, <1>2 DEF Session
  <2> HIDE DEF e
  <2>2. /\ Head(e) \in RxCheck(a) /\ Tail(e) \in Seq(RxCheck(a))
        /\ 1 \in DOMAIN e /\ Head(e) = e[1]
        /\ \A i \in DOMAIN Tail(e) : i + 1 \in DOMAIN e /\ Tail(e)[i] = e[i + 1]
    BY <2>1
  <2> QED
    BY <2>2 DEF e
<1> HIDE DEF head, tail, s, G
<1>4. s1 \in Session(a)
  BY <1>2, <1>3, ZenonT(30) DEF Session
<1>5. /\ SamePairs(s, s1) /\ s1.early_check = tail
  BY <1>2, SMTT(30) DEF Session, SamePairs, SameSelection
<1> HIDE DEF s1
<1>6. Backed(s1, G) /\ Fit(s1)
  <2>1. Marks(s, G) => Marks(s1, G)
    BY <1>3, <1>5 DEF Marks, SamePairs, SameSelection
  <2>2. Backed(s1, G)
    BY <1>2, <1>5, <2>1 DEF Backed, SamePairs, SameSelection
  <2> QED
    BY <1>2, <1>5, <2>2, SameFit
<1>7. G \subseteq H /\ (head.uc => Origin(head.pair) \in H)
  OBVIOUS
<1>8. Marks(s, G) => H = G
  BY <1>3 DEF Marks
<1> HIDE DEF H
<1>9. Backs(s1, r, H) /\ r \in Session(a)
  BY <1>3, <1>4, <1>6, <1>7, IncomingBacks, IncomingKeeps, KeepsType
<1> HIDE DEF r
<1>10. s.sent \subseteq r.sent
  BY <1>5, <1>9 DEF Backs, SamePairs
<1>11. Backed(r, H)
  BY <1>6, <1>7, <1>9, BackedMore DEF Backs
<1>12. Backed(r, G)
  <2>1. CASE Marks(s, G)
    BY <1>8, <1>11, <2>1
  <2>2. CASE ~Marks(s, G)
    <3>1. \E t \in s.sent : t.role = "controlling"
      BY <1>2, <2>2 DEF Backed
    <3>2. \E t \in r.sent : t.role = "controlling"
      BY <1>10, <3>1
    <3> QED
      BY <1>11, <3>2, FreeBacked
  <2> QED
    BY <2>1, <2>2
<1> QED
  BY <1>1, <1>9, <1>10, <1>12, BecomesBacked DEF Backs, s, G

LEMMA ResponseBacked ==
    ASSUME AllBacked, AllWhole, Safe, IInv, NEW a \in Agents, NEW m \in ice[a].resp,
           RecvResponse(a, m)
    PROVE  AllBacked'
<1> DEFINE s0 == ice[a]
           t == m.t
           s == Complete(s0, t)
           again == RoleConflictResponse(s, t)
           done == SuccessResponse(s, t.pair)
<1>1. Becomes(a, again) \/ Becomes(a, done)
  BY DEF RecvResponse
<1>2. s0 \in Session(a) /\ Fine(s0) /\ t \in s0.pending /\ Backed(s0, Granted(ice[Peer[a]]))
  BY DEF RecvResponse, Enterable, IInv, Sound, Safe, AllWhole, Whole, AllBacked
<1>3. /\ t \in Tx(a) /\ t.pair \in Pairs(a) /\ Answered(t.pair)
      /\ t.pair \notin SendErr
  BY <1>2 DEF Session, Tx, Fine, Fit, Grounded, Backed
<1> HIDE DEF s0, t
<1>4. s \in Session(a) /\ Plain(s0, s)
  BY <1>2, <1>3, EndKeeps, KeepsType, EndPlain
<1> HIDE DEF s
<1>5. \A G : Backs(s0, s, G) /\ Backs(s, again, G) /\ Backs(s, done, G)
  BY <1>3, <1>4, PlainBacks, ConflictBacks, SuccessBacks DEF Answered
<1>6. again \in Session(a) /\ done \in Session(a)
  <2>1. again \in Session(a)
    BY <1>3, <1>4, ConflictQuiet, QuietType DEF Answered
  <2>2. done \in Session(a)
    BY <1>3, <1>4, SuccessKeeps, KeepsType
  <2> QED
    BY <2>1, <2>2
<1> HIDE DEF again, done
<1> QED
  BY <1>1, <1>5, <1>6, BacksOn, BecomesBacked DEF s0

LEMMA EarlyBacks ==
    ASSUME NEW a, NEW s \in Session(a), NEW rcheck \in RxCheck(a),
           NEW G, rcheck.uc => Origin(rcheck.pair) \in G,
           NEW r, r = [s EXCEPT !.early_check = Append(s.early_check, rcheck)]
    PROVE  Backs(s, r, G)
<1>1. PICK e : e = Append(s.early_check, rcheck)
  OBVIOUS
<1>2. \A i \in DOMAIN e : \/ i \in DOMAIN s.early_check /\ e[i] = s.early_check[i]
                          \/ e[i] = rcheck
  <2>1. PICK q : q = s.early_check
    OBVIOUS
  <2>2. q \in Seq(RxCheck(a))
    BY <2>1 DEF Session
  <2>3. \A i \in DOMAIN Append(q, rcheck) :
            \/ i \in DOMAIN q /\ Append(q, rcheck)[i] = q[i]
            \/ Append(q, rcheck)[i] = rcheck
    BY <2>2
  <2> QED
    BY <1>1, <2>1, <2>3
<1>3. r.clist = s.clist /\ r.valid_list = s.valid_list /\ r.early_check = e /\ r.sent = s.sent
  BY <1>1, SMTT(30) DEF Session
<1>4. Marks(s, G) => Marks(r, G)
  BY <1>2, <1>3 DEF Marks
<1>5. Backed(s, G) => Backed(r, G)
  BY <1>3, <1>4 DEF Backed
<1> QED
  BY <1>3, <1>5 DEF Backs

\* A request that arrives is itself the grant for what it nominates.
LEMMA RequestBacked ==
    ASSUME OneSocket, AllBacked, Safe, IInv, NEW b \in Agents, NEW t \in ice[Peer[b]].sent,
           RecvRequest(b, t)
    PROVE  AllBacked'
<1>1. PICK a : a = Peer[b]
  OBVIOUS
<1> DEFINE w == ice[a]
           u == ice[b]
           G == Granted(w)
           rcheck == [pair |-> <<t.pair[2], SeenAs[t.pair]>>, uc |-> t.uc]
           x == IF u.role = t.role THEN OtherRole(u.role) ELSE u.role
           s == [u EXCEPT !.role = x]
           kept == [s EXCEPT !.early_check = Append(s.early_check, rcheck)]
           handled == handle_incoming_check(s, rcheck)
<1>2. a \in Agents /\ a # b /\ Peer[a] = b
  BY <1>1, PeerType
<1>3. u \in Session(b) /\ w \in Session(a) /\ Fit(u) /\ t \in w.sent
  BY <1>1, <1>2 DEF IInv, Sound, Safe, Fine
<1>4. t \in Tx(a) /\ t.uc \in BOOLEAN /\ t.pair \in Pairs(a) /\ t.pair \in Reach
  BY <1>3 DEF Session, Tx, RecvRequest
<1>5. PICK code :
          \/ ice' = [ice EXCEPT ![a] = Respond(a, t, code)]
          \/ ice' = [ice EXCEPT ![a] = Respond(a, t, code), ![b] = kept]
          \/ ice' = [ice EXCEPT ![a] = Respond(a, t, code), ![b] = Settle(handled)]
  BY <1>1 DEF RecvRequest
<1>6. PICK r : r = Respond(a, t, code)
  OBVIOUS
<1>7. \A K : Backs(w, r, K)
  BY <1>2, <1>3, <1>6, RespondPlain, PlainBacks
<1>8. rcheck \in RxCheck(b) /\ (rcheck.uc => Origin(rcheck.pair) \in G)
  <2>1. <<t.pair[2], SeenAs[t.pair]>> \in Pairs(b)
    BY <1>2, <1>4, SeenPair
  <2>2. t.uc => <<Base[t.pair[2]], SeenAs[t.pair]>> \in G
    BY <1>3, <1>4 DEF Granted
  <2> QED
    BY <1>4, <2>1, <2>2 DEF RxCheck, Origin
<1>9. x \in Roles
  BY <1>3, OtherRoleType DEF Session
<1> HIDE DEF rcheck, x, u, w, G
<1>10. s \in Session(b) /\ Backs(u, s, G)
  BY <1>3, <1>9, RoleBacks
<1>11. Fit(s)
  <2>1. SamePairs(u, s)
    BY <1>3, SMTT(30) DEF Session, SamePairs, SameSelection
  <2> QED
    BY <1>3, <2>1, SameFit
<1> HIDE DEF s
<1>12. Backs(s, kept, G)
  BY <1>8, <1>10, EarlyBacks
<1>13. handled \in Session(b) /\ Backs(s, handled, G)
  BY <1>8, <1>10, <1>11, IncomingBacks, IncomingKeeps, KeepsType
<1> HIDE DEF kept, handled
<1>14. Backs(s, Settle(handled), G)
  BY <1>13, SettlePlain, PlainBacks, BacksOn
<1>15. PICK q \in {u, kept, Settle(handled)} : ice'[b] = q /\ ice'[a] = r
       /\ \A c \in Agents : c # a /\ c # b => ice'[c] = ice[c]
  BY <1>2, <1>5, <1>6 DEF IInv, u
<1>16. Backs(u, q, G)
  BY <1>10, <1>12, <1>14, BacksItself, BacksOn
<1>17. ASSUME NEW c \in Agents PROVE Backs(ice[c], ice'[c], Granted(ice[Peer[c]]))
  BY <1>1, <1>7, <1>15, <1>16, BacksItself DEF u, w, G
<1> QED
  BY <1>17, StepBacked

LEMMA InitiallyBacked == Init => AllBacked
<1> SUFFICES ASSUME Init, NEW a \in Agents PROVE Backed(ice[a], Granted(ice[Peer[a]]))
  BY DEF AllBacked
<1>1. PICK role \in InitRoles, aggressive \in Aggressive :
          ice = [c \in Agents |-> NewSession(c, role[c], aggressive[c])]
  BY DEF Init
<1>2. /\ ice[a].sent = {} /\ ice[a].early_check = <<>>
      /\ \A p \in DOMAIN ice[a].valid_list : /\ ice[a].valid_list[p].listed = FALSE
                                             /\ ice[a].valid_list[p].nominated = FALSE
      /\ \A p \in DOMAIN ice[a].clist : ice[a].clist[p].nominated = FALSE
  BY <1>1 DEF NewSession
<1> QED
  BY <1>2 DEF Backed, Marks

LEMMA BackedStep ==
    ASSUME OneSocket
    PROVE  AllBacked /\ AllWhole /\ Safe /\ IInv /\ [Next]_vars => AllBacked'
<1> SUFFICES ASSUME AllBacked, AllWhole, Safe, IInv, [Next]_vars PROVE AllBacked'
  OBVIOUS
<1>1. CASE Next
  BY <1>1, PlainlyBacked, CreatePlain, StartDonePlain, KeepAlivePlain, StopPlain, StartBacked,
     ReplayBacked, PeriodicBacked, TimerBacked, RequestBacked, ResponseBacked, TimeoutBacked
     DEF Next
<1>2. CASE UNCHANGED vars
  BY <1>2 DEF AllBacked, vars
<1> QED
  BY <1>1, <1>2

\* With one socket per component and transport, and a network that passes
\* packets in both directions between the same two addresses, the pair that an
\* agent selects as nominated is one the peer's request with USE-CANDIDATE was
\* for, as long as the agent has never checked as controlling: in whatever order
\* its own check succeeds and the request comes, early or late, and whether the
\* peer nominates regularly or aggressively.
THEOREM Nominated_by_peer ==
    ASSUME OneSocket, Mutual
    PROVE  Spec => []NominatedByPeer
<1>1. ASSUME AllBacked, AllWhole, Safe, IInv PROVE NominatedByPeer
  <2> SUFFICES ASSUME NEW a \in Agents, \A t \in ice[a].sent : t.role = "controlled",
                      NEW c \in Comps, ice[a].nominated_check[c] # NoPair
               PROVE  LET v == ice[a].nominated_check[c]
                      IN \E t \in ice[Peer[a]].sent : t.uc /\ t.pair[2] = v[1] /\ SeenAs[t.pair] = v[2]
    BY <1>1 DEF NominatedByPeer, Nominated
  <2>1. PICK s : s = ice[a]
    OBVIOUS
  <2>2. PICK u : u = ice[Peer[a]]
    OBVIOUS
  <2>3. PICK v : v = s.nominated_check[c]
    OBVIOUS
  <2>4. Peer[a] \in Agents
    BY PeerType
  <2>5. /\ s \in Session(a) /\ u \in Session(Peer[a]) /\ Selected(s) /\ Fit(s) /\ Fit(u)
        /\ Backed(s, Granted(u))
    BY <1>1, <2>1, <2>2, <2>4 DEF IInv, Sound, AllWhole, Whole, Safe, Fine, AllBacked
  <2>6. v \in Marked(s, c)
    BY <2>1, <2>3, <2>5 DEF Selected, Selects
  <2>7. v \in DOMAIN s.valid_list /\ v \in Pairs(a)
        /\ s.valid_list[v].listed /\ s.valid_list[v].nominated
    BY <2>5, <2>6, ValidType DEF Marked, InComp
  <2>8. Origin(v) \in Granted(u) /\ ValidPair(Origin(v)) = v /\ Passes(v)
    BY <2>1, <2>5, <2>7 DEF Backed, Marks, Fit, Grounded
  <2>9. PICK t \in u.sent : /\ t.uc /\ t.pair \in Reach
                            /\ Origin(v) = <<Base[t.pair[2]], SeenAs[t.pair]>>
    BY <2>8 DEF Granted
  <2>10. t.pair \in Pairs(Peer[a]) /\ FromBase(t.pair)
    BY <2>5, <2>9 DEF Session, Tx, Fit, Grounded
  <2>11. Answered(t.pair)
    BY <2>8, <2>9, <2>10 DEF Answered, Passes, Origin
  <2>12. SeenAs[Origin(v)] = t.pair[2] /\ Origin(v)[2] = SeenAs[t.pair]
    BY <2>4, <2>9, <2>10, <2>11 DEF Mutual
  <2>13. v[1] = t.pair[2] /\ v[2] = SeenAs[t.pair]
    BY <2>8, <2>12 DEF ValidPair
  <2> QED
    BY <2>1, <2>2, <2>3, <2>9, <2>13
<1> QED
  BY <1>1, InitiallyBacked, BackedStep, Invariant, SafeInvariant, WholeInvariant, PTL DEF Spec
=============================================================================
