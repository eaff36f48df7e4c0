-------------------------- MODULE IceSession_proofs --------------------------
(***************************************************************************)
(* Proofs about IceSession.tla, for any candidates, network and options:   *)
(* every session keeps its type, settles on one role, and keeps its        *)
(* promise to report one outcome once.                                     *)
(***************************************************************************)
EXTENDS IceSession, FiniteSetTheorems, TLAPS

-----------------------------------------------------------------------------
(* The data                                                                *)

\* The ends of a pair.
LEMMA PairEnds ==
    ASSUME NEW a \in Agents, NEW p \in Pairs(a)
    PROVE  /\ p \in Addr \X Addr /\ p[1] \in Addr /\ p[2] \in Addr
           /\ Owner[p[1]] = a /\ Owner[p[2]] = Peer[a] /\ CompOf[p[1]] = CompOf[p[2]]
           /\ CompOf[p[1]] \in Comps /\ p = <<p[1], p[2]>>
  BY AddrAssumption DEF Pairs

\* Two ends make a pair.
LEMMA PairOf ==
    ASSUME NEW a \in Agents, NEW l \in Addr, NEW r \in Addr,
           Owner[l] = a, Owner[r] = Peer[a], CompOf[l] = CompOf[r]
    PROVE  <<l, r>> \in Pairs(a)
  BY DEF Pairs

\* An agent has finitely many pairs.
LEMMA PairsFinite == ASSUME NEW a \in Agents PROVE IsFiniteSet(Pairs(a))
<1>1. Pairs(a) \subseteq Addr \X Addr
  BY DEF Pairs
<1> QED
  BY <1>1, AddrAssumption, FS_Product, FS_Subset

LEMMA PeerType ==
    ASSUME NEW a \in Agents
    PROVE  Peer[a] \in Agents /\ Peer[a] # a /\ Peer[Peer[a]] = a
  BY AgentAssumption

\* Where a packet is seen to come from, and the pairs that makes.
LEMMA SeenPair ==
    ASSUME NEW a \in Agents, NEW p \in Pairs(a)
    PROVE  /\ SeenAs[p] \in Addr
           /\ <<SeenAs[p], p[2]>> \in Pairs(a)
           /\ <<p[2], SeenAs[p]>> \in Pairs(Peer[a])
<1>1. SeenAs[p] \in Addr /\ Owner[SeenAs[p]] = a /\ CompOf[SeenAs[p]] = CompOf[p[1]]
  BY PairEnds, NetAssumption
<1>2. Peer[a] \in Agents /\ Peer[Peer[a]] = a
  BY PeerType
<1> QED
  BY <1>1, <1>2, PairEnds, PairOf

LEMMA PrioType ==
    ASSUME NEW a \in Agents, NEW p \in Pairs(a), NEW role
    PROVE  CALC_CHECK_PRIO(role, p) \in Nat
<1>1. ASSUME NEW x \in Nat, NEW y \in Nat
      PROVE  PrioScale * x + 2 * y + 1 \in Nat /\ PrioScale * x + 2 * y \in Nat
  <2>1. PrioScale * x \in Nat
    BY ScaleAssumption
  <2> QED
    BY <2>1
<1>2. Prio[p[1]] \in Nat /\ Prio[p[2]] \in Nat
  BY PairEnds, AddrAssumption
<1>3. CASE role = "controlling"
  BY <1>1, <1>2, <1>3 DEF CALC_CHECK_PRIO
<1>4. CASE role # "controlling"
  BY <1>1, <1>2, <1>4 DEF CALC_CHECK_PRIO
<1> QED
  BY <1>3, <1>4

LEMMA FirstType ==
    ASSUME NEW s, NEW S
    PROVE  First(s, S) \in S \cup {NoPair}
  BY DEF First

LEMMA ListedType ==
    ASSUME NEW a \in Agents, NEW s \in Session(a)
    PROVE  Listed(s) \subseteq Pairs(a) /\ Cardinality(Listed(s)) \in Nat
<1>1. s.clist \in [Pairs(a) -> Check]
  BY DEF Session
<1>2. Listed(s) \subseteq Pairs(a)
  BY <1>1 DEF Listed
<1> QED
  BY <1>2, PairsFinite, FS_Subset, FS_CardinalityType

-----------------------------------------------------------------------------
(* What a function of the code keeps of a session                          *)

\* r has the type of s; a call that makes r of s keeps the role and does not
\* end what has ended, and sets off the completion timer only when it ends the
\* negotiation.
Keeps(a, s, r) ==
    /\ r \in Session(a)
    /\ r.role = s.role /\ r.resp = s.resp
    /\ r.is_destroying = s.is_destroying /\ r.completions = s.completions
    /\ s.ice_status # "none" => r.ice_status = s.ice_status
    /\ r.timer = "completion" =>
          s.timer = "completion" \/ (s.ice_status = "none" /\ r.ice_status # "none")

LEMMA KeepsItself == ASSUME NEW a, NEW s \in Session(a) PROVE Keeps(a, s, s)
  BY DEF Keeps

LEMMA KeepsType == ASSUME NEW a, NEW s, NEW r, Keeps(a, s, r) PROVE r \in Session(a)
  BY DEF Keeps

LEMMA KeepsOn ==
    ASSUME NEW a, NEW s, NEW r, NEW q, Keeps(a, s, r), Keeps(a, r, q)
    PROVE  Keeps(a, s, q)
  BY DEF Keeps

LEMMA KeepsBroken ==
    ASSUME NEW a, NEW s \in Session(a), NEW holds, NEW x \in Asserts
    PROVE  Keeps(a, s, Claim(s, holds, x))
<1>1. (IF holds THEN s.broken ELSE s.broken \cup {x}) \in SUBSET Asserts
  BY DEF Session
<1>2. \A b \in SUBSET Asserts : Keeps(a, s, [s EXCEPT !.broken = b])
  BY DEF Keeps, Session
<1> QED
  BY <1>1, <1>2 DEF Claim

LEMMA KeepsClist ==
    ASSUME NEW a, NEW s \in Session(a), NEW v \in [Pairs(a) -> Check]
    PROVE  Keeps(a, s, [s EXCEPT !.clist = v])
  BY DEF Keeps, Session

\* One check of the list.
LEMMA KeepsCheck ==
    ASSUME NEW a, NEW s \in Session(a), NEW p \in Pairs(a), NEW c \in Check
    PROVE  /\ Keeps(a, s, [s EXCEPT !.clist[p] = c])
           /\ [s EXCEPT !.clist[p] = c].clist[p] = c
<1>1. s.clist \in [Pairs(a) -> Check]
  BY DEF Session
<1>2. [s.clist EXCEPT ![p] = c] \in [Pairs(a) -> Check]
  BY <1>1
<1>3. Keeps(a, s, [s EXCEPT !.clist = [s.clist EXCEPT ![p] = c]])
  BY <1>2, KeepsClist
<1>4. [s EXCEPT !.clist = [s.clist EXCEPT ![p] = c]].clist = [s.clist EXCEPT ![p] = c]
  BY DEF Session
<1> QED
  BY <1>1, <1>3, <1>4

\* The fields of a check.
LEMMA CheckType ==
    ASSUME NEW a, NEW s \in Session(a), NEW p \in Pairs(a)
    PROVE  /\ s.clist[p] \in Check
           /\ s.clist[p].nominated \in BOOLEAN /\ s.clist[p].tx \in Nat
           /\ \A x \in CheckStates : [s.clist[p] EXCEPT !.state = x] \in Check
           /\ \A x \in BOOLEAN : [s.clist[p] EXCEPT !.nominated = x] \in Check
           /\ \A x \in Nat : [s.clist[p] EXCEPT !.tdata = x] \in Check
           /\ \A x \in Nat : [s.clist[p] EXCEPT !.tx = x] \in Check
<1>1. s.clist[p] \in Check
  BY DEF Session
<1> QED
  BY <1>1 DEF Check

LEMMA KeepsTimer ==
    ASSUME NEW a, NEW s \in Session(a), NEW x \in Timers, x # "completion"
    PROVE  Keeps(a, s, [s EXCEPT !.timer = x])
  BY DEF Keeps, Session

LEMMA KeepsClistTimer ==
    ASSUME NEW a, NEW s \in Session(a), NEW x \in BOOLEAN
    PROVE  Keeps(a, s, [s EXCEPT !.clist_timer = x])
  BY DEF Keeps, Session

LEMMA KeepsNominating ==
    ASSUME NEW a, NEW s \in Session(a), NEW x \in BOOLEAN
    PROVE  Keeps(a, s, [s EXCEPT !.is_nominating = x])
  BY DEF Keeps, Session

LEMMA KeepsPending ==
    ASSUME NEW a, NEW s \in Session(a), NEW x \in SUBSET Tx(a)
    PROVE  Keeps(a, s, [s EXCEPT !.pending = x])
  BY DEF Keeps, Session

LEMMA KeepsSent ==
    ASSUME NEW a, NEW s \in Session(a), NEW x \in SUBSET Tx(a)
    PROVE  Keeps(a, s, [s EXCEPT !.sent = x])
  BY DEF Keeps, Session

LEMMA KeepsCandidates ==
    ASSUME NEW a, NEW s \in Session(a), NEW x \in SUBSET Addr
    PROVE  Keeps(a, s, [s EXCEPT !.lcand = x]) /\ Keeps(a, s, [s EXCEPT !.rcand = x])
  BY DEF Keeps, Session

LEMMA KeepsValidList ==
    ASSUME NEW a, NEW s \in Session(a), NEW v \in [Pairs(a) -> Valid]
    PROVE  Keeps(a, s, [s EXCEPT !.valid_list = v])
  BY DEF Keeps, Session

\* The pairs selected for a component.
LEMMA KeepsSelection ==
    ASSUME NEW a, NEW s \in Session(a), NEW c \in Comps, NEW v \in Pairs(a) \cup {NoPair}
    PROVE  /\ Keeps(a, s, [s EXCEPT !.valid_check[c] = v])
           /\ Keeps(a, s, [s EXCEPT !.nominated_check[c] = v])
<1>1. /\ [s.valid_check EXCEPT ![c] = v] \in [Comps -> Pairs(a) \cup {NoPair}]
      /\ [s.nominated_check EXCEPT ![c] = v] \in [Comps -> Pairs(a) \cup {NoPair}]
  BY DEF Session
<1>2. \A f \in [Comps -> Pairs(a) \cup {NoPair}] :
          /\ Keeps(a, s, [s EXCEPT !.valid_check = f])
          /\ Keeps(a, s, [s EXCEPT !.nominated_check = f])
  BY DEF Keeps, Session
<1> QED
  BY <1>1, <1>2

-----------------------------------------------------------------------------
(* The functions of the code, from the innermost outwards                  *)

LEMMA SetStateKeeps ==
    ASSUME NEW a, NEW s \in Session(a), NEW p \in Pairs(a), NEW st \in CheckStates
    PROVE  Keeps(a, s, check_set_state(s, p, st))
<1> DEFINE s1 == [s EXCEPT !.clist[p] = [s.clist[p] EXCEPT !.state = st]]
<1>1. Keeps(a, s, s1)
  BY CheckType, KeepsCheck
<1>2. check_set_state(s, p, st)
      = Claim(s1, s.clist[p].state \notin Finished, "check_set_state")
  BY DEF check_set_state
<1> HIDE DEF s1
<1>3. Keeps(a, s1, Claim(s1, s.clist[p].state \notin Finished, "check_set_state"))
  BY <1>1, KeepsBroken DEF Keeps, Asserts
<1> QED
  BY <1>1, <1>2, <1>3, KeepsOn

LEMMA PerformKeeps ==
    ASSUME NEW a, NEW s \in Session(a), NEW p \in Pairs(a), NEW nominate \in BOOLEAN
    PROVE  Keeps(a, s, perform_check(s, p, nominate))
<1> DEFINE uc == UseCandidate(s, nominate)
           t == [pair |-> p, n |-> s.clist[p].tx + 1, role |-> s.role, uc |-> uc]
           s1 == [s EXCEPT !.clist[p].nominated = @ \/ uc]
           s2 == [s1 EXCEPT !.clist[p].tdata = t.n]
           s3 == [s2 EXCEPT !.clist[p].tx = t.n]
           s4 == [s3 EXCEPT !.pending = @ \cup {t}]
           s5 == [s4 EXCEPT !.sent = @ \cup {t}]
<1>1. uc \in BOOLEAN /\ t \in Tx(a) /\ t.n \in Nat
  BY CheckType DEF UseCandidate, Tx, Session
<1>2. perform_check(s, p, nominate)
      = IF p \in SendErr THEN [s1 EXCEPT !.clist[p] = [s1.clist[p] EXCEPT !.tdata = 0]]
        ELSE check_set_state(s5, p, "in_progress")
  BY DEF perform_check
<1>3. s1 = [s EXCEPT !.clist[p] = [s.clist[p] EXCEPT !.nominated = @ \/ uc]]
  OBVIOUS
<1>4. s2 = [s1 EXCEPT !.clist[p] = [s1.clist[p] EXCEPT !.tdata = t.n]]
  OBVIOUS
<1>5. s3 = [s2 EXCEPT !.clist[p] = [s2.clist[p] EXCEPT !.tx = t.n]]
  OBVIOUS
<1>6. s4 = [s3 EXCEPT !.pending = s3.pending \cup {t}]
  OBVIOUS
<1>7. s5 = [s4 EXCEPT !.sent = s4.sent \cup {t}]
  OBVIOUS
<1> HIDE DEF uc, t, s1, s2, s3, s4, s5
<1>8. Keeps(a, s, s1) /\ s1 \in Session(a)
  <2>1. [s.clist[p] EXCEPT !.nominated = @ \/ uc] \in Check
    BY <1>1, CheckType
  <2> QED
    BY <1>3, <2>1, KeepsCheck, KeepsType
<1>9. CASE p \in SendErr
  <2>1. [s1.clist[p] EXCEPT !.tdata = 0] \in Check
    BY <1>8, CheckType
  <2> QED
    BY <1>2, <1>8, <1>9, <2>1, KeepsCheck, KeepsOn
<1>10. CASE p \notin SendErr
  <2>1. Keeps(a, s1, s2) /\ s2 \in Session(a)
    <3>1. [s1.clist[p] EXCEPT !.tdata = t.n] \in Check
      BY <1>1, <1>8, CheckType
    <3> QED
      BY <1>4, <1>8, <3>1, KeepsCheck, KeepsType
  <2>2. Keeps(a, s2, s3) /\ s3 \in Session(a)
    <3>1. [s2.clist[p] EXCEPT !.tx = t.n] \in Check
      BY <1>1, <2>1, CheckType
    <3> QED
      BY <1>5, <2>1, <3>1, KeepsCheck, KeepsType
  <2>3. Keeps(a, s3, s4) /\ s4 \in Session(a)
    <3>1. s3.pending \cup {t} \in SUBSET Tx(a)
      BY <1>1, <2>2 DEF Session
    <3> QED
      BY <1>6, <2>2, <3>1, KeepsPending, KeepsType
  <2>4. Keeps(a, s4, s5) /\ s5 \in Session(a)
    <3>1. s4.sent \cup {t} \in SUBSET Tx(a)
      BY <1>1, <2>3 DEF Session
    <3> QED
      BY <1>7, <2>3, <3>1, KeepsSent, KeepsType
  <2>5. Keeps(a, s5, check_set_state(s5, p, "in_progress"))
    BY <2>4, SetStateKeeps DEF CheckStates
  <2> QED
    BY <1>2, <1>8, <1>10, <2>1, <2>2, <2>3, <2>4, <2>5, KeepsOn
<1> QED
  BY <1>9, <1>10

LEMMA CompleteKeeps ==
    ASSUME NEW a, NEW s \in Session(a), NEW outcome \in Outcomes, outcome # "none"
    PROVE  Keeps(a, s, on_ice_complete(s, outcome))
<1>1. CASE s.ice_status # "none"
  BY <1>1, KeepsItself DEF on_ice_complete
<1>2. CASE s.ice_status = "none"
  <2>1. on_ice_complete(s, outcome)
        = [s EXCEPT !.ice_status = outcome, !.timer = "completion"]
    BY <1>2 DEF on_ice_complete
  <2>2. "completion" \in Timers
    BY DEF Timers
  <2> QED
    BY <1>2, <2>1, <2>2, ZenonT(40) DEF Keeps, Session
<1> QED
  BY <1>1, <1>2

\* Selecting the better pair for a component.
LEMMA SelectionType ==
    ASSUME NEW a, NEW s \in Session(a), NEW r, NEW c \in Comps, NEW v \in Pairs(a)
    PROVE  /\ Better(r, s.valid_check[c], v) \in Pairs(a) \cup {NoPair}
           /\ s.nominated_check[c] \in Pairs(a) \cup {NoPair}
           /\ Better(r, s.nominated_check[c], v) \in Pairs(a) \cup {NoPair}
  BY DEF Better, Session

LEMMA UpdateCompKeeps ==
    ASSUME NEW a \in Agents, NEW s \in Session(a), NEW v \in Pairs(a)
    PROVE  Keeps(a, s, update_comp_check(s, v))
<1> DEFINE c == CompOf[v[1]]
           s1 == [s EXCEPT !.valid_check[c] = Better(s, s.valid_check[c], v)]
           n == IF s.valid_list[v].nominated
                THEN Better(s, s1.nominated_check[c], v) ELSE s1.nominated_check[c]
<1>1. update_comp_check(s, v) = [s1 EXCEPT !.nominated_check[c] = n]
  BY DEF update_comp_check
<1>2. c \in Comps
  BY PairEnds
<1>3. Keeps(a, s, s1)
  BY <1>2, SelectionType, KeepsSelection
<1> HIDE DEF c, s1
<1>4. s1 \in Session(a)
  BY <1>3 DEF Keeps
<1>5. n \in Pairs(a) \cup {NoPair}
  BY <1>2, <1>4, SelectionType
<1>6. Keeps(a, s1, [s1 EXCEPT !.nominated_check[c] = n])
  BY <1>2, <1>4, <1>5, KeepsSelection
<1> QED
  BY <1>1, <1>3, <1>6, KeepsOn

LEMMA StartNominatedKeeps ==
    ASSUME NEW a \in Agents, NEW s \in Session(a)
    PROVE  Keeps(a, s, start_nominated_check(s))
<1> DEFINE again == {RenominatedCheck(s, c) :
                         c \in {d \in Comps : s.valid_check[d] # NoPair}} \ {NoPair}
           reset == [p \in DOMAIN s.clist |->
                         IF p \in again THEN [s.clist[p] EXCEPT !.state = "waiting"]
                         ELSE s.clist[p]]
           s1 == Claim(s, ~s.is_nominating, "is_nominating")
           s2 == Claim(s1, \A c \in Comps : s.nominated_check[c] = NoPair, "nominated_check")
           s3 == Claim(s2, AllValid(s), "valid_check")
           s4 == Claim(s3, \A p \in again : s.clist[p].state # "failed", "err_code")
           s5 == [s4 EXCEPT !.clist = reset]
           s6 == [s5 EXCEPT !.clist_timer = TRUE]
           s7 == [s6 EXCEPT !.is_nominating = TRUE]
<1>1. start_nominated_check(s)
      = [s7 EXCEPT !.timer = IF s7.timer = "start_nominated" THEN "none" ELSE s7.timer]
  BY DEF start_nominated_check
<1>2. reset \in [Pairs(a) -> Check]
  <2>1. DOMAIN s.clist = Pairs(a)
    BY DEF Session
  <2>2. \A p \in Pairs(a) :
            s.clist[p] \in Check /\ [s.clist[p] EXCEPT !.state = "waiting"] \in Check
    BY CheckType DEF CheckStates
  <2> HIDE DEF again
  <2> QED
    BY <2>1, <2>2
<1>3. {"is_nominating", "nominated_check", "valid_check", "err_code"} \subseteq Asserts
  BY DEF Asserts
<1>4. Keeps(a, s, s1)
  BY <1>3, KeepsBroken
<1> HIDE DEF again, reset
<1>5. Keeps(a, s1, s2)
  <2> HIDE DEF s1
  <2> QED
    BY <1>3, <1>4, KeepsBroken, KeepsType
<1>6. Keeps(a, s2, s3)
  <2> HIDE DEF s1, s2
  <2> QED
    BY <1>3, <1>5, KeepsBroken, KeepsType
<1>7. Keeps(a, s3, s4)
  <2> HIDE DEF s1, s2, s3
  <2> QED
    BY <1>3, <1>6, KeepsBroken, KeepsType
<1> HIDE DEF s1, s2, s3, s4
<1>8. Keeps(a, s4, s5)
  BY <1>2, <1>7, KeepsClist, KeepsType
<1> HIDE DEF s5
<1>9. Keeps(a, s5, s6)
  BY <1>8, KeepsClistTimer, KeepsType
<1> HIDE DEF s6
<1>10. Keeps(a, s6, s7)
  BY <1>9, KeepsNominating, KeepsType
<1> HIDE DEF s7
<1>11. Keeps(a, s7, start_nominated_check(s))
  <2>1. s7 \in Session(a)
    BY <1>10, KeepsType
  <2>2. CASE s7.timer = "start_nominated"
    <3>1. start_nominated_check(s) = [s7 EXCEPT !.timer = "none"]
      BY <1>1, <2>2
    <3>2. "none" \in Timers /\ "none" # "completion"
      BY DEF Timers
    <3> QED
      BY <2>1, <3>1, <3>2, KeepsTimer
  <2>3. CASE s7.timer # "start_nominated"
    <3>1. start_nominated_check(s) = s7
      BY <1>1, <2>1, <2>3 DEF Session
    <3> QED
      BY <2>1, <3>1, KeepsItself
  <2> QED
    BY <2>2, <2>3
<1> QED
  BY <1>4, <1>5, <1>6, <1>7, <1>8, <1>9, <1>10, <1>11, KeepsOn

LEMMA UnfreezeKeeps ==
    ASSUME NEW a \in Agents, NEW s \in Session(a), NEW p \in Pairs(a)
    PROVE  Keeps(a, s, Unfreeze(s, p))
<1> DEFINE thawed == [q \in DOMAIN s.clist |->
                         IF s.clist[q].state = "frozen" /\ Fnd[q[1]] = Fnd[p[1]]
                         THEN [s.clist[q] EXCEPT !.state = "waiting"] ELSE s.clist[q]]
<1>1. DOMAIN s.clist = Pairs(a)
  BY DEF Session
<1>2. \A q \in Pairs(a) :
          s.clist[q] \in Check /\ [s.clist[q] EXCEPT !.state = "waiting"] \in Check
  BY CheckType DEF CheckStates
<1>3. thawed \in [Pairs(a) -> Check]
  BY <1>1, <1>2
<1>4. Unfreeze(s, p) = [s EXCEPT !.clist = thawed]
  BY DEF Unfreeze
<1> HIDE DEF thawed
<1> QED
  BY <1>3, <1>4, KeepsClist

LEMMA CancelKeeps ==
    ASSUME NEW a \in Agents, NEW s \in Session(a), NEW p \in Pairs(a)
    PROVE  Keeps(a, s, CancelSuperseded(s, p))
<1> DEFINE gone == Superseded(s, p)
           ended == [q \in DOMAIN s.clist |->
                        IF q \in gone
                        THEN [s.clist[q] EXCEPT !.state = "failed", !.tdata = 0]
                        ELSE s.clist[q]]
           s1 == [s EXCEPT !.clist = ended]
           rest == {t \in s.pending : ~(t.pair \in gone /\ t.n = s.clist[t.pair].tdata)}
<1>1. DOMAIN s.clist = Pairs(a)
  BY DEF Session
<1>2. \A c \in Check : [c EXCEPT !.state = "failed", !.tdata = 0] \in Check
  BY DEF Check, CheckStates
<1>3. \A q \in Pairs(a) : s.clist[q] \in Check
  BY CheckType
<1>4. ended \in [Pairs(a) -> Check]
  BY <1>1, <1>2, <1>3
<1>5. CancelSuperseded(s, p) = [s1 EXCEPT !.pending = rest]
  BY DEF CancelSuperseded, Session
<1>6. rest \in SUBSET Tx(a)
  BY DEF Session
<1> HIDE DEF ended, rest
<1>7. Keeps(a, s, s1)
  BY <1>4, KeepsClist
<1> HIDE DEF s1
<1>8. Keeps(a, s1, [s1 EXCEPT !.pending = rest])
  BY <1>6, <1>7, KeepsPending, KeepsType
<1> QED
  BY <1>5, <1>7, <1>8, KeepsOn

LEMMA ExhaustedKeeps ==
    ASSUME NEW a \in Agents, NEW s \in Session(a)
    PROVE  Keeps(a, s, ChecksExhausted(s))
<1>1. Keeps(a, s, on_ice_complete(s, "failed"))
  BY CompleteKeeps DEF Outcomes
<1>2. Keeps(a, s, [s EXCEPT !.timer = "wait_nom"])
  BY KeepsTimer DEF Timers
<1> QED
  BY <1>1, <1>2, KeepsItself, StartNominatedKeeps DEF ChecksExhausted

LEMMA CheckCompleteKeeps ==
    ASSUME NEW a \in Agents, NEW s \in Session(a), NEW p \in Pairs(a)
    PROVE  Keeps(a, s, on_check_complete(s, p))
<1> DEFINE ok == s.clist[p].state = "succeeded"
           s1 == IF ok THEN Unfreeze(s, p) ELSE s
           s2 == IF ok /\ s.clist[p].nominated THEN CancelSuperseded(s1, p) ELSE s1
<1>1. on_check_complete(s, p)
      = IF AllNominated(s2) THEN on_ice_complete(s2, "ok")
        ELSE IF AllDone(s2) THEN ChecksExhausted(s2)
        ELSE IF ok /\ MayScheduleNomination(s2)
             THEN [s2 EXCEPT !.timer = "start_nominated"] ELSE s2
  BY DEF on_check_complete
<1>2. Keeps(a, s, s1)
  BY UnfreezeKeeps, KeepsItself
<1>3. Keeps(a, s1, s2)
  <2> HIDE DEF s1
  <2> QED
    BY <1>2, CancelKeeps, KeepsItself, KeepsType
<1> HIDE DEF ok, s1, s2
<1>4. s2 \in Session(a)
  BY <1>3, KeepsType
<1>5. Keeps(a, s2, on_ice_complete(s2, "ok"))
  BY <1>4, CompleteKeeps DEF Outcomes
<1>6. Keeps(a, s2, ChecksExhausted(s2))
  BY <1>4, ExhaustedKeeps
<1>7. Keeps(a, s2, [s2 EXCEPT !.timer = "start_nominated"])
  BY <1>4, KeepsTimer DEF Timers
<1>8. Keeps(a, s2, on_check_complete(s, p))
  BY <1>1, <1>4, <1>5, <1>6, <1>7, KeepsItself
<1> QED
  BY <1>2, <1>3, <1>8, KeepsOn

LEMMA FailedKeeps ==
    ASSUME NEW a \in Agents, NEW s \in Session(a), NEW p \in Pairs(a)
    PROVE  Keeps(a, s, check_failed(s, p))
<1> DEFINE s1 == check_set_state(s, p, "failed")
<1>1. Keeps(a, s, s1)
  BY SetStateKeeps DEF CheckStates
<1> HIDE DEF s1
<1>2. Keeps(a, s1, on_check_complete(s1, p))
  BY <1>1, CheckCompleteKeeps, KeepsType
<1>3. check_failed(s, p) = on_check_complete(s1, p)
  BY DEF check_failed, s1
<1> QED
  BY <1>1, <1>2, <1>3, KeepsOn

-----------------------------------------------------------------------------
(* Incoming checks                                                         *)

\* The marks that USE-CANDIDATE puts on the valid list.
LEMMA NominateTypes ==
    ASSUME NEW a \in Agents, NEW s \in Session(a), NEW p \in Pairs(a)
    PROVE  LET hit == NominatedBy(s, p)
               list == [v \in DOMAIN s.valid_list |->
                           IF v \in hit THEN [s.valid_list[v] EXCEPT !.nominated = TRUE]
                           ELSE s.valid_list[v]]
               r == [s EXCEPT !.valid_list = list]
           IN /\ list \in [Pairs(a) -> Valid]
              /\ r \in Session(a) /\ Keeps(a, s, r)
<1> DEFINE hit == NominatedBy(s, p)
           list == [v \in DOMAIN s.valid_list |->
                       IF v \in hit THEN [s.valid_list[v] EXCEPT !.nominated = TRUE]
                       ELSE s.valid_list[v]]
<1>1. list \in [Pairs(a) -> Valid]
  <2>1. \A v \in Pairs(a) :
            s.valid_list[v] \in Valid /\ [s.valid_list[v] EXCEPT !.nominated = TRUE] \in Valid
    BY DEF Session, Valid
  <2>2. DOMAIN s.valid_list = Pairs(a)
    BY DEF Session
  <2> HIDE DEF hit
  <2> QED
    BY <2>1, <2>2
<1> HIDE DEF list
<1>2. Keeps(a, s, [s EXCEPT !.valid_list = list])
  BY <1>1, KeepsValidList
<1> QED
  BY <1>1, <1>2, KeepsType DEF list

LEMMA NominateKeeps ==
    ASSUME NEW a \in Agents, NEW s \in Session(a), NEW p \in Pairs(a)
    PROVE  Keeps(a, s, NominateValid(s, p))
<1> DEFINE hit == NominatedBy(s, p)
           best == Best(s, hit)
           c == CompOf[p[1]]
           list == [v \in DOMAIN s.valid_list |->
                       IF v \in hit THEN [s.valid_list[v] EXCEPT !.nominated = TRUE]
                       ELSE s.valid_list[v]]
           s1 == [s EXCEPT !.valid_list = list]
           s2 == [s1 EXCEPT !.valid_check[c] = Better(s1, s1.valid_check[c], best)]
           s3 == [s2 EXCEPT !.nominated_check[c] = Better(s1, s2.nominated_check[c], best)]
<1>1. NominateValid(s, p) = IF best = NoPair THEN s ELSE s3
  BY DEF NominateValid
<1>2. hit \subseteq Pairs(a) /\ DOMAIN s.valid_list = Pairs(a)
  BY DEF NominatedBy, Session
<1>3. best \in Pairs(a) \cup {NoPair}
  BY <1>2 DEF Best
<1>4. list \in [Pairs(a) -> Valid]
  BY NominateTypes
<1>5. c \in Comps
  BY PairEnds
<1> HIDE DEF hit, best, c, list
<1>6. Keeps(a, s, s1)
  BY <1>4, KeepsValidList
<1>7. CASE best # NoPair
  <2>1. best \in Pairs(a)
    BY <1>3, <1>7
  <2>2. s1 \in Session(a)
    BY <1>6, KeepsType
  <2> HIDE DEF s1
  <2>3. Better(s1, s1.valid_check[c], best) \in Pairs(a) \cup {NoPair}
    BY <1>5, <2>1, <2>2, SelectionType
  <2>4. Keeps(a, s1, s2)
    BY <1>5, <2>2, <2>3, KeepsSelection
  <2>5. s2 \in Session(a)
    BY <2>4, KeepsType
  <2> HIDE DEF s2
  <2>6. Better(s1, s2.nominated_check[c], best) \in Pairs(a) \cup {NoPair}
    BY <1>5, <2>1, <2>5, SelectionType
  <2>7. Keeps(a, s2, s3)
    BY <1>5, <2>5, <2>6, KeepsSelection
  <2> HIDE DEF s3
  <2> QED
    BY <1>1, <1>6, <1>7, <2>4, <2>7, KeepsOn
<1> QED
  BY <1>1, <1>7, KeepsItself

LEMMA TriggeredKeeps ==
    ASSUME NEW a \in Agents, NEW s \in Session(a), NEW p \in Pairs(a), NEW uc \in BOOLEAN
    PROVE  Keeps(a, s, triggered_check(s, p, uc))
<1> DEFINE st == s.clist[p].state
           flag == s.clist[p].nominated \/ uc
           s1 == [s EXCEPT !.clist[p] = [s.clist[p] EXCEPT !.nominated = flag]]
           c == s1.clist[p]
           nominate == c.nominated \/ s1.is_nominating
           s2 == IF uc THEN NominateValid(s1, p) ELSE s1
<1>1. triggered_check(s, p, uc)
      = CASE st \in NotYetTried -> perform_check(s1, p, nominate)
          [] st = "in_progress" -> Claim(s1, c.tdata # 0, "retransmit")
          [] st = "succeeded" -> on_check_complete(s2, p)
          [] OTHER -> s1
  BY DEF triggered_check
<1>2. Keeps(a, s, s1)
  <2>1. [s.clist[p] EXCEPT !.nominated = flag] \in Check
    BY CheckType
  <2> QED
    BY <2>1, KeepsCheck
<1> HIDE DEF s1
<1>3. s1 \in Session(a)
  BY <1>2, KeepsType
<1>4. Keeps(a, s1, perform_check(s1, p, nominate))
  <2>1. nominate \in BOOLEAN
    BY <1>3, CheckType DEF Session
  <2> QED
    BY <1>3, <2>1, PerformKeeps
<1>5. Keeps(a, s1, Claim(s1, c.tdata # 0, "retransmit"))
  BY <1>3, KeepsBroken DEF Asserts
<1>6. Keeps(a, s1, on_check_complete(s2, p))
  <2>1. Keeps(a, s1, s2)
    BY <1>3, NominateKeeps, KeepsItself
  <2> HIDE DEF s2
  <2>2. Keeps(a, s2, on_check_complete(s2, p))
    BY <2>1, CheckCompleteKeeps, KeepsType
  <2> QED
    BY <2>1, <2>2, KeepsOn
<1>7. Keeps(a, s1, s1)
  BY <1>3, KeepsItself
<1> HIDE DEF st, c, nominate, s2
<1>8. Keeps(a, s1, triggered_check(s, p, uc))
  <2>1. CASE st \in NotYetTried
    BY <1>1, <1>4, <2>1 DEF NotYetTried
  <2>2. CASE st = "in_progress"
    BY <1>1, <1>5, <2>2 DEF NotYetTried
  <2>3. CASE st = "succeeded"
    BY <1>1, <1>6, <2>3 DEF NotYetTried
  <2>4. CASE st \notin NotYetTried /\ st # "in_progress" /\ st # "succeeded"
    BY <1>1, <1>7, <2>4
  <2> QED
    BY <2>1, <2>2, <2>3, <2>4
<1> QED
  BY <1>2, <1>8, KeepsOn

LEMMA NewCheckKeeps ==
    ASSUME NEW a \in Agents, NEW s \in Session(a), NEW p \in Pairs(a), NEW uc \in BOOLEAN
    PROVE  Keeps(a, s, new_check(s, p, uc))
<1> DEFINE prio == CALC_CHECK_PRIO(s.role, p)
           born == Cardinality(Listed(s)) + 1
           c == [s.clist[p] EXCEPT !.state = "waiting", !.nominated = uc,
                                   !.prio = prio, !.born = born]
           s1 == [s EXCEPT !.clist[p] = c]
           nominate == uc \/ s.is_nominating
<1>1. new_check(s, p, uc) = perform_check(s1, p, nominate)
  BY DEF new_check
<1>2. prio \in Nat /\ born \in Nat
  BY PrioType, ListedType
<1> HIDE DEF prio, born
<1>3. c \in Check
  <2>1. s.clist[p] \in Check
    BY CheckType
  <2> QED
    BY <1>2, <2>1 DEF Check, CheckStates
<1> HIDE DEF c
<1>4. Keeps(a, s, s1)
  BY <1>3, KeepsCheck
<1>5. nominate \in BOOLEAN
  BY DEF Session
<1> HIDE DEF s1, nominate
<1>6. Keeps(a, s1, perform_check(s1, p, nominate))
  BY <1>4, <1>5, PerformKeeps, KeepsType
<1> QED
  BY <1>1, <1>4, <1>6, KeepsOn

LEMMA IncomingKeeps ==
    ASSUME NEW a \in Agents, NEW s \in Session(a), NEW rcheck \in RxCheck(a)
    PROVE  Keeps(a, s, handle_incoming_check(s, rcheck))
<1> DEFINE dst == rcheck.pair[1]
           src == rcheck.pair[2]
           full == src \notin s.rcand /\ Cardinality(s.rcand) >= MaxCand
           s1 == [s EXCEPT !.rcand = s.rcand \cup {src}]
           lq == LocalCandidate(s, dst)
           p == <<lq[1], src>>
<1>1. handle_incoming_check(s, rcheck)
      = IF full THEN s
        ELSE IF lq = NoPair THEN s1
        ELSE IF p \in Listed(s) THEN triggered_check(s1, p, rcheck.uc)
        ELSE IF RoomForCheck(s) THEN new_check(s1, p, rcheck.uc)
        ELSE s1
  BY DEF handle_incoming_check
<1>2. rcheck.pair \in Pairs(a) /\ rcheck.uc \in BOOLEAN
  BY DEF RxCheck
<1>3. Keeps(a, s, s1) /\ s1 \in Session(a)
  <2>1. s.rcand \cup {src} \in SUBSET Addr
    BY <1>2, PairEnds DEF Session
  <2> QED
    BY <2>1, KeepsCandidates, KeepsType
<1>4. CASE lq # NoPair
  <2>1. lq \in Pairs(a) /\ CompOf[lq[1]] = CompOf[dst]
    <3>1. lq \in Listed(s) /\ CompOf[lq[1]] = CompOf[dst]
      BY <1>4, FirstType DEF LocalCandidate
    <3> QED
      BY <3>1, ListedType
  <2>2. p \in Pairs(a)
    BY <1>2, <2>1, PairEnds, PairOf
  <2> HIDE DEF full, s1, lq, p
  <2>3. /\ Keeps(a, s1, triggered_check(s1, p, rcheck.uc))
        /\ Keeps(a, s1, new_check(s1, p, rcheck.uc))
    BY <1>2, <1>3, <2>2, TriggeredKeeps, NewCheckKeeps
  <2> QED
    BY <1>1, <1>3, <1>4, <2>3, KeepsItself, KeepsOn
<1>5. CASE lq = NoPair
  BY <1>1, <1>3, <1>5, KeepsItself
<1> QED
  BY <1>4, <1>5

-----------------------------------------------------------------------------
(* The invariant of one agent, and what a step may do to it                *)

\* The role an agent ends up in if there is a conflict.
Due(a) == IF Tie[a] > Tie[Peer[a]] THEN "controlling" ELSE "controlled"

\* Every 487 on its way sends its receiver towards that role.
ConflictsDue(a, s) ==
    \A m \in s.resp : m.code = "role_conflict" => OtherRole(m.t.role) = Due(a)

\* The completion timer runs once, after the end and before the report.
ReportsOnce(s) ==
    /\ s.timer = "completion" => s.ice_status # "none" /\ s.completions = 0
    /\ s.completions # 0 => s.ice_status # "none"

Sound(a, s) == s \in Session(a) /\ ConflictsDue(a, s) /\ ReportsOnce(s)

\* A step of Negotiation.tla, between two states of a session.
Negotiates(s, r) ==
    \/ /\ ~s.is_destroying /\ s.ice_status = "none" /\ r.ice_status # "none"
       /\ r.completions = s.completions /\ r.is_destroying = s.is_destroying
    \/ /\ ~s.is_destroying /\ s.completions = 0 /\ s.ice_status # "none"
       /\ r.completions = 1 /\ r.ice_status = s.ice_status
       /\ r.is_destroying = s.is_destroying
    \/ /\ r.is_destroying
       /\ r.ice_status = s.ice_status /\ r.completions = s.completions
    \/ /\ r.is_destroying = s.is_destroying
       /\ r.ice_status = s.ice_status /\ r.completions = s.completions

SoundStep(a, s, r) ==
    /\ Sound(a, r) /\ Negotiates(s, r)
    /\ r.role # s.role => r.role = Due(a)

LEMMA SettleType ==
    ASSUME NEW a, NEW r \in Session(a)
    PROVE  /\ Settle(r) \in Session(a)
           /\ Settle(r).role = r.role /\ Settle(r).timer = r.timer
           /\ Settle(r).ice_status = r.ice_status /\ Settle(r).completions = r.completions
           /\ Settle(r).is_destroying = r.is_destroying
           /\ Settle(r).resp \subseteq r.resp
<1>1. {m \in r.resp : m.t \in r.pending} \in SUBSET Response(a)
  BY DEF Session
<1>2. \A x \in SUBSET Response(a) :
          /\ [r EXCEPT !.resp = x] \in Session(a)
          /\ [r EXCEPT !.resp = x].role = r.role
          /\ [r EXCEPT !.resp = x].timer = r.timer
          /\ [r EXCEPT !.resp = x].ice_status = r.ice_status
          /\ [r EXCEPT !.resp = x].completions = r.completions
          /\ [r EXCEPT !.resp = x].is_destroying = r.is_destroying
          /\ [r EXCEPT !.resp = x].resp = x
  BY DEF Session
<1>3. Settle(r) = [r EXCEPT !.resp = {m \in r.resp : m.t \in r.pending}]
  BY DEF Settle
<1> QED
  BY <1>1, <1>2, <1>3

\* A handler that takes the role x, and then keeps everything else.
LEMMA RoleStep ==
    ASSUME NEW a \in Agents, NEW s, Sound(a, s), ~s.is_destroying,
           NEW x \in Roles, x # s.role => x = Due(a),
           NEW r, Keeps(a, [s EXCEPT !.role = x], r)
    PROVE  SoundStep(a, s, Settle(r))
<1> DEFINE s1 == [s EXCEPT !.role = x]
<1>1. /\ s1.role = x /\ s1.timer = s.timer /\ s1.resp = s.resp
      /\ s1.ice_status = s.ice_status /\ s1.completions = s.completions
      /\ s1.is_destroying = s.is_destroying
  BY DEF Sound, Session
<1>2. Keeps(a, s1, r)
  OBVIOUS
<1> HIDE DEF s1
<1>3. /\ r \in Session(a) /\ r.role = x /\ r.resp = s.resp
      /\ r.completions = s.completions /\ r.is_destroying = s.is_destroying
      /\ s.ice_status # "none" => r.ice_status = s.ice_status
      /\ r.timer = "completion" =>
            s.timer = "completion" \/ (s.ice_status = "none" /\ r.ice_status # "none")
  BY <1>1, <1>2 DEF Keeps
<1>4. ReportsOnce(Settle(r)) /\ Negotiates(s, Settle(r))
  BY <1>3, SettleType DEF Sound, ReportsOnce, Negotiates
<1>5. ConflictsDue(a, Settle(r))
  BY <1>3, SettleType DEF Sound, ConflictsDue
<1> QED
  BY <1>3, <1>4, <1>5, SettleType DEF Sound, SoundStep

\* A handler that keeps the role, too.
LEMMA HandlerStep ==
    ASSUME NEW a \in Agents, NEW s, Sound(a, s), ~s.is_destroying,
           NEW r, Keeps(a, s, r)
    PROVE  SoundStep(a, s, Settle(r))
<1>1. s.role \in Roles /\ [s EXCEPT !.role = s.role] = s
  BY DEF Sound, Session
<1> QED
  BY <1>1, RoleStep

LEMMA DestroyStep ==
    ASSUME NEW a \in Agents, NEW s, Sound(a, s), NEW r, Keeps(a, s, r),
           r.ice_status = s.ice_status
    PROVE  SoundStep(a, s, Settle(Destroyed(r)))
<1>1. r \in Session(a) /\ r.role = s.role /\ r.completions = s.completions
  BY DEF Keeps
<1>2. /\ Destroyed(r) \in Session(a)
      /\ Destroyed(r).role = r.role /\ Destroyed(r).timer = "none"
      /\ Destroyed(r).completions = r.completions
      /\ Destroyed(r).ice_status = r.ice_status
      /\ Destroyed(r).is_destroying /\ Destroyed(r).resp = {}
  BY <1>1 DEF Destroyed, Session, Timers
<1>3. ReportsOnce(Settle(Destroyed(r))) /\ Negotiates(s, Settle(Destroyed(r)))
  BY <1>1, <1>2, SettleType DEF Sound, ReportsOnce, Negotiates
<1>4. ConflictsDue(a, Settle(Destroyed(r)))
  BY <1>2, SettleType DEF ConflictsDue
<1> QED
  BY <1>1, <1>2, <1>3, <1>4, SettleType DEF Sound, SoundStep

\* An agent that does nothing.
LEMMA StutterStep == ASSUME NEW a, NEW s, Sound(a, s) PROVE SoundStep(a, s, s)
  BY DEF SoundStep, Negotiates

-----------------------------------------------------------------------------
(* The actions                                                             *)

IInv == DOMAIN ice = Agents /\ \A a \in Agents : Sound(a, ice[a])

Moves == DOMAIN ice' = Agents /\ \A a \in Agents : SoundStep(a, ice[a], ice'[a])

LEMMA BecomesMoves ==
    ASSUME IInv, NEW a \in Agents, NEW r, Becomes(a, r), SoundStep(a, ice[a], Settle(r))
    PROVE  Moves
<1>1. ice' = [ice EXCEPT ![a] = Settle(r)]
  BY DEF Becomes
<1>2. DOMAIN ice' = Agents /\ ice'[a] = Settle(r)
  BY <1>1 DEF IInv
<1>3. \A b \in Agents : b # a => ice'[b] = ice[b]
  BY <1>1 DEF IInv
<1>4. \A b \in Agents : SoundStep(b, ice[b], ice[b])
  BY StutterStep DEF IInv
<1> QED
  BY <1>2, <1>3, <1>4 DEF Moves

\* Most actions call one handler of an agent that is not being destroyed.
LEMMA HandlerMoves ==
    ASSUME IInv, NEW a \in Agents, ~ice[a].is_destroying,
           NEW r, Keeps(a, ice[a], r), Becomes(a, r)
    PROVE  Moves
  BY HandlerStep, BecomesMoves DEF IInv

\* The checklist that is made, and what starts of it.
LEMMA CreateType ==
    ASSUME NEW a \in Agents, NEW s \in Session(a)
    PROVE  LET list == [p \in Pairs(a) |->
                           IF p \in InitialChecks(a)
                           THEN [s.clist[p] EXCEPT !.state = "frozen",
                                                   !.prio = CALC_CHECK_PRIO(s.role, p)]
                           ELSE s.clist[p]]
               r == [s EXCEPT !.phase = "listed", !.rcand = LCand[Peer[a]], !.clist = list]
           IN r \in Session(a) /\ Keeps(a, s, r)
<1> DEFINE list == [p \in Pairs(a) |->
                       IF p \in InitialChecks(a)
                       THEN [s.clist[p] EXCEPT !.state = "frozen",
                                               !.prio = CALC_CHECK_PRIO(s.role, p)]
                       ELSE s.clist[p]]
           r == [s EXCEPT !.phase = "listed", !.rcand = LCand[Peer[a]], !.clist = list]
<1>1. list \in [Pairs(a) -> Check]
  <2>1. \A c \in Check : \A n \in Nat : [c EXCEPT !.state = "frozen", !.prio = n] \in Check
    BY DEF Check, CheckStates
  <2>2. \A p \in Pairs(a) : s.clist[p] \in Check /\ CALC_CHECK_PRIO(s.role, p) \in Nat
    BY CheckType, PrioType
  <2> QED
    BY <2>1, <2>2
<1>2. LCand[Peer[a]] \in SUBSET Addr /\ "listed" \in Phases
  BY AddrAssumption, PeerType DEF Phases
<1> HIDE DEF list
<1>3. Keeps(a, s, r)
  BY <1>1, <1>2 DEF Keeps, Session
<1> HIDE DEF r
<1>4. r \in Session(a)
  BY <1>3, KeepsType
<1> QED
  BY <1>3, <1>4 DEF r, list

LEMMA CreateMoves == ASSUME IInv, NEW a \in Agents, CreateCheckList(a) PROVE Moves
<1> DEFINE s == ice[a]
           list == [p \in Pairs(a) |->
                       IF p \in InitialChecks(a)
                       THEN [s.clist[p] EXCEPT !.state = "frozen",
                                               !.prio = CALC_CHECK_PRIO(s.role, p)]
                       ELSE s.clist[p]]
           r == [s EXCEPT !.phase = "listed", !.rcand = LCand[Peer[a]], !.clist = list]
<1>1. Becomes(a, r) /\ ~s.is_destroying
  BY DEF CreateCheckList, Enterable
<1>2. s \in Session(a)
  BY DEF IInv, Sound
<1>3. Keeps(a, s, r)
  BY <1>2, CreateType
<1> HIDE DEF r
<1> QED
  BY <1>1, <1>3, HandlerMoves

LEMMA StartType ==
    ASSUME NEW a \in Agents, NEW s \in Session(a)
    PROVE  LET lead == FirstOfFoundation(s)
               list == [p \in DOMAIN s.clist |->
                           IF p \in lead /\ s.clist[p].state = "frozen"
                           THEN [s.clist[p] EXCEPT !.state = "waiting"] ELSE s.clist[p]]
               r == [s EXCEPT !.phase = "replay",
                              !.is_nominating = s.is_nominating \/ s.aggressive,
                              !.clist = list]
           IN r \in Session(a) /\ Keeps(a, s, r)
<1> DEFINE lead == FirstOfFoundation(s)
           n == s.is_nominating \/ s.aggressive
           list == [p \in DOMAIN s.clist |->
                       IF p \in lead /\ s.clist[p].state = "frozen"
                       THEN [s.clist[p] EXCEPT !.state = "waiting"] ELSE s.clist[p]]
           r == [s EXCEPT !.phase = "replay", !.is_nominating = n, !.clist = list]
<1>1. list \in [Pairs(a) -> Check]
  <2>1. \A p \in Pairs(a) :
            s.clist[p] \in Check /\ [s.clist[p] EXCEPT !.state = "waiting"] \in Check
    BY CheckType DEF CheckStates
  <2>2. DOMAIN s.clist = Pairs(a)
    BY DEF Session
  <2> QED
    BY <2>1, <2>2
<1>2. n \in BOOLEAN /\ "replay" \in Phases
  BY DEF Session, Phases
<1> HIDE DEF list, n
<1>3. Keeps(a, s, r)
  BY <1>1, <1>2 DEF Keeps, Session
<1> HIDE DEF r
<1>4. r \in Session(a)
  BY <1>3, KeepsType
<1> QED
  BY <1>3, <1>4 DEF r, list, n

LEMMA StartMoves == ASSUME IInv, NEW a \in Agents, StartCheck(a) PROVE Moves
<1> DEFINE s == ice[a]
           lead == FirstOfFoundation(s)
           list == [p \in DOMAIN s.clist |->
                       IF p \in lead /\ s.clist[p].state = "frozen"
                       THEN [s.clist[p] EXCEPT !.state = "waiting"] ELSE s.clist[p]]
           r == [s EXCEPT !.phase = "replay",
                          !.is_nominating = s.is_nominating \/ s.aggressive,
                          !.clist = list]
<1>1. Becomes(a, r) /\ ~s.is_destroying
  BY DEF StartCheck, Enterable
<1>2. s \in Session(a)
  BY DEF IInv, Sound
<1>3. Keeps(a, s, r)
  BY <1>2, StartType
<1> HIDE DEF r
<1> QED
  BY <1>1, <1>3, HandlerMoves

LEMMA ReplayMoves == ASSUME IInv, NEW a \in Agents, ReplayEarlyCheck(a) PROVE Moves
<1> DEFINE s == ice[a]
           s1 == [s EXCEPT !.early_check = Tail(s.early_check)]
           r == handle_incoming_check(s1, Head(s.early_check))
<1>1. Becomes(a, r) /\ ~s.is_destroying /\ s.early_check # <<>>
  BY DEF ReplayEarlyCheck
<1>2. s \in Session(a)
  BY DEF IInv, Sound
<1>3. s.early_check \in Seq(RxCheck(a))
  BY <1>2 DEF Session
<1>4. Head(s.early_check) \in RxCheck(a) /\ Tail(s.early_check) \in Seq(RxCheck(a))
  BY <1>1, <1>3
<1>5. Keeps(a, s, s1)
  <2> HIDE DEF s
  <2> QED
    BY <1>2, <1>4 DEF Keeps, Session
<1> HIDE DEF s1
<1>6. Keeps(a, s1, r)
  BY <1>4, <1>5, IncomingKeeps, KeepsType
<1> QED
  BY <1>1, <1>5, <1>6, HandlerMoves, KeepsOn

LEMMA StartDoneMoves == ASSUME IInv, NEW a \in Agents, StartCheckDone(a) PROVE Moves
<1> DEFINE s == ice[a]
           s1 == [s EXCEPT !.phase = "started"]
           s2 == [s EXCEPT !.phase = "started", !.clist_timer = TRUE]
           s3 == Claim(s1, FALSE, "schedule")
<1>1. /\ Becomes(a, IF s.clist_timer THEN Destroyed(s3) ELSE s2)
      /\ ~s.is_destroying
  BY DEF StartCheckDone
<1>2. Sound(a, s) /\ s \in Session(a)
  BY DEF IInv, Sound
<1>3. CASE ~s.clist_timer
  <2>1. Keeps(a, s, s2)
    <3> HIDE DEF s
    <3> QED
      BY <1>2 DEF Keeps, Session, Phases
  <2> QED
    BY <1>1, <1>3, <2>1, HandlerMoves
<1>4. CASE s.clist_timer
  <2>1. Keeps(a, s, s1) /\ s1.ice_status = s.ice_status
    <3> HIDE DEF s
    <3> QED
      BY <1>2 DEF Keeps, Session, Phases
  <2>2. s1 \in Session(a)
    BY <2>1, KeepsType
  <2> HIDE DEF s1
  <2>3. Keeps(a, s1, s3) /\ s3.ice_status = s1.ice_status
    BY <2>2, KeepsBroken DEF Asserts, Claim, Session
  <2> HIDE DEF s3
  <2>4. Keeps(a, s, s3) /\ s3.ice_status = s.ice_status
    BY <2>1, <2>3, KeepsOn
  <2>5. SoundStep(a, s, Settle(Destroyed(s3)))
    BY <1>2, <2>4, DestroyStep
  <2> QED
    BY <1>1, <1>4, <2>5, BecomesMoves
<1> QED
  BY <1>3, <1>4

LEMMA PeriodicMoves == ASSUME IInv, NEW a \in Agents, PeriodicTimer(a) PROVE Moves
<1> DEFINE s == [ice[a] EXCEPT !.clist_timer = FALSE]
           InState(st) == {p \in Listed(s) : s.clist[p].state = st}
           nxt == IF InState("waiting") # {} THEN First(s, InState("waiting"))
                  ELSE First(s, InState("frozen"))
           s1 == perform_check(s, nxt, s.is_nominating)
           r == [s1 EXCEPT !.clist_timer = nxt \notin SendErr]
<1>1. Becomes(a, IF nxt = NoPair THEN s ELSE r) /\ ~ice[a].is_destroying
  BY DEF PeriodicTimer, Enterable
<1>2. Keeps(a, ice[a], s)
  BY KeepsClistTimer DEF IInv, Sound
<1> HIDE DEF s
<1>3. s \in Session(a) /\ s.is_nominating \in BOOLEAN
  BY <1>2, KeepsType DEF Session
<1>4. CASE nxt = NoPair
  BY <1>1, <1>2, <1>4, HandlerMoves
<1>5. CASE nxt # NoPair
  <2>1. nxt \in Listed(s)
    BY <1>5, FirstType
  <2>2. nxt \in Pairs(a)
    BY <1>3, <2>1, ListedType
  <2> HIDE DEF nxt
  <2>3. Keeps(a, s, s1)
    BY <1>3, <2>2, PerformKeeps
  <2> HIDE DEF s1
  <2>4. Keeps(a, s1, r)
    BY <2>3, KeepsClistTimer, KeepsType
  <2> HIDE DEF r
  <2>5. Keeps(a, ice[a], r) /\ Becomes(a, r)
    BY <1>1, <1>2, <1>5, <2>3, <2>4, KeepsOn
  <2> QED
    BY <1>1, <2>5, HandlerMoves
<1> QED
  BY <1>4, <1>5

LEMMA TimerMoves == ASSUME IInv, NEW a \in Agents, OnTimer(a) PROVE Moves
<1> DEFINE s == [ice[a] EXCEPT !.timer = "none"]
           next == IF s.ice_status = "ok" THEN "keep_alive" ELSE "none"
           told == [s EXCEPT !.timer = next, !.completions = s.completions + 1]
<1>1. Sound(a, ice[a]) /\ ice[a] \in Session(a) /\ ~ice[a].is_destroying
  BY DEF IInv, Sound, OnTimer, Enterable
<1>2. Keeps(a, ice[a], s)
  BY <1>1, KeepsTimer DEF Timers
<1>3. CASE Becomes(a, on_ice_complete(s, "nom_timeout"))
  <2> HIDE DEF s
  <2>1. Keeps(a, s, on_ice_complete(s, "nom_timeout"))
    BY <1>2, CompleteKeeps, KeepsType DEF Outcomes
  <2> QED
    BY <1>1, <1>2, <1>3, <2>1, HandlerMoves, KeepsOn
<1>4. CASE Becomes(a, start_nominated_check(s))
  <2> HIDE DEF s
  <2>1. Keeps(a, s, start_nominated_check(s))
    BY <1>2, StartNominatedKeeps, KeepsType
  <2> QED
    BY <1>1, <1>2, <1>4, <2>1, HandlerMoves, KeepsOn
<1>5. CASE ice[a].timer = "completion" /\ Becomes(a, told)
  <2>1. /\ ice[a].ice_status # "none" /\ ice[a].completions = 0
        /\ ConflictsDue(a, ice[a])
    BY <1>1, <1>5 DEF Sound, ReportsOnce
  <2>2. /\ s \in Session(a) /\ s.role = ice[a].role /\ s.resp = ice[a].resp
        /\ s.is_destroying = ice[a].is_destroying /\ s.completions = ice[a].completions
        /\ s.ice_status = ice[a].ice_status
    <3> HIDE DEF s
    <3> QED
      BY <1>2, <2>1 DEF Keeps
  <2> HIDE DEF s
  <2>3. next \in Timers /\ next # "completion"
    BY DEF Timers
  <2> HIDE DEF next
  <2>4. /\ told \in Session(a) /\ told.role = s.role /\ told.resp = s.resp
        /\ told.timer = next /\ told.completions = 1
        /\ told.ice_status = s.ice_status /\ told.is_destroying = s.is_destroying
    <3>1. s.completions + 1 = 1
      BY <2>1, <2>2
    <3>2. told = [s EXCEPT !.timer = next, !.completions = 1]
      BY <3>1
    <3> HIDE DEF told
    <3>3. \A u \in Session(a) : \A y \in Timers :
              [u EXCEPT !.timer = y, !.completions = 1] \in Session(a)
      BY DEF Session
    <3>4. told \in Session(a)
      BY <2>2, <2>3, <3>2, <3>3
    <3> QED
      BY <2>2, <3>2, <3>4 DEF Session
  <2> HIDE DEF told
  <2>5. /\ ReportsOnce(Settle(told)) /\ Negotiates(ice[a], Settle(told))
        /\ ConflictsDue(a, Settle(told))
    BY <1>1, <2>1, <2>2, <2>3, <2>4, SettleType DEF ReportsOnce, Negotiates, ConflictsDue
  <2>6. SoundStep(a, ice[a], Settle(told))
    BY <2>2, <2>4, <2>5, SettleType DEF Sound, SoundStep
  <2> QED
    BY <1>5, <2>6, BecomesMoves
<1> QED
  BY <1>3, <1>4, <1>5 DEF OnTimer

LEMMA NextComponentType == ASSUME NEW c \in Comps PROVE NextComponent(c) \in Comps
<1>1. c \in Nat /\ c % CompCnt \in 0..(CompCnt - 1)
  BY CompAssumption DEF Comps
<1> QED
  BY <1>1, CompAssumption DEF NextComponent, Comps

LEMMA KeepAliveMoves == ASSUME IInv, NEW a \in Agents, KeepAlive(a) PROVE Moves
<1> DEFINE s == ice[a]
           n == NextComponent(s.comp_ka)
           s1 == [s EXCEPT !.comp_ka = n]
           r == Claim(s1, s.nominated_check[s.comp_ka] # NoPair, "keep_alive")
<1>1. Becomes(a, r) /\ ~s.is_destroying
  BY DEF KeepAlive, Enterable
<1>2. s \in Session(a) /\ n \in Comps
  BY NextComponentType DEF IInv, Sound, Session
<1> HIDE DEF n
<1>3. Keeps(a, s, s1)
  <2> HIDE DEF s
  <2> QED
    BY <1>2 DEF Keeps, Session
<1> HIDE DEF s1
<1>4. Keeps(a, s1, r)
  BY <1>3, KeepsBroken, KeepsType DEF Asserts
<1> QED
  BY <1>1, <1>3, <1>4, HandlerMoves, KeepsOn

LEMMA DestroyMoves == ASSUME IInv, NEW a \in Agents, Destroy(a) PROVE Moves
<1>1. Becomes(a, Destroyed(ice[a])) /\ Sound(a, ice[a])
  BY DEF Destroy, IInv
<1>2. Keeps(a, ice[a], ice[a])
  BY <1>1, KeepsItself DEF Sound
<1>3. SoundStep(a, ice[a], Settle(Destroyed(ice[a])))
  BY <1>1, <1>2, DestroyStep
<1> QED
  BY <1>1, <1>3, BecomesMoves

\* The end of a transaction.
LEMMA EndKeeps ==
    ASSUME NEW a \in Agents, NEW s \in Session(a), NEW t \in Tx(a)
    PROVE  Keeps(a, s, Complete(s, t))
<1> DEFINE s1 == [s EXCEPT !.pending = s.pending \ {t}]
           s2 == [s1 EXCEPT !.clist[t.pair] = [s1.clist[t.pair] EXCEPT !.tdata = 0]]
<1>1. Complete(s, t) = Claim(s2, s.clist[t.pair].tdata = t.n, "tdata")
  BY DEF Complete
<1>2. s.pending \ {t} \in SUBSET Tx(a) /\ t.pair \in Pairs(a)
  BY DEF Session, Tx
<1>3. Keeps(a, s, s1)
  BY <1>2, KeepsPending
<1> HIDE DEF s1
<1>4. Keeps(a, s1, s2)
  <2>1. [s1.clist[t.pair] EXCEPT !.tdata = 0] \in Check
    BY <1>2, <1>3, CheckType, KeepsType
  <2> QED
    BY <1>2, <1>3, <2>1, KeepsCheck, KeepsType
<1> HIDE DEF s2
<1>5. Keeps(a, s2, Complete(s, t))
  BY <1>1, <1>4, KeepsBroken, KeepsType DEF Asserts
<1> QED
  BY <1>3, <1>4, <1>5, KeepsOn

LEMMA TimeoutMoves ==
    ASSUME IInv, NEW a \in Agents, NEW t \in ice[a].pending, RequestTimeout(a, t)
    PROVE  Moves
<1> DEFINE s == Complete(ice[a], t)
<1>1. Becomes(a, check_failed(s, t.pair)) /\ ~ice[a].is_destroying
  BY DEF RequestTimeout, Enterable
<1>2. ice[a] \in Session(a) /\ t \in Tx(a)
  BY DEF IInv, Sound, Session
<1>3. Keeps(a, ice[a], s) /\ t.pair \in Pairs(a)
  BY <1>2, EndKeeps DEF Tx
<1> HIDE DEF s
<1>4. Keeps(a, s, check_failed(s, t.pair))
  BY <1>3, FailedKeeps, KeepsType
<1> QED
  BY <1>1, <1>3, <1>4, HandlerMoves, KeepsOn

-----------------------------------------------------------------------------
(* Packets                                                                 *)

LEMMA OtherRoleType == ASSUME NEW x PROVE OtherRole(x) \in Roles
  BY DEF OtherRole, Roles

\* A request that an agent does not reject leaves it in the role it ends up in,
\* and one that it rejects tells its sender to take the other one.
LEMMA TieBreaks ==
    ASSUME NEW a \in Agents, NEW t, t.role \in Roles, ice[a].role = t.role
    PROVE  /\ ~RejectsRole(a, t) => OtherRole(ice[a].role) = Due(a)
           /\ RejectsRole(a, t) => OtherRole(t.role) = Due(Peer[a])
<1>1. Tie[a] \in Nat /\ Tie[Peer[a]] \in Nat /\ Tie[a] # Tie[Peer[a]] /\ Peer[Peer[a]] = a
  BY PeerType, OptionAssumption
<1> QED
  BY <1>1 DEF RejectsRole, OtherRole, Due, Roles

\* The response that agent a gets.
LEMMA RespondStep ==
    ASSUME IInv, NEW a \in Agents, NEW t \in Tx(a), NEW code \in {"success", "role_conflict"},
           code = "role_conflict" => OtherRole(t.role) = Due(a)
    PROVE  SoundStep(a, ice[a], Respond(a, t, code))
<1> DEFINE s == ice[a]
           m == [t |-> t, code |-> code]
           r == [s EXCEPT !.resp = s.resp \cup {m}]
<1>1. Sound(a, s) /\ s \in Session(a)
  BY DEF IInv, Sound
<1>2. Respond(a, t, code) \in {s, r}
  BY DEF Respond
<1>3. m \in Response(a) /\ m.t = t /\ m.code = code
  BY DEF Response
<1> HIDE DEF m, s
<1>4. s.resp \cup {m} \in SUBSET Response(a)
  BY <1>1, <1>3 DEF Session
<1>5. /\ r \in Session(a) /\ r.role = s.role /\ r.timer = s.timer
      /\ r.ice_status = s.ice_status /\ r.completions = s.completions
      /\ r.is_destroying = s.is_destroying /\ r.resp = s.resp \cup {m}
  BY <1>1, <1>4 DEF Session
<1> HIDE DEF r
<1>6. ConflictsDue(a, r) /\ ReportsOnce(r) /\ Negotiates(s, r)
  BY <1>1, <1>3, <1>5 DEF Sound, ConflictsDue, ReportsOnce, Negotiates
<1>7. SoundStep(a, s, r) /\ SoundStep(a, s, s)
  BY <1>1, <1>5, <1>6, StutterStep DEF SoundStep, Sound
<1> QED
  BY <1>2, <1>7 DEF s

LEMMA RequestMoves ==
    ASSUME IInv, NEW b \in Agents, NEW t \in ice[Peer[b]].sent, RecvRequest(b, t)
    PROVE  Moves
<1> DEFINE a == Peer[b]
           u == ice[b]
           rcheck == [pair |-> <<t.pair[2], SeenAs[t.pair]>>, uc |-> t.uc]
           x == IF u.role = t.role THEN OtherRole(u.role) ELSE u.role
           s == [u EXCEPT !.role = x]
           kept == [s EXCEPT !.early_check = Append(s.early_check, rcheck)]
           handled == handle_incoming_check(s, rcheck)
<1>1. a \in Agents /\ a # b /\ Peer[a] = b
  BY PeerType
<1>2. Sound(b, u) /\ u \in Session(b) /\ ~u.is_destroying /\ ice[a] \in Session(a)
  BY <1>1 DEF IInv, Sound, RecvRequest, Enterable
<1>3. t \in Tx(a) /\ t.role \in Roles
  BY <1>2 DEF Session, Tx
<1>4. rcheck \in RxCheck(b)
  <2>1. t.pair \in Pairs(a) /\ t.uc \in BOOLEAN
    BY <1>3 DEF Tx
  <2>2. <<t.pair[2], SeenAs[t.pair]>> \in Pairs(b)
    BY <1>1, <2>1, SeenPair
  <2> QED
    BY <2>1, <2>2 DEF RxCheck
<1>5. /\ RejectsRole(b, t) => OtherRole(t.role) = Due(a)
      /\ ~RejectsRole(b, t) => (x # u.role => x = Due(b))
  BY <1>3, TieBreaks DEF RejectsRole
<1>6. x \in Roles
  BY <1>2, OtherRoleType DEF Session
<1>7. s \in Session(b)
  <2> HIDE DEF u, x
  <2> QED
    BY <1>2, <1>6 DEF Session
<1>8. CASE /\ RejectsRole(b, t)
           /\ ice' = [ice EXCEPT ![a] = Respond(a, t, "role_conflict")]
  <2>1. SoundStep(a, ice[a], Respond(a, t, "role_conflict"))
    BY <1>1, <1>3, <1>5, <1>8, RespondStep
  <2>2. \A c \in Agents : SoundStep(c, ice[c], ice[c])
    BY StutterStep DEF IInv
  <2> QED
    BY <1>1, <1>8, <2>1, <2>2 DEF IInv, Moves
<1>9. ASSUME NEW r, SoundStep(b, u, r),
             ice' = [ice EXCEPT ![a] = Respond(a, t, "success"), ![b] = r]
      PROVE  Moves
  <2>1. SoundStep(a, ice[a], Respond(a, t, "success"))
    BY <1>1, <1>3, RespondStep
  <2>2. \A c \in Agents : SoundStep(c, ice[c], ice[c])
    BY StutterStep DEF IInv
  <2>3. /\ DOMAIN ice' = Agents /\ ice'[a] = Respond(a, t, "success") /\ ice'[b] = r
        /\ \A c \in Agents : c # a /\ c # b => ice'[c] = ice[c]
    BY <1>1, <1>9 DEF IInv
  <2> QED
    BY <1>9, <2>1, <2>2, <2>3 DEF Moves
<1>10. CASE /\ ~RejectsRole(b, t)
            /\ ice' = [ice EXCEPT ![a] = Respond(a, t, "success"), ![b] = kept]
  <2>1. s.early_check \in Seq(RxCheck(b))
    BY <1>7 DEF Session
  <2>2. Append(s.early_check, rcheck) \in Seq(RxCheck(b))
    BY <1>4, <2>1
  <2> HIDE DEF rcheck
  <2>3. kept \in Session(b)
    <3> HIDE DEF s
    <3> QED
      BY <1>7, <2>2 DEF Session
  <2>4. /\ kept.role = x /\ kept.resp = u.resp /\ kept.timer = u.timer
        /\ kept.ice_status = u.ice_status /\ kept.completions = u.completions
        /\ kept.is_destroying = u.is_destroying
    <3> HIDE DEF u, x
    <3> QED
      BY <1>2 DEF Session
  <2> HIDE DEF kept
  <2>5. SoundStep(b, u, kept)
    <3> HIDE DEF x, u
    <3> QED
      BY <1>2, <1>5, <1>10, <2>3, <2>4
      DEF SoundStep, Sound, ConflictsDue, ReportsOnce, Negotiates
  <2> QED
    BY <1>9, <1>10, <2>5
<1>11. CASE /\ ~RejectsRole(b, t)
            /\ ice' = [ice EXCEPT ![a] = Respond(a, t, "success"), ![b] = Settle(handled)]
  <2>1. Keeps(b, s, handled)
    BY <1>4, <1>7, IncomingKeeps
  <2>2. SoundStep(b, u, Settle(handled))
    <3> HIDE DEF handled, u, x
    <3> QED
      BY <1>2, <1>5, <1>6, <1>11, <2>1, RoleStep
  <2> QED
    BY <1>9, <1>11, <2>2
<1> QED
  BY <1>8, <1>10, <1>11 DEF RecvRequest

\* The valid pair of a successful check on the list, and selected.
LEMMA AddTypes ==
    ASSUME NEW a \in Agents, NEW s \in Session(a), NEW p \in Pairs(a)
    PROVE  LET v == ValidPair(p)
               entry == [s.valid_list[v] EXCEPT
                            !.nominated = s.clist[p].nominated,
                            !.prio = IF s.valid_list[v].listed THEN s.valid_list[v].prio
                                     ELSE CALC_CHECK_PRIO(s.role, v),
                            !.listed = TRUE]
               r == [s EXCEPT !.lcand = s.lcand \cup {SeenAs[p]},
                              !.valid_list = [s.valid_list EXCEPT ![v] = entry]]
           IN r \in Session(a) /\ Keeps(a, s, r)
<1> DEFINE v == ValidPair(p)
           new == IF s.valid_list[v].listed THEN s.valid_list[v].prio
                  ELSE CALC_CHECK_PRIO(s.role, v)
           entry == [s.valid_list[v] EXCEPT !.nominated = s.clist[p].nominated,
                                            !.prio = new, !.listed = TRUE]
           list == [s.valid_list EXCEPT ![v] = entry]
           s1 == [s EXCEPT !.lcand = s.lcand \cup {SeenAs[p]}]
           s2 == [s1 EXCEPT !.valid_list = list]
<1>1. v \in Pairs(a) /\ SeenAs[p] \in Addr
  BY SeenPair DEF ValidPair
<1> HIDE DEF v
<1>2. entry \in Valid
  <2>1. s.valid_list[v] \in Valid /\ s.clist[p].nominated \in BOOLEAN
    BY <1>1, CheckType DEF Session
  <2>2. new \in Nat
    BY <1>1, <2>1, PrioType DEF Valid
  <2> HIDE DEF new
  <2> QED
    BY <2>1, <2>2 DEF Valid
<1> HIDE DEF entry
<1>3. list \in [Pairs(a) -> Valid]
  BY <1>1, <1>2 DEF Session
<1> HIDE DEF list
<1>4. Keeps(a, s, s1)
  <2>1. s.lcand \cup {SeenAs[p]} \in SUBSET Addr
    BY <1>1 DEF Session
  <2> QED
    BY <2>1, KeepsCandidates
<1>5. Keeps(a, s1, s2)
  <2> HIDE DEF s1
  <2> QED
    BY <1>3, <1>4, KeepsValidList, KeepsType
<1>6. Keeps(a, s, s2) /\ s2 \in Session(a)
  <2> HIDE DEF s1, s2
  <2> QED
    BY <1>4, <1>5, KeepsOn, KeepsType
<1> QED
  BY <1>6 DEF v, entry, list

LEMMA AddKeeps ==
    ASSUME NEW a \in Agents, NEW s \in Session(a), NEW p \in Pairs(a)
    PROVE  Keeps(a, s, AddValid(s, p))
<1> DEFINE v == ValidPair(p)
           entry == [s.valid_list[v] EXCEPT
                        !.nominated = s.clist[p].nominated,
                        !.prio = IF s.valid_list[v].listed THEN s.valid_list[v].prio
                                 ELSE CALC_CHECK_PRIO(s.role, v),
                        !.listed = TRUE]
           r == [s EXCEPT !.lcand = s.lcand \cup {SeenAs[p]},
                          !.valid_list = [s.valid_list EXCEPT ![v] = entry]]
<1>1. AddValid(s, p) = update_comp_check(r, v)
  BY DEF AddValid
<1>2. Keeps(a, s, r) /\ r \in Session(a)
  BY AddTypes
<1>3. v \in Pairs(a)
  BY SeenPair DEF ValidPair
<1> HIDE DEF r, v
<1>4. Keeps(a, r, update_comp_check(r, v))
  BY <1>2, <1>3, UpdateCompKeeps
<1> QED
  BY <1>1, <1>2, <1>4, KeepsOn

LEMMA SuccessKeeps ==
    ASSUME NEW a \in Agents, NEW s \in Session(a), NEW p \in Pairs(a)
    PROVE  Keeps(a, s, SuccessResponse(s, p))
<1> DEFINE s1 == AddValid(s, p)
           s2 == check_set_state(s1, p, "succeeded")
<1>1. SuccessResponse(s, p) \in {check_failed(s, p), on_check_complete(s2, p)}
  BY DEF SuccessResponse
<1>2. Keeps(a, s, s1)
  BY AddKeeps
<1> HIDE DEF s1
<1>3. Keeps(a, s1, s2)
  BY <1>2, SetStateKeeps, KeepsType DEF CheckStates
<1> HIDE DEF s2
<1>4. Keeps(a, s2, on_check_complete(s2, p))
  BY <1>3, CheckCompleteKeeps, KeepsType
<1>5. Keeps(a, s, on_check_complete(s2, p))
  BY <1>2, <1>3, <1>4, KeepsOn
<1> QED
  BY <1>1, <1>5, FailedKeeps

\* Two sessions that differ as Keeps allows do so in another role, too.
LEMMA KeepsRole ==
    ASSUME NEW a, NEW s \in Session(a), NEW r, Keeps(a, s, r), NEW x \in Roles
    PROVE  Keeps(a, [s EXCEPT !.role = x], [r EXCEPT !.role = x])
<1>1. \A u \in Session(a) :
          /\ [u EXCEPT !.role = x] \in Session(a)
          /\ [u EXCEPT !.role = x].role = x
          /\ [u EXCEPT !.role = x].resp = u.resp
          /\ [u EXCEPT !.role = x].timer = u.timer
          /\ [u EXCEPT !.role = x].ice_status = u.ice_status
          /\ [u EXCEPT !.role = x].completions = u.completions
          /\ [u EXCEPT !.role = x].is_destroying = u.is_destroying
  BY DEF Session
<1> QED
  BY <1>1 DEF Keeps

LEMMA ResponseMoves ==
    ASSUME IInv, NEW a \in Agents, NEW m \in ice[a].resp, RecvResponse(a, m)
    PROVE  Moves
<1> DEFINE t == m.t
           p == t.pair
           s == Complete(ice[a], t)
<1>1. /\ Becomes(a, IF m.code = "role_conflict" THEN RoleConflictResponse(s, t)
                    ELSE SuccessResponse(s, p))
      /\ ~ice[a].is_destroying
  BY DEF RecvResponse, Enterable
<1>2. Sound(a, ice[a]) /\ ice[a] \in Session(a)
  BY DEF IInv, Sound
<1>3. m \in Response(a)
  BY <1>2 DEF Session
<1>4. t \in Tx(a) /\ p \in Pairs(a)
  BY <1>3 DEF Response, Tx
<1>5. Keeps(a, ice[a], s) /\ s \in Session(a)
  BY <1>2, <1>4, EndKeeps, KeepsType
<1>6. m.code = "role_conflict" => OtherRole(t.role) = Due(a)
  BY <1>2 DEF Sound, ConflictsDue
<1> HIDE DEF t, p, s
<1>7. CASE m.code = "role_conflict"
  <2> DEFINE x == OtherRole(t.role)
             old == [ice[a] EXCEPT !.role = x]
             s1 == [s EXCEPT !.role = x]
             s2 == check_set_state(s1, p, "waiting")
             nominate == s.clist[p].nominated \/ s.is_nominating
             r == perform_check(s2, p, nominate)
  <2>1. Becomes(a, r)
    <3>1. RoleConflictResponse(s, t) = r
      BY DEF RoleConflictResponse, p
    <3> HIDE DEF r
    <3> QED
      BY <1>1, <1>7, <3>1
  <2>2. x \in Roles /\ x = Due(a)
    BY <1>6, <1>7, OtherRoleType
  <2> HIDE DEF x
  <2>3. Keeps(a, old, s1)
    BY <1>2, <1>5, <2>2, KeepsRole
  <2> HIDE DEF s1
  <2>4. Keeps(a, s1, s2)
    BY <1>4, <2>3, SetStateKeeps, KeepsType DEF CheckStates
  <2> HIDE DEF s2
  <2>5. nominate \in BOOLEAN
    BY <1>4, <1>5, CheckType DEF Session
  <2> HIDE DEF nominate
  <2>6. Keeps(a, s2, r)
    BY <1>4, <2>4, <2>5, PerformKeeps, KeepsType
  <2> HIDE DEF r
  <2>7. Keeps(a, old, r)
    BY <2>3, <2>4, <2>6, KeepsOn
  <2>8. SoundStep(a, ice[a], Settle(r))
    BY <1>1, <1>2, <2>2, <2>7, RoleStep
  <2> QED
    BY <2>1, <2>8, BecomesMoves
<1>8. CASE m.code # "role_conflict"
  <2>1. Keeps(a, s, SuccessResponse(s, p))
    BY <1>4, <1>5, SuccessKeeps
  <2>2. Becomes(a, SuccessResponse(s, p))
    BY <1>1, <1>8
  <2> QED
    BY <1>1, <1>5, <2>1, <2>2, HandlerMoves, KeepsOn
<1> QED
  BY <1>7, <1>8

-----------------------------------------------------------------------------
(* The invariant                                                           *)

LEMMA Initially == Init => IInv
<1> SUFFICES ASSUME Init PROVE IInv
  OBVIOUS
<1>1. PICK role \in InitRoles, aggressive \in Aggressive :
          ice = [a \in Agents |-> NewSession(a, role[a], aggressive[a])]
  BY DEF Init
<1>2. ASSUME NEW a \in Agents PROVE Sound(a, ice[a])
  <2> DEFINE r == role[a]
             g == aggressive[a]
             blank == [state |-> "absent", nominated |-> FALSE,
                       prio |-> 0, born |-> 0, tdata |-> 0, tx |-> 0]
             none == [listed |-> FALSE, nominated |-> FALSE, prio |-> 0]
  <2>1. r \in Roles /\ g \in BOOLEAN /\ ice[a] = NewSession(a, r, g)
    BY <1>1, OptionAssumption
  <2>2. blank \in Check /\ none \in Valid
    BY DEF Check, CheckStates, Valid
  <2>3. 1 \in Comps /\ LCand[a] \in SUBSET Addr
    BY CompAssumption, AddrAssumption DEF Comps
  <2> HIDE DEF r, g
  <2>4. NewSession(a, r, g) \in Session(a)
    <3>1. /\ [p \in Pairs(a) |-> blank] \in [Pairs(a) -> Check]
          /\ [p \in Pairs(a) |-> none] \in [Pairs(a) -> Valid]
      BY <2>2
    <3>2. [c \in Comps |-> NoPair] \in [Comps -> Pairs(a) \cup {NoPair}]
      OBVIOUS
    <3>3. <<>> \in Seq(RxCheck(a))
      OBVIOUS
    <3>4. "none" \in Outcomes /\ "none" \in Timers /\ "init" \in Phases
      BY DEF Outcomes, Timers, Phases
    <3> QED
      BY <2>1, <2>3, <3>1, <3>2, <3>3, <3>4 DEF NewSession, Session
  <2>5. /\ NewSession(a, r, g).resp = {} /\ NewSession(a, r, g).timer = "none"
        /\ NewSession(a, r, g).completions = 0
    BY DEF NewSession
  <2> QED
    BY <2>1, <2>4, <2>5 DEF Sound, ConflictsDue, ReportsOnce
<1> QED
  BY <1>1, <1>2 DEF IInv

LEMMA EveryStep == IInv /\ [Next]_vars => Moves
<1> SUFFICES ASSUME IInv, [Next]_vars PROVE Moves
  OBVIOUS
<1>1. CASE Next
  BY <1>1, CreateMoves, StartMoves, ReplayMoves, StartDoneMoves, PeriodicMoves, TimerMoves,
     KeepAliveMoves, DestroyMoves, RequestMoves, ResponseMoves, TimeoutMoves DEF Next
<1>2. CASE UNCHANGED vars
  BY <1>2, StutterStep DEF IInv, Moves, vars
<1> QED
  BY <1>1, <1>2

LEMMA Invariant == Spec => []IInv
<1>1. IInv /\ Moves => IInv'
  BY DEF IInv, Moves, SoundStep
<1> QED
  BY <1>1, Initially, EveryStep, PTL DEF Spec

-----------------------------------------------------------------------------
(* The theorems                                                            *)

\* Every field of both sessions keeps its type (pj_ice_sess, ice_session.h).
THEOREM Types_invariant == Spec => []TypeOK
<1>1. IInv => TypeOK
  BY DEF IInv, Sound, TypeOK
<1> QED
  BY <1>1, Invariant, PTL

\* Whatever requests and 487 responses are lost, repeated or late, an agent
\* changes its role only to the one that the tie-breakers give it.
THEOREM Role_settles == Spec => RoleSettles
<1>1. Moves => \A a \in Agents : ice'[a].role # ice[a].role =>
          ice'[a].role = IF Tie[a] > Tie[Peer[a]] THEN "controlling" ELSE "controlled"
  BY DEF Moves, SoundStep, Due
<1> QED
  BY <1>1, Invariant, EveryStep, PTL DEF Spec, RoleSettles

\* The session implements Negotiation.tla: on_ice_complete has one outcome, it
\* is reported once, and not to an application that destroyed the session.
THEOREM Promise_kept == Spec => KeepsPromise
<1>1. Init => \A a \in Agents : Promise(a)!Init
  BY DEF Init, NewSession, Promise!Init
<1>2. IInv /\ Moves => \A a \in Agents : [Promise(a)!Next]_(Promise(a)!vars)
  <2> SUFFICES ASSUME IInv, Moves, NEW a \in Agents
               PROVE  [Promise(a)!Next]_(Promise(a)!vars)
    OBVIOUS
  <2>1. Negotiates(ice[a], ice'[a])
    BY DEF Moves, SoundStep
  <2>2. ice[a].is_destroying \in BOOLEAN /\ ice'[a].is_destroying \in BOOLEAN
    BY DEF IInv, Moves, SoundStep, Sound, Session
  <2>3. ice'[a].ice_status \in Outcomes
    BY DEF Moves, SoundStep, Sound, Session
  <2> QED
    BY <2>1, <2>2, <2>3
    DEF Negotiates, Promise!Next, Promise!Finish, Promise!Tell, Promise!Close, Promise!vars
<1> QED
  BY <1>1, <1>2, Invariant, EveryStep, PTL DEF Spec, KeepsPromise

=============================================================================
