-------------------------- MODULE IceStrans_proofs --------------------------
(***************************************************************************)
(* Proofs about IceStrans.tla, for any configurations, mapped addresses    *)
(* and adversity: references are balanced, there is always a default       *)
(* candidate, data take the way of the session only if it succeeded, and   *)
(* what has been destroyed is silent unless keep-alives come early.        *)
(***************************************************************************)
EXTENDS NatClient, SequenceTheorems, TLAPS

-----------------------------------------------------------------------------
(* Lists of candidates, with at most one of a type                         *)

CandTypes == {"srflx", "host", "relayed"}
Statuses == {"pending", "ok", "failed"}
CandSet == [type : CandTypes, status : Statuses]
Lists == {q \in Seq(CandSet) :
             \A i, j \in 1 .. Len(q) : q[i].type = q[j].type => i = j}
ListHas(q, type) == \E k \in 1 .. Len(q) : q[k].type = type

LEMMA CandsIn == ASSUME NEW type \in CandTypes, NEW status \in Statuses
                 PROVE  Cand(type, status) \in CandSet
  BY DEF Cand, CandSet

WithStatus(q, k, status) == [q EXCEPT ![k].status = status]

LEMMA SetList ==
    ASSUME NEW q \in Lists, NEW k, NEW status \in Statuses
    PROVE  LET r == WithStatus(q, k, status)
           IN  /\ r \in Lists /\ Len(r) = Len(q)
               /\ \A i \in 1 .. Len(q) : r[i].type = q[i].type
  <1> DEFINE r == [q EXCEPT ![k].status = status]
  <1>1. q \in Seq(CandSet) /\ Len(q) \in Nat /\ DOMAIN q = 1 .. Len(q)
        /\ \A i \in 1 .. Len(q) : q[i] \in CandSet
    BY DEF Lists
  <1>2. \A i \in 1 .. Len(q) : r[i] \in CandSet /\ r[i].type = q[i].type
    <2> TAKE i \in 1 .. Len(q)
    <2>1. CASE i = k
      <3>1. r[i] = [q[i] EXCEPT !.status = status]
        BY <1>1, <2>1
      <3> HIDE DEF r
      <3> QED BY <1>1, <3>1 DEF CandSet
    <2>2. CASE i # k
      BY <1>1, <2>2
    <2> QED BY <2>1, <2>2
  <1>3. DOMAIN r = 1 .. Len(q)
    BY <1>1
  <1>4. r = [i \in 1 .. Len(q) |-> r[i]]
    BY <1>1
  <1> HIDE DEF r
  <1>5. r \in Seq(CandSet) /\ Len(r) = Len(q)
    BY <1>1, <1>2, <1>3, <1>4
  <1>6. r \in Lists
    BY <1>2, <1>5 DEF Lists
  <1> QED BY <1>2, <1>5, <1>6 DEF r, WithStatus

LEMMA RemoveList ==
    ASSUME NEW q \in Lists, NEW k \in 1 .. Len(q)
    PROVE  /\ RemoveAt(q, k) \in Lists /\ Len(RemoveAt(q, k)) = Len(q) - 1
           /\ \A type : (\E i \in 1 .. Len(q) : i # k /\ q[i].type = type)
                           => ListHas(RemoveAt(q, k), type)
  <1> DEFINE r == RemoveAt(q, k)
  <1>1. q \in Seq(CandSet) /\ Len(q) \in Nat /\ k \in Nat
        /\ \A i \in 1 .. Len(q) : q[i] \in CandSet
    BY DEF Lists
  <1>2. /\ r \in Seq(CandSet) /\ Len(r) = Len(q) - 1
        /\ \A i \in 1 .. Len(r) : r[i] = IF i < k THEN q[i] ELSE q[i + 1]
    <2> DEFINE a == SubSeq(q, 1, k - 1)
               b == SubSeq(q, k + 1, Len(q))
    <2>1. /\ a \in Seq(CandSet) /\ Len(a) = k - 1
          /\ \A i \in 1 .. (k - 1) : a[i] = q[i]
      BY <1>1
    <2>2. /\ b \in Seq(CandSet) /\ Len(b) = Len(q) - k
          /\ \A i \in 1 .. (Len(q) - k) : b[i] = q[k + i]
      BY <1>1
    <2>3. r = a \o b
      BY DEF RemoveAt
    <2> HIDE DEF a, b, r
    <2>4. r \in Seq(CandSet) /\ Len(r) = Len(a) + Len(b)
      BY <2>1, <2>2, <2>3, ConcatProperties
    <2>5. Len(r) = Len(q) - 1
      BY <1>1, <2>1, <2>2, <2>4
    <2>6. ASSUME NEW i \in 1 .. Len(r) PROVE r[i] = IF i < k THEN q[i] ELSE q[i + 1]
      <3>1. r[i] = IF i <= Len(a) THEN a[i] ELSE b[i - Len(a)]
        BY <2>1, <2>2, <2>3, <2>4
      <3>2. CASE i < k
        BY <1>1, <2>1, <3>1, <3>2
      <3>3. CASE ~(i < k)
        <4>1. i - (k - 1) \in 1 .. (Len(q) - k)
          BY <1>1, <2>5, <3>3
        <4>2. r[i] = b[i - (k - 1)]
          BY <1>1, <2>1, <3>1, <3>3
        <4>3. k + (i - (k - 1)) = i + 1
          BY <1>1
        <4> QED BY <2>2, <3>3, <4>1, <4>2, <4>3
      <3> QED BY <3>2, <3>3
    <2> QED BY <2>4, <2>5, <2>6
  <1> HIDE DEF r
  <1>3. r \in Lists
    <2>1. ASSUME NEW i \in 1 .. Len(r), NEW j \in 1 .. Len(r), r[i].type = r[j].type
          PROVE  i = j
      <3> DEFINE x == IF i < k THEN i ELSE i + 1
                 y == IF j < k THEN j ELSE j + 1
      <3>1. x \in 1 .. Len(q) /\ y \in 1 .. Len(q) /\ q[x].type = q[y].type
        BY <1>1, <1>2, <2>1, SMTT(30)
      <3>2. x = y
        BY <3>1 DEF Lists
      <3> QED BY <3>2, <1>1
    <2> QED BY <1>2, <2>1 DEF Lists
  <1>4. ASSUME NEW type, NEW i \in 1 .. Len(q), i # k, q[i].type = type
        PROVE  ListHas(r, type)
    <2> DEFINE x == IF i < k THEN i ELSE i - 1
    <2>1. x \in 1 .. Len(r) /\ (IF x < k THEN x ELSE x + 1) = i
      BY <1>1, <1>2, <1>4
    <2>2. r[x] = q[i]
      BY <1>2, <2>1
    <2> QED BY <1>4, <2>1, <2>2 DEF ListHas
  <1> QED BY <1>2, <1>3, <1>4 DEF r

LEMMA AppendList ==
    ASSUME NEW q \in Lists, ~ListHas(q, "relayed")
    PROVE  LET r == Append(q, Cand("relayed", "pending"))
           IN  r \in Lists /\ Len(r) = Len(q) + 1 /\ ListHas(r, "relayed")
  <1> DEFINE e == Cand("relayed", "pending")
             r == Append(q, e)
  <1>1. e \in CandSet /\ e.type = "relayed"
    BY DEF Cand, CandSet, CandTypes, Statuses
  <1>2. q \in Seq(CandSet) /\ Len(q) \in Nat
    BY DEF Lists
  <1> HIDE DEF e
  <1>3. /\ r \in Seq(CandSet) /\ Len(r) = Len(q) + 1
        /\ \A i \in 1 .. Len(q) : r[i] = q[i]
        /\ r[Len(q) + 1] = e
    BY <1>1, <1>2
  <1> HIDE DEF r
  <1>4. \A i, j \in 1 .. Len(r) : r[i].type = r[j].type => i = j
    <2> TAKE i, j \in 1 .. Len(r)
    <2>1. i \in 1 .. Len(q) \/ i = Len(q) + 1
      BY <1>2, <1>3
    <2>2. j \in 1 .. Len(q) \/ j = Len(q) + 1
      BY <1>2, <1>3
    <2>3. \A x \in 1 .. Len(q) : q[x].type # "relayed"
      BY DEF ListHas
    <2> QED BY <1>1, <1>3, <2>1, <2>2, <2>3 DEF Lists
  <1>5. Len(q) + 1 \in 1 .. Len(r)
    BY <1>2, <1>3
  <1> QED BY <1>1, <1>3, <1>4, <1>5 DEF Lists, ListHas, r, e

-----------------------------------------------------------------------------
(* The transport                                                           *)

TransportSet ==
    [cfg : Configs,
     state : {"null", "init", "ready", "sess_ready", "nego", "running", "failed"},
     cb_called : BOOLEAN, destroy_req : BOOLEAN,
     cand_list : Lists, default_cand : Nat,
     ice : {"none", "created", "listed", "started", "done"},
     offered : SUBSET CandTypes, outcome : {"none", "ok", "failed"}, relayed : BOOLEAN,
     stun_sock : BOOLEAN, req : {"none", "dns", "sent"}, mapped : Mapped \cup {"none"},
     ka_timer : BOOLEAN, turn_sock : {"none", "resolving", "alloc", "ready"},
     turn_err_cnt : Nat, closing : Nat, unnamed : BOOLEAN, ref_cnt : Int,
     assert_failed : BOOLEAN]

\* Relays that hold a reference, and the references that nobody holds.
Relays(s) == s.closing + One(s.turn_sock # "none")
Excess(s) == s.ref_cnt - (One(s.state # "null" /\ ~s.destroy_req) + One(s.stun_sock)
                          + One(s.ka_timer) + One(s.ice # "none") + Relays(s))

Sane(s) ==
    /\ s \in TransportSet /\ Relays(s) <= MaxClosing
    /\ s.turn_sock # "none" => ListHas(s.cand_list, "relayed")
HasDefault(s) == s.destroy_req \/ s.default_cand < Len(s.cand_list)

\* What most operators leave as it is.
Agree(s, t) ==
    /\ t.state = s.state /\ t.ice = s.ice /\ t.outcome = s.outcome
    /\ t.destroy_req = s.destroy_req
Quiet(s, t) ==
    /\ Sane(t) /\ Agree(s, t) /\ Excess(t) = Excess(s) /\ (HasDefault(s) => HasDefault(t))

Core(s, t) ==
    /\ Agree(s, t) /\ t.cand_list = s.cand_list /\ t.default_cand = s.default_cand
    /\ t.ref_cnt = s.ref_cnt /\ t.stun_sock = s.stun_sock /\ t.ka_timer = s.ka_timer
    /\ t.turn_sock = s.turn_sock /\ t.closing = s.closing

LEMMA CoreQuiet ==
    ASSUME NEW s, Sane(s), NEW t \in TransportSet, Core(s, t)
    PROVE  Quiet(s, t) /\ Relays(t) = Relays(s)
  BY DEF Core, Agree, Quiet, Sane, HasDefault, Relays, Excess

LEMMA QuietTrans ==
    ASSUME NEW s, NEW t, NEW u, Quiet(s, t), Quiet(t, u)
    PROVE  Quiet(s, u)
  BY DEF Quiet, Agree

LEMMA QuietSame == ASSUME NEW s, Sane(s) PROVE Quiet(s, s)
  BY DEF Quiet, Agree

LEMMA Counts ==
    ASSUME NEW s \in TransportSet
    PROVE  /\ s.ref_cnt \in Int /\ s.closing \in Nat /\ Relays(s) \in Nat
           /\ Excess(s) \in Int
  BY DEF TransportSet, Relays, Excess, One

\* Setting the counter alone.
LEMMA SetRef ==
    ASSUME NEW s, Sane(s), NEW n \in Int
    PROVE  LET t == [s EXCEPT !.ref_cnt = n]
           IN  /\ Sane(t) /\ Agree(s, t) /\ (HasDefault(s) => HasDefault(t))
               /\ Excess(t) = Excess(s) + n - s.ref_cnt
               /\ Relays(t) = Relays(s) /\ t.turn_sock = s.turn_sock
  <1> DEFINE t == [s EXCEPT !.ref_cnt = n]
  <1>1. t \in TransportSet
    BY DEF Sane, TransportSet
  <1>2. /\ Agree(s, t) /\ t.cand_list = s.cand_list /\ t.default_cand = s.default_cand
        /\ t.ref_cnt = n /\ t.stun_sock = s.stun_sock /\ t.ka_timer = s.ka_timer
        /\ t.turn_sock = s.turn_sock /\ t.closing = s.closing
    BY DEF Sane, TransportSet, Agree
  <1>3. s.ref_cnt \in Int /\ s.closing \in Nat
    BY Counts DEF Sane
  <1> HIDE DEF t
  <1>4. Relays(t) = Relays(s) /\ Relays(s) \in Nat
    BY <1>2, <1>3 DEF Relays, One
  <1>5. Excess(t) = Excess(s) + n - s.ref_cnt
    BY <1>2, <1>3, <1>4 DEF Excess, Agree, One
  <1> QED BY <1>1, <1>2, <1>4, <1>5 DEF Sane, HasDefault, Agree, t

LEMMA AddRefSane ==
    ASSUME NEW s, Sane(s)
    PROVE  /\ Sane(AddRef(s)) /\ Agree(s, AddRef(s)) /\ Excess(AddRef(s)) = Excess(s) + 1
           /\ HasDefault(s) => HasDefault(AddRef(s))
           /\ Relays(AddRef(s)) = Relays(s) /\ AddRef(s).turn_sock = s.turn_sock
  <1>1. s.ref_cnt + 1 \in Int /\ s.ref_cnt \in Int /\ Excess(s) \in Int
    BY Counts DEF Sane
  <1>2. Excess(AddRef(s)) = Excess(s) + (s.ref_cnt + 1) - s.ref_cnt
    BY <1>1, SetRef DEF AddRef
  <1> QED BY <1>1, <1>2, SetRef DEF AddRef

LEMMA DecRefSane ==
    ASSUME NEW s, Sane(s)
    PROVE  /\ Sane(DecRef(s)) /\ Agree(s, DecRef(s)) /\ Excess(DecRef(s)) = Excess(s) - 1
           /\ HasDefault(s) => HasDefault(DecRef(s))
           /\ Relays(DecRef(s)) = Relays(s) /\ DecRef(s).turn_sock = s.turn_sock
  <1>1. s.ref_cnt - 1 \in Int /\ s.ref_cnt \in Int /\ Excess(s) \in Int
    BY Counts DEF Sane
  <1>2. Excess(DecRef(s)) = Excess(s) + (s.ref_cnt - 1) - s.ref_cnt
    BY <1>1, SetRef DEF DecRef
  <1> QED BY <1>1, <1>2, SetRef DEF DecRef

LEMMA StunSockQuiet ==
    ASSUME NEW s, Sane(s)
    PROVE  Quiet(s, stun_sock_destroy(s)) /\ Relays(stun_sock_destroy(s)) = Relays(s)
  <1>1. CASE ~s.stun_sock
    BY <1>1, QuietSame DEF stun_sock_destroy
  <1>2. CASE s.stun_sock
    <2> DEFINE n == s.ref_cnt - 1 - (IF s.ka_timer THEN 1 ELSE 0)
               u == [s EXCEPT !.stun_sock = FALSE, !.req = "none", !.ka_timer = FALSE]
    <2>1. n \in Int /\ s.ref_cnt \in Int /\ s.closing \in Nat /\ Excess(s) \in Int
      BY Counts DEF Sane
    <2>2. stun_sock_destroy(s) = [u EXCEPT !.ref_cnt = n]
      BY <1>2 DEF stun_sock_destroy, Sane, TransportSet
    <2>3. u \in TransportSet
      BY DEF Sane, TransportSet
    <2>4. /\ Agree(s, u) /\ u.cand_list = s.cand_list /\ u.default_cand = s.default_cand
          /\ u.ref_cnt = s.ref_cnt /\ u.stun_sock = FALSE /\ u.ka_timer = FALSE
          /\ u.turn_sock = s.turn_sock /\ u.closing = s.closing
      BY DEF Sane, TransportSet, Agree
    <2> HIDE DEF u
    <2>5. Relays(u) = Relays(s) /\ Relays(s) \in Nat
      BY <2>1, <2>4 DEF Relays, One
    <2>6. Sane(u) /\ (HasDefault(s) => HasDefault(u))
      BY <2>3, <2>4, <2>5 DEF Sane, HasDefault, Agree
    <2>7. Excess(u) = Excess(s) + s.ref_cnt - n
      BY <1>2, <2>1, <2>4, <2>5 DEF Excess, Agree, One
    <2>8. Excess(u) + n - u.ref_cnt = Excess(s)
      BY <2>1, <2>4, <2>7
    <2> HIDE DEF n
    <2> QED BY <2>1, <2>2, <2>4, <2>5, <2>6, <2>8, SetRef DEF Quiet, Agree
  <1> QED BY <1>1, <1>2

LEMMA TurnSockQuiet ==
    ASSUME NEW s, Sane(s)
    PROVE  LET t == turn_sock_destroy(s)
           IN  Quiet(s, t) /\ Relays(t) = Relays(s) /\ t.turn_sock = "none"
  <1>1. CASE s.turn_sock = "none"
    BY <1>1, QuietSame DEF turn_sock_destroy
  <1>2. CASE s.turn_sock # "none"
    <2> DEFINE n == s.closing + 1
               u == [s EXCEPT !.turn_sock = "none"]
               t == [u EXCEPT !.closing = n]
    <2>1. n \in Nat /\ s.ref_cnt \in Int /\ s.closing \in Nat
      BY Counts DEF Sane
    <2>2. turn_sock_destroy(s) = t
      BY <1>2 DEF turn_sock_destroy, Sane, TransportSet
    <2> HIDE DEF n
    <2>3. t \in TransportSet
      BY <2>1 DEF Sane, TransportSet
    <2>4. /\ Agree(s, t) /\ t.cand_list = s.cand_list /\ t.default_cand = s.default_cand
          /\ t.ref_cnt = s.ref_cnt /\ t.stun_sock = s.stun_sock /\ t.ka_timer = s.ka_timer
          /\ t.turn_sock = "none" /\ t.closing = n
      BY DEF Sane, TransportSet, Agree
    <2> HIDE DEF t
    <2>5. Relays(t) = Relays(s)
      BY <1>2, <2>1, <2>4 DEF Relays, One, n
    <2> QED BY <2>2, <2>3, <2>4, <2>5 DEF Sane, HasDefault, Agree, Quiet, Excess
  <1> QED BY <1>1, <1>2

LEMMA SessDestroyed ==
    ASSUME NEW s, Sane(s)
    PROVE  LET t == sess_destroy(s)
           IN  /\ Sane(t) /\ Excess(t) = Excess(s) /\ (HasDefault(s) => HasDefault(t))
               /\ t.state = s.state /\ t.destroy_req = s.destroy_req /\ t.ice = "none"
               /\ Relays(t) = Relays(s)
  <1>1. CASE s.ice = "none"
    BY <1>1 DEF sess_destroy
  <1>2. CASE s.ice # "none"
    <2> DEFINE u == [s EXCEPT !.ice = "none", !.offered = {}, !.outcome = "none",
                              !.relayed = FALSE]
    <2>1. u \in TransportSet
      BY DEF Sane, TransportSet
    <2>2. /\ u.state = s.state /\ u.ice = "none" /\ u.destroy_req = s.destroy_req
          /\ u.cand_list = s.cand_list /\ u.default_cand = s.default_cand
          /\ u.ref_cnt = s.ref_cnt /\ u.stun_sock = s.stun_sock /\ u.ka_timer = s.ka_timer
          /\ u.turn_sock = s.turn_sock /\ u.closing = s.closing
      BY DEF Sane, TransportSet
    <2>3. sess_destroy(s) = DecRef(u)
      BY <1>2 DEF sess_destroy
    <2> HIDE DEF u
    <2>4. Relays(u) = Relays(s) /\ s.ref_cnt \in Int /\ Relays(s) \in Nat /\ Excess(s) \in Int
      BY <2>2, Counts DEF Relays, Sane
    <2>5. Excess(u) = Excess(s) + 1
      BY <1>2, <2>2, <2>4 DEF Excess, One
    <2>6. Sane(u) /\ (HasDefault(s) => HasDefault(u))
      BY <2>1, <2>2, <2>4 DEF Sane, HasDefault
    <2> QED BY <2>2, <2>3, <2>4, <2>5, <2>6, DecRefSane DEF Agree
  <1> QED BY <1>1, <1>2

\* The transport is destroyed once; it has no session then.
LEMMA DestroyStep ==
    ASSUME NEW s, Sane(s), s.state # "null"
    PROVE  LET t == destroy_ice_st(s)
           IN  /\ Sane(t) /\ Excess(t) = Excess(s) /\ t.state = s.state /\ t.destroy_req
               /\ s.destroy_req => t = s
               /\ ~s.destroy_req => t.ice = "none"
  <1>1. CASE s.destroy_req
    BY <1>1 DEF destroy_ice_st
  <1>2. CASE ~s.destroy_req
    <2> DEFINE u == [s EXCEPT !.destroy_req = TRUE]
               v == sess_destroy(u)
               w == stun_sock_destroy(v)
               x == turn_sock_destroy(w)
    <2>1. u \in TransportSet
      BY DEF Sane, TransportSet
    <2>2. /\ u.state = s.state /\ u.ice = s.ice /\ u.destroy_req = TRUE
          /\ u.cand_list = s.cand_list
          /\ u.ref_cnt = s.ref_cnt /\ u.stun_sock = s.stun_sock /\ u.ka_timer = s.ka_timer
          /\ u.turn_sock = s.turn_sock /\ u.closing = s.closing
      BY DEF Sane, TransportSet
    <2>3. destroy_ice_st(s) = DecRef(x)
      BY <1>2 DEF destroy_ice_st
    <2> HIDE DEF u
    <2>4. Relays(u) = Relays(s) /\ s.ref_cnt \in Int /\ Relays(s) \in Nat /\ Excess(s) \in Int
      BY <2>2, Counts DEF Relays, Sane
    <2>5. Sane(u) /\ Excess(u) = Excess(s) + 1
      BY <1>2, <2>1, <2>2, <2>4 DEF Excess, One, Sane
    <2>6. /\ Sane(v) /\ Excess(v) = Excess(s) + 1 /\ v.state = s.state /\ v.destroy_req
          /\ v.ice = "none"
      BY <2>2, <2>5, SessDestroyed
    <2> HIDE DEF v
    <2>7. Quiet(v, w)
      BY <2>6, StunSockQuiet
    <2> HIDE DEF w
    <2>8. Quiet(w, x)
      BY <2>7, TurnSockQuiet DEF Quiet
    <2> HIDE DEF x
    <2>9. /\ Sane(x) /\ Excess(x) = Excess(s) + 1 /\ x.state = s.state /\ x.destroy_req
          /\ x.ice = "none"
      BY <2>6, <2>7, <2>8 DEF Quiet, Agree
    <2> QED BY <1>2, <2>3, <2>4, <2>9, DecRefSane DEF Agree
  <1> QED BY <1>1, <1>2

LEMMA StartKaQuiet ==
    ASSUME NEW s, Sane(s)
    PROVE  Quiet(s, start_ka_timer(s))
  <1>1. CASE s.ka_timer \/ ~s.stun_sock
    BY <1>1, QuietSame DEF start_ka_timer
  <1>2. CASE ~(s.ka_timer \/ ~s.stun_sock)
    <2> DEFINE u == [s EXCEPT !.ka_timer = TRUE]
    <2>1. u \in TransportSet
      BY DEF Sane, TransportSet
    <2>2. /\ Agree(s, u) /\ u.cand_list = s.cand_list /\ u.default_cand = s.default_cand
          /\ u.ref_cnt = s.ref_cnt /\ u.stun_sock = s.stun_sock /\ u.ka_timer = TRUE
          /\ u.turn_sock = s.turn_sock /\ u.closing = s.closing
      BY DEF Sane, TransportSet, Agree
    <2>3. start_ka_timer(s) = AddRef(u)
      BY <1>2 DEF start_ka_timer
    <2> HIDE DEF u
    <2>4. Relays(u) = Relays(s) /\ s.ref_cnt \in Int /\ Relays(s) \in Nat /\ Excess(s) \in Int
      BY <2>2, Counts DEF Relays, Sane
    <2>5. Excess(u) = Excess(s) - 1
      BY <1>2, <2>2, <2>4 DEF Excess, Agree, One
    <2>6. Sane(u) /\ (HasDefault(s) => HasDefault(u))
      BY <2>1, <2>2, <2>4 DEF Sane, HasDefault, Agree
    <2> QED BY <2>2, <2>3, <2>4, <2>5, <2>6, AddRefSane DEF Agree, Quiet
  <1> QED BY <1>1, <1>2

-----------------------------------------------------------------------------
(* Handlers                                                                *)

Ops == {"none", "init", "keep_alive"}
Workers == [at : {"idle", "ka", "announce", "fail"}, op : Ops,
            resched : BOOLEAN, timer : BOOLEAN]

\* References beyond those that the transport and its worker account for.
Net(s, w) == Excess(s) - One(w.timer)

\* A handler goes from s and w on to its end, or to a report.
Handled(s, w) ==
    /\ Sane(st') /\ Agree(s, st') /\ (HasDefault(s) => HasDefault(st'))
    /\ Net(st', wk') = Net(s, w) /\ wk' \in Workers

LEMMA IdleWorker == Idle \in Workers /\ ~Idle.timer
  BY DEF Idle, Workers, Ops

LEMMA HandlerWorker ==
    ASSUME NEW resched \in BOOLEAN, NEW timer \in BOOLEAN
    PROVE  Handler(resched, timer) \in Workers /\ Handler(resched, timer).timer = timer
  BY DEF Handler, Idle, Workers, Ops

LEMMA EndHandled ==
    ASSUME NEW s, Sane(s), NEW w \in Workers, EndHandler(s, w)
    PROVE  Handled(s, w)
  <1> DEFINE t == IF w.resched THEN start_ka_timer(s) ELSE s
  <1>1. Quiet(s, t)
    BY StartKaQuiet, QuietSame
  <1>2. wk' = Idle /\ st' = IF w.timer THEN DecRef(t) ELSE t
    BY DEF EndHandler
  <1> HIDE DEF t
  <1>3. Excess(s) \in Int /\ Excess(t) = Excess(s) /\ Sane(t)
    BY <1>1, Counts DEF Quiet, Sane
  <1>4. CASE w.timer
    <2>1. /\ Sane(st') /\ Agree(t, st') /\ Excess(st') = Excess(s) - 1
          /\ HasDefault(t) => HasDefault(st')
      BY <1>2, <1>3, <1>4, DecRefSane
    <2> QED BY <1>1, <1>2, <1>3, <1>4, <2>1, IdleWorker DEF Handled, Quiet, Agree, Net, One
  <1>5. CASE ~w.timer
    BY <1>1, <1>2, <1>3, <1>5, IdleWorker DEF Handled, Quiet, Agree, Net, One
  <1> QED BY <1>4, <1>5

LEMMA ReportHandled ==
    ASSUME NEW s, Sane(s), NEW w \in Workers, st' = s,
           wk' \in Workers, wk'.timer = w.timer
    PROVE  Handled(s, w)
  BY DEF Handled, Agree, Net

LEMMA UpdateHandled ==
    ASSUME NEW s, Sane(s), NEW w \in Workers, ThenUpdate(s, w)
    PROVE  Handled(s, w)
  <1>1. CASE EndHandler(s, w)
    BY <1>1, EndHandled
  <1>2. CASE st' = s /\ wk' = [w EXCEPT !.at = "announce"]
    <2>1. wk' \in Workers /\ wk'.timer = w.timer
      BY <1>2 DEF Workers
    <2> QED BY <1>2, <2>1, ReportHandled
  <1> QED BY <1>1, <1>2 DEF ThenUpdate

LEMMA FailHandled ==
    ASSUME NEW s, Sane(s), NEW w \in Workers, NEW op \in Ops, ThenFail(s, w, op)
    PROVE  Handled(s, w)
  <1>1. CASE EndHandler(s, w)
    BY <1>1, EndHandled
  <1>2. CASE st' = s /\ wk' = [w EXCEPT !.at = "fail", !.op = op]
    <2>1. wk' \in Workers /\ wk'.timer = w.timer
      BY <1>2 DEF Workers
    <2> QED BY <1>2, <2>1, ReportHandled
  <1> QED BY <1>1, <1>2 DEF ThenFail

LEMMA HandledAfter ==
    ASSUME NEW s, NEW t, NEW w, Quiet(s, t), Handled(t, w)
    PROVE  Handled(s, w)
  BY DEF Quiet, Handled, Agree, Net

-----------------------------------------------------------------------------
(* The STUN socket                                                         *)

LEMMA HasList ==
    ASSUME NEW s \in TransportSet, NEW type
    PROVE  /\ HasCand(s, type) <=> ListHas(s.cand_list, type)
           /\ HasCand(s, type) =>
                 /\ IndexOf(s, type) \in 0 .. Len(s.cand_list) - 1
                 /\ s.cand_list[IndexOf(s, type) + 1].type = type
  <1> DEFINE n == Len(s.cand_list)
  <1>1. n \in Nat
    BY DEF TransportSet, Lists
  <1>2. ASSUME NEW i \in 0 .. n - 1, s.cand_list[i + 1].type = type
        PROVE  ListHas(s.cand_list, type)
    <2>1. i + 1 \in 1 .. n
      BY <1>1
    <2> QED BY <1>2, <2>1 DEF ListHas
  <1>3. ASSUME NEW k \in 1 .. n, s.cand_list[k].type = type
        PROVE  \E i \in 0 .. n - 1 : s.cand_list[i + 1].type = type
    <2>1. k - 1 \in 0 .. n - 1 /\ (k - 1) + 1 = k
      BY <1>1
    <2> QED BY <1>3, <2>1
  <1>4. HasCand(s, type) <=> \E i \in 0 .. n - 1 : s.cand_list[i + 1].type = type
    BY DEF HasCand, Indexes
  <1>5. HasCand(s, type) => IndexOf(s, type) \in Indexes(s, type)
    BY DEF HasCand, IndexOf
  <1> QED BY <1>2, <1>3, <1>4, <1>5 DEF Indexes, ListHas

\* Exchanging the list for one that has a relay if the old one has.
Relisted(s, t) ==
    /\ Agree(s, t) /\ t.ref_cnt = s.ref_cnt /\ t.stun_sock = s.stun_sock
    /\ t.ka_timer = s.ka_timer /\ t.turn_sock = s.turn_sock /\ t.closing = s.closing
    /\ ListHas(s.cand_list, "relayed") => ListHas(t.cand_list, "relayed")
    /\ s.default_cand < Len(s.cand_list) => t.default_cand < Len(t.cand_list)

LEMMA ListQuiet ==
    ASSUME NEW s, Sane(s), NEW t \in TransportSet, Relisted(s, t)
    PROVE  Quiet(s, t) /\ Relays(t) = Relays(s) /\ t.turn_sock = s.turn_sock
  BY DEF Relisted, Quiet, Sane, Agree, HasDefault, Excess, Relays

LEMMA SetCandQuiet ==
    ASSUME NEW s, Sane(s), NEW type, NEW status \in Statuses
    PROVE  LET t == SetCand(s, type, status)
           IN  /\ Quiet(s, t) /\ Relays(t) = Relays(s) /\ t.turn_sock = s.turn_sock
               /\ Len(t.cand_list) = Len(s.cand_list) /\ t.default_cand = s.default_cand
               /\ t.cfg = s.cfg
               /\ \A y : ListHas(s.cand_list, y) => ListHas(t.cand_list, y)
  <1> DEFINE k == IndexOf(s, type) + 1
             q == WithStatus(s.cand_list, k, status)
             t == [s EXCEPT !.cand_list = q]
  <1>1. s \in TransportSet /\ s.cand_list \in Lists /\ s.default_cand \in Nat
    BY DEF Sane, TransportSet
  <1>2. SetCand(s, type, status) = t
    BY DEF SetCand, WithStatus
  <1>3. /\ q \in Lists /\ Len(q) = Len(s.cand_list)
        /\ \A i \in 1 .. Len(s.cand_list) : q[i].type = s.cand_list[i].type
    BY <1>1, SetList
  <1>4. \A y : ListHas(s.cand_list, y) => ListHas(q, y)
    BY <1>3 DEF ListHas
  <1> HIDE DEF q, k
  <1>5. t \in TransportSet
    BY <1>1, <1>3 DEF TransportSet
  <1>6. /\ Agree(s, t) /\ t.ref_cnt = s.ref_cnt /\ t.stun_sock = s.stun_sock
        /\ t.ka_timer = s.ka_timer /\ t.turn_sock = s.turn_sock /\ t.closing = s.closing
        /\ t.cand_list = q /\ t.default_cand = s.default_cand /\ t.cfg = s.cfg
    BY <1>1 DEF TransportSet, Agree
  <1> HIDE DEF t
  <1>7. Relisted(s, t)
    BY <1>3, <1>4, <1>6 DEF Relisted
  <1> QED BY <1>2, <1>3, <1>4, <1>5, <1>6, <1>7, ListQuiet

LEMMA RemoveSrflxQuiet ==
    ASSUME NEW s, Sane(s), HasCand(s, "srflx"), HasCand(s, "host")
    PROVE  Quiet(s, RemoveSrflx(s))
  <1> DEFINE idx == IndexOf(s, "srflx")
             q == RemoveAt(s.cand_list, idx + 1)
             d == IF s.default_cand > idx THEN s.default_cand - 1
                  ELSE IF s.default_cand = idx THEN 0 ELSE s.default_cand
  <1>1. /\ s \in TransportSet /\ s.cand_list \in Lists /\ s.default_cand \in Nat
        /\ Len(s.cand_list) \in Nat
    BY DEF Sane, TransportSet, Lists
  <1>2. idx \in 0 .. Len(s.cand_list) - 1 /\ s.cand_list[idx + 1].type = "srflx"
    BY <1>1, HasList
  <1>3. PICK h \in 1 .. Len(s.cand_list) : s.cand_list[h].type = "host"
    BY <1>1, HasList DEF ListHas
  <1>4. RemoveSrflx(s) = [s EXCEPT !.cand_list = q, !.default_cand = d]
    BY <1>1 DEF RemoveSrflx, TransportSet
  <1> HIDE DEF idx
  <1>5. idx + 1 \in 1 .. Len(s.cand_list)
    BY <1>1, <1>2
  <1>6. /\ q \in Lists /\ Len(q) = Len(s.cand_list) - 1
        /\ \A y : (\E i \in 1 .. Len(s.cand_list) :
                       i # idx + 1 /\ s.cand_list[i].type = y) => ListHas(q, y)
    BY <1>1, <1>5, RemoveList
  <1> HIDE DEF q
  <1>7. ListHas(s.cand_list, "relayed") => ListHas(q, "relayed")
    BY <1>2, <1>6 DEF ListHas
  <1>8. h # idx + 1
    BY <1>2, <1>3
  <1>9. idx \in Nat /\ idx < Len(s.cand_list) /\ Len(s.cand_list) >= 2
    BY <1>1, <1>2, <1>3, <1>8
  <1>10. d \in Nat /\ (s.default_cand < Len(s.cand_list) => d < Len(q))
    <2> DEFINE n == Len(s.cand_list)
               c == s.default_cand
    <2>1. n \in Nat /\ c \in Nat /\ Len(q) = n - 1 /\ idx < n /\ n >= 2
          /\ d = IF c > idx THEN c - 1 ELSE IF c = idx THEN 0 ELSE c
      BY <1>1, <1>6, <1>9
    <2> HIDE DEF n, d, c
    <2>2. d \in Nat /\ (c < n => d < n - 1)
      BY <1>9, <2>1
    <2> QED BY <2>1, <2>2 DEF n, c
  <1> DEFINE t == [s EXCEPT !.cand_list = q, !.default_cand = d]
  <1> HIDE DEF d
  <1>11. t \in TransportSet
    BY <1>1, <1>6, <1>10 DEF TransportSet
  <1>12. /\ Agree(s, t) /\ t.ref_cnt = s.ref_cnt /\ t.stun_sock = s.stun_sock
         /\ t.ka_timer = s.ka_timer /\ t.turn_sock = s.turn_sock /\ t.closing = s.closing
         /\ t.cand_list = q /\ t.default_cand = d
    BY <1>1 DEF TransportSet, Agree
  <1> HIDE DEF t
  <1>13. Relisted(s, t)
    BY <1>7, <1>10, <1>12 DEF Relisted
  <1> QED BY <1>4, <1>11, <1>13, ListQuiet DEF t

LEMMA AddressHandled ==
    ASSUME NEW s, Sane(s), NEW w \in Workers, HasCand(s, "srflx"), AddressFound(s, w)
    PROVE  Handled(s, w)
  <1>1. CASE s.mapped = "host" /\ HasCand(s, "host")
    <2>1. Quiet(s, RemoveSrflx(s)) /\ ThenUpdate(RemoveSrflx(s), w)
      BY <1>1, RemoveSrflxQuiet DEF AddressFound
    <2> QED BY <2>1, UpdateHandled, HandledAfter DEF Quiet
  <1>2. CASE ~(s.mapped = "host" /\ HasCand(s, "host"))
    <2>1. ThenUpdate(SetCand(s, "srflx", "ok"), w) /\ "ok" \in Statuses
      BY <1>2 DEF AddressFound, Statuses
    <2>2. Quiet(s, SetCand(s, "srflx", "ok"))
      BY <2>1, SetCandQuiet
    <2> QED BY <2>1, <2>2, UpdateHandled, HandledAfter DEF Quiet
  <1> QED BY <1>1, <1>2

\* Another default candidate, of the same list.
LEMMA DefaultQuiet ==
    ASSUME NEW s, Sane(s), NEW d \in Nat,
           s.default_cand < Len(s.cand_list) => d < Len(s.cand_list)
    PROVE  LET t == [s EXCEPT !.default_cand = d]
           IN  Quiet(s, t) /\ Relays(t) = Relays(s) /\ t.turn_sock = s.turn_sock
               /\ t.cand_list = s.cand_list /\ t.default_cand = d
  <1> DEFINE t == [s EXCEPT !.default_cand = d]
  <1>1. t \in TransportSet
    BY DEF Sane, TransportSet
  <1>2. /\ Agree(s, t) /\ t.ref_cnt = s.ref_cnt /\ t.stun_sock = s.stun_sock
        /\ t.ka_timer = s.ka_timer /\ t.turn_sock = s.turn_sock /\ t.closing = s.closing
        /\ t.cand_list = s.cand_list /\ t.default_cand = d
    BY DEF Sane, TransportSet, Agree
  <1> HIDE DEF t
  <1>3. Relisted(s, t)
    BY <1>2 DEF Relisted
  <1> QED BY <1>1, <1>2, <1>3, ListQuiet DEF t

LEMMA FailureHandled ==
    ASSUME NEW s, Sane(s), NEW w \in Workers, HasCand(s, "srflx"), BindingFailed(s, w)
    PROVE  Handled(s, w)
  <1> DEFINE idx == IndexOf(s, "srflx")
             bad == SetCand(s, "srflx", "failed")
             d == IF bad.default_cand # idx THEN bad.default_cand
                  ELSE IF idx = 0 THEN 1 ELSE 0
             t == [bad EXCEPT !.default_cand = d]
  <1>1. /\ Quiet(s, bad) /\ Sane(bad) /\ Len(bad.cand_list) = Len(s.cand_list)
        /\ bad.default_cand \in Nat
    <2>1. "failed" \in Statuses
      BY DEF Statuses
    <2>2. Quiet(s, bad) /\ Len(bad.cand_list) = Len(s.cand_list)
      BY <2>1, SetCandQuiet
    <2> HIDE DEF bad
    <2> QED BY <2>2 DEF Quiet, Sane, TransportSet
  <1>2. CASE ~s.cfg.ignore_stun_error \/ Len(s.cand_list) = 1
    <2>1. ThenFail(bad, w, "init") /\ "init" \in Ops
      BY <1>2 DEF BindingFailed, Ops
    <2> HIDE DEF bad
    <2> QED BY <1>1, <2>1, FailHandled, HandledAfter
  <1>3. CASE ~(~s.cfg.ignore_stun_error \/ Len(s.cand_list) = 1)
    <2>1. ThenUpdate(t, w)
      BY <1>3 DEF BindingFailed
    <2>2. idx \in 0 .. Len(s.cand_list) - 1 /\ Len(s.cand_list) \in Nat
      BY HasList DEF Sane, TransportSet, Lists
    <2> HIDE DEF bad, idx
    <2>3. d \in Nat /\ (bad.default_cand < Len(bad.cand_list) => d < Len(bad.cand_list))
      <3> DEFINE n == Len(s.cand_list)
                 c == bad.default_cand
      <3>1. /\ n \in Nat /\ c \in Nat /\ idx \in 0 .. n - 1 /\ n # 1 /\ Len(bad.cand_list) = n
            /\ d = IF c # idx THEN c ELSE IF idx = 0 THEN 1 ELSE 0
        BY <1>1, <1>3, <2>2
      <3> HIDE DEF n, c, d
      <3>2. d \in Nat /\ (c < n => d < n)
        BY <3>1
      <3> QED BY <3>1, <3>2 DEF c
    <2> HIDE DEF d
    <2>4. Quiet(bad, t)
      BY <1>1, <2>3, DefaultQuiet
    <2> HIDE DEF t
    <2>5. Handled(bad, w)
      BY <2>1, <2>4, UpdateHandled, HandledAfter DEF Quiet
    <2> QED BY <1>1, <2>5, HandledAfter
  <1> QED BY <1>2, <1>3

LEMMA StatusHandled ==
    ASSUME NEW s, Sane(s), NEW w \in Workers, NEW op, NEW ok \in BOOLEAN,
           stun_on_status(op, ok, s, w)
    PROVE  Handled(s, w)
  <1> DEFINE bad == SetCand(s, "srflx", "failed")
  <1>1. "failed" \in Statuses /\ "init" \in Ops
    BY DEF Statuses, Ops
  <1>2. Quiet(s, bad) /\ Sane(bad)
    BY <1>1, SetCandQuiet DEF Quiet
  <1>3. \/ EndHandler(s, w)
        \/ HasCand(s, "srflx") /\ AddressFound(s, w)
        \/ HasCand(s, "srflx") /\ BindingFailed(s, w)
        \/ EndHandler(bad, w)
        \/ ThenFail(bad, w, "init")
    BY DEF stun_on_status
  <1> HIDE DEF bad
  <1>4. CASE EndHandler(bad, w)
    BY <1>2, <1>4, EndHandled, HandledAfter
  <1>5. CASE ThenFail(bad, w, "init")
    BY <1>1, <1>2, <1>5, FailHandled, HandledAfter
  <1> QED BY <1>3, <1>4, <1>5, EndHandled, AddressHandled, FailureHandled

LEMMA MappedHandled ==
    ASSUME NEW s, Sane(s), NEW w \in Workers, NEW sent \in BOOLEAN,
           get_mapped_addr(s, sent, w)
    PROVE  Handled(s, w)
  <1>1. CASE sent /\ s.stun_sock
    <2> DEFINE t == [s EXCEPT !.req = "sent"]
    <2>1. t \in TransportSet /\ Core(s, t)
      BY DEF Sane, TransportSet, Core, Agree
    <2>2. EndHandler(t, w)
      BY <1>1 DEF get_mapped_addr
    <2> HIDE DEF t
    <2>3. Quiet(s, t)
      BY <2>1, CoreQuiet
    <2> QED BY <2>2, <2>3, EndHandled, HandledAfter DEF Quiet
  <1>2. CASE ~(sent /\ s.stun_sock)
    BY <1>2, StatusHandled DEF get_mapped_addr
  <1> QED BY <1>1, <1>2

-----------------------------------------------------------------------------
(* The TURN socket                                                         *)

LEMMA Invalidated ==
    ASSUME NEW s, Sane(s)
    PROVE  LET t == InvalidateRelay(s)
           IN  /\ Quiet(s, t) /\ Relays(t) = Relays(s) /\ t.turn_sock = s.turn_sock
               /\ \A y : ListHas(s.cand_list, y) => ListHas(t.cand_list, y)
               /\ ~HasCand(s, "relayed") => t = s
  <1>1. CASE ~HasCand(s, "relayed")
    BY <1>1, QuietSame DEF InvalidateRelay
  <1>2. CASE HasCand(s, "relayed")
    <2> DEFINE idx == IndexOf(s, "relayed")
               bad == SetCand(s, "relayed", "pending")
               d == IF bad.default_cand # idx THEN bad.default_cand
                    ELSE IF HasCand(s, "srflx") THEN IndexOf(s, "srflx") ELSE 0
               t == [bad EXCEPT !.default_cand = d]
    <2>1. "pending" \in Statuses /\ InvalidateRelay(s) = t
      BY <1>2 DEF Statuses, InvalidateRelay
    <2>2. /\ idx \in 0 .. Len(s.cand_list) - 1 /\ Len(s.cand_list) \in Nat
          /\ HasCand(s, "srflx") => IndexOf(s, "srflx") \in 0 .. Len(s.cand_list) - 1
      BY <1>2, HasList DEF Sane, TransportSet, Lists
    <2>3. /\ Quiet(s, bad) /\ Relays(bad) = Relays(s) /\ bad.turn_sock = s.turn_sock
          /\ Len(bad.cand_list) = Len(s.cand_list) /\ bad.default_cand = s.default_cand
          /\ \A y : ListHas(s.cand_list, y) => ListHas(bad.cand_list, y)
      BY <2>1, SetCandQuiet
    <2> HIDE DEF bad, idx
    <2>4. Sane(bad) /\ bad.default_cand \in Nat
      BY <2>3 DEF Quiet, Sane, TransportSet
    <2>5. d \in Nat /\ (bad.default_cand < Len(bad.cand_list) => d < Len(bad.cand_list))
      BY <2>2, <2>3, <2>4
    <2> HIDE DEF d
    <2>6. /\ Quiet(bad, t) /\ Relays(t) = Relays(bad) /\ t.turn_sock = bad.turn_sock
          /\ t.cand_list = bad.cand_list
      BY <2>4, <2>5, DefaultQuiet
    <2> HIDE DEF t
    <2> QED BY <1>2, <2>1, <2>3, <2>6, QuietTrans
  <1> QED BY <1>1, <1>2

LEMMA TurnAdded ==
    ASSUME NEW s, Sane(s), s.turn_sock = "none", Relays(s) < MaxClosing
    PROVE  LET t == add_update_turn(s)
           IN  /\ Quiet(s, t) /\ Relays(t) = Relays(s) + 1
               /\ ~HasCand(s, "relayed") /\ s.default_cand = 0
                     => t.default_cand < Len(t.cand_list)
  <1> DEFINE i == InvalidateRelay(s)
             x == TurnStarts
             u == [i EXCEPT !.turn_sock = x]
             n == i.ref_cnt + 1
             v == [u EXCEPT !.ref_cnt = n]
             q == IF HasCand(s, "relayed") THEN i.cand_list
                  ELSE Append(i.cand_list, Cand("relayed", "pending"))
             t == IF HasCand(s, "relayed") THEN v ELSE [v EXCEPT !.cand_list = q]
  <1>1. /\ Quiet(s, i) /\ Relays(i) = Relays(s) /\ i.turn_sock = "none"
        /\ \A y : ListHas(s.cand_list, y) => ListHas(i.cand_list, y)
        /\ ~HasCand(s, "relayed") => i = s
    BY Invalidated
  <1>2. x \in {"resolving", "alloc"}
    BY DEF TurnStarts
  <1>3. /\ Sane(i) /\ i \in TransportSet /\ i.cand_list \in Lists /\ i.default_cand \in Nat
        /\ i.ref_cnt \in Int /\ i.closing \in Nat /\ Len(i.cand_list) \in Nat
    <2> HIDE DEF i
    <2> QED BY <1>1 DEF Quiet, Sane, TransportSet, Lists
  <1>4. u.ref_cnt = i.ref_cnt
    <2> HIDE DEF i, x
    <2> QED BY <1>3 DEF TransportSet
  <1>5. add_update_turn(s) = t
    <2>1. AddRef(u) = v
      BY <1>4 DEF AddRef
    <2>2. v.cand_list = i.cand_list
      <3> HIDE DEF i, x, n
      <3> QED BY <1>3 DEF TransportSet
    <2> HIDE DEF v
    <2>3. CASE HasCand(s, "relayed")
      BY <2>1, <2>3 DEF add_update_turn
    <2>4. CASE ~HasCand(s, "relayed")
      BY <2>1, <2>2, <2>4 DEF add_update_turn
    <2> QED BY <2>3, <2>4
  <1>6. q \in Lists /\ Len(q) \in Nat /\ ListHas(q, "relayed")
        /\ Len(q) = Len(i.cand_list) + (IF HasCand(s, "relayed") THEN 0 ELSE 1)
    <2>1. CASE HasCand(s, "relayed")
      <3>1. ListHas(i.cand_list, "relayed")
        BY <1>1, <2>1, HasList DEF Sane
      <3> HIDE DEF i
      <3> QED BY <1>3, <2>1, <3>1
    <2>2. CASE ~HasCand(s, "relayed")
      <3>1. i = s /\ ~ListHas(s.cand_list, "relayed")
        BY <1>1, <2>2, HasList DEF Sane
      <3> HIDE DEF i
      <3> QED BY <1>3, <2>2, <3>1, AppendList
    <2> QED BY <2>1, <2>2
  <1> HIDE DEF i, q, x
  <1>7. n \in Int
    BY <1>3
  <1> HIDE DEF n
  <1>8. v \in TransportSet
    BY <1>2, <1>3, <1>7, ZenonT(30) DEF TransportSet
  <1>9. /\ Agree(i, v) /\ v.cand_list = i.cand_list /\ v.default_cand = i.default_cand
        /\ v.ref_cnt = n /\ v.stun_sock = i.stun_sock /\ v.ka_timer = i.ka_timer
        /\ v.turn_sock = x /\ v.closing = i.closing
    BY <1>3 DEF TransportSet, Agree
  <1> HIDE DEF u, v
  <1>10. t \in TransportSet
    BY <1>6, <1>8 DEF TransportSet
  <1>11. /\ Agree(i, t) /\ t.cand_list = q /\ t.default_cand = i.default_cand
         /\ t.ref_cnt = n /\ t.stun_sock = i.stun_sock /\ t.ka_timer = i.ka_timer
         /\ t.turn_sock = x /\ t.closing = i.closing
    BY <1>8, <1>9 DEF TransportSet, Agree, q
  <1> HIDE DEF t
  <1>12. Relays(t) = Relays(i) + 1 /\ Relays(i) \in Nat
    BY <1>1, <1>2, <1>3, <1>11 DEF Relays, One
  <1>13. Excess(t) = Excess(i)
    BY <1>3, <1>11, <1>12 DEF Excess, Agree, One, n
  <1>14. Sane(t)
    <2>1. Relays(t) <= MaxClosing
      BY <1>1, <1>12, ConfigsAssumption
    <2> QED BY <1>6, <1>10, <1>11, <2>1 DEF Sane
  <1>15. i.default_cand < Len(i.cand_list) => t.default_cand < Len(t.cand_list)
    <2>1. \A c, l, k \in Nat : c < l /\ (k = l + 1 \/ k = l + 0) => c < k
      OBVIOUS
    <2>2. Len(q) = Len(i.cand_list) + 1 \/ Len(q) = Len(i.cand_list) + 0
      BY <1>6
    <2> QED BY <1>3, <1>6, <1>11, <2>1, <2>2
  <1>16. ~HasCand(s, "relayed") /\ s.default_cand = 0 => t.default_cand < Len(t.cand_list)
    BY <1>1, <1>3, <1>6, <1>11
  <1>17. Quiet(i, t)
    BY <1>11, <1>13, <1>14, <1>15 DEF Quiet, HasDefault, Agree
  <1> QED BY <1>1, <1>5, <1>12, <1>16, <1>17, QuietTrans

LEMMA Left ==
    ASSUME NEW s, Sane(s)
    PROVE  LET t == TurnLeaves(s)
           IN  Quiet(s, t) /\ Relays(t) = Relays(s) /\ t.turn_sock = "none"
  <1> DEFINE u == turn_sock_destroy(s)
             n == u.turn_err_cnt + 1
             t == [u EXCEPT !.turn_err_cnt = n]
  <1>1. Quiet(s, u) /\ Relays(u) = Relays(s) /\ u.turn_sock = "none"
    BY TurnSockQuiet
  <1>2. TurnLeaves(s) = t
    BY DEF TurnLeaves
  <1> HIDE DEF u
  <1>3. Sane(u) /\ u \in TransportSet /\ n \in Nat
    BY <1>1 DEF Quiet, Sane, TransportSet
  <1> HIDE DEF n
  <1>4. t \in TransportSet /\ Core(u, t)
    BY <1>3 DEF TransportSet, Core, Agree
  <1> HIDE DEF t
  <1>5. Quiet(u, t) /\ Relays(t) = Relays(u) /\ t.turn_sock = u.turn_sock
    BY <1>3, <1>4, CoreQuiet DEF Core
  <1> QED BY <1>1, <1>2, <1>5, QuietTrans

LEMMA FailsHandled ==
    ASSUME NEW s, Sane(s), Relays(s) < MaxClosing, NEW again \in BOOLEAN,
           TurnFails(s, again)
    PROVE  Handled(s, Idle)
  <1> DEFINE gone == TurnLeaves(s)
             more == add_update_turn(gone)
  <1>1. /\ Quiet(s, gone) /\ Sane(gone) /\ Relays(gone) < MaxClosing
        /\ gone.turn_sock = "none"
    BY Left DEF Quiet
  <1>2. "init" \in Ops /\ "keep_alive" \in Ops /\ Idle \in Workers
    BY IdleWorker DEF Ops
  <1>3. \/ ThenFail(gone, Idle, "init") \/ ThenFail(gone, Idle, "keep_alive")
        \/ EndHandler(more, Idle) \/ ThenFail(TurnLeaves(more), Idle, "keep_alive")
    BY DEF TurnFails
  <1> HIDE DEF gone
  <1>4. Quiet(gone, more) /\ Sane(more)
    BY <1>1, TurnAdded DEF Quiet
  <1> HIDE DEF more
  <1>5. Quiet(more, TurnLeaves(more)) /\ Sane(TurnLeaves(more))
    BY <1>4, Left DEF Quiet
  <1>6. Handled(gone, Idle)
    <2>1. CASE EndHandler(more, Idle)
      BY <1>2, <1>4, <2>1, EndHandled, HandledAfter
    <2>2. CASE ThenFail(TurnLeaves(more), Idle, "keep_alive")
      <3>1. Handled(TurnLeaves(more), Idle)
        BY <1>2, <1>5, <2>2, FailHandled
      <3> QED BY <1>4, <1>5, <3>1, HandledAfter
    <2> QED BY <1>1, <1>2, <1>3, <2>1, <2>2, FailHandled
  <1> QED BY <1>1, <1>6, HandledAfter

-----------------------------------------------------------------------------
(* The invariant                                                           *)

\* Steps of the state and of the session that leave alone what is counted.
Alike(s, t) ==
    /\ t \in TransportSet
    /\ (t.state = "null") = (s.state = "null") /\ (t.ice = "none") = (s.ice = "none")
    /\ t.destroy_req = s.destroy_req /\ t.ref_cnt = s.ref_cnt
    /\ t.cand_list = s.cand_list /\ t.default_cand = s.default_cand
    /\ t.stun_sock = s.stun_sock /\ t.ka_timer = s.ka_timer
    /\ (t.turn_sock = "none") = (s.turn_sock = "none") /\ t.closing = s.closing

LEMMA AlikeSane ==
    ASSUME NEW s, Sane(s), NEW t, Alike(s, t)
    PROVE  Sane(t) /\ Excess(t) = Excess(s) /\ (HasDefault(s) => HasDefault(t))
  BY DEF Alike, Sane, Excess, Relays, HasDefault, One

Blank == /\ st = Transport(st.cfg) /\ st.cfg \in Configs
         /\ wk = Idle /\ call = "none"

\* Negotiated, or stopped or destroyed since then.
Settled(s, c) ==
    s.state = "running" =>
        \/ s.ice = "done" /\ s.outcome = "ok"
        \/ s.ice = "none" /\ (c = "stop" \/ s.destroy_req)

CallSet == {"none", "create", "announce", "init", "start", "started", "stop"}
ToldSet == [init : {"none", "ok", "failed"}, nego : {"none", "ok", "failed"},
            keep_alive : {"none", "failed"}, late : BOOLEAN]

IInv ==
    /\ Sane(st) /\ wk \in Workers /\ Net(st, wk) = 0
    /\ call \in CallSet /\ told \in ToldSet /\ misuse \in BOOLEAN
    /\ st.state = "null" => Blank
    /\ st.state # "null" => HasDefault(st)
    /\ Settled(st, call)
    /\ call = "start" => st.ice \in {"none", "listed"}

\* The steps of a handler, in terms of the transport it starts from.
LEMMA HandledKeeps ==
    ASSUME IInv, st.state # "null", NEW s, Sane(s), s.state # "null",
           Excess(s) = Excess(st), HasDefault(st) => HasDefault(s),
           Settled(s, call), call = "start" => s.ice \in {"none", "listed"},
           Handled(s, wk), told' \in ToldSet, UNCHANGED <<call, misuse>>
    PROVE  IInv'
  BY DEF IInv, Handled, Agree, Net, Settled, HasDefault, Sane, Excess, Relays, TransportSet

LEMMA BlankSane ==
    ASSUME NEW cfg \in Configs
    PROVE  LET t == Transport(cfg)
           IN  /\ Sane(t) /\ Excess(t) = 0 /\ t.state = "null" /\ t.cfg = cfg
               /\ t.ice = "none" /\ t.req = "none" /\ t.turn_sock = "none"
               /\ t.closing = 0 /\ ~t.ka_timer /\ t.ref_cnt = 0
  <1> DEFINE t == Transport(cfg)
  <1>1. <<>> \in Lists
    BY DEF Lists
  <1>2. t \in TransportSet
    BY <1>1 DEF Transport, TransportSet
  <1>3. /\ t.state = "null" /\ t.cfg = cfg /\ t.ice = "none" /\ t.req = "none"
        /\ t.turn_sock = "none" /\ t.closing = 0 /\ t.ka_timer = FALSE /\ t.ref_cnt = 0
        /\ t.stun_sock = FALSE
    BY DEF Transport
  <1> HIDE DEF t
  <1>4. Relays(t) = 0
    BY <1>3 DEF Relays, One
  <1>5. Excess(t) = 0
    <2>1. Excess(t) = 0 - (0 + 0 + 0 + 0 + 0)
      BY <1>3, <1>4 DEF Excess, One
    <2> QED BY <2>1
  <1>6. Relays(t) <= MaxClosing
    BY <1>4, ConfigsAssumption
  <1> QED BY <1>2, <1>3, <1>5, <1>6 DEF Sane, t

LEMMA Starts == Init => IInv
  <1> SUFFICES ASSUME Init PROVE IInv
    OBVIOUS
  <1>1. PICK cfg \in Configs : st = Transport(cfg)
    BY DEF Init
  <1>2. Sane(st) /\ Excess(st) = 0 /\ st.state = "null" /\ st.cfg = cfg
    BY <1>1, BlankSane
  <1>3. wk \in Workers /\ ~wk.timer /\ Net(st, wk) = 0
    <2>1. wk = Idle /\ Idle.timer = FALSE
      BY DEF Init, Idle
    <2>2. Net(st, wk) = 0 - 0
      BY <1>2, <2>1 DEF Net, One
    <2> QED BY <2>1, <2>2, IdleWorker
  <1> QED BY <1>1, <1>2, <1>3 DEF Init, IInv, Blank, Settled, CallSet, ToldSet, NothingTold

\* Nothing happens to a transport before it is created.
LEMMA Created ==
    ASSUME IInv, \/ wk # Idle \/ call # "none" \/ st.req # "none" \/ st.ka_timer
                 \/ st.turn_sock # "none" \/ st.closing > 0 \/ st.ice # "none"
    PROVE  st.state # "null" /\ HasDefault(st)
  BY BlankSane DEF IInv, Blank

LEMMA QuietKeeps ==
    ASSUME IInv, st.state # "null", NEW s, Quiet(st, s), NEW w, w.timer = wk.timer,
           Handled(s, w), told' \in ToldSet, UNCHANGED <<call, misuse>>
    PROVE  IInv'
  <1>1. Handled(s, wk)
    BY DEF Handled, Net
  <1> QED BY <1>1, HandledKeeps DEF IInv, Quiet, Agree, Settled

LEMMA AnnounceKeeps == IInv /\ Announce => IInv'
  <1> SUFFICES ASSUME IInv, Announce PROVE IInv'
    OBVIOUS
  <1> DEFINE s == [st EXCEPT !.cb_called = TRUE, !.state = "ready"]
  <1>1. st.state # "null"
    BY Created DEF Announce, Idle
  <1>2. Alike(st, s) /\ s.state = "ready" /\ s.ice = st.ice
    BY <1>1, ZenonT(30) DEF IInv, Sane, TransportSet, Alike
  <1>3. EndHandler(s, wk) /\ UNCHANGED <<call, misuse>> /\ told' \in ToldSet
    BY DEF Announce, Hears, ToldSet, IInv, Sane, TransportSet
  <1> HIDE DEF s
  <1>4. Sane(s) /\ Excess(s) = Excess(st) /\ (HasDefault(st) => HasDefault(s))
    BY <1>2, AlikeSane DEF IInv
  <1>5. Handled(s, wk)
    BY <1>3, <1>4, EndHandled DEF IInv
  <1> QED BY <1>1, <1>2, <1>3, <1>4, <1>5, HandledKeeps DEF IInv, Settled

LEMMA DestroyedSettled ==
    ASSUME IInv, NEW u, Alike(st, u), u.state # "null",
           Settled(u, call), call = "start" => u.ice \in {"none", "listed"}
    PROVE  LET s == destroy_ice_st(u)
           IN  /\ Sane(s) /\ s.state # "null" /\ Excess(s) = Excess(st) /\ HasDefault(s)
               /\ Settled(s, call) /\ (call = "start" => s.ice \in {"none", "listed"})
  <1> DEFINE s == destroy_ice_st(u)
  <1>1. Sane(u) /\ Excess(u) = Excess(st)
    BY AlikeSane DEF IInv
  <1>2. /\ Sane(s) /\ Excess(s) = Excess(u) /\ s.state = u.state /\ s.destroy_req
        /\ s.ice = "none" \/ s = u
    BY <1>1, DestroyStep
  <1> HIDE DEF s
  <1>3. /\ Sane(s) /\ s.state # "null" /\ Excess(s) = Excess(st) /\ HasDefault(s)
        /\ Settled(s, call) /\ (call = "start" => s.ice \in {"none", "listed"})
    BY <1>1, <1>2 DEF HasDefault, Settled
  <1> QED BY <1>3 DEF s

LEMMA FailKeeps == IInv /\ Fail => IInv'
  <1> SUFFICES ASSUME IInv, Fail PROVE IInv'
    OBVIOUS
  <1> DEFINE u == [st EXCEPT !.cb_called = TRUE]
             s == destroy_ice_st(u)
  <1>1. st.state # "null"
    BY Created DEF Fail, Idle
  <1>2. Alike(st, u) /\ u.state = st.state /\ u.ice = st.ice /\ u.outcome = st.outcome
    BY <1>1, ZenonT(30) DEF IInv, Sane, TransportSet, Alike
  <1>3. EndHandler(s, wk) /\ UNCHANGED <<call, misuse>>
    BY DEF Fail, cb_on_ice_complete
  <1>4. told' \in ToldSet
    <2>1. wk.op \in Ops /\ st.destroy_req \in BOOLEAN /\ told' = Hears(wk.op, "failed", st.destroy_req)
      BY DEF IInv, Workers, Sane, TransportSet, Fail
    <2> QED BY <2>1 DEF Hears, ToldSet, IInv, Ops
  <1> HIDE DEF u
  <1>5. Settled(u, call) /\ (call = "start" => u.ice \in {"none", "listed"})
    BY <1>2 DEF IInv, Settled, Alike
  <1>6. /\ Sane(s) /\ s.state # "null" /\ Excess(s) = Excess(st) /\ HasDefault(s)
        /\ Settled(s, call) /\ (call = "start" => s.ice \in {"none", "listed"})
    BY <1>1, <1>2, <1>5, DestroyedSettled
  <1> HIDE DEF s
  <1>7. Handled(s, wk)
    BY <1>3, <1>6, EndHandled DEF IInv
  <1> QED BY <1>1, <1>3, <1>4, <1>6, <1>7, HandledKeeps

LEMMA AnswerKeeps == ASSUME NEW m \in Mapped PROVE IInv /\ StunAnswer(m) => IInv'
  <1> SUFFICES ASSUME IInv, StunAnswer(m) PROVE IInv'
    OBVIOUS
  <1> DEFINE s == [st EXCEPT !.req = "none", !.mapped = m]
             w == Handler(TRUE, FALSE)
             op == IF st.mapped = "none" THEN "binding"
                   ELSE IF st.mapped = m THEN "keep_alive" ELSE "change"
  <1>1. st.state # "null"
    BY Created DEF StunAnswer
  <1>2. s \in TransportSet /\ Core(st, s)
    BY DEF IInv, Sane, TransportSet, Core, Agree
  <1>3. /\ stun_on_status(op, TRUE, s, w) /\ wk = Idle
        /\ UNCHANGED <<call, misuse>> /\ told' \in ToldSet
    BY DEF StunAnswer, IInv
  <1> HIDE DEF s, op
  <1>4. Quiet(st, s) /\ Sane(s)
    BY <1>2, CoreQuiet DEF IInv, Quiet
  <1>5. w \in Workers /\ w.timer = wk.timer
    BY <1>3, HandlerWorker, IdleWorker DEF Idle
  <1> HIDE DEF w
  <1>6. Handled(s, w)
    BY <1>3, <1>4, <1>5, StatusHandled
  <1> QED BY <1>1, <1>3, <1>4, <1>5, <1>6, QuietKeeps

LEMMA NoAnswerKeeps == IInv /\ StunNoAnswer => IInv'
  <1> SUFFICES ASSUME IInv, StunNoAnswer PROVE IInv'
    OBVIOUS
  <1> DEFINE s == [st EXCEPT !.req = "none"]
             w == Handler(TRUE, FALSE)
             op == IF st.mapped = "none" THEN "binding" ELSE "keep_alive"
  <1>1. st.state # "null"
    BY Created DEF StunNoAnswer
  <1>2. s \in TransportSet /\ Core(st, s)
    BY DEF IInv, Sane, TransportSet, Core, Agree
  <1>3. /\ stun_on_status(op, FALSE, s, w) /\ wk = Idle
        /\ UNCHANGED <<call, misuse>> /\ told' \in ToldSet
    BY DEF StunNoAnswer, IInv
  <1> HIDE DEF s, op
  <1>4. Quiet(st, s) /\ Sane(s)
    BY <1>2, CoreQuiet DEF IInv, Quiet
  <1>5. w \in Workers /\ w.timer = wk.timer
    BY <1>3, HandlerWorker, IdleWorker DEF Idle
  <1> HIDE DEF w
  <1>6. Handled(s, w)
    BY <1>3, <1>4, <1>5, StatusHandled
  <1> QED BY <1>1, <1>3, <1>4, <1>5, <1>6, QuietKeeps

LEMMA ResolvedKeeps == ASSUME NEW sent \in BOOLEAN PROVE IInv /\ StunResolved(sent) => IInv'
  <1> SUFFICES ASSUME IInv, StunResolved(sent) PROVE IInv'
    OBVIOUS
  <1> DEFINE s == [st EXCEPT !.req = "none"]
             w == Handler(FALSE, FALSE)
  <1>1. st.state # "null"
    BY Created DEF StunResolved
  <1>2. s \in TransportSet /\ Core(st, s)
    BY DEF IInv, Sane, TransportSet, Core, Agree
  <1>3. /\ get_mapped_addr(s, sent, w) /\ wk = Idle
        /\ UNCHANGED <<call, misuse>> /\ told' \in ToldSet
    BY DEF StunResolved, IInv
  <1> HIDE DEF s
  <1>4. Quiet(st, s) /\ Sane(s)
    BY <1>2, CoreQuiet DEF IInv, Quiet
  <1>5. w \in Workers /\ w.timer = wk.timer
    BY <1>3, HandlerWorker, IdleWorker DEF Idle
  <1> HIDE DEF w
  <1>6. Handled(s, w)
    BY <1>3, <1>4, <1>5, MappedHandled
  <1> QED BY <1>1, <1>3, <1>4, <1>5, <1>6, QuietKeeps

LEMMA UnresolvedKeeps == IInv /\ StunUnresolved => IInv'
  <1> SUFFICES ASSUME IInv, StunUnresolved PROVE IInv'
    OBVIOUS
  <1> DEFINE s == [st EXCEPT !.req = "none"]
             bad == SetCand(s, "srflx", "failed")
             t == [bad EXCEPT !.unnamed = TRUE]
  <1>1. st.state # "null"
    BY Created DEF StunUnresolved
  <1>2. s \in TransportSet /\ Core(st, s)
    BY DEF IInv, Sane, TransportSet, Core, Agree
  <1>3. /\ EndHandler(t, Idle) \/ ThenFail(bad, Idle, "init")
        /\ wk = Idle /\ UNCHANGED <<call, misuse>> /\ told' \in ToldSet
    BY DEF StunUnresolved, IInv
  <1>4. "init" \in Ops /\ "failed" \in Statuses /\ Idle \in Workers
    BY IdleWorker DEF Ops, Statuses
  <1> HIDE DEF s
  <1>5. Quiet(st, s) /\ Sane(s)
    BY <1>2, CoreQuiet DEF IInv, Quiet
  <1>6. Quiet(s, bad) /\ Sane(bad)
    BY <1>4, <1>5, SetCandQuiet DEF Quiet
  <1> HIDE DEF bad
  <1>7. t \in TransportSet /\ Core(bad, t)
    BY <1>6 DEF Sane, TransportSet, Core, Agree
  <1> HIDE DEF t
  <1>8. Quiet(bad, t) /\ Sane(t)
    BY <1>6, <1>7, CoreQuiet DEF Quiet
  <1>9. Handled(bad, Idle)
    BY <1>3, <1>4, <1>6, <1>8, EndHandled, FailHandled, HandledAfter
  <1>10. Quiet(st, bad)
    BY <1>5, <1>6, QuietTrans
  <1> QED BY <1>1, <1>3, <1>9, <1>10, QuietKeeps

LEMMA KaFiresKeeps == IInv /\ KaFires => IInv'
  <1> SUFFICES ASSUME IInv, KaFires PROVE IInv'
    OBVIOUS
  <1> DEFINE t == [st EXCEPT !.ka_timer = FALSE]
             w == [Handler(FALSE, TRUE) EXCEPT !.at = "ka"]
  <1>1. st.state # "null" /\ HasDefault(st) /\ Sane(st)
    BY Created DEF KaFires, IInv
  <1>2. st' = t /\ wk' = w /\ wk = Idle /\ st.ka_timer /\ UNCHANGED <<call, told, misuse>>
    BY DEF KaFires
  <1>3. t \in TransportSet
    BY <1>1 DEF Sane, TransportSet
  <1>4. /\ Agree(st, t) /\ t.cand_list = st.cand_list /\ t.default_cand = st.default_cand
        /\ t.ref_cnt = st.ref_cnt /\ t.stun_sock = st.stun_sock /\ t.ka_timer = FALSE
        /\ t.turn_sock = st.turn_sock /\ t.closing = st.closing
    BY <1>1 DEF Sane, TransportSet, Agree
  <1>5. w \in Workers /\ w.timer = TRUE /\ Idle.timer = FALSE
    BY DEF Handler, Idle, Workers, Ops
  <1> HIDE DEF t, w
  <1>6. Relays(t) = Relays(st) /\ st.ref_cnt \in Int /\ Relays(st) \in Nat
    BY <1>1, <1>4, Counts DEF Relays, Sane
  <1>7. Sane(t) /\ HasDefault(t)
    BY <1>1, <1>3, <1>4, <1>6 DEF Sane, HasDefault, Agree
  <1>8. Excess(t) = Excess(st) + 1 /\ Excess(st) \in Int
    BY <1>1, <1>2, <1>4, <1>6, Counts DEF Excess, Agree, One, Sane
  <1>9. Net(t, w) = 0
    BY <1>2, <1>5, <1>8 DEF IInv, Net, One
  <1> QED BY <1>1, <1>2, <1>4, <1>5, <1>7, <1>9 DEF IInv, Agree, Settled

LEMMA KaKeeps == ASSUME NEW sent \in BOOLEAN PROVE IInv /\ ka_timer_cb(sent) => IInv'
  <1> SUFFICES ASSUME IInv, ka_timer_cb(sent) PROVE IInv'
    OBVIOUS
  <1>1. st.state # "null"
    BY Created DEF ka_timer_cb, Idle
  <1>2. /\ get_mapped_addr(st, sent, wk) /\ UNCHANGED <<call, misuse>> /\ told' \in ToldSet
        /\ Sane(st) /\ wk \in Workers
    BY DEF ka_timer_cb, IInv
  <1>3. Handled(st, wk) /\ Quiet(st, st)
    BY <1>2, MappedHandled, QuietSame
  <1> QED BY <1>1, <1>2, <1>3, QuietKeeps

\* A step of the transport alone.
LEMMA AlikeKeeps ==
    ASSUME IInv, st.state # "null", Alike(st, st'), Settled(st', call'),
           call' = "start" => st'.ice \in {"none", "listed"}, call' \in CallSet,
           told' \in ToldSet, UNCHANGED <<wk, misuse>>
    PROVE  IInv'
  <1> DEFINE t == st'
  <1>1. Alike(st, t)
    OBVIOUS
  <1> HIDE DEF t
  <1>2. Sane(t) /\ Excess(t) = Excess(st) /\ (HasDefault(st) => HasDefault(t))
    BY <1>1, AlikeSane DEF IInv
  <1>3. t.state # "null"
    BY <1>1 DEF Alike
  <1> QED BY <1>2, <1>3 DEF IInv, Net, t

LEMMA TurnResolvedKeeps == IInv /\ TurnResolved => IInv'
  <1> SUFFICES ASSUME IInv, TurnResolved PROVE IInv'
    OBVIOUS
  <1>1. st.state # "null"
    BY Created DEF TurnResolved
  <1>2. st' = [st EXCEPT !.turn_sock = "alloc"] /\ st.turn_sock = "resolving"
        /\ UNCHANGED <<call, wk, told, misuse>>
    BY DEF TurnResolved
  <1>3. /\ Alike(st, st') /\ st'.state = st.state /\ st'.ice = st.ice
        /\ st'.outcome = st.outcome
    BY <1>2 DEF IInv, Sane, TransportSet, Alike
  <1>4. Settled(st', call')
    BY <1>2, <1>3 DEF Settled, IInv, Alike
  <1> QED BY <1>1, <1>2, <1>3, <1>4, AlikeKeeps DEF IInv

LEMMA TurnReadyKeeps == IInv /\ TurnReady => IInv'
  <1> SUFFICES ASSUME IInv, TurnReady PROVE IInv'
    OBVIOUS
  <1> DEFINE u == SetCand(st, "relayed", "ok")
             d == IndexOf(st, "relayed")
             v == [u EXCEPT !.default_cand = d]
             t == [v EXCEPT !.turn_sock = "ready", !.turn_err_cnt = 0]
  <1>1. st.state # "null" /\ Sane(st) /\ HasDefault(st)
    BY Created DEF TurnReady, IInv
  <1>2. st.turn_sock = "alloc" /\ UNCHANGED <<call, misuse>> /\ told' \in ToldSet /\ wk = Idle
    BY DEF TurnReady, IInv
  <1>3. HasCand(st, "relayed")
    BY <1>1, <1>2, HasList DEF Sane
  <1>4. d \in Nat /\ d < Len(st.cand_list)
    <2>1. d \in 0 .. Len(st.cand_list) - 1 /\ Len(st.cand_list) \in Nat
      BY <1>1, <1>3, HasList DEF Sane, TransportSet, Lists
    <2> HIDE DEF d
    <2> QED BY <2>1
  <1>5. "ok" \in Statuses
    BY DEF Statuses
  <1>6. /\ Quiet(st, u) /\ Sane(u) /\ u.turn_sock = "alloc"
        /\ Len(u.cand_list) = Len(st.cand_list)
    BY <1>1, <1>2, <1>5, SetCandQuiet DEF Quiet
  <1> HIDE DEF d
  <1>7. ThenUpdate(t, Idle)
    <2>1. [u EXCEPT !.turn_sock = "ready", !.turn_err_cnt = 0, !.default_cand = d] = t
      <3>1. u \in TransportSet
        BY <1>6 DEF Sane
      <3> HIDE DEF u
      <3> QED BY <3>1 DEF TransportSet
    <2> QED BY <2>1 DEF TurnReady, d
  <1> HIDE DEF u
  <1>8. Quiet(u, v) /\ Sane(v) /\ v.turn_sock = "alloc"
    BY <1>4, <1>6, DefaultQuiet DEF Quiet
  <1> HIDE DEF v
  <1>9. /\ Alike(v, t) /\ Agree(v, t)
    BY <1>8 DEF Sane, TransportSet, Alike, Agree
  <1> HIDE DEF t
  <1>10. Quiet(v, t) /\ Sane(t)
    BY <1>8, <1>9, AlikeSane DEF Quiet
  <1>11. Quiet(st, t)
    BY <1>6, <1>8, <1>10, QuietTrans
  <1>12. Handled(t, Idle)
    BY <1>7, <1>10, IdleWorker, UpdateHandled
  <1> QED BY <1>1, <1>2, <1>11, <1>12, QuietKeeps

LEMMA TurnUnheardKeeps == IInv /\ TurnUnheard => IInv'
  <1> SUFFICES ASSUME IInv, TurnUnheard PROVE IInv'
    OBVIOUS
  <1> DEFINE u == TurnLeaves(st)
             t == [u EXCEPT !.unnamed = TRUE]
  <1>1. st.state # "null" /\ Sane(st)
    BY Created DEF TurnUnheard, IInv
  <1>2. /\ EndHandler(t, Idle) /\ wk = Idle
        /\ UNCHANGED <<call, misuse>> /\ told' \in ToldSet
    BY DEF TurnUnheard, IInv
  <1>3. Quiet(st, u) /\ Sane(u)
    BY <1>1, Left DEF Quiet
  <1> HIDE DEF u
  <1>4. t \in TransportSet /\ Core(u, t)
    BY <1>3 DEF Sane, TransportSet, Core, Agree
  <1> HIDE DEF t
  <1>5. Quiet(u, t) /\ Sane(t)
    BY <1>3, <1>4, CoreQuiet DEF Quiet
  <1>6. Quiet(st, t)
    BY <1>3, <1>5, QuietTrans
  <1>7. Handled(t, Idle)
    BY <1>2, <1>5, IdleWorker, EndHandled
  <1> QED BY <1>1, <1>2, <1>6, <1>7, QuietKeeps

LEMMA TurnLostKeeps == ASSUME NEW again \in BOOLEAN PROVE IInv /\ TurnLost(again) => IInv'
  <1> SUFFICES ASSUME IInv, TurnLost(again) PROVE IInv'
    OBVIOUS
  <1>1. st.state # "null" /\ Sane(st)
    BY Created DEF TurnLost, IInv
  <1>2. /\ TurnFails(st, again) /\ wk = Idle /\ st.turn_sock # "none"
        /\ st.closing + 1 < MaxClosing
        /\ UNCHANGED <<call, misuse>> /\ told' \in ToldSet
    BY DEF TurnLost, IInv
  <1>3. Relays(st) < MaxClosing
    BY <1>2 DEF Relays, One
  <1>4. Handled(st, Idle) /\ Quiet(st, st)
    BY <1>1, <1>2, <1>3, FailsHandled, QuietSame
  <1> QED BY <1>1, <1>2, <1>4, QuietKeeps

LEMMA TurnClosedKeeps == IInv /\ TurnClosed => IInv'
  <1> SUFFICES ASSUME IInv, TurnClosed PROVE IInv'
    OBVIOUS
  <1> DEFINE n == st.closing - 1
             u == [st EXCEPT !.closing = n]
             t == DecRef(u)
  <1>1. st.state # "null" /\ Sane(st) /\ HasDefault(st) /\ Net(st, wk) = 0
    BY Created DEF TurnClosed, IInv
  <1>2. st' = t /\ st.closing > 0 /\ UNCHANGED <<call, wk, told, misuse>>
    BY DEF TurnClosed
  <1>3. n \in Nat /\ n + 1 = st.closing /\ st.closing \in Nat /\ st.ref_cnt \in Int
        /\ Excess(st) \in Int /\ Relays(st) \in Nat /\ MaxClosing \in Nat
    BY <1>1, <1>2, Counts, ConfigsAssumption DEF Sane
  <1> HIDE DEF n
  <1>4. u \in TransportSet
    BY <1>1, <1>3 DEF Sane, TransportSet
  <1>5. /\ Agree(st, u) /\ u.cand_list = st.cand_list /\ u.default_cand = st.default_cand
        /\ u.ref_cnt = st.ref_cnt /\ u.stun_sock = st.stun_sock /\ u.ka_timer = st.ka_timer
        /\ u.turn_sock = st.turn_sock /\ u.closing = n
    BY <1>1 DEF Sane, TransportSet, Agree
  <1> HIDE DEF u
  <1>6. Relays(u) = Relays(st) - 1
    BY <1>3, <1>5 DEF Relays, One
  <1>7. Excess(u) = Excess(st) + 1
    BY <1>3, <1>5, <1>6 DEF Excess, Agree, One
  <1>8. Sane(u) /\ HasDefault(u)
    <2>1. Relays(u) <= MaxClosing
      BY <1>1, <1>3, <1>6 DEF Sane
    <2> QED BY <1>1, <1>4, <1>5, <2>1 DEF Sane, HasDefault, Agree
  <1>9. Sane(t) /\ Agree(u, t) /\ Excess(t) = Excess(st) /\ HasDefault(t)
    BY <1>3, <1>7, <1>8, DecRefSane
  <1> HIDE DEF t
  <1>10. Net(t, wk) = 0
    BY <1>1, <1>9 DEF Net
  <1> QED BY <1>1, <1>2, <1>5, <1>9, <1>10 DEF IInv, Agree, Settled

LEMMA IceFinishKeeps ==
    ASSUME NEW o \in {"ok", "failed"}, NEW relayed \in BOOLEAN
    PROVE  IInv /\ IceFinish(o, relayed) => IInv'
  <1> SUFFICES ASSUME IInv, IceFinish(o, relayed) PROVE IInv'
    OBVIOUS
  <1>1. st.state # "null"
    BY Created DEF IceFinish
  <1>2. /\ st' = [st EXCEPT !.outcome = o, !.relayed = relayed] /\ st.ice = "started"
        /\ UNCHANGED <<call, wk, told, misuse>>
    BY DEF IceFinish
  <1>3. Alike(st, st') /\ st'.state = st.state /\ st'.ice = st.ice
    BY <1>2 DEF IInv, Sane, TransportSet, Alike
  <1>4. Settled(st', call')
    BY <1>2, <1>3 DEF Settled, IInv
  <1> QED BY <1>1, <1>2, <1>3, <1>4, AlikeKeeps DEF IInv

LEMMA OutcomeSet ==
    ASSUME NEW s \in TransportSet, NEW e \in {"ok", "failed"},
           NEW r \in {"running", "failed"}, NEW a \in BOOLEAN
    PROVE  [s EXCEPT !.ice = "done", !.outcome = e, !.assert_failed = a, !.state = r]
              \in TransportSet
  BY ZenonT(30) DEF TransportSet

LEMMA IceTellKeeps == IInv /\ IceTell => IInv'
  <1> SUFFICES ASSUME IInv, IceTell PROVE IInv'
    OBVIOUS
  <1> DEFINE u == on_ice_complete(st)
  <1>1. st.state # "null" /\ st \in TransportSet
    BY Created DEF IceTell, IInv, Sane
  <1>2. /\ wk = Idle /\ st.ice = "started" /\ UNCHANGED <<call, wk, misuse>>
        /\ told' = Hears("nego", u.outcome, st.destroy_req)
        /\ st' = cb_on_ice_complete(u, u.outcome)
    BY DEF IceTell
  <1>3. /\ u \in TransportSet /\ u.ice = "done" /\ u.outcome \in {"ok", "failed"}
        /\ u.state = IF u.outcome = "ok" THEN "running" ELSE "failed"
    <2> DEFINE unable == (st.outcome = "ok" /\ st.relayed) /\ st.turn_sock # "ready"
               e == IF st.outcome = "ok" /\ ~unable THEN "ok" ELSE "failed"
               r == IF st.outcome = "ok" /\ ~unable THEN "running" ELSE "failed"
               a == st.assert_failed \/ unable
    <2>1. u = [st EXCEPT !.ice = "done", !.outcome = e, !.assert_failed = a, !.state = r]
      BY DEF on_ice_complete
    <2>2. e \in {"ok", "failed"} /\ r = (IF e = "ok" THEN "running" ELSE "failed")
      OBVIOUS
    <2>3. a \in BOOLEAN /\ r \in {"running", "failed"} /\ e \in {"ok", "failed"}
      OBVIOUS
    <2> HIDE DEF u, e, r, a
    <2>5. u \in TransportSet
      BY <1>1, <2>1, <2>3, OutcomeSet
    <2>4. u.ice = "done" /\ u.outcome = e /\ u.state = r
      BY <1>1, <2>1 DEF TransportSet
    <2> QED BY <2>2, <2>4, <2>5
  <1>4. Alike(st, u)
    <2>1. /\ u.destroy_req = st.destroy_req /\ u.ref_cnt = st.ref_cnt
          /\ u.cand_list = st.cand_list /\ u.default_cand = st.default_cand
          /\ u.stun_sock = st.stun_sock /\ u.ka_timer = st.ka_timer
          /\ u.turn_sock = st.turn_sock /\ u.closing = st.closing
      BY <1>1 DEF on_ice_complete, TransportSet
    <2> HIDE DEF u
    <2> QED BY <1>1, <1>2, <1>3, <2>1 DEF Alike
  <1> HIDE DEF u
  <1>5. told' \in ToldSet /\ call # "start" /\ u.state # "null"
    BY <1>1, <1>2, <1>3 DEF Hears, ToldSet, IInv, TransportSet
  <1>6. Settled(u, call)
    BY <1>3 DEF Settled
  <1>7. CASE u.outcome = "ok"
    <2>1. st' = u
      BY <1>2, <1>7 DEF cb_on_ice_complete
    <2> QED BY <1>1, <1>2, <1>4, <1>5, <1>6, <2>1, AlikeKeeps DEF IInv
  <1>8. CASE u.outcome # "ok"
    <2>1. st' = destroy_ice_st(u)
      BY <1>2, <1>8 DEF cb_on_ice_complete
    <2>2. /\ Sane(st') /\ st'.state # "null" /\ Excess(st') = Excess(st)
          /\ HasDefault(st') /\ Settled(st', call)
      BY <1>4, <1>5, <1>6, <2>1, DestroyedSettled
    <2> QED BY <1>2, <1>5, <2>2 DEF IInv, Net
  <1> QED BY <1>7, <1>8

-----------------------------------------------------------------------------
(* The functions that the application calls                                *)

LEMMA CreatedList ==
    ASSUME NEW cfg \in Configs
    PROVE  LET q == (IF cfg.stun THEN <<Cand("srflx", "pending")>> ELSE <<>>)
                    \o (IF cfg.host THEN <<Cand("host", "ok")>> ELSE <<>>)
           IN  /\ q \in Lists /\ ~ListHas(q, "relayed")
               /\ cfg.stun \/ cfg.host => Len(q) > 0
  <1> DEFINE a == Cand("srflx", "pending")
             b == Cand("host", "ok")
             q == (IF cfg.stun THEN <<a>> ELSE <<>>) \o (IF cfg.host THEN <<b>> ELSE <<>>)
  <1>1. a \in CandSet /\ b \in CandSet /\ a.type = "srflx" /\ b.type = "host"
    BY DEF Cand, CandSet, CandTypes, Statuses
  <1> HIDE DEF a, b
  <1>2. CASE cfg.stun /\ cfg.host
    <2>1. q = <<a>> \o <<b>>
      BY <1>2
    <2>2. q \in Seq(CandSet) /\ Len(q) = 2 /\ q[1] = a /\ q[2] = b
      BY <1>1, <2>1
    <2> HIDE DEF q
    <2>3. q \in Lists /\ ~ListHas(q, "relayed") /\ (cfg.stun \/ cfg.host => Len(q) > 0)
      <3>1. \A i \in 1 .. Len(q) : i = 1 \/ i = 2
        BY <2>2
      <3>2. \A i, j \in 1 .. Len(q) : q[i].type = q[j].type => i = j
        BY <1>1, <2>2, <3>1
      <3>3. \A k \in 1 .. Len(q) : q[k].type # "relayed"
        BY <1>1, <2>2, <3>1
      <3>4. ~ListHas(q, "relayed")
        BY <3>3 DEF ListHas
      <3>5. q \in Lists
        BY <2>2, <3>2 DEF Lists
      <3>6. Len(q) > 0
        BY <2>2
      <3> QED BY <3>4, <3>5, <3>6
    <2> QED BY <2>3 DEF a, b, q
  <1>3. CASE cfg.stun /\ ~cfg.host
    <2>1. q = <<a>>
      BY <1>3
    <2> HIDE DEF q
    <2>2. q \in Lists /\ ~ListHas(q, "relayed") /\ (cfg.stun \/ cfg.host => Len(q) > 0)
      BY <1>1, <1>3, <2>1 DEF Lists, ListHas
    <2> QED BY <2>2 DEF a, b, q
  <1>4. CASE ~cfg.stun /\ cfg.host
    <2>1. q = <<b>>
      BY <1>4
    <2> HIDE DEF q
    <2>2. q \in Lists /\ ~ListHas(q, "relayed") /\ (cfg.stun \/ cfg.host => Len(q) > 0)
      BY <1>1, <1>4, <2>1 DEF Lists, ListHas
    <2> QED BY <2>2 DEF a, b, q
  <1>5. CASE ~cfg.stun /\ ~cfg.host
    <2>1. q = <<>>
      BY <1>5
    <2> HIDE DEF q
    <2>2. q \in Lists /\ ~ListHas(q, "relayed") /\ (cfg.stun \/ cfg.host => Len(q) > 0)
      BY <1>1, <1>5, <2>1 DEF Lists, ListHas
    <2> QED BY <2>2 DEF a, b, q
  <1> QED BY <1>2, <1>3, <1>4, <1>5

LEMMA CompSet ==
    ASSUME NEW s \in TransportSet, NEW sock \in BOOLEAN, NEW n \in Int,
           NEW x \in {"none", "dns", "sent"}, NEW q \in Lists
    PROVE  [s EXCEPT !.state = "init", !.stun_sock = sock, !.ref_cnt = n,
                     !.req = x, !.cand_list = q] \in TransportSet
  BY ZenonT(30) DEF TransportSet

LEMMA CompCreated ==
    ASSUME NEW cfg \in Configs
    PROVE  LET s == create_comp(cfg)
           IN  /\ Sane(s) /\ Excess(s) = 0 /\ s.state = "init" /\ s.ice = "none"
               /\ s.turn_sock = "none" /\ Relays(s) = 0 /\ s.default_cand = 0
               /\ ~HasCand(s, "relayed") /\ s.destroy_req = FALSE
               /\ ~cfg.turn => HasDefault(s)
  <1> DEFINE sock == cfg.stun \/ cfg.host
             n == IF sock THEN 2 ELSE 1
             x == IF cfg.stun THEN Request ELSE "none"
             q == (IF cfg.stun THEN <<Cand("srflx", "pending")>> ELSE <<>>)
                  \o (IF cfg.host THEN <<Cand("host", "ok")>> ELSE <<>>)
             t == Transport(cfg)
             s == [t EXCEPT !.state = "init", !.stun_sock = sock, !.ref_cnt = n,
                            !.req = x, !.cand_list = q]
  <1>1. create_comp(cfg) = s
    BY DEF create_comp
  <1>2. /\ q \in Lists /\ ~ListHas(q, "relayed") /\ (sock => Len(q) > 0)
    BY CreatedList
  <1>3. n = (IF sock THEN 2 ELSE 1) /\ (~cfg.turn => sock)
    BY ConfigsAssumption
  <1>12. x \in {"none", "dns", "sent"} /\ sock \in BOOLEAN /\ n \in Int
    BY DEF Request
  <1> HIDE DEF q, n, x, sock
  <1>4. t \in TransportSet /\ t = Transport(cfg)
    BY BlankSane DEF Sane
  <1>5. /\ t.ice = "none" /\ t.turn_sock = "none" /\ t.closing = 0 /\ t.ka_timer = FALSE
        /\ t.default_cand = 0 /\ t.destroy_req = FALSE
    BY DEF Transport
  <1> HIDE DEF t
  <1>6. s \in TransportSet
    BY <1>2, <1>4, <1>12, CompSet
  <1>7. /\ s.state = "init" /\ s.ice = "none" /\ s.turn_sock = "none" /\ s.closing = 0
        /\ s.ka_timer = FALSE /\ s.default_cand = 0 /\ s.destroy_req = FALSE
        /\ s.ref_cnt = n /\ s.stun_sock = sock /\ s.cand_list = q
    BY <1>4, <1>5 DEF TransportSet
  <1> HIDE DEF s
  <1>8. Relays(s) = 0 /\ 0 <= MaxClosing
    BY <1>7, ConfigsAssumption DEF Relays, One
  <1>9. Excess(s) = 0
    <2>1. CASE sock
      <3>1. Excess(s) = 2 - (1 + 1 + 0 + 0 + 0)
        BY <1>3, <1>7, <1>8, <2>1 DEF Excess, One
      <3> QED BY <3>1
    <2>2. CASE ~sock
      <3>1. Excess(s) = 1 - (1 + 0 + 0 + 0 + 0)
        BY <1>3, <1>7, <1>8, <2>2 DEF Excess, One
      <3> QED BY <3>1
    <2> QED BY <2>1, <2>2
  <1>10. Sane(s) /\ ~HasCand(s, "relayed")
    BY <1>2, <1>6, <1>7, <1>8, HasList DEF Sane
  <1>11. ~cfg.turn => HasDefault(s)
    <2>1. Len(q) \in Nat
      BY <1>2 DEF Lists
    <2> QED BY <1>2, <1>3, <1>7, <2>1 DEF HasDefault
  <1> QED BY <1>1, <1>7, <1>8, <1>9, <1>10, <1>11

LEMMA CreateKeeps == ASSUME NEW cfg \in Configs PROVE IInv /\ Create(cfg) => IInv'
  <1> SUFFICES ASSUME IInv, Create(cfg) PROVE IInv'
    OBVIOUS
  <1> DEFINE s == create_comp(cfg)
             t == IF cfg.turn THEN add_update_turn(s) ELSE s
  <1>1. /\ st' = t /\ wk = Idle /\ wk' = wk /\ call' = "create" /\ told' = NothingTold
        /\ misuse' = misuse
    BY DEF Create
  <1>2. /\ Sane(s) /\ Excess(s) = 0 /\ s.state = "init" /\ s.ice = "none"
        /\ s.turn_sock = "none" /\ Relays(s) = 0 /\ s.default_cand = 0
        /\ ~HasCand(s, "relayed") /\ (~cfg.turn => HasDefault(s))
    BY CompCreated
  <1> HIDE DEF s
  <1>3. Sane(t) /\ Excess(t) = 0 /\ t.state = "init" /\ HasDefault(t)
    <2>1. CASE cfg.turn
      <3>1. Relays(s) < MaxClosing
        BY <1>2, ConfigsAssumption
      <3> QED BY <1>2, <2>1, <3>1, TurnAdded DEF Quiet, Agree, HasDefault
    <2>2. CASE ~cfg.turn
      BY <1>2, <2>2
    <2> QED BY <2>1, <2>2
  <1> HIDE DEF t
  <1>4. told' \in ToldSet
    BY <1>1 DEF NothingTold, ToldSet
  <1>5. Net(t, wk) = 0
    <2>1. Idle.timer = FALSE
      BY DEF Idle
    <2>2. Net(t, Idle) = 0 - 0
      BY <1>3, <2>1 DEF Net, One
    <2> QED BY <1>1, <2>2
  <1> QED BY <1>1, <1>3, <1>4, <1>5 DEF IInv, Settled, CallSet

\* A relay that could not be requested is given back before it is a candidate.
LEMMA RefusedRelay ==
    ASSUME NEW c, Sane(c), c.turn_sock = "none", Relays(c) = 0,
           NEW x \in {"resolving", "alloc"}
    PROVE  LET t == [TurnLeaves([c EXCEPT !.turn_sock = x, !.ref_cnt = @ + 1])
                       EXCEPT !.cb_called = TRUE]
           IN  Sane(t) /\ Excess(t) = Excess(c) /\ t.state = c.state /\ t.ice = c.ice
               /\ t.destroy_req = c.destroy_req
  <1> DEFINE n == c.ref_cnt + 1
             m == c.closing + 1
             k == c.turn_err_cnt + 1
             u == [c EXCEPT !.turn_sock = x, !.ref_cnt = n]
             v == [u EXCEPT !.turn_sock = "none", !.closing = m]
             w == [v EXCEPT !.turn_err_cnt = k]
             t == [w EXCEPT !.cb_called = TRUE]
  <1>1. c \in TransportSet /\ n \in Int /\ m \in Nat /\ k \in Nat /\ c.ref_cnt \in Int
        /\ c.closing \in Nat /\ Excess(c) \in Int
    BY Counts DEF Sane, TransportSet
  <1>2. u = [c EXCEPT !.turn_sock = x, !.ref_cnt = @ + 1]
    BY <1>1 DEF TransportSet
  <1> HIDE DEF n
  <1>3. /\ u \in TransportSet /\ u.turn_sock # "none" /\ u.closing = c.closing
        /\ u.turn_err_cnt = c.turn_err_cnt
    <2>1. u \in TransportSet
      BY <1>1 DEF TransportSet
    <2>2. u.turn_sock = x /\ u.closing = c.closing /\ u.turn_err_cnt = c.turn_err_cnt
      BY <1>1 DEF TransportSet
    <2> QED BY <2>1, <2>2
  <1>4. turn_sock_destroy(u) = v
    <2> HIDE DEF u
    <2> QED BY <1>3 DEF turn_sock_destroy
  <1>5. v.turn_err_cnt = c.turn_err_cnt /\ v \in TransportSet
    <2> HIDE DEF u, m
    <2>1. v.turn_err_cnt = c.turn_err_cnt
      BY <1>3 DEF TransportSet
    <2>2. v \in TransportSet
      BY <1>1, <1>3, ZenonT(30) DEF TransportSet
    <2> QED BY <2>1, <2>2
  <1>6. TurnLeaves(u) = w
    <2> HIDE DEF v, u
    <2> QED BY <1>4, <1>5 DEF TurnLeaves
  <1> HIDE DEF m, k
  <1>7. /\ u.state = c.state /\ u.ice = c.ice /\ u.destroy_req = c.destroy_req
        /\ u.cand_list = c.cand_list /\ u.stun_sock = c.stun_sock
        /\ u.ka_timer = c.ka_timer /\ u.ref_cnt = n
    BY <1>1 DEF TransportSet
  <1> HIDE DEF u
  <1>8. /\ v.state = c.state /\ v.ice = c.ice /\ v.destroy_req = c.destroy_req
        /\ v.cand_list = c.cand_list /\ v.stun_sock = c.stun_sock
        /\ v.ka_timer = c.ka_timer /\ v.ref_cnt = n
        /\ v.turn_sock = "none" /\ v.closing = m
    BY <1>3, <1>7 DEF TransportSet
  <1> HIDE DEF v
  <1>9. t \in TransportSet
    BY <1>1, <1>5 DEF TransportSet
  <1>10. /\ t.state = c.state /\ t.ice = c.ice /\ t.destroy_req = c.destroy_req
         /\ t.cand_list = c.cand_list /\ t.stun_sock = c.stun_sock
         /\ t.ka_timer = c.ka_timer /\ t.ref_cnt = n
         /\ t.turn_sock = "none" /\ t.closing = m
    BY <1>5, <1>8 DEF TransportSet
  <1>11. [TurnLeaves([c EXCEPT !.turn_sock = x, !.ref_cnt = @ + 1]) EXCEPT !.cb_called = TRUE] = t
    BY <1>2, <1>6
  <1> HIDE DEF t
  <1>12. Relays(t) = Relays(c) + 1
    BY <1>1, <1>10 DEF Relays, One, m
  <1>13. Excess(t) = Excess(c)
    BY <1>1, <1>10, <1>12 DEF Excess, One, n
  <1>14. Relays(t) <= MaxClosing
    BY <1>12, ConfigsAssumption
  <1>15. Sane(t)
    BY <1>9, <1>10, <1>14 DEF Sane
  <1> QED BY <1>10, <1>11, <1>13, <1>15

LEMMA RefusedKeeps ==
    ASSUME NEW cfg \in Configs PROVE IInv /\ CreateWithoutRelay(cfg) => IInv'
  <1> SUFFICES ASSUME IInv, CreateWithoutRelay(cfg) PROVE IInv'
    OBVIOUS
  <1> DEFINE c == create_comp(cfg)
             lost == [TurnLeaves([c EXCEPT !.turn_sock = TurnStarts, !.ref_cnt = @ + 1])
                        EXCEPT !.cb_called = TRUE]
             t == destroy_ice_st(lost)
  <1>1. /\ st' = t /\ wk = Idle /\ wk' = wk /\ call' = "create" /\ misuse' = misuse
        /\ told' = [NothingTold EXCEPT !.init = "failed"]
    BY DEF CreateWithoutRelay, cb_on_ice_complete
  <1>2. /\ Sane(c) /\ Excess(c) = 0 /\ c.state = "init" /\ c.ice = "none"
        /\ c.turn_sock = "none" /\ Relays(c) = 0 /\ c.destroy_req = FALSE
    BY CompCreated
  <1>3. TurnStarts \in {"resolving", "alloc"}
    BY DEF TurnStarts
  <1> HIDE DEF c
  <1>4. /\ Sane(lost) /\ Excess(lost) = 0 /\ lost.state = "init"
        /\ lost.destroy_req = FALSE
    BY <1>2, <1>3, RefusedRelay
  <1> HIDE DEF lost
  <1>5. Sane(t) /\ Excess(t) = 0 /\ t.state = "init" /\ HasDefault(t)
    BY <1>4, DestroyStep DEF HasDefault
  <1> HIDE DEF t
  <1>6. told' \in ToldSet
    BY <1>1 DEF NothingTold, ToldSet
  <1>7. Net(t, wk) = 0
    <2>1. Idle.timer = FALSE
      BY DEF Idle
    <2>2. Net(t, Idle) = 0 - 0
      BY <1>5, <2>1 DEF Net, One
    <2> QED BY <1>1, <2>2
  <1> QED BY <1>1, <1>5, <1>6, <1>7 DEF IInv, Settled, CallSet

\* What is not destroyed is not freed.
LEMMA Referenced ==
    ASSUME IInv
    PROVE  st.ref_cnt \in Nat /\ (st.state # "null" /\ ~st.destroy_req => st.ref_cnt >= 1)
  <1> DEFINE a == One(st.state # "null" /\ ~st.destroy_req)
             b == One(st.stun_sock)
             c == One(st.ka_timer)
             d == One(st.ice # "none")
             e == One(wk.timer)
  <1>1. /\ a \in Nat /\ b \in Nat /\ c \in Nat /\ d \in Nat /\ e \in Nat
        /\ st.state # "null" /\ ~st.destroy_req => a = 1
    BY DEF One
  <1>2. Relays(st) \in Nat /\ st.ref_cnt \in Int
    BY Counts DEF IInv, Sane
  <1>3. (st.ref_cnt - (a + b + c + d + Relays(st))) - e = 0
    BY DEF IInv, Net, Excess
  <1> HIDE DEF a, b, c, d, e
  <1>4. st.ref_cnt = a + b + c + d + e + Relays(st)
    BY <1>1, <1>2, <1>3
  <1> QED BY <1>1, <1>2, <1>4

\* A function goes on or returns without touching the transport.
LEMMA CallKeeps ==
    ASSUME IInv, st.state # "null", UNCHANGED <<st, wk, told>>, misuse' \in BOOLEAN,
           call' \in CallSet, call' # "start", Settled(st, call')
    PROVE  IInv'
  BY DEF IInv

LEMMA UpdateKeeps == IInv /\ CreateUpdate => IInv'
  <1> SUFFICES ASSUME IInv, CreateUpdate PROVE IInv'
    OBVIOUS
  <1>1. st.state # "null"
    BY Created DEF CreateUpdate
  <1>2. /\ UNCHANGED <<st, wk, told, misuse>> /\ call' \in {"announce", "none"}
        /\ call = "create"
    BY DEF CreateUpdate
  <1> QED BY <1>1, <1>2, CallKeeps DEF IInv, Settled, CallSet

LEMMA AnnouncedKeeps == IInv /\ CreateAnnounce => IInv'
  <1> SUFFICES ASSUME IInv, CreateAnnounce PROVE IInv'
    OBVIOUS
  <1>1. st.state # "null"
    BY Created DEF CreateAnnounce
  <1>2. /\ st' = [st EXCEPT !.cb_called = TRUE, !.state = "ready"] /\ call' = "none"
        /\ told' = Hears("init", "ok", FALSE) /\ UNCHANGED <<wk, misuse>>
    BY DEF CreateAnnounce
  <1>3. Alike(st, st') /\ st'.state = "ready" /\ told' \in ToldSet
    BY <1>1, <1>2, ZenonT(30) DEF IInv, Sane, TransportSet, Alike, Hears, ToldSet
  <1> QED BY <1>1, <1>2, <1>3, AlikeKeeps DEF Settled, CallSet

\* A step that sets the state, at the return of a function.
LEMMA StateKeeps ==
    ASSUME IInv, st.state # "null", NEW x \in {"init", "sess_ready", "nego"},
           st' = [st EXCEPT !.state = x], call' = "none", UNCHANGED <<wk, told, misuse>>
    PROVE  IInv'
  <1>1. Alike(st, st') /\ st'.state = x
    BY DEF IInv, Sane, TransportSet, Alike
  <1> QED BY <1>1, AlikeKeeps DEF Settled, CallSet, IInv

LEMMA InitIceKeeps == IInv /\ InitIce => IInv'
  <1> SUFFICES ASSUME IInv, InitIce PROVE IInv'
    OBVIOUS
  <1> DEFINE q == Types(st, "ok")
             u == [st EXCEPT !.ice = "created", !.offered = q]
             t == AddRef(u)
  <1>1. /\ st' = t /\ call' = "init" /\ UNCHANGED <<wk, told, misuse>> /\ st.ice = "none"
        /\ st.state # "null" /\ ~st.destroy_req /\ call = "none" /\ Sane(st)
        /\ HasDefault(st) /\ Net(st, wk) = 0 /\ st.state # "running"
    BY DEF InitIce, Calls, IInv, Settled
  <1>2. q \subseteq CandTypes
    BY DEF Types, CandTypes
  <1> HIDE DEF q
  <1>3. u \in TransportSet
    BY <1>1, <1>2 DEF Sane, TransportSet
  <1>4. /\ u.state = st.state /\ u.destroy_req = st.destroy_req /\ u.ice = "created"
        /\ u.cand_list = st.cand_list /\ u.default_cand = st.default_cand
        /\ u.ref_cnt = st.ref_cnt /\ u.stun_sock = st.stun_sock /\ u.ka_timer = st.ka_timer
        /\ u.turn_sock = st.turn_sock /\ u.closing = st.closing
    BY <1>1 DEF Sane, TransportSet
  <1> HIDE DEF u
  <1>5. Relays(u) = Relays(st) /\ st.ref_cnt \in Int /\ Relays(st) \in Nat
        /\ Excess(st) \in Int
    BY <1>1, <1>4, Counts DEF Relays, Sane
  <1>6. Excess(u) = Excess(st) - 1
    BY <1>1, <1>4, <1>5 DEF Excess, One
  <1>7. Sane(u) /\ HasDefault(u)
    BY <1>1, <1>3, <1>4, <1>5 DEF Sane, HasDefault
  <1>8. Sane(t) /\ Agree(u, t) /\ Excess(t) = Excess(st) /\ HasDefault(t)
    BY <1>5, <1>6, <1>7, AddRefSane
  <1> HIDE DEF t
  <1>9. Net(t, wk) = 0 /\ t.state = st.state
    BY <1>1, <1>4, <1>8 DEF Net, Agree
  <1> QED BY <1>1, <1>8, <1>9 DEF IInv, Settled, CallSet

LEMMA StartIceKeeps == IInv /\ StartIce => IInv'
  <1> SUFFICES ASSUME IInv, StartIce PROVE IInv'
    OBVIOUS
  <1>1. st.state # "null"
    BY DEF StartIce, Calls
  <1>2. /\ st' = [st EXCEPT !.ice = "listed"] /\ st.ice = "created" /\ call' = "start"
        /\ UNCHANGED <<wk, told, misuse>>
    BY DEF StartIce
  <1>3. Alike(st, st') /\ st'.ice = "listed" /\ st'.state = st.state
    BY <1>2 DEF IInv, Sane, TransportSet, Alike
  <1> QED BY <1>1, <1>2, <1>3, AlikeKeeps DEF Settled, CallSet, IInv

\* The session is gone, and the function has yet to return.
LEMMA StoppedKeeps ==
    ASSUME IInv, st.state # "null", NEW u, Alike(st, u), st' = sess_destroy(u),
           call' = "stop", UNCHANGED <<wk, told, misuse>>
    PROVE  IInv'
  <1> DEFINE t == sess_destroy(u)
  <1>1. /\ Sane(u) /\ Excess(u) = Excess(st) /\ HasDefault(u) /\ u.state # "null"
    BY AlikeSane DEF IInv, Alike
  <1>2. /\ Sane(t) /\ Excess(t) = Excess(st) /\ HasDefault(t) /\ t.ice = "none"
        /\ t.state # "null"
    BY <1>1, SessDestroyed
  <1> HIDE DEF t
  <1>3. st' = t
    BY DEF t
  <1> QED BY <1>2, <1>3 DEF IInv, Settled, Net, CallSet

LEMMA StartCheckKeeps == ASSUME NEW ok \in BOOLEAN PROVE IInv /\ StartCheck(ok) => IInv'
  <1> SUFFICES ASSUME IInv, StartCheck(ok) PROVE IInv'
    OBVIOUS
  <1>1. st.state # "null"
    BY Created DEF StartCheck
  <1>2. call = "start" /\ UNCHANGED <<wk, told, misuse>> /\ st.ice \in {"none", "listed"}
    BY DEF StartCheck, IInv
  <1>3. CASE st.ice = "none"
    <2>1. st' = [st EXCEPT !.assert_failed = TRUE] /\ call' = "stop"
      BY <1>3 DEF StartCheck
    <2>2. Alike(st, st') /\ st'.ice = "none"
      BY <1>3, <2>1 DEF IInv, Sane, TransportSet, Alike
    <2> QED BY <1>1, <1>2, <2>1, <2>2, AlikeKeeps DEF Settled, CallSet, IInv
  <1>4. CASE st.ice # "none" /\ ok
    <2>1. st' = [st EXCEPT !.ice = "started"] /\ call' = "started"
      BY <1>4 DEF StartCheck
    <2>2. Alike(st, st') /\ st'.state = st.state
      BY <1>4, <2>1 DEF IInv, Sane, TransportSet, Alike
    <2> QED BY <1>1, <1>2, <1>4, <2>1, <2>2, AlikeKeeps DEF Settled, CallSet, IInv
  <1>5. CASE st.ice # "none" /\ ~ok
    <2> DEFINE a == st.assert_failed \/ st.offered = {}
               u == [st EXCEPT !.assert_failed = a]
    <2>1. st' = sess_destroy(u) /\ call' = "stop"
      <3>1. u = [st EXCEPT !.assert_failed = @ \/ st.offered = {}]
        BY DEF IInv, Sane, TransportSet
      <3> HIDE DEF u
      <3> QED BY <1>5, <3>1 DEF StartCheck
    <2>2. a \in BOOLEAN
      OBVIOUS
    <2> HIDE DEF a
    <2>3. Alike(st, u)
      BY <2>2 DEF IInv, Sane, TransportSet, Alike
    <2> HIDE DEF u
    <2> QED BY <1>1, <1>2, <2>1, <2>3, StoppedKeeps
  <1> QED BY <1>3, <1>4, <1>5

LEMMA StopIceKeeps == IInv /\ StopIce => IInv'
  <1> SUFFICES ASSUME IInv, StopIce PROVE IInv'
    OBVIOUS
  <1>1. /\ st.state # "null" /\ st' = sess_destroy(st) /\ call' = "stop"
        /\ UNCHANGED <<wk, told, misuse>>
    BY DEF StopIce, Calls
  <1>2. Alike(st, st)
    BY DEF IInv, Sane, Alike
  <1> QED BY <1>1, <1>2, StoppedKeeps

LEMMA DestroyKeeps == IInv /\ Destroy => IInv'
  <1> SUFFICES ASSUME IInv, Destroy PROVE IInv'
    OBVIOUS
  <1>1. /\ st.state # "null" /\ st' = destroy_ice_st(st) /\ call = "none"
        /\ UNCHANGED <<call, wk, told, misuse>>
    BY DEF Destroy, Calls
  <1>2. Alike(st, st) /\ Settled(st, call)
    BY DEF IInv, Sane, Alike
  <1>3. /\ Sane(st') /\ st'.state # "null" /\ Excess(st') = Excess(st)
        /\ HasDefault(st') /\ Settled(st', call)
    BY <1>1, <1>2, DestroyedSettled
  <1> QED BY <1>1, <1>3 DEF IInv, Net

LEMMA DanglesKeeps == IInv /\ Dangles => IInv'
  <1> SUFFICES ASSUME IInv, Dangles PROVE IInv'
    OBVIOUS
  <1>1. /\ st.state # "null" /\ st.ref_cnt = 0 /\ misuse' = TRUE /\ call' = "none"
        /\ UNCHANGED <<st, wk, told>>
    BY DEF Dangles, Freed
  <1>2. st.destroy_req
    BY <1>1, Referenced DEF IInv, Sane, TransportSet
  <1> QED BY <1>1, <1>2, CallKeeps DEF IInv, Settled, CallSet

LEMMA SameKeeps ==
    ASSUME IInv, UNCHANGED <<st, call, wk, told>>, misuse' \in BOOLEAN
    PROVE  IInv'
  BY DEF IInv, Blank

LEMMA WorkerKeeps == IInv /\ WorkerNext => IInv'
  <1> SUFFICES ASSUME IInv, WorkerNext PROVE IInv'
    OBVIOUS
  <1>1. CASE Announce \/ Fail \/ KaFires
    BY <1>1, AnnounceKeeps, FailKeeps, KaFiresKeeps
  <1>2. CASE StunEnds
    BY <1>2, AnswerKeeps, NoAnswerKeeps DEF StunEnds
  <1>3. CASE StunNamed
    BY <1>3, ResolvedKeeps, UnresolvedKeeps DEF StunNamed, Sends
  <1>4. CASE KaRuns
    BY <1>4, KaKeeps DEF KaRuns, Sends
  <1>5. CASE TurnResolved \/ TurnUnheard \/ TurnClosed
    BY <1>5, TurnResolvedKeeps, TurnUnheardKeeps, TurnClosedKeeps
  <1>6. CASE TurnEnds
    BY <1>6, TurnReadyKeeps, TurnLostKeeps DEF TurnEnds, Again
  <1>7. CASE IceEnds
    BY <1>7, IceFinishKeeps DEF IceEnds
  <1>8. CASE IceTell
    BY <1>8, IceTellKeeps
  <1> QED BY <1>1, <1>2, <1>3, <1>4, <1>5, <1>6, <1>7, <1>8 DEF WorkerNext

LEMMA ReturnKeeps == IInv /\ ReturnNext => IInv'
  <1> SUFFICES ASSUME IInv, ReturnNext PROVE IInv'
    OBVIOUS
  <1>1. CASE InitIceDone
    <2>1. st.state # "null"
      BY <1>1, Created DEF InitIceDone
    <2> QED BY <1>1, <2>1, StateKeeps DEF InitIceDone
  <1>2. CASE StartDone
    <2>1. st.state # "null"
      BY <1>2, Created DEF StartDone
    <2> QED BY <1>2, <2>1, StateKeeps DEF StartDone
  <1>3. CASE StopDone
    <2>1. st.state # "null"
      BY <1>3, Created DEF StopDone
    <2> QED BY <1>3, <2>1, StateKeeps DEF StopDone
  <1>4. CASE StartChecks
    BY <1>4, StartCheckKeeps DEF StartChecks, Again
  <1> QED BY <1>1, <1>2, <1>3, <1>4, UpdateKeeps, AnnouncedKeeps, DanglesKeeps DEF ReturnNext

LEMMA CallsKeep == IInv /\ CallNext => IInv'
  BY CreateKeeps, RefusedKeeps, InitIceKeeps, StartIceKeeps, StopIceKeeps, DestroyKeeps
     DEF CallNext

LEMMA Inductive == IInv /\ [Next]_tvars => IInv'
  <1>1. ASSUME IInv, UNCHANGED tvars PROVE IInv'
    BY <1>1, SameKeeps DEF IInv, tvars
  <1> QED BY <1>1, WorkerKeeps, ReturnKeeps, CallsKeep DEF Next

\* What the console does to the transport is a step of the transport, or the
\* use of a destroyed one.
LEMMA ClientStep ==
    CNext => Next \/ UNCHANGED tvars \/ (misuse' = TRUE /\ UNCHANGED <<st, call, wk, told>>)
  <1> SUFFICES ASSUME CNext
               PROVE  \/ Next \/ UNCHANGED tvars
                      \/ misuse' = TRUE /\ UNCHANGED <<st, call, wk, told>>
    OBVIOUS
  <1>1. CASE Library(WorkerNext)
    BY <1>1 DEF Library, Next
  <1>2. CASE Return
    BY <1>2 DEF Return, CreateReturns, Library, ReturnNext, Next
  <1>3. CASE \E cfg \in Configs : CreateInstance(cfg)
    BY <1>3 DEF CreateInstance, CallNext, Next
  <1>4. CASE InitSession \/ StopSession \/ DestroyInstance \/ StartNego
    BY <1>4 DEF InitSession, StopSession, DestroyInstance, StartNego, CallNext, Next
  <1>5. CASE CreateFails \/ NoInstance \/ StartRefused
    BY <1>5 DEF CreateFails, NoInstance, StartRefused
  <1>6. CASE InitDestroyed \/ StartDestroyed
    BY <1>6 DEF InitDestroyed, StartDestroyed, UseDestroyed
  <1>7. CASE \E p \in Peers : Send(p) \/ SendDestroyed(p)
    BY <1>7 DEF Send, SendDestroyed, UseDestroyed
  <1>8. CASE \E p \in Peers, found \in {"nothing", "little", "all"} : Connect(p, found)
    BY <1>8 DEF Connect
  <1> QED BY <1>1, <1>2, <1>3, <1>4, <1>5, <1>6, <1>7, <1>8 DEF CNext

LEMMA ClientInductive == IInv /\ [CNext]_vars => IInv'
  <1>1. ASSUME IInv, UNCHANGED vars PROVE IInv'
    BY <1>1, Inductive DEF vars
  <1>2. ASSUME IInv, CNext PROVE IInv'
    <2>1. Next \/ UNCHANGED tvars \/ (misuse' = TRUE /\ UNCHANGED <<st, call, wk, told>>)
      BY <1>2, ClientStep
    <2> QED BY <1>2, <2>1, Inductive, SameKeeps
  <1> QED BY <1>1, <1>2

-----------------------------------------------------------------------------
(* What the invariant says                                                 *)

LEMMA Balanced == IInv => RefsBalanced
  <1> SUFFICES ASSUME IInv PROVE RefsBalanced
    OBVIOUS
  <1> DEFINE a == One(st.state # "null" /\ ~st.destroy_req)
             b == One(st.stun_sock)
             c == One(st.ka_timer)
             d == One(st.ice # "none")
             e == One(wk.timer)
             f == One(st.turn_sock # "none")
  <1>1. /\ a \in Nat /\ b \in Nat /\ c \in Nat /\ d \in Nat /\ e \in Nat /\ f \in Nat
    BY DEF One
  <1>2. st.ref_cnt \in Int /\ st.closing \in Nat
    BY Counts DEF IInv, Sane
  <1>3. (st.ref_cnt - (a + b + c + d + (st.closing + f))) - e = 0
    BY DEF IInv, Net, Excess, Relays
  <1>4. RefsBalanced <=> st.ref_cnt = a + b + c + e + d + f + st.closing
    BY DEF RefsBalanced
  <1> HIDE DEF a, b, c, d, e, f
  <1> QED BY <1>1, <1>2, <1>3, <1>4

LEMMA HasOne == IInv => DefaultExists
  BY DEF IInv, DefaultExists, HasDefault

LEMMA Usable == IInv => RouteIsUsable
  <1> SUFFICES ASSUME IInv, Route(st) = "ice" PROVE st.ice = "done" /\ st.outcome = "ok"
    BY DEF RouteIsUsable
  <1>1. st.ice # "none" /\ st.state = "running"
    BY DEF Route
  <1> QED BY <1>1 DEF IInv, Settled

LEMMA Typed == IInv => TypeOK
  <1> SUFFICES ASSUME IInv PROVE TypeOK
    OBVIOUS
  <1>1. st \in TransportSet /\ st.cand_list \in Lists /\ st.default_cand \in Nat
    BY DEF IInv, Sane, TransportSet
  <1>2. CandsOK
    <2> DEFINE q == st.cand_list
    <2>1. q \in Seq(CandSet) /\ DOMAIN q = 1 .. Len(q) /\ Len(q) \in Nat
          /\ \A i \in 1 .. Len(q) : q[i] \in CandSet
      BY <1>1 DEF Lists
    <2>2. ASSUME NEW type, NEW i \in Indexes(st, type), NEW j \in Indexes(st, type) PROVE i = j
      <3>1. /\ i + 1 \in 1 .. Len(q) /\ j + 1 \in 1 .. Len(q) /\ i \in Int /\ j \in Int
            /\ q[i + 1].type = q[j + 1].type
        BY <2>1 DEF Indexes
      <3>2. i + 1 = j + 1
        BY <1>1, <3>1 DEF Lists
      <3> QED BY <3>1, <3>2
    <2> QED BY <1>1, <2>1, <2>2 DEF CandsOK, CandSet, CandTypes, Statuses
  <1>3. st.closing \in 0 .. MaxClosing
    <2>1. st.closing \in Nat /\ Relays(st) <= MaxClosing /\ MaxClosing \in Nat
      BY Counts, ConfigsAssumption DEF IInv, Sane
    <2> QED BY <2>1 DEF Relays, One
  <1>4. st.ref_cnt \in Nat
    BY Referenced
  <1>5. wk \in [at : {"idle", "ka", "announce", "fail"},
               op : {"none", "init", "keep_alive"}, resched : BOOLEAN, timer : BOOLEAN]
    BY DEF IInv, Workers, Ops
  <1>6. /\ call \in {"none", "create", "announce", "init", "start", "started", "stop"}
        /\ told \in [init : {"none", "ok", "failed"}, nego : {"none", "ok", "failed"},
                     keep_alive : {"none", "failed"}, late : BOOLEAN]
        /\ misuse \in BOOLEAN
    BY DEF IInv, CallSet, ToldSet
  <1> QED BY <1>1, <1>2, <1>3, <1>4, <1>5, <1>6 DEF TypeOK, TransportSet, CandTypes

-----------------------------------------------------------------------------
(* Silence after the destruction                                           *)

\* A destroyed transport has no socket and no session.
Cleared(s) == s.destroy_req => ~s.stun_sock /\ s.turn_sock = "none" /\ s.ice = "none"
\* A request is one of the socket.
Bare(s) == s.stun_sock \/ s.req = "none"

\* A handler that is about to report has not found the transport destroyed, and
\* nobody can destroy it under the lock that the handler holds.  The keep-alive
\* timer is the one handler that may find it destroyed: then it has nothing to
\* report, because the gathering is over.
Silence ==
    /\ ~told.late /\ Cleared(st) /\ Bare(st)
    /\ wk.at \in {"announce", "fail"} => ~st.destroy_req
    /\ wk.at = "ka" => st.cb_called

\* What the operators on candidates and counters leave alone.
Still(s, t) ==
    /\ t.destroy_req = s.destroy_req /\ t.cb_called = s.cb_called
    /\ t.stun_sock = s.stun_sock /\ t.req = s.req
    /\ t.turn_sock = s.turn_sock /\ t.ice = s.ice

\* A handler that started from s is over or about to report.
Over(s) ==
    /\ Still(s, st') /\ wk'.at # "ka"
    /\ wk'.at = "idle" \/ ~s.destroy_req \/ ~s.cb_called

LEMMA StillTrans ==
    ASSUME NEW s, NEW t, NEW u, Still(s, t), Still(t, u)
    PROVE  Still(s, u)
  BY DEF Still

LEMMA OverAfter ==
    ASSUME NEW s, NEW t, Still(s, t), Over(t)
    PROVE  Over(s)
  BY StillTrans DEF Over, Still

\* The worker lets go of the transport as silent as it took it.
LEMMA SilentOver ==
    ASSUME NEW s, Over(s), Cleared(s), Bare(s), s.destroy_req => s.cb_called, ~told'.late
    PROVE  Silence'
  BY DEF Over, Still, Cleared, Bare, Silence

\* Of a transport that is there, it is enough that a request has its socket.
LEMMA OpenOver ==
    ASSUME NEW s, Over(s), ~s.destroy_req, Bare(s), ~told'.late
    PROVE  Silence'
  BY SilentOver DEF Cleared

LEMMA RefStill ==
    ASSUME NEW s \in TransportSet, NEW n
    PROVE  Still(s, [s EXCEPT !.ref_cnt = n])
  BY DEF TransportSet, Still

LEMMA RefsStill ==
    ASSUME NEW s \in TransportSet
    PROVE  Still(s, AddRef(s)) /\ Still(s, DecRef(s))
  BY RefStill DEF AddRef, DecRef

LEMMA StartKaStill ==
    ASSUME NEW s \in TransportSet
    PROVE  Still(s, start_ka_timer(s)) /\ start_ka_timer(s) \in TransportSet
  <1>1. CASE s.ka_timer \/ ~s.stun_sock
    BY <1>1 DEF start_ka_timer, Still
  <1>2. CASE ~(s.ka_timer \/ ~s.stun_sock)
    <2>1. PICK u : u = [s EXCEPT !.ka_timer = TRUE]
      OBVIOUS
    <2>2. u \in TransportSet /\ Still(s, u)
      BY <2>1 DEF TransportSet, Still
    <2>3. u.ref_cnt + 1 \in Int
      BY <2>2 DEF TransportSet
    <2>4. AddRef(u) \in TransportSet
      <3>1. AddRef(u) = [u EXCEPT !.ref_cnt = u.ref_cnt + 1]
        BY DEF AddRef
      <3> QED BY <2>2, <2>3, <3>1 DEF TransportSet
    <2> QED BY <1>2, <2>1, <2>2, <2>4, RefsStill, StillTrans DEF start_ka_timer
  <1> QED BY <1>1, <1>2

LEMMA EndOver ==
    ASSUME NEW s \in TransportSet, NEW w \in Workers, EndHandler(s, w)
    PROVE  Over(s)
  <1>1. PICK t : t = IF w.resched THEN start_ka_timer(s) ELSE s
    OBVIOUS
  <1>2. Still(s, t) /\ t \in TransportSet
    BY <1>1, StartKaStill DEF Still
  <1>3. wk' = Idle /\ st' = IF w.timer THEN DecRef(t) ELSE t
    BY <1>1 DEF EndHandler
  <1>4. Still(t, st')
    BY <1>2, <1>3, RefsStill DEF Still
  <1>5. wk'.at = "idle"
    BY <1>3 DEF Idle
  <1> QED BY <1>2, <1>4, <1>5, StillTrans DEF Over

LEMMA UpdateOver ==
    ASSUME NEW s \in TransportSet, NEW w \in Workers, ThenUpdate(s, w)
    PROVE  Over(s)
  <1>1. CASE EndHandler(s, w)
    BY <1>1, EndOver
  <1>2. CASE /\ ~s.cb_called
             /\ st' = s /\ wk' = [w EXCEPT !.at = "announce"]
    <2>1. wk'.at = "announce"
      BY <1>2 DEF Workers
    <2> QED BY <1>2, <2>1 DEF Over, Still
  <1> QED BY <1>1, <1>2 DEF ThenUpdate, sess_init_complete

LEMMA FailOver ==
    ASSUME NEW s \in TransportSet, NEW w \in Workers, NEW op, ThenFail(s, w, op),
           op = "init" \/ ~s.destroy_req
    PROVE  Over(s)
  <1>1. CASE EndHandler(s, w)
    BY <1>1, EndOver
  <1>2. CASE /\ sess_fail_reports(s, op)
             /\ st' = s /\ wk' = [w EXCEPT !.at = "fail", !.op = op]
    <2>1. wk'.at = "fail"
      BY <1>2 DEF Workers
    <2> QED BY <1>2, <2>1 DEF Over, Still, sess_fail_reports
  <1> QED BY <1>1, <1>2 DEF ThenFail

LEMMA CandStill ==
    ASSUME NEW s, Sane(s), NEW type, NEW status \in Statuses
    PROVE  Still(s, SetCand(s, type, status)) /\ SetCand(s, type, status) \in TransportSet
  <1>1. PICK q : SetCand(s, type, status) = [s EXCEPT !.cand_list = q]
    BY DEF SetCand
  <1>2. Still(s, [s EXCEPT !.cand_list = q])
    BY DEF Sane, TransportSet, Still
  <1> QED BY <1>1, <1>2, SetCandQuiet DEF Quiet, Sane

LEMMA DefaultStill ==
    ASSUME NEW s \in TransportSet, NEW d
    PROVE  Still(s, [s EXCEPT !.default_cand = d])
  BY DEF TransportSet, Still

LEMMA RemoveStill ==
    ASSUME NEW s, Sane(s), HasCand(s, "srflx"), HasCand(s, "host")
    PROVE  Still(s, RemoveSrflx(s)) /\ RemoveSrflx(s) \in TransportSet
  <1> DEFINE idx == IndexOf(s, "srflx")
             q == RemoveAt(s.cand_list, idx + 1)
             d == IF s.default_cand > idx THEN s.default_cand - 1
                  ELSE IF s.default_cand = idx THEN 0 ELSE s.default_cand
  <1>1. RemoveSrflx(s) = [s EXCEPT !.cand_list = q, !.default_cand = d]
    BY DEF RemoveSrflx, Sane, TransportSet
  <1> HIDE DEF q, d
  <1>2. Still(s, [s EXCEPT !.cand_list = q, !.default_cand = d])
    BY DEF Sane, TransportSet, Still
  <1> QED BY <1>1, <1>2, RemoveSrflxQuiet DEF Quiet, Sane

LEMMA AddressOver ==
    ASSUME NEW s, Sane(s), NEW w \in Workers, HasCand(s, "srflx"), AddressFound(s, w)
    PROVE  Over(s)
  <1>1. CASE s.mapped = "host" /\ HasCand(s, "host")
    <2>1. ThenUpdate(RemoveSrflx(s), w)
      BY <1>1 DEF AddressFound
    <2> QED BY <1>1, <2>1, RemoveStill, UpdateOver, OverAfter
  <1>2. CASE ~(s.mapped = "host" /\ HasCand(s, "host"))
    <2>1. ThenUpdate(SetCand(s, "srflx", "ok"), w) /\ "ok" \in Statuses
      BY <1>2 DEF AddressFound, Statuses
    <2> QED BY <2>1, CandStill, UpdateOver, OverAfter
  <1> QED BY <1>1, <1>2

LEMMA FailureOver ==
    ASSUME NEW s, Sane(s), NEW w \in Workers, BindingFailed(s, w)
    PROVE  Over(s)
  <1>1. PICK bad : bad = SetCand(s, "srflx", "failed")
    OBVIOUS
  <1>2. "failed" \in Statuses
    BY DEF Statuses
  <1>3. Still(s, bad) /\ bad \in TransportSet
    BY <1>1, <1>2, CandStill
  <1>4. CASE ~s.cfg.ignore_stun_error \/ Len(s.cand_list) = 1
    <2>1. ThenFail(bad, w, "init")
      BY <1>1, <1>4 DEF BindingFailed
    <2> QED BY <1>3, <2>1, FailOver, OverAfter
  <1>5. CASE ~(~s.cfg.ignore_stun_error \/ Len(s.cand_list) = 1)
    <2> DEFINE d == IF bad.default_cand # IndexOf(s, "srflx") THEN bad.default_cand
                    ELSE IF IndexOf(s, "srflx") = 0 THEN 1 ELSE 0
    <2>1. ThenUpdate([bad EXCEPT !.default_cand = d], w)
      BY <1>1, <1>5 DEF BindingFailed
    <2>2. d \in Nat
      BY <1>3 DEF TransportSet
    <2> HIDE DEF d
    <2>3. [bad EXCEPT !.default_cand = d] \in TransportSet
      BY <1>3, <2>2 DEF TransportSet
    <2>4. Still(bad, [bad EXCEPT !.default_cand = d])
      BY <1>3, DefaultStill
    <2> QED BY <1>3, <2>1, <2>3, <2>4, UpdateOver, OverAfter
  <1> QED BY <1>4, <1>5

LEMMA StatusOver ==
    ASSUME NEW s, Sane(s), NEW w \in Workers, NEW op, NEW ok \in BOOLEAN,
           stun_on_status(op, ok, s, w)
    PROVE  Over(s)
  <1>1. PICK bad : bad = SetCand(s, "srflx", "failed")
    OBVIOUS
  <1>2. "failed" \in Statuses /\ s \in TransportSet
    BY DEF Statuses, Sane
  <1>3. Still(s, bad) /\ bad \in TransportSet
    BY <1>1, <1>2, CandStill
  <1>4. \/ EndHandler(s, w)
        \/ HasCand(s, "srflx") /\ AddressFound(s, w)
        \/ BindingFailed(s, w)
        \/ EndHandler(bad, w)
        \/ ThenFail(bad, w, "init")
    BY <1>1 DEF stun_on_status
  <1>5. CASE EndHandler(bad, w)
    BY <1>3, <1>5, EndOver, OverAfter
  <1>6. CASE ThenFail(bad, w, "init")
    BY <1>3, <1>6, FailOver, OverAfter
  <1> QED BY <1>2, <1>4, <1>5, <1>6, EndOver, AddressOver, FailureOver

LEMMA MappedSilent ==
    ASSUME NEW s, Sane(s), NEW w \in Workers, NEW sent \in BOOLEAN,
           get_mapped_addr(s, sent, w), Cleared(s), Bare(s), s.destroy_req => s.cb_called,
           ~told'.late
    PROVE  Silence'
  <1>1. CASE sent /\ s.stun_sock
    <2>1. PICK t : t = [s EXCEPT !.req = "sent"]
      OBVIOUS
    <2>2. /\ t \in TransportSet /\ t.stun_sock = s.stun_sock
          /\ t.destroy_req = s.destroy_req
      BY <2>1 DEF Sane, TransportSet
    <2>3. EndHandler(t, w)
      BY <1>1, <2>1 DEF get_mapped_addr
    <2>4. Over(t)
      BY <2>2, <2>3, EndOver
    <2> QED BY <1>1, <2>2, <2>4, OpenOver DEF Cleared, Bare
  <1>2. CASE ~(sent /\ s.stun_sock)
    BY <1>2, StatusOver, SilentOver DEF get_mapped_addr
  <1> QED BY <1>1, <1>2

\* What the operators on sockets leave alone.
Near(s, t) ==
    /\ t.destroy_req = s.destroy_req /\ t.cb_called = s.cb_called
    /\ t.stun_sock = s.stun_sock /\ t.req = s.req

LEMMA TurnSockNear ==
    ASSUME NEW s \in TransportSet
    PROVE  Near(s, turn_sock_destroy(s)) /\ turn_sock_destroy(s) \in TransportSet
  <1>1. CASE s.turn_sock = "none"
    BY <1>1 DEF turn_sock_destroy, Near
  <1>2. CASE s.turn_sock # "none"
    <2>1. PICK n : n = s.closing + 1
      OBVIOUS
    <2>2. turn_sock_destroy(s) = [s EXCEPT !.turn_sock = "none", !.closing = n]
      BY <1>2, <2>1 DEF turn_sock_destroy, TransportSet
    <2>3. n \in Nat
      BY <2>1 DEF TransportSet
    <2>4. PICK u : u = [s EXCEPT !.turn_sock = "none", !.closing = n]
      OBVIOUS
    <2>5. Near(s, u)
      BY <2>4 DEF TransportSet, Near
    <2>6. u \in TransportSet
      BY <2>3, <2>4, ZenonT(30) DEF TransportSet
    <2> QED BY <2>2, <2>4, <2>5, <2>6
  <1> QED BY <1>1, <1>2

LEMMA LeavesNear ==
    ASSUME NEW s \in TransportSet
    PROVE  Near(s, TurnLeaves(s))
  <1>1. PICK u : u = turn_sock_destroy(s)
    OBVIOUS
  <1>2. PICK n : n = u.turn_err_cnt + 1
    OBVIOUS
  <1>3. TurnLeaves(s) = [u EXCEPT !.turn_err_cnt = n]
    BY <1>1, <1>2 DEF TurnLeaves
  <1>4. Near(s, u) /\ u \in TransportSet
    BY <1>1, TurnSockNear
  <1>5. Near(u, [u EXCEPT !.turn_err_cnt = n])
    BY <1>4 DEF TransportSet, Near
  <1> QED BY <1>3, <1>4, <1>5 DEF Near

LEMMA InvalidNear ==
    ASSUME NEW s, Sane(s)
    PROVE  Near(s, InvalidateRelay(s))
  <1>1. CASE ~HasCand(s, "relayed")
    BY <1>1 DEF InvalidateRelay, Near
  <1>2. CASE HasCand(s, "relayed")
    <2>1. PICK bad : bad = SetCand(s, "relayed", "pending")
      OBVIOUS
    <2> DEFINE d == IF bad.default_cand # IndexOf(s, "relayed") THEN bad.default_cand
                    ELSE IF HasCand(s, "srflx") THEN IndexOf(s, "srflx") ELSE 0
    <2>2. InvalidateRelay(s) = [bad EXCEPT !.default_cand = d]
      BY <1>2, <2>1 DEF InvalidateRelay
    <2> HIDE DEF d
    <2>3. "pending" \in Statuses
      BY DEF Statuses
    <2>4. Still(s, bad) /\ bad \in TransportSet
      BY <2>1, <2>3, CandStill
    <2>5. Still(bad, [bad EXCEPT !.default_cand = d])
      BY <2>4, DefaultStill
    <2> QED BY <2>2, <2>4, <2>5 DEF Still, Near
  <1> QED BY <1>1, <1>2

LEMMA AddedNear ==
    ASSUME NEW s, Sane(s)
    PROVE  Near(s, add_update_turn(s))
  <1>1. PICK i : i = InvalidateRelay(s)
    OBVIOUS
  <1>2. Near(s, i) /\ i \in TransportSet
    BY <1>1, InvalidNear, Invalidated DEF Quiet, Sane
  <1>3. PICK u : u = [i EXCEPT !.turn_sock = TurnStarts]
    OBVIOUS
  <1>4. u \in TransportSet /\ Near(i, u)
    BY <1>2, <1>3 DEF TransportSet, TurnStarts, Near
  <1>5. PICK n : n = u.ref_cnt + 1
    OBVIOUS
  <1>6. PICK v : v = [u EXCEPT !.ref_cnt = n]
    OBVIOUS
  <1>7. v = AddRef(u)
    BY <1>5, <1>6 DEF AddRef
  <1>8. n \in Int
    BY <1>4, <1>5 DEF TransportSet
  <1>9. v \in TransportSet /\ Near(u, v)
    BY <1>4, <1>6, <1>8 DEF TransportSet, Near
  <1>10. CASE HasCand(s, "relayed")
    <2>1. add_update_turn(s) = v
      BY <1>1, <1>3, <1>7, <1>10 DEF add_update_turn
    <2> QED BY <1>2, <1>4, <1>9, <2>1 DEF Near
  <1>11. CASE ~HasCand(s, "relayed")
    <2>1. PICK q : q = Append(v.cand_list, Cand("relayed", "pending"))
      OBVIOUS
    <2>2. add_update_turn(s) = [v EXCEPT !.cand_list = q]
      BY <1>1, <1>3, <1>7, <1>11, <2>1 DEF add_update_turn
    <2>3. Near(v, [v EXCEPT !.cand_list = q])
      BY <1>9 DEF TransportSet, Near
    <2> QED BY <1>2, <1>4, <1>9, <2>2, <2>3 DEF Near
  <1> QED BY <1>10, <1>11

LEMMA SessNear ==
    ASSUME NEW s \in TransportSet
    PROVE  LET t == sess_destroy(s)
           IN  t \in TransportSet /\ Near(s, t) /\ t.turn_sock = s.turn_sock /\ t.ice = "none"
  <1>1. CASE s.ice = "none"
    BY <1>1 DEF sess_destroy, Near
  <1>2. CASE s.ice # "none"
    <2>1. PICK u : u = [s EXCEPT !.ice = "none", !.offered = {}, !.outcome = "none",
                                 !.relayed = FALSE]
      OBVIOUS
    <2>2. u \in TransportSet /\ Near(s, u) /\ u.turn_sock = s.turn_sock /\ u.ice = "none"
      BY <2>1 DEF TransportSet, Near
    <2>3. sess_destroy(s) = [u EXCEPT !.ref_cnt = u.ref_cnt - 1] /\ u.ref_cnt - 1 \in Int
      BY <1>2, <2>1, <2>2 DEF sess_destroy, DecRef, TransportSet
    <2>4. PICK n \in Int : n = u.ref_cnt - 1
      BY <2>3
    <2>5. sess_destroy(s) = [u EXCEPT !.ref_cnt = n]
      BY <2>3, <2>4
    <2>6. [u EXCEPT !.ref_cnt = n] \in TransportSet /\ Still(u, [u EXCEPT !.ref_cnt = n])
      BY <2>2, RefStill DEF TransportSet
    <2> QED BY <2>2, <2>5, <2>6 DEF Still, Near
  <1> QED BY <1>1, <1>2

LEMMA StunSockNear ==
    ASSUME NEW s \in TransportSet, Bare(s)
    PROVE  LET t == stun_sock_destroy(s)
           IN  /\ t \in TransportSet /\ t.destroy_req = s.destroy_req
               /\ t.cb_called = s.cb_called /\ t.ice = s.ice
               /\ ~t.stun_sock /\ t.req = "none"
  <1>1. CASE ~s.stun_sock
    BY <1>1 DEF stun_sock_destroy, Bare
  <1>2. CASE s.stun_sock
    <2>1. PICK n : n = s.ref_cnt - 1 - (IF s.ka_timer THEN 1 ELSE 0)
      OBVIOUS
    <2>2. stun_sock_destroy(s) = [s EXCEPT !.stun_sock = FALSE, !.req = "none",
                                           !.ka_timer = FALSE, !.ref_cnt = n]
      BY <1>2, <2>1 DEF stun_sock_destroy, TransportSet
    <2>3. n \in Int
      BY <2>1 DEF TransportSet
    <2> QED BY <2>2, <2>3, ZenonT(30) DEF TransportSet
  <1> QED BY <1>1, <1>2

\* A transport that is destroyed is cleared.
LEMMA DestroyClears ==
    ASSUME NEW s \in TransportSet, ~s.destroy_req, Bare(s)
    PROVE  LET t == destroy_ice_st(s)
           IN  /\ Cleared(t) /\ Bare(t) /\ t.cb_called = s.cb_called
               /\ t.destroy_req
  <1>1. PICK u : u = [s EXCEPT !.destroy_req = TRUE]
    OBVIOUS
  <1>2. /\ u \in TransportSet /\ u.destroy_req /\ u.cb_called = s.cb_called
        /\ u.stun_sock = s.stun_sock /\ u.req = s.req
    BY <1>1 DEF TransportSet
  <1>3. PICK v : v = sess_destroy(u)
    OBVIOUS
  <1>4. /\ v \in TransportSet /\ v.destroy_req /\ v.cb_called = s.cb_called
        /\ Bare(v) /\ v.ice = "none"
    BY <1>2, <1>3, SessNear DEF Near, Bare
  <1>5. PICK w : w = stun_sock_destroy(v)
    OBVIOUS
  <1>6. /\ w \in TransportSet /\ w.destroy_req /\ w.cb_called = s.cb_called
        /\ w.ice = "none" /\ ~w.stun_sock /\ w.req = "none"
    BY <1>4, <1>5, StunSockNear
  <1>7. PICK x : x = turn_sock_destroy(w)
    OBVIOUS
  <1>8. x \in TransportSet /\ Near(w, x)
    BY <1>6, <1>7, TurnSockNear
  <1>9. x.turn_sock = "none" /\ x.ice = "none"
    <2>1. CASE w.turn_sock = "none"
      BY <1>6, <1>7, <2>1 DEF turn_sock_destroy
    <2>2. CASE w.turn_sock # "none"
      BY <1>6, <1>7, <2>2 DEF turn_sock_destroy, TransportSet
    <2> QED BY <2>1, <2>2
  <1>10. destroy_ice_st(s) = DecRef(x) /\ Still(x, DecRef(x))
    BY <1>1, <1>3, <1>5, <1>7, <1>8, RefsStill DEF destroy_ice_st
  <1> QED BY <1>6, <1>8, <1>9, <1>10 DEF Still, Near, Cleared, Bare

LEMMA NearOpen ==
    ASSUME NEW s, NEW t, Near(s, t), ~s.destroy_req, Bare(s)
    PROVE  ~t.destroy_req /\ Bare(t)
  BY DEF Near, Bare

LEMMA Hearing ==
    ASSUME IInv, ~told.late, NEW op \in Ops \cup {"nego"}, NEW status
    PROVE  ~Hears(op, status, FALSE).late
  BY DEF Hears, IInv, ToldSet, Ops

LEMMA AnnounceSilent == IInv /\ Silence /\ Announce => Silence'
  <1> SUFFICES ASSUME IInv, Silence, Announce PROVE Silence'
    OBVIOUS
  <1>1. PICK u : u = [st EXCEPT !.cb_called = TRUE, !.state = "ready"]
    OBVIOUS
  <1>2. /\ u.destroy_req = st.destroy_req /\ u.stun_sock = st.stun_sock /\ u.req = st.req
    BY <1>1 DEF IInv, Sane, TransportSet
  <1>3. u \in TransportSet
    BY <1>1, ZenonT(30) DEF IInv, Sane, TransportSet
  <1>4. ~st.destroy_req /\ EndHandler(u, wk) /\ told' = Hears("init", "ok", st.destroy_req)
    BY <1>1 DEF Announce, Silence
  <1>5. ~told'.late
    BY <1>4 DEF Hears, IInv, ToldSet, Silence
  <1>6. Over(u)
    BY <1>3, <1>4, EndOver DEF IInv
  <1> QED BY <1>2, <1>4, <1>5, <1>6, OpenOver DEF Silence, Bare

LEMMA FailSilent == IInv /\ Silence /\ Fail => Silence'
  <1> SUFFICES ASSUME IInv, Silence, Fail PROVE Silence'
    OBVIOUS
  <1>1. PICK u : u = [st EXCEPT !.cb_called = TRUE]
    OBVIOUS
  <1>2. /\ u \in TransportSet /\ Alike(st, u) /\ u.state = st.state /\ u.ice = st.ice
        /\ u.outcome = st.outcome
    BY <1>1, ZenonT(30) DEF IInv, Sane, TransportSet, Alike
  <1>3. u.req = st.req /\ u.stun_sock = st.stun_sock /\ u.cb_called
        /\ u.destroy_req = st.destroy_req
    BY <1>1 DEF IInv, Sane, TransportSet
  <1>4. PICK s : s = destroy_ice_st(u)
    OBVIOUS
  <1>5. /\ ~st.destroy_req /\ EndHandler(s, wk) /\ wk.op \in Ops
        /\ told' = Hears(wk.op, "failed", st.destroy_req)
    BY <1>1, <1>4 DEF Fail, Silence, cb_on_ice_complete, IInv, Workers
  <1>6. ~told'.late
    BY <1>5 DEF Hears, IInv, ToldSet, Silence, Ops
  <1>7. Cleared(s) /\ Bare(s) /\ s.cb_called
    BY <1>2, <1>3, <1>4, <1>5, DestroyClears DEF Silence, Bare
  <1>8. s \in TransportSet
    <2>1. st.state # "null" /\ u.state # "null"
      BY <1>2, Created DEF Fail, Idle
    <2> QED BY <1>2, <1>4, <2>1, AlikeSane, DestroyStep DEF Sane, IInv
  <1>9. Over(s)
    BY <1>5, <1>8, EndOver DEF IInv
  <1> QED BY <1>6, <1>7, <1>9, SilentOver

\* A request that is on its way belongs to a transport that is there.
LEMMA RequestOpen ==
    ASSUME IInv, Silence, st.req # "none" \/ st.turn_sock # "none" \/ st.ice # "none"
    PROVE  ~st.destroy_req
  BY DEF Silence, Cleared, Bare

LEMMA AnswerSilent ==
    ASSUME NEW m \in Mapped PROVE IInv /\ Silence /\ StunAnswer(m) => Silence'
  <1> SUFFICES ASSUME IInv, Silence, StunAnswer(m) PROVE Silence'
    OBVIOUS
  <1> DEFINE s == [st EXCEPT !.req = "none", !.mapped = m]
             w == Handler(TRUE, FALSE)
             op == IF st.mapped = "none" THEN "binding"
                   ELSE IF st.mapped = m THEN "keep_alive" ELSE "change"
  <1>1. s \in TransportSet /\ Core(st, s) /\ s.req = "none"
    BY DEF IInv, Sane, TransportSet, Core, Agree
  <1>2. stun_on_status(op, TRUE, s, w) /\ told' = told /\ ~st.destroy_req
    BY RequestOpen DEF StunAnswer
  <1> HIDE DEF s, op
  <1>3. Sane(s) /\ ~s.destroy_req
    BY <1>1, <1>2, CoreQuiet DEF IInv, Quiet, Agree
  <1>4. w \in Workers
    BY HandlerWorker
  <1> HIDE DEF w
  <1>5. Over(s)
    BY <1>2, <1>3, <1>4, StatusOver
  <1> QED BY <1>1, <1>2, <1>3, <1>5, OpenOver DEF Bare, Silence

LEMMA NoAnswerSilent == IInv /\ Silence /\ StunNoAnswer => Silence'
  <1> SUFFICES ASSUME IInv, Silence, StunNoAnswer PROVE Silence'
    OBVIOUS
  <1> DEFINE s == [st EXCEPT !.req = "none"]
             w == Handler(TRUE, FALSE)
             op == IF st.mapped = "none" THEN "binding" ELSE "keep_alive"
  <1>1. s \in TransportSet /\ Core(st, s) /\ s.req = "none"
    BY DEF IInv, Sane, TransportSet, Core, Agree
  <1>2. stun_on_status(op, FALSE, s, w) /\ told' = told /\ ~st.destroy_req
    BY RequestOpen DEF StunNoAnswer
  <1> HIDE DEF s, op
  <1>3. Sane(s) /\ ~s.destroy_req
    BY <1>1, <1>2, CoreQuiet DEF IInv, Quiet, Agree
  <1>4. w \in Workers
    BY HandlerWorker
  <1> HIDE DEF w
  <1>5. Over(s)
    BY <1>2, <1>3, <1>4, StatusOver
  <1> QED BY <1>1, <1>2, <1>3, <1>5, OpenOver DEF Bare, Silence

LEMMA ResolvedSilent ==
    ASSUME NEW sent \in BOOLEAN PROVE IInv /\ Silence /\ StunResolved(sent) => Silence'
  <1> SUFFICES ASSUME IInv, Silence, StunResolved(sent) PROVE Silence'
    OBVIOUS
  <1> DEFINE s == [st EXCEPT !.req = "none"]
             w == Handler(FALSE, FALSE)
  <1>1. s \in TransportSet /\ Core(st, s) /\ s.req = "none"
    BY DEF IInv, Sane, TransportSet, Core, Agree
  <1>2. get_mapped_addr(s, sent, w) /\ told' = told /\ ~st.destroy_req
    BY RequestOpen DEF StunResolved
  <1> HIDE DEF s
  <1>3. Sane(s) /\ ~s.destroy_req
    BY <1>1, <1>2, CoreQuiet DEF IInv, Quiet, Agree
  <1>4. w \in Workers
    BY HandlerWorker
  <1> HIDE DEF w
  <1> QED BY <1>1, <1>2, <1>3, <1>4, MappedSilent DEF Bare, Cleared, Silence

LEMMA UnresolvedSilent == IInv /\ Silence /\ StunUnresolved => Silence'
  <1> SUFFICES ASSUME IInv, Silence, StunUnresolved PROVE Silence'
    OBVIOUS
  <1> DEFINE s == [st EXCEPT !.req = "none"]
             bad == SetCand(s, "srflx", "failed")
             t == [bad EXCEPT !.unnamed = TRUE]
  <1>1. s \in TransportSet /\ Core(st, s) /\ s.req = "none"
    BY DEF IInv, Sane, TransportSet, Core, Agree
  <1>2. /\ EndHandler(t, Idle) \/ ThenFail(bad, Idle, "init")
        /\ told' = told /\ ~st.destroy_req
    BY RequestOpen DEF StunUnresolved
  <1> HIDE DEF s
  <1>3. Sane(s) /\ ~s.destroy_req /\ "failed" \in Statuses
    BY <1>1, <1>2, CoreQuiet DEF IInv, Quiet, Agree, Statuses
  <1>4. Still(s, bad) /\ bad \in TransportSet
    BY <1>3, CandStill
  <1> HIDE DEF bad
  <1>5. t \in TransportSet /\ Still(bad, t)
    BY <1>4 DEF TransportSet, Still
  <1> HIDE DEF t
  <1>6. Over(bad)
    BY <1>2, <1>4, <1>5, IdleWorker, EndOver, FailOver, OverAfter
  <1>7. ~bad.destroy_req /\ Bare(bad)
    BY <1>1, <1>3, <1>4 DEF Still, Bare
  <1> QED BY <1>2, <1>6, <1>7, OpenOver DEF Silence

LEMMA KaFiresSilent ==
    ASSUME "early" \notin Adversity PROVE IInv /\ Silence /\ KaFires => Silence'
  <1> SUFFICES ASSUME IInv, Silence, KaFires PROVE Silence'
    OBVIOUS
  <1>1. /\ st' = [st EXCEPT !.ka_timer = FALSE] /\ told' = told /\ st.cb_called
        /\ wk' = [Handler(FALSE, TRUE) EXCEPT !.at = "ka"]
    BY DEF KaFires
  <1>2. Still(st, st')
    BY <1>1 DEF IInv, Sane, TransportSet, Still
  <1>3. wk'.at = "ka"
    BY <1>1, HandlerWorker DEF Workers
  <1> QED BY <1>1, <1>2, <1>3 DEF Silence, Still, Cleared, Bare

LEMMA KaSilent ==
    ASSUME NEW sent \in BOOLEAN PROVE IInv /\ Silence /\ ka_timer_cb(sent) => Silence'
  <1> SUFFICES ASSUME IInv, Silence, ka_timer_cb(sent) PROVE Silence'
    OBVIOUS
  <1>1. /\ get_mapped_addr(st, sent, wk) /\ told' = told /\ wk.at = "ka"
        /\ Sane(st) /\ wk \in Workers
    BY DEF ka_timer_cb, IInv
  <1> QED BY <1>1, MappedSilent DEF Silence

\* A step that leaves the worker alone.
LEMMA StillSilent ==
    ASSUME Silence, NEW t, st' = t, Near(st, t), wk' = wk, told' = told,
           ~st.destroy_req
    PROVE  Silence'
  BY DEF Silence, Near, Cleared, Bare

LEMMA TurnResolvedSilent == IInv /\ Silence /\ TurnResolved => Silence'
  <1> SUFFICES ASSUME IInv, Silence, TurnResolved PROVE Silence'
    OBVIOUS
  <1>1. st' = [st EXCEPT !.turn_sock = "alloc"] /\ wk' = wk /\ told' = told
    BY DEF TurnResolved
  <1>2. ~st.destroy_req
    BY RequestOpen DEF TurnResolved
  <1>3. Near(st, st')
    BY <1>1 DEF IInv, Sane, TransportSet, Near
  <1> QED BY <1>1, <1>2, <1>3, StillSilent

LEMMA TurnReadySilent == IInv /\ Silence /\ TurnReady => Silence'
  <1> SUFFICES ASSUME IInv, Silence, TurnReady PROVE Silence'
    OBVIOUS
  <1> DEFINE u == SetCand(st, "relayed", "ok")
             d == IndexOf(st, "relayed")
             t == [u EXCEPT !.turn_sock = "ready", !.turn_err_cnt = 0, !.default_cand = d]
  <1>1. Sane(st) /\ st.turn_sock = "alloc" /\ told' = told /\ ThenUpdate(t, Idle)
        /\ ~st.destroy_req
    BY RequestOpen DEF TurnReady, IInv
  <1>2. d \in Nat
    <2>1. HasCand(st, "relayed")
      BY <1>1, HasList DEF Sane
    <2>2. d \in 0 .. Len(st.cand_list) - 1 /\ Len(st.cand_list) \in Nat
      BY <1>1, <2>1, HasList DEF Sane, TransportSet, Lists
    <2> HIDE DEF d
    <2> QED BY <2>2
  <1>3. Still(st, u) /\ u \in TransportSet
    BY <1>1, CandStill DEF Statuses
  <1> HIDE DEF d, u
  <1>4. t \in TransportSet
    BY <1>2, <1>3, ZenonT(30) DEF TransportSet
  <1>5. t.destroy_req = u.destroy_req /\ t.stun_sock = u.stun_sock /\ t.req = u.req
    BY <1>3 DEF TransportSet
  <1> HIDE DEF t
  <1>6. Over(t)
    BY <1>1, <1>4, IdleWorker, UpdateOver
  <1>7. ~t.destroy_req /\ Bare(t)
    BY <1>1, <1>3, <1>5 DEF Still, Silence, Bare
  <1> QED BY <1>1, <1>6, <1>7, OpenOver DEF Silence

LEMMA TurnUnheardSilent == IInv /\ Silence /\ TurnUnheard => Silence'
  <1> SUFFICES ASSUME IInv, Silence, TurnUnheard PROVE Silence'
    OBVIOUS
  <1> DEFINE u == TurnLeaves(st)
             t == [u EXCEPT !.unnamed = TRUE]
  <1>1. EndHandler(t, Idle) /\ told' = told /\ ~st.destroy_req /\ Sane(st)
    BY RequestOpen DEF TurnUnheard, IInv
  <1>2. Near(st, u) /\ u \in TransportSet
    BY <1>1, LeavesNear, Left DEF Quiet, Sane
  <1> HIDE DEF u
  <1>3. t \in TransportSet /\ Near(u, t)
    BY <1>2 DEF TransportSet, Near
  <1> HIDE DEF t
  <1>4. Over(t)
    BY <1>1, <1>3, IdleWorker, EndOver
  <1>5. ~t.destroy_req /\ Bare(t)
    BY <1>1, <1>2, <1>3, NearOpen DEF Silence
  <1> QED BY <1>1, <1>4, <1>5, OpenOver DEF Silence

LEMMA TurnLostSilent ==
    ASSUME NEW again \in BOOLEAN PROVE IInv /\ Silence /\ TurnLost(again) => Silence'
  <1> SUFFICES ASSUME IInv, Silence, TurnLost(again) PROVE Silence'
    OBVIOUS
  <1> DEFINE gone == TurnLeaves(st)
             more == add_update_turn(gone)
             left == TurnLeaves(more)
  <1>1. /\ Sane(st) /\ ~st.destroy_req /\ told' = told /\ Bare(st)
        /\ TurnFails(st, again) /\ st.turn_sock # "none" /\ st.closing + 1 < MaxClosing
    BY RequestOpen DEF TurnLost, IInv, Silence
  <1>2. Relays(st) < MaxClosing
    BY <1>1 DEF Relays, One
  <1>3. \/ ThenFail(gone, Idle, "init") \/ ThenFail(gone, Idle, "keep_alive")
        \/ EndHandler(more, Idle) \/ ThenFail(left, Idle, "keep_alive")
    BY <1>1 DEF TurnFails
  <1>4. /\ Sane(gone) /\ Relays(gone) < MaxClosing /\ gone.turn_sock = "none"
        /\ Near(st, gone)
    BY <1>1, <1>2, Left, LeavesNear DEF Quiet, Sane
  <1> HIDE DEF gone
  <1>5. Sane(more) /\ Near(gone, more)
    BY <1>4, TurnAdded, AddedNear DEF Quiet
  <1> HIDE DEF more
  <1>6. Sane(left) /\ Near(more, left)
    BY <1>5, Left, LeavesNear DEF Quiet, Sane
  <1> HIDE DEF left
  <1>7. ~gone.destroy_req /\ Bare(gone)
    BY <1>1, <1>4, NearOpen
  <1>8. ~more.destroy_req /\ Bare(more)
    BY <1>5, <1>7, NearOpen
  <1>9. ~left.destroy_req /\ Bare(left)
    BY <1>6, <1>8, NearOpen
  <1>10. ASSUME NEW t, Sane(t), ~t.destroy_req, Bare(t),
                \/ EndHandler(t, Idle) \/ ThenFail(t, Idle, "init")
                \/ ThenFail(t, Idle, "keep_alive")
         PROVE  Silence'
    <2>1. t \in TransportSet
      BY <1>10 DEF Sane
    <2>2. Over(t)
      BY <1>10, <2>1, IdleWorker, EndOver, FailOver
    <2> QED BY <1>1, <1>10, <2>2, OpenOver DEF Silence
  <1> QED BY <1>3, <1>4, <1>5, <1>6, <1>7, <1>8, <1>9, <1>10

LEMMA TurnClosedSilent == IInv /\ Silence /\ TurnClosed => Silence'
  <1> SUFFICES ASSUME IInv, Silence, TurnClosed PROVE Silence'
    OBVIOUS
  <1>1. PICK n : n = st.closing - 1
    OBVIOUS
  <1>2. PICK u : u = [st EXCEPT !.closing = n]
    OBVIOUS
  <1>3. PICK m : m = u.ref_cnt - 1
    OBVIOUS
  <1>4. st' = [u EXCEPT !.ref_cnt = m] /\ wk' = wk /\ told' = told
    BY <1>1, <1>2, <1>3 DEF TurnClosed, IInv, Sane, TransportSet, DecRef
  <1>5. Still(st, st')
    BY <1>2, <1>4 DEF IInv, Sane, TransportSet, Still
  <1> QED BY <1>4, <1>5 DEF Silence, Still, Cleared, Bare

LEMMA IceFinishSilent ==
    ASSUME NEW o \in {"ok", "failed"}, NEW relayed \in BOOLEAN
    PROVE  IInv /\ Silence /\ IceFinish(o, relayed) => Silence'
  <1> SUFFICES ASSUME IInv, Silence, IceFinish(o, relayed) PROVE Silence'
    OBVIOUS
  <1>1. /\ st' = [st EXCEPT !.outcome = o, !.relayed = relayed] /\ wk' = wk /\ told' = told
    BY DEF IceFinish
  <1>2. Still(st, st')
    BY <1>1 DEF IInv, Sane, TransportSet, Still
  <1> QED BY <1>1, <1>2 DEF Silence, Still, Cleared, Bare

LEMMA IceTellSilent == IInv /\ Silence /\ IceTell => Silence'
  <1> SUFFICES ASSUME IInv, Silence, IceTell PROVE Silence'
    OBVIOUS
  <1> DEFINE unable == (st.outcome = "ok" /\ st.relayed) /\ st.turn_sock # "ready"
             e == IF st.outcome = "ok" /\ ~unable THEN "ok" ELSE "failed"
             r == IF st.outcome = "ok" /\ ~unable THEN "running" ELSE "failed"
             a == st.assert_failed \/ unable
             u == on_ice_complete(st)
  <1>1. /\ wk' = wk /\ wk = Idle /\ ~st.destroy_req /\ st \in TransportSet
        /\ told' = Hears("nego", u.outcome, st.destroy_req)
        /\ st' = u \/ st' = destroy_ice_st(u)
    BY RequestOpen DEF IceTell, cb_on_ice_complete, IInv, Sane
  <1>2. u = [st EXCEPT !.ice = "done", !.outcome = e, !.assert_failed = a, !.state = r]
    BY DEF on_ice_complete
  <1>3. a \in BOOLEAN /\ r \in {"running", "failed"} /\ e \in {"ok", "failed"}
    OBVIOUS
  <1> HIDE DEF u, e, r, a
  <1>4. u \in TransportSet
    BY <1>1, <1>2, <1>3, OutcomeSet
  <1>5. u.destroy_req = st.destroy_req /\ u.stun_sock = st.stun_sock /\ u.req = st.req
    BY <1>1, <1>2 DEF TransportSet
  <1>6. ~told'.late
    BY <1>1 DEF Hears, IInv, ToldSet, Silence
  <1>7. ~u.destroy_req /\ Bare(u)
    BY <1>1, <1>5 DEF Bare, Silence
  <1>8. Cleared(st') /\ Bare(st')
    BY <1>1, <1>4, <1>7, DestroyClears DEF Cleared
  <1>9. wk'.at = "idle"
    BY <1>1 DEF Idle
  <1> QED BY <1>6, <1>8, <1>9 DEF Silence

LEMMA LeavesType ==
    ASSUME NEW s \in TransportSet
    PROVE  TurnLeaves(s) \in TransportSet
  <1>1. PICK u : u = turn_sock_destroy(s)
    OBVIOUS
  <1>2. u \in TransportSet
    BY <1>1, TurnSockNear
  <1>3. PICK n : n = u.turn_err_cnt + 1
    OBVIOUS
  <1>4. TurnLeaves(s) = [u EXCEPT !.turn_err_cnt = n] /\ n \in Nat
    BY <1>1, <1>2, <1>3 DEF TurnLeaves, TransportSet
  <1> QED BY <1>2, <1>4, ZenonT(30) DEF TransportSet

\* The request of a new transport belongs to its socket.
LEMMA CompBare ==
    ASSUME NEW cfg \in Configs
    PROVE  Bare(create_comp(cfg))
  <1> DEFINE sock == cfg.stun \/ cfg.host
             n == IF sock THEN 2 ELSE 1
             x == IF cfg.stun THEN Request ELSE "none"
             q == (IF cfg.stun THEN <<Cand("srflx", "pending")>> ELSE <<>>)
                  \o (IF cfg.host THEN <<Cand("host", "ok")>> ELSE <<>>)
             t == Transport(cfg)
             s == [t EXCEPT !.state = "init", !.stun_sock = sock, !.ref_cnt = n,
                            !.req = x, !.cand_list = q]
  <1>1. create_comp(cfg) = s
    BY DEF create_comp
  <1>2. sock \/ x = "none"
    OBVIOUS
  <1>3. t \in TransportSet
    BY BlankSane DEF Sane
  <1> HIDE DEF q, n, x, sock, t
  <1>4. s.stun_sock = sock /\ s.req = x
    BY <1>3 DEF TransportSet
  <1> QED BY <1>1, <1>2, <1>4 DEF Bare

LEMMA CreateSilent ==
    ASSUME NEW cfg \in Configs PROVE IInv /\ Create(cfg) => Silence'
  <1> SUFFICES ASSUME IInv, Create(cfg) PROVE Silence'
    OBVIOUS
  <1> DEFINE s == create_comp(cfg)
             t == IF cfg.turn THEN add_update_turn(s) ELSE s
  <1>1. /\ st' = t /\ wk' = Idle /\ told' = NothingTold
    BY DEF Create
  <1>2. Sane(s) /\ s.destroy_req = FALSE
    BY CompCreated
  <1>3. Bare(s)
    BY CompBare
  <1> HIDE DEF s
  <1>4. ~t.destroy_req /\ Bare(t)
    BY <1>2, <1>3, AddedNear, NearOpen
  <1> HIDE DEF t
  <1> QED BY <1>1, <1>4 DEF Silence, Cleared, Idle, NothingTold

LEMMA RefusedSilent ==
    ASSUME NEW cfg \in Configs PROVE IInv /\ CreateWithoutRelay(cfg) => Silence'
  <1> SUFFICES ASSUME IInv, CreateWithoutRelay(cfg) PROVE Silence'
    OBVIOUS
  <1> DEFINE c == create_comp(cfg)
             n == c.ref_cnt + 1
             u == [c EXCEPT !.turn_sock = TurnStarts, !.ref_cnt = n]
             v == TurnLeaves(u)
             lost == [v EXCEPT !.cb_called = TRUE]
             t == destroy_ice_st(lost)
  <1>1. Sane(c) /\ c.destroy_req = FALSE /\ Bare(c)
    BY CompCreated, CompBare
  <1>2. st' = t /\ wk' = Idle /\ told' = [NothingTold EXCEPT !.init = "failed"]
    <2>1. c \in TransportSet
      BY <1>1 DEF Sane
    <2>2. u = [c EXCEPT !.turn_sock = TurnStarts, !.ref_cnt = @ + 1]
      <3> HIDE DEF c
      <3> QED BY <2>1 DEF TransportSet
    <2> HIDE DEF u
    <2> QED BY <2>2 DEF CreateWithoutRelay, cb_on_ice_complete
  <1>3. n \in Int /\ TurnStarts \in {"resolving", "alloc"}
    BY <1>1 DEF Sane, TransportSet, TurnStarts
  <1> HIDE DEF c, n
  <1>4. u \in TransportSet /\ Near(c, u)
    <2>1. u \in TransportSet
      BY <1>1, <1>3, ZenonT(30) DEF Sane, TransportSet
    <2>2. Near(c, u)
      BY <1>1 DEF Sane, TransportSet, Near
    <2> QED BY <2>1, <2>2
  <1> HIDE DEF u
  <1>5. Near(u, v) /\ v \in TransportSet
    BY <1>4, LeavesNear, LeavesType
  <1> HIDE DEF v
  <1>6. lost \in TransportSet /\ lost.destroy_req = v.destroy_req
        /\ lost.stun_sock = v.stun_sock /\ lost.req = v.req
    BY <1>5 DEF TransportSet
  <1> HIDE DEF lost
  <1>7. ~lost.destroy_req /\ Bare(lost)
    BY <1>1, <1>4, <1>5, <1>6 DEF Near, Bare
  <1>8. Cleared(t) /\ Bare(t)
    BY <1>6, <1>7, DestroyClears
  <1> HIDE DEF t
  <1> QED BY <1>2, <1>8 DEF Silence, Idle, NothingTold

\* A step of a call on a transport that is there.
LEMMA OpenSilent ==
    ASSUME Silence, NEW t \in TransportSet, st' = t, wk' = wk, told' = told,
           ~t.destroy_req, t.stun_sock = st.stun_sock, t.req = st.req,
           st.cb_called => t.cb_called
    PROVE  Silence'
  BY DEF Silence, Cleared, Bare

LEMMA UpdateSilent == Silence /\ CreateUpdate => Silence'
  BY DEF CreateUpdate, Silence, Cleared, Bare

LEMMA AnnouncedSilent == IInv /\ Silence /\ CreateAnnounce => Silence'
  <1> SUFFICES ASSUME IInv, Silence, CreateAnnounce PROVE Silence'
    OBVIOUS
  <1>1. /\ st' = [st EXCEPT !.cb_called = TRUE, !.state = "ready"]
        /\ told' = Hears("init", "ok", FALSE) /\ wk' = wk
    BY DEF CreateAnnounce
  <1>2. /\ st'.destroy_req = st.destroy_req /\ st'.stun_sock = st.stun_sock
        /\ st'.req = st.req /\ st'.cb_called /\ st'.turn_sock = st.turn_sock
        /\ st'.ice = st.ice
    BY <1>1 DEF IInv, Sane, TransportSet
  <1>3. ~told'.late
    BY <1>1 DEF Hears, IInv, ToldSet, Silence
  <1> QED BY <1>1, <1>2, <1>3 DEF Silence, Cleared, Bare

\* The return of a function sets the state and no more.
LEMMA StateSilent ==
    ASSUME IInv, Silence, NEW x, st' = [st EXCEPT !.state = x], wk' = wk, told' = told
    PROVE  Silence'
  <1>1. Still(st, st')
    BY DEF IInv, Sane, TransportSet, Still
  <1> QED BY <1>1 DEF Silence, Still, Cleared, Bare

LEMMA InitIceSilent == IInv /\ Silence /\ InitIce => Silence'
  <1> SUFFICES ASSUME IInv, Silence, InitIce PROVE Silence'
    OBVIOUS
  <1>1. PICK q : q = Types(st, "ok")
    OBVIOUS
  <1>2. PICK u : u = [st EXCEPT !.ice = "created", !.offered = q]
    OBVIOUS
  <1>3. PICK m : m = u.ref_cnt + 1
    OBVIOUS
  <1>4. /\ st' = [u EXCEPT !.ref_cnt = m] /\ wk' = wk /\ told' = told
        /\ ~st.destroy_req
    BY <1>1, <1>2, <1>3 DEF InitIce, Calls, AddRef
  <1>5. Near(st, st')
    BY <1>2, <1>4 DEF IInv, Sane, TransportSet, Near
  <1> QED BY <1>4, <1>5, StillSilent

LEMMA StartIceSilent == IInv /\ Silence /\ StartIce => Silence'
  <1> SUFFICES ASSUME IInv, Silence, StartIce PROVE Silence'
    OBVIOUS
  <1>1. /\ st' = [st EXCEPT !.ice = "listed"] /\ wk' = wk /\ told' = told
        /\ ~st.destroy_req
    BY DEF StartIce, Calls
  <1>2. Near(st, st')
    BY <1>1 DEF IInv, Sane, TransportSet, Near
  <1> QED BY <1>1, <1>2, StillSilent

LEMMA StartCheckSilent ==
    ASSUME NEW ok \in BOOLEAN PROVE IInv /\ Silence /\ StartCheck(ok) => Silence'
  <1> SUFFICES ASSUME IInv, Silence, StartCheck(ok) PROVE Silence'
    OBVIOUS
  <1>1. wk' = wk /\ told' = told /\ st \in TransportSet
    BY DEF StartCheck, IInv, Sane
  <1>2. CASE st.ice = "none"
    <2>1. st' = [st EXCEPT !.assert_failed = TRUE]
      BY <1>2 DEF StartCheck
    <2>2. Still(st, st')
      BY <1>1, <2>1 DEF TransportSet, Still
    <2> QED BY <1>1, <2>2 DEF Silence, Still, Cleared, Bare
  <1>3. CASE st.ice # "none" /\ ok
    <2>1. st' = [st EXCEPT !.ice = "started"] /\ ~st.destroy_req
      BY <1>3, RequestOpen DEF StartCheck
    <2>2. Near(st, st')
      BY <1>1, <2>1 DEF TransportSet, Near
    <2> QED BY <1>1, <2>1, <2>2, StillSilent
  <1>4. CASE st.ice # "none" /\ ~ok
    <2> DEFINE a == st.assert_failed \/ st.offered = {}
               u == [st EXCEPT !.assert_failed = a]
    <2>1. st' = sess_destroy(u)
      <3>1. u = [st EXCEPT !.assert_failed = @ \/ st.offered = {}]
        BY <1>1 DEF TransportSet
      <3> HIDE DEF u
      <3> QED BY <1>4, <3>1 DEF StartCheck
    <2>2. a \in BOOLEAN
      OBVIOUS
    <2> HIDE DEF a
    <2>3. u \in TransportSet /\ Near(st, u)
      BY <1>1, <2>2 DEF TransportSet, Near
    <2> HIDE DEF u
    <2>4. Near(u, sess_destroy(u)) /\ ~st.destroy_req
      BY <1>4, <2>3, SessNear, RequestOpen
    <2>5. Near(st, sess_destroy(u))
      BY <2>3, <2>4 DEF Near
    <2> QED BY <1>1, <2>1, <2>4, <2>5, StillSilent
  <1> QED BY <1>2, <1>3, <1>4

LEMMA StopIceSilent == IInv /\ Silence /\ StopIce => Silence'
  <1> SUFFICES ASSUME IInv, Silence, StopIce PROVE Silence'
    OBVIOUS
  <1>1. /\ st' = sess_destroy(st) /\ wk' = wk /\ told' = told /\ ~st.destroy_req
        /\ st \in TransportSet
    BY DEF StopIce, Calls, IInv, Sane
  <1>2. Near(st, sess_destroy(st))
    BY <1>1, SessNear
  <1> QED BY <1>1, <1>2, StillSilent

\* The application destroys the transport while no handler has the lock.
LEMMA DestroySilent == IInv /\ Silence /\ Destroy => Silence'
  <1> SUFFICES ASSUME IInv, Silence, Destroy PROVE Silence'
    OBVIOUS
  <1>1. /\ st' = destroy_ice_st(st) /\ wk' = wk /\ told' = told /\ ~st.destroy_req
        /\ st \in TransportSet /\ wk.at \in {"idle", "ka"}
    BY DEF Destroy, Calls, LockFree, IInv, Sane
  <1>2. PICK t : t = destroy_ice_st(st)
    OBVIOUS
  <1>3. Cleared(t) /\ Bare(t) /\ t.cb_called = st.cb_called
    BY <1>1, <1>2, DestroyClears DEF Silence
  <1> QED BY <1>1, <1>2, <1>3 DEF Silence

LEMMA SameSilent ==
    ASSUME Silence, UNCHANGED <<st, wk, told>>
    PROVE  Silence'
  BY DEF Silence, Cleared, Bare

LEMMA WorkerSilent ==
    ASSUME "early" \notin Adversity PROVE IInv /\ Silence /\ WorkerNext => Silence'
  <1> SUFFICES ASSUME IInv, Silence, WorkerNext PROVE Silence'
    OBVIOUS
  <1>1. CASE Announce \/ Fail \/ KaFires
    BY <1>1, AnnounceSilent, FailSilent, KaFiresSilent
  <1>2. CASE StunEnds
    BY <1>2, AnswerSilent, NoAnswerSilent DEF StunEnds
  <1>3. CASE StunNamed
    BY <1>3, ResolvedSilent, UnresolvedSilent DEF StunNamed, Sends
  <1>4. CASE KaRuns
    BY <1>4, KaSilent DEF KaRuns, Sends
  <1>5. CASE TurnResolved \/ TurnUnheard \/ TurnClosed
    BY <1>5, TurnResolvedSilent, TurnUnheardSilent, TurnClosedSilent
  <1>6. CASE TurnEnds
    BY <1>6, TurnReadySilent, TurnLostSilent DEF TurnEnds, Again
  <1>7. CASE IceEnds
    BY <1>7, IceFinishSilent DEF IceEnds
  <1>8. CASE IceTell
    BY <1>8, IceTellSilent
  <1> QED BY <1>1, <1>2, <1>3, <1>4, <1>5, <1>6, <1>7, <1>8 DEF WorkerNext

LEMMA CallerSilent == IInv /\ Silence /\ (ReturnNext \/ CallNext) => Silence'
  <1> SUFFICES ASSUME IInv, Silence, ReturnNext \/ CallNext PROVE Silence'
    OBVIOUS
  <1>1. CASE InitIceDone \/ StartDone \/ StopDone
    BY <1>1, StateSilent DEF InitIceDone, StartDone, StopDone
  <1>2. CASE StartChecks
    BY <1>2, StartCheckSilent DEF StartChecks, Again
  <1>3. CASE Dangles
    BY <1>3, SameSilent DEF Dangles
  <1>4. CASE CallNext
    BY <1>4, CreateSilent, RefusedSilent, InitIceSilent, StartIceSilent, StopIceSilent,
       DestroySilent DEF CallNext
  <1> QED BY <1>1, <1>2, <1>3, <1>4, UpdateSilent, AnnouncedSilent DEF ReturnNext

LEMMA SilentStart == Init => Silence
  BY DEF Init, Transport, Silence, Cleared, Bare, Idle, NothingTold

LEMMA StaysSilent ==
    ASSUME "early" \notin Adversity PROVE IInv /\ Silence /\ [Next]_tvars => Silence'
  <1>1. ASSUME Silence, UNCHANGED tvars PROVE Silence'
    BY <1>1, SameSilent DEF tvars
  <1> QED BY <1>1, WorkerSilent, CallerSilent DEF Next

LEMMA ClientSilent ==
    ASSUME "early" \notin Adversity PROVE IInv /\ Silence /\ [CNext]_vars => Silence'
  <1>1. ASSUME IInv, Silence, UNCHANGED vars PROVE Silence'
    BY <1>1, SameSilent DEF vars, tvars
  <1>2. ASSUME IInv, Silence, CNext PROVE Silence'
    <2>1. Next \/ UNCHANGED tvars \/ (misuse' = TRUE /\ UNCHANGED <<st, call, wk, told>>)
      BY <1>2, ClientStep
    <2> QED BY <1>2, <2>1, StaysSilent, SameSilent
  <1> QED BY <1>1, <1>2

-----------------------------------------------------------------------------
(* The theorems                                                            *)

\* The state of the transport and of its threads is well formed, whatever the
\* application calls.
THEOREM Types_invariant == Spec => []TypeOK
  BY Starts, Inductive, Typed, PTL DEF Spec

\* pj_grp_lock_add_ref and pj_grp_lock_dec_ref: no reference to a transport is
\* lost or dropped twice, whatever the application calls.
THEOREM Refs_balanced == Spec => []RefsBalanced
  BY Starts, Inductive, Balanced, PTL DEF Spec

\* The default candidate of pj_ice_strans_get_def_cand is one of the list.
THEOREM Default_exists == Spec => []DefaultExists
  BY Starts, Inductive, HasOne, PTL DEF Spec

\* pj_ice_strans_sendto takes the way of the session only if it succeeded.
THEOREM Route_is_usable == Spec => []RouteIsUsable
  BY Starts, Inductive, Usable, PTL DEF Spec

\* The same of the application in the repository, which calls the functions of
\* the transport in its own order, and goes on with a destroyed one.
THEOREM Client_is_safe ==
    CSpec => [](TypeOK /\ RefsBalanced /\ DefaultExists /\ RouteIsUsable)
  <1>1. CInit => IInv
    BY Starts DEF CInit
  <1>2. IInv => TypeOK /\ RefsBalanced /\ DefaultExists /\ RouteIsUsable
    BY Typed, Balanced, HasOne, Usable
  <1> QED BY <1>1, <1>2, ClientInductive, PTL DEF CSpec

\* pj_ice_strans_destroy under the group lock: no handler reports to an
\* application that has destroyed the transport, whatever it calls, when and in
\* which order, unless a keep-alive is sent before the gathering has ended.
THEOREM Silent_after_destroy ==
    ASSUME "early" \notin Adversity PROVE Spec => []SilentAfterDestroy
  <1>1. Silence => SilentAfterDestroy
    BY DEF Silence, SilentAfterDestroy
  <1> QED BY <1>1, Starts, SilentStart, Inductive, StaysSilent, PTL DEF Spec

\* The same of the application in the repository.
THEOREM Silent_to_client ==
    ASSUME "early" \notin Adversity PROVE CSpec => []SilentAfterDestroy
  <1>1. CInit => IInv /\ Silence
    BY Starts, SilentStart DEF CInit
  <1>2. Silence => SilentAfterDestroy
    BY DEF Silence, SilentAfterDestroy
  <1> QED BY <1>1, <1>2, ClientInductive, ClientSilent, PTL DEF CSpec
=============================================================================
