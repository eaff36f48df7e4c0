---------------------- MODULE StunSessionMemory_proofs ----------------------
(***************************************************************************)
(* Proofs about the memory of StunSession.tla: the handle that ICE keeps   *)
(* of a request is good while it waits, for any number of polling threads, *)
(* and with one of them nothing that was given back is in use.             *)
(***************************************************************************)
EXTENDS StunSession_proofs

\* A tdata by itself: what is in the heap has an active id; only a response
\* has a cache timer, and nothing else; a transaction that is to be destroyed
\* has lost its callback.
Settled(t) ==
    /\ t.heap \subseteq t.id
    /\ t.state = "none" => t.heap = {} /\ t.list = "none"
    /\ IF t.tsx THEN "cache" \notin t.id ELSE t.id \subseteq {"cache"}
    /\ t.list = "pending" => t.tsx
    /\ "destroy" \in t.id => ~t.on_complete

\* A tdata whose timer is with a poller.  It may have another destroy timer
\* by then, but no other of the same kind.
Gripped(t, pp, r) == \A p \in Pollers, k \in Timers : pp[p] = <<r, k>> =>
    /\ t.state # "none"
    /\ k = "cache" <=> ~t.tsx
    /\ k = "destroy" => ~t.on_complete
    /\ k # "destroy" => k \notin t.heap /\ \A q \in Pollers : pp[q] = <<r, k>> => q = p

Orderly(td, pp) == \A r \in Slot : Settled(td[r]) /\ Gripped(td[r], pp, r)

\* The request of a check that ICE waits for.
Waits(r, us, cs, d, at) == us[r] = "waiting" /\ cs[r] = 0 /\ ~d /\ at = "short"
Good(t) == t.state = "live" /\ t.list = "pending" /\ ~t.complete /\ t.on_complete
Holding(td, us, cs, d, at) == \A r \in Slot : Waits(r, us, cs, d, at) => Good(td[r])

HInv == Orderly(tdata, popped) /\ Holding(tdata, user, calls, is_destroying, auth_type)

\* What may happen to a tdata while its timers are with pollers.
Steady(t, u) == Settled(u) /\ Quieter(t, u) /\ u.heap \subseteq t.heap \cup {"destroy"}

-----------------------------------------------------------------------------
(* The operators on one tdata                                              *)

LEMMA SteadyTrans ==
    ASSUME NEW t, NEW u, NEW v, Steady(t, u), Steady(u, v)
    PROVE  Steady(t, v)
  BY DEF Steady, Quieter

LEMMA SteadySelf == ASSUME NEW t, Settled(t) PROVE Steady(t, t)
  BY DEF Steady, Quieter

LEMMA StopSettled ==
    ASSUME NEW t \in Tdata, Settled(t)
    PROVE  /\ Steady(t, pj_stun_client_tsx_stop(t))
           /\ pj_stun_client_tsx_stop(t).heap = t.heap \ {"retransmit", "destroy"}
           /\ pj_stun_client_tsx_stop(t).id = t.id \ {"retransmit", "destroy"}
<1>1. PICK u : u = pj_stun_client_tsx_stop(t)
  OBVIOUS
<1>2. u \in Tdata /\ Quieter(t, u) /\ u.on_complete = t.on_complete /\ u.list = t.list /\ u.state = t.state
  BY <1>1, StopType
<1>3. u.heap = t.heap \ {"retransmit", "destroy"} /\ u.id = t.id \ {"retransmit", "destroy"}
  BY <1>1 DEF pj_stun_client_tsx_stop, Cancel, Tdata
<1>4. u.tsx = t.tsx
  BY <1>2 DEF Quieter
<1> QED
  BY <1>1, <1>2, <1>3, <1>4 DEF Steady, Settled

LEMMA CancelSettled ==
    ASSUME NEW t \in Tdata, NEW k \in Timers, Settled(t)
    PROVE  /\ Steady(t, Cancel(t, k))
           /\ Cancel(t, k).heap = t.heap \ {k} /\ Cancel(t, k).id = t.id \ {k}
<1>1. PICK u : u = Cancel(t, k)
  OBVIOUS
<1>2. u \in Tdata /\ Quieter(t, u) /\ u.on_complete = t.on_complete /\ u.list = t.list /\ u.state = t.state
  BY <1>1, CancelType
<1>3. u.heap = t.heap \ {k} /\ u.id = t.id \ {k}
  BY <1>1 DEF Cancel, Tdata
<1>4. u.tsx = t.tsx
  BY <1>2 DEF Quieter
<1> QED
  BY <1>1, <1>2, <1>3, <1>4 DEF Steady, Settled

LEMMA ScheduleFields ==
    ASSUME NEW t \in Tdata, NEW k \in Timers
    PROVE  LET u == Schedule(t, k)
           IN  /\ u \in Tdata /\ u.heap = t.heap \cup {k} /\ u.id = t.id \cup {k}
               /\ u.tsx = t.tsx /\ u.complete = t.complete /\ u.on_complete = t.on_complete
               /\ u.state = t.state /\ u.list = t.list /\ u.count = t.count
<1>1. PICK u : u = Schedule(t, k)
  OBVIOUS
<1>2. u \in Tdata /\ Quieter(t, u) /\ u.on_complete = t.on_complete
  BY <1>1, ScheduleType
<1>3. u.heap = t.heap \cup {k} /\ u.id = t.id \cup {k}
  BY <1>1 DEF Schedule, Tdata
<1>4. u.complete = t.complete /\ u.state = t.state /\ u.list = t.list /\ u.count = t.count
  BY <1>1 DEF Schedule, Tdata
<1> QED
  BY <1>1, <1>2, <1>3, <1>4 DEF Quieter

\* A transaction is left with its destroy timer.
LEMMA ScheduleDestroySettled ==
    ASSUME NEW t \in Tdata, Settled(t), t.tsx, t.state # "none"
    PROVE  Steady(t, schedule_destroy(t)) /\ schedule_destroy(t).list = t.list
<1>1. PICK u \in Tdata : /\ u = pj_stun_client_tsx_stop(t) /\ Steady(t, u)
                         /\ u.list = t.list /\ u.state = t.state
  BY StopType, StopSettled
<1>2. PICK w : w = Schedule(u, "destroy")
  OBVIOUS
<1>3. /\ w \in Tdata /\ w.tsx = u.tsx /\ w.list = u.list /\ w.state = u.state
      /\ w.heap = u.heap \cup {"destroy"} /\ w.id = u.id \cup {"destroy"}
  BY <1>2, ScheduleFields DEF Timers
<1>4. PICK v : v = schedule_destroy(t)
  OBVIOUS
<1>5. v = [w EXCEPT !.on_complete = FALSE]
  BY <1>1, <1>2, <1>4 DEF schedule_destroy
<1>6. v.tsx = w.tsx /\ v.list = w.list /\ v.state = w.state /\ v.heap = w.heap /\ v.id = w.id
  BY <1>3, <1>5 DEF Tdata
<1>7. ~v.on_complete /\ Quieter(t, v)
  BY <1>4, ScheduleDestroyType
<1>8. u.tsx = t.tsx /\ Settled(u) /\ u.heap \subseteq t.heap \cup {"destroy"}
  BY <1>1 DEF Steady, Quieter
<1>9. Settled(v)
  BY <1>1, <1>3, <1>6, <1>7, <1>8 DEF Settled
<1> QED
  BY <1>1, <1>3, <1>4, <1>6, <1>7, <1>8, <1>9 DEF Steady

\* Destroying a tdata takes its transaction a step nearer its end; what is
\* released is in no list and in no heap, if it had at most its cache timer.
LEMMA DestroyTdataSettled ==
    ASSUME NEW t \in Tdata, NEW force \in BOOLEAN, Settled(t), force \/ t.state # "none"
    PROVE  LET u == destroy_tdata(t, force)
           IN  /\ Steady(t, u)
               /\ t.tsx /\ ~force => u.state = t.state
               /\ force \/ (~t.tsx /\ (t.list = "none" \/ "cache" \in t.id))
                     => u.state = "released" /\ u.list = "none" /\ u.heap = {}
<1> DEFINE c == [Cancel(t, "cache") EXCEPT !.list = "none"]
           u == IF "cache" \in t.id THEN c ELSE t
           f == [pj_stun_client_tsx_stop(u) EXCEPT !.list = "none", !.state = "released"]
           g == [u EXCEPT !.state = "released"]
<1>1. c \in Tdata /\ Steady(t, c) /\ c.state = t.state /\ c.list = "none" /\ "cache" \notin c.id
  <2>1. PICK w : w = Cancel(t, "cache")
    OBVIOUS
  <2>2. w \in Tdata /\ Steady(t, w) /\ w.state = t.state /\ w.id = t.id \ {"cache"}
    BY <2>1, CancelType, CancelSettled DEF Timers
  <2>3. /\ c \in Tdata /\ c.list = "none" /\ c.state = w.state /\ c.id = w.id /\ c.heap = w.heap
        /\ c.tsx = w.tsx /\ c.on_complete = w.on_complete
    BY <2>1, <2>2 DEF Tdata
  <2>4. c.token = w.token /\ c.complete = w.complete
    BY <2>1, <2>2 DEF Tdata
  <2> HIDE DEF c
  <2> QED
    BY <2>2, <2>3, <2>4 DEF Steady, Settled, Quieter
<1>2. /\ u \in Tdata /\ Steady(t, u) /\ u.state = t.state /\ "cache" \notin u.id
      /\ t.list = "none" \/ "cache" \in t.id => u.list = "none"
  BY <1>1, SteadySelf
<1> HIDE DEF c, u
<1>3. u.tsx = t.tsx /\ Settled(u)
  BY <1>2 DEF Steady, Quieter
<1>4. Steady(u, f) /\ f.state = "released" /\ f.list = "none" /\ f.heap = {}
  <2>1. PICK w : w = pj_stun_client_tsx_stop(u)
    OBVIOUS
  <2>2. /\ w \in Tdata /\ Steady(u, w) /\ w.heap = u.heap \ {"retransmit", "destroy"}
        /\ w.id = u.id \ {"retransmit", "destroy"}
    BY <1>2, <1>3, <2>1, StopType, StopSettled
  <2>3. /\ f.list = "none" /\ f.state = "released" /\ f.id = w.id /\ f.heap = w.heap
        /\ f.tsx = w.tsx /\ f.on_complete = w.on_complete
    BY <2>1, <2>2 DEF Tdata
  <2>4. f.token = w.token /\ f.complete = w.complete
    BY <2>1, <2>2 DEF Tdata
  <2>5. u.heap \subseteq Timers \ {"cache"}
    BY <1>2, <1>3 DEF Settled, Tdata
  <2>6. f.heap = {}
    BY <2>2, <2>3, <2>5 DEF Timers
  <2> HIDE DEF f
  <2> QED
    BY <2>2, <2>3, <2>4, <2>6 DEF Steady, Settled, Quieter
<1>5. ~u.tsx => Steady(u, g) /\ g.state = "released" /\ g.list = u.list /\ g.heap = {}
  <2>1. /\ g.list = u.list /\ g.state = "released" /\ g.id = u.id /\ g.heap = u.heap
        /\ g.tsx = u.tsx /\ g.on_complete = u.on_complete
    BY <1>2 DEF Tdata
  <2>2. g.token = u.token /\ g.complete = u.complete
    BY <1>2 DEF Tdata
  <2>3. ~u.tsx => u.heap = {}
    BY <1>2, <1>3 DEF Settled
  <2> HIDE DEF g
  <2> QED
    BY <1>3, <2>1, <2>2, <2>3 DEF Steady, Settled, Quieter
<1>6. u.tsx /\ ~force => Steady(u, schedule_destroy(u)) /\ schedule_destroy(u).state = u.state
  BY <1>2, <1>3, ScheduleDestroySettled, ScheduleDestroyType
<1>7. destroy_tdata(t, force) = IF force THEN f ELSE IF u.tsx THEN schedule_destroy(u) ELSE g
  BY DEF destroy_tdata, u, c
<1> HIDE DEF f, g
<1>8. Steady(t, destroy_tdata(t, force))
  BY <1>2, <1>4, <1>5, <1>6, <1>7, SteadyTrans
<1> QED
  BY <1>2, <1>3, <1>4, <1>5, <1>6, <1>7, <1>8

\* A transmission leaves the retransmission timer in the heap at most.
LEMMA TransmitSettled ==
    ASSUME NEW t \in Tdata, NEW ok \in BOOLEAN, t.count <= MaxTransmit,
           Settled(t), t.tsx, t.state # "none"
    PROVE  LET u == tsx_transmit_msg(t, ok)
           IN  /\ Settled(u) /\ u.heap \subseteq t.heap \cup {"retransmit"}
               /\ u.list = t.list /\ u.state = t.state
               /\ u.complete = t.complete /\ u.on_complete = t.on_complete
               /\ ~ok => "retransmit" \notin u.heap
<1> DEFINE v == Schedule(t, "retransmit")
           u == IF t.retransmit THEN v ELSE t
           sent == [u EXCEPT !.count = t.count + 1]
<1>1. /\ v \in Tdata /\ v.heap = t.heap \cup {"retransmit"} /\ v.id = t.id \cup {"retransmit"}
      /\ v.tsx = t.tsx /\ v.list = t.list /\ v.state = t.state
      /\ v.complete = t.complete /\ v.on_complete = t.on_complete
  BY ScheduleFields DEF Timers
<1>2. /\ u \in Tdata /\ u.heap \subseteq t.heap \cup {"retransmit"} /\ Settled(u)
      /\ u.tsx = t.tsx /\ u.list = t.list /\ u.state = t.state
      /\ u.complete = t.complete /\ u.on_complete = t.on_complete
  <2> HIDE DEF v
  <2> QED
    BY <1>1 DEF Settled
<1> HIDE DEF u
<1>3. t.count + 1 \in 0..(MaxTransmit + 1)
  BY MaxTransmitAssumption DEF Tdata
<1>4. /\ sent \in Tdata /\ sent.heap = u.heap /\ sent.id = u.id /\ sent.tsx = u.tsx
      /\ sent.list = u.list /\ sent.state = u.state
      /\ sent.complete = u.complete /\ sent.on_complete = u.on_complete
  BY <1>2, <1>3 DEF Tdata
<1> HIDE DEF sent
<1>5. Settled(sent)
  BY <1>2, <1>4 DEF Settled
<1>6. /\ Cancel(sent, "retransmit").heap = sent.heap \ {"retransmit"}
      /\ Steady(sent, Cancel(sent, "retransmit"))
      /\ Cancel(sent, "retransmit").on_complete = sent.on_complete
      /\ Cancel(sent, "retransmit").state = sent.state /\ Cancel(sent, "retransmit").list = sent.list
  BY <1>4, <1>5, CancelType, CancelSettled DEF Timers
<1>7. Cancel(sent, "retransmit").complete = sent.complete
  BY <1>4 DEF Cancel, Tdata
<1>8. tsx_transmit_msg(t, ok) = IF ok THEN sent ELSE Cancel(sent, "retransmit")
  BY DEF tsx_transmit_msg, sent, u, v
<1> QED
  BY <1>2, <1>4, <1>5, <1>6, <1>7, <1>8 DEF Steady

\* A request that was sent is good, one that was not waits for its end.
LEMMA SentRequestSettled ==
    ASSUME NEW token \in Slot, NEW retransmit \in BOOLEAN, NEW ok \in BOOLEAN
    PROVE  LET t == SentRequest(token, retransmit, ok)
           IN  Settled(t) /\ t.state = "live" /\ t.tsx /\ (ok => Good(t))
<1> DEFINE q == Request(token, retransmit)
           w == [q EXCEPT !.count = MaxTransmit]
           p == IF retransmit THEN q ELSE Schedule(w, "retransmit")
           m == tsx_transmit_msg(p, ok)
           l == [m EXCEPT !.list = "pending"]
<1>1. /\ q \in Tdata /\ q.count = 0 /\ q.heap = {} /\ q.id = {} /\ q.tsx /\ q.state = "live"
      /\ q.list = "none" /\ ~q.complete /\ q.on_complete /\ q.retransmit = retransmit
  BY RequestType DEF Request
<1>2. tsx_send_msg(q, ok) = m
  BY <1>1 DEF tsx_send_msg
<1>3. SentRequest(token, retransmit, ok) = IF ok THEN l ELSE destroy_tdata(m, FALSE)
  BY <1>2 DEF SentRequest
<1> HIDE DEF q
<1>4. /\ w \in Tdata /\ w.count = MaxTransmit /\ w.heap = {} /\ w.id = {} /\ w.tsx
      /\ w.state = "live" /\ w.list = "none" /\ ~w.complete /\ w.on_complete
  BY <1>1, MaxTransmitAssumption DEF Tdata
<1> HIDE DEF w
<1>5. /\ Schedule(w, "retransmit") \in Tdata
      /\ Schedule(w, "retransmit").count = MaxTransmit
      /\ Schedule(w, "retransmit").heap = {"retransmit"}
      /\ Schedule(w, "retransmit").id = {"retransmit"}
      /\ Schedule(w, "retransmit").tsx
      /\ Schedule(w, "retransmit").state = "live"
      /\ Schedule(w, "retransmit").list = "none"
      /\ ~Schedule(w, "retransmit").complete
      /\ Schedule(w, "retransmit").on_complete
  BY <1>4, ScheduleFields DEF Timers
<1>6. /\ p \in Tdata /\ p.count <= MaxTransmit /\ p.heap \subseteq {"retransmit"} /\ p.id = p.heap
      /\ p.tsx /\ p.state = "live" /\ p.list = "none" /\ ~p.complete /\ p.on_complete
  BY <1>1, <1>5, MaxTransmitAssumption
<1> HIDE DEF p
<1>7. Settled(p)
  BY <1>6 DEF Settled
<1>8. /\ m \in Tdata /\ Settled(m) /\ m.state = "live" /\ m.list = "none" /\ ~m.complete
      /\ m.on_complete /\ m.tsx
  BY <1>6, <1>7, TransmitType, TransmitSettled DEF Quieter
<1> HIDE DEF m
<1>9. /\ l.state = m.state /\ l.list = "pending" /\ l.complete = m.complete
      /\ l.on_complete = m.on_complete /\ l.tsx = m.tsx /\ l.heap = m.heap /\ l.id = m.id
  BY <1>8 DEF Tdata
<1> HIDE DEF l
<1>10. Settled(l)
  BY <1>8, <1>9 DEF Settled
<1>11. /\ Steady(m, destroy_tdata(m, FALSE))
       /\ destroy_tdata(m, FALSE).state = m.state
  BY <1>8, DestroyTdataSettled, FALSE \in BOOLEAN
<1> QED
  BY <1>3, <1>8, <1>9, <1>10, <1>11 DEF Good, Steady, Quieter

\* A response is in the cache with its timer, or it is released.
LEMMA SentResponseSettled ==
    ASSUME NEW token \in Slot, NEW cache \in BOOLEAN, NEW ok \in BOOLEAN
    PROVE  LET t == SentResponse(token, cache, ok)
           IN  /\ Settled(t)
               /\ t.state = "released" => t.list = "none" /\ t.heap = {}
<1> DEFINE v == Request(token, FALSE)
           q == [v EXCEPT !.tsx = FALSE, !.on_complete = FALSE]
           s == Schedule(q, "cache")
           d == [s EXCEPT !.list = "cached"]
           c == IF cache THEN d ELSE q
<1>1. v \in Tdata /\ v.heap = {} /\ v.id = {} /\ v.state = "live" /\ v.list = "none"
  BY RequestType, FALSE \in BOOLEAN DEF Request
<1> HIDE DEF v
<1>2. q \in Tdata /\ q.heap = {} /\ q.id = {} /\ q.state = "live" /\ q.list = "none"
  BY <1>1 DEF Tdata
<1>3. ~q.tsx
  BY <1>1 DEF Tdata
<1>4. ~q.on_complete
  BY <1>1 DEF Tdata
<1> HIDE DEF q
<1>5. /\ s \in Tdata /\ s.heap = {"cache"} /\ s.id = {"cache"} /\ s.state = "live"
      /\ s.tsx = q.tsx /\ s.on_complete = q.on_complete
  BY <1>2, ScheduleFields DEF Timers
<1> HIDE DEF s
<1>6. /\ d \in Tdata /\ d.heap = {"cache"} /\ d.id = {"cache"} /\ d.state = "live"
      /\ d.tsx = s.tsx /\ d.on_complete = s.on_complete /\ d.list = "cached"
  BY <1>5 DEF Tdata
<1> HIDE DEF d
<1>7. /\ c \in Tdata /\ Settled(c) /\ c.state = "live" /\ ~c.tsx
      /\ c.list = "none" \/ "cache" \in c.id
  BY <1>2, <1>3, <1>4, <1>5, <1>6 DEF Settled
<1>8. SentResponse(token, cache, ok) = IF cache /\ ok THEN c ELSE destroy_tdata(c, FALSE)
  BY DEF SentResponse, c, d, s, q, v
<1> HIDE DEF c
<1>9. /\ Steady(c, destroy_tdata(c, FALSE))
      /\ destroy_tdata(c, FALSE).list = "none" /\ destroy_tdata(c, FALSE).heap = {}
  BY <1>7, DestroyTdataSettled, FALSE \in BOOLEAN
<1> QED
  BY <1>7, <1>8, <1>9 DEF Steady

-----------------------------------------------------------------------------
(* The operators on all of them                                            *)

LEMMA SteadyOrderly ==
    ASSUME NEW td, NEW e, NEW pp, Orderly(td, pp), \A r \in Slot : Steady(td[r], e[r])
    PROVE  Orderly(e, pp)
<1> SUFFICES ASSUME NEW r \in Slot PROVE Settled(e[r]) /\ Gripped(e[r], pp, r)
  BY DEF Orderly
<1>1. Settled(e[r]) /\ Quieter(td[r], e[r]) /\ e[r].heap \subseteq td[r].heap \cup {"destroy"}
  BY DEF Steady
<1>2. Gripped(td[r], pp, r)
  BY DEF Orderly
<1>3. Gripped(e[r], pp, r)
  BY <1>1, <1>2 DEF Gripped, Quieter
<1> QED
  BY <1>1, <1>3

LEMMA UpdateOrderly ==
    ASSUME NEW td \in [Slot -> Tdata], NEW pp, Orderly(td, pp), NEW r \in Slot, NEW u, Steady(td[r], u)
    PROVE  Orderly([td EXCEPT ![r] = u], pp)
<1>1. \A s \in Slot : Steady(td[s], [td EXCEPT ![r] = u][s])
  BY SteadySelf DEF Orderly
<1> QED
  BY <1>1, SteadyOrderly

LEMMA StopAllOrderly ==
    ASSUME NEW td \in [Slot -> Tdata], NEW pp, Orderly(td, pp)
    PROVE  /\ Orderly(StopAll(td), pp)
           /\ \A r \in Slot : StopAll(td)[r].tsx = td[r].tsx /\ StopAll(td)[r].state = td[r].state
<1>1. ASSUME NEW r \in Slot
      PROVE  /\ Steady(td[r], StopAll(td)[r]) /\ StopAll(td)[r].state = td[r].state
  <2>1. Settled(td[r])
    BY DEF Orderly
  <2>2. Steady(td[r], pj_stun_client_tsx_stop(td[r])) /\ pj_stun_client_tsx_stop(td[r]).state = td[r].state
    BY <2>1, StopSettled, StopType
  <2>3. Steady(td[r], Cancel(td[r], "cache")) /\ Cancel(td[r], "cache").state = td[r].state
    BY <2>1, CancelSettled, CancelType DEF Timers
  <2> QED
    BY <2>1, <2>2, <2>3, SteadySelf DEF StopAll
<1> QED
  BY <1>1, SteadyOrderly DEF Steady, Quieter

\* The session is destroyed with the last timer, and not before.
LEMMA ReleaseOrderly ==
    ASSUME NEW td \in [Slot -> Tdata], NEW d, NEW pp, NEW qq, Orderly(td, qq), Release(td, d, pp)
    PROVE  Orderly(tdata', qq)
<1> DEFINE e == stun_sess_on_destroy(td)
<1>1. \A r \in Slot : Steady(td[r], e[r])
  BY DestroyTdataSettled, SteadySelf, TRUE \in BOOLEAN DEF stun_sess_on_destroy, Orderly
<1> HIDE DEF e
<1>2. Orderly(e, qq)
  BY <1>1, SteadyOrderly
<1> QED
  BY <1>2 DEF Release, e

LEMMA StepOrderly ==
    ASSUME NEW td \in [Slot -> Tdata], NEW pp, Orderly(td, pp), NEW r \in Slot, NEW u \in Tdata,
           Steady(td[r], u), NEW d, Release([td EXCEPT ![r] = u], d, pp)
    PROVE  Orderly(tdata', pp)
<1>1. PICK e \in [Slot -> Tdata] : e = [td EXCEPT ![r] = u]
  OBVIOUS
<1>2. Orderly(e, pp)
  BY <1>1, UpdateOrderly
<1> QED
  BY <1>1, <1>2, ReleaseOrderly

\* A slot that is not used yet is in no poller's hands: it may get any tdata.
LEMMA NewOrderly ==
    ASSUME NEW td \in [Slot -> Tdata], NEW pp, Orderly(td, pp), NEW n \in Slot, td[n].state = "none",
           NEW u, Settled(u)
    PROVE  Orderly([td EXCEPT ![n] = u], pp)
<1>1. Gripped(u, pp, n)
  BY DEF Orderly, Gripped
<1> QED
  BY <1>1 DEF Orderly

\* No check waits for another request than the one that changes.
LEMMA OtherHolding ==
    ASSUME NEW td \in [Slot -> Tdata], NEW r \in Slot, NEW u, NEW d, NEW pp,
           Release([td EXCEPT ![r] = u], d, pp), NEW us, NEW cs, NEW at,
           Holding(td, us, cs, d, at), Waits(r, us, cs, d, at) => Good(u)
    PROVE  Holding(tdata', us, cs, d, at)
<1> SUFFICES ASSUME NEW s \in Slot, Waits(s, us, cs, d, at)
             PROVE  Good(tdata'[s])
  BY DEF Holding
<1>1. tdata' = [td EXCEPT ![r] = u]
  BY DEF Release, Waits
<1> QED
  BY <1>1 DEF Holding

-----------------------------------------------------------------------------
(* Completion                                                              *)

LEMMA NotifyHeld ==
    ASSUME TypeOK, ~is_destroying, NEW r \in Slot, NEW token \in Slot, NEW t \in Tdata,
           NEW force \in BOOLEAN, NEW pp, Orderly(tdata, pp), Steady(tdata[r], t),
           tdata[r].state # "none",
           Holding(tdata, user, calls, is_destroying, auth_type),
           auth_type = "short" => token = r, calls[token] = 0,
           Notify(token, r, t, force, pp)
    PROVE  Orderly(tdata', pp) /\ Holding(tdata', user, calls', is_destroying', auth_type)
<1>1. calls' = [calls EXCEPT ![token] = 1]
  BY DEF Notify, TypeOK
<1>2. PICK destroys \in BOOLEAN :
        LET td == [tdata EXCEPT ![r] = t]
            stopped == IF destroys THEN StopAll(td) ELSE td
        IN  /\ is_destroying' = destroys
            /\ Release([stopped EXCEPT ![r] = destroy_tdata(@, force)], destroys, pp)
  BY DEF Notify
<1>3. PICK td \in [Slot -> Tdata] : td = [tdata EXCEPT ![r] = t]
  BY DEF TypeOK
<1>4. Orderly(td, pp) /\ td[r].state # "none" /\ \A s \in Slot : s # r => td[s] = tdata[s]
  BY <1>3, UpdateOrderly DEF TypeOK, Steady, Quieter
<1>5. PICK st \in [Slot -> Tdata] : st = (IF destroys THEN StopAll(td) ELSE td)
  BY StopAllQuiet
<1>6. Orderly(st, pp) /\ st[r].state # "none"
  BY <1>4, <1>5, StopAllOrderly
<1>7. PICK u \in Tdata : u = destroy_tdata(st[r], force)
  BY DestroyTdataType
<1>8. Steady(st[r], u)
  BY <1>6, <1>7, DestroyTdataSettled DEF Orderly
<1>9. Release([st EXCEPT ![r] = u], destroys, pp)
  BY <1>2, <1>3, <1>5, <1>7
<1>10. Orderly(tdata', pp)
  BY <1>6, <1>8, <1>9, StepOrderly
<1>11. ASSUME NEW s \in Slot, Waits(s, user, calls', is_destroying', auth_type)
       PROVE  Good(tdata'[s])
  <2>1. ~destroys /\ s # token
    <3>1. ~is_destroying' /\ calls'[s] = 0
      BY <1>11 DEF Waits
    <3>2. calls'[token] = 1
      BY <1>1 DEF TypeOK
    <3>3. is_destroying' = destroys
      BY <1>2
    <3> QED
      BY <3>1, <3>2, <3>3
  <2>2. s # r /\ st = td /\ tdata' = [st EXCEPT ![r] = u]
    BY <2>1, <1>5, <1>9, <1>11 DEF Waits, Release
  <2>3. tdata'[s] = tdata[s]
    BY <1>4, <2>2
  <2>4. Waits(s, user, calls, is_destroying, auth_type)
    BY <1>1, <1>11, <2>1 DEF Waits, TypeOK
  <2> QED
    BY <2>3, <2>4 DEF Holding
<1> QED
  BY <1>10, <1>11 DEF Holding

\* The request of a check is not sent again: only one with long term
\* credentials is challenged.
LEMMA ChallengeAnsweredHeld ==
    ASSUME TypeOK, NEW r \in Slot, NEW t \in Tdata, NEW answer, NEW pp,
           Orderly(tdata, pp), Steady(tdata[r], t), tdata[r].state # "none",
           ChallengeAnswered(r, t, answer, pp)
    PROVE  /\ Orderly(tdata', pp) /\ UNCHANGED auth_type
           /\ Holding(tdata', user, calls', is_destroying', auth_type)
<1>1. auth_type = "long" /\ UNCHANGED auth_type
  BY DEF ChallengeAnswered, Challenged
<1>2. PICK n \in Slot, ok \in BOOLEAN :
        /\ NextSlot(n)
        /\ Release([tdata EXCEPT ![n] = SentRequest(t.token, t.retransmit, ok),
                                 ![r] = destroy_tdata(t, FALSE)], is_destroying, pp)
  BY DEF ChallengeAnswered
<1>3. t.token \in Slot /\ t.retransmit \in BOOLEAN
  BY DEF Tdata
<1>4. tdata[n].state = "none" /\ n # r
  BY <1>2, SlotAssumption DEF NextSlot
<1>5. PICK u \in Tdata : u = SentRequest(t.token, t.retransmit, ok) /\ Settled(u)
  BY <1>3, SentRequestType, SentRequestSettled
<1>6. Settled(t) /\ t.state # "none"
  BY DEF Steady, Quieter
<1>7. PICK d \in Tdata : d = destroy_tdata(t, FALSE) /\ Steady(t, d)
  BY <1>6, DestroyTdataType, DestroyTdataSettled, FALSE \in BOOLEAN
<1>8. PICK e \in [Slot -> Tdata] : e = [tdata EXCEPT ![n] = u]
  BY DEF TypeOK
<1>9. Orderly(e, pp) /\ e[r] = tdata[r]
  BY <1>4, <1>5, <1>8, NewOrderly DEF TypeOK
<1>10. Steady(e[r], d)
  BY <1>7, <1>9, SteadyTrans
<1>11. Release([e EXCEPT ![r] = d], is_destroying, pp)
  BY <1>2, <1>5, <1>7, <1>8
<1>12. Orderly(tdata', pp)
  BY <1>9, <1>10, <1>11, StepOrderly
<1> QED
  BY <1>1, <1>12 DEF Holding, Waits

\* A transaction that completes tells the application, which waits no
\* more, if it waited.
LEMMA CompleteTsxHeld ==
    ASSUME TypeOK, OnceInv, NEW r \in Slot, NEW t \in Tdata, NEW answer, NEW pp,
           Orderly(tdata, pp), Steady(tdata[r], t), tdata[r].state # "none",
           t.complete = tdata[r].complete, t.on_complete = tdata[r].on_complete,
           Holding(tdata, user, calls, is_destroying, auth_type),
           CompleteTsx(r, t, answer, pp)
    PROVE  Orderly(tdata', pp) /\ Holding(tdata', user, calls', is_destroying', auth_type')
<1>1. PICK u \in Tdata : u = [t EXCEPT !.complete = TRUE] /\ Steady(tdata[r], u)
                          /\ u.token = tdata[r].token
  <2>1. PICK u : u = [t EXCEPT !.complete = TRUE]
    OBVIOUS
  <2>2. u \in Tdata /\ u.complete = TRUE
    BY <2>1 DEF Tdata
  <2>3. /\ u.token = t.token /\ u.tsx = t.tsx /\ u.on_complete = t.on_complete /\ u.list = t.list
        /\ u.state = t.state /\ u.heap = t.heap /\ u.id = t.id
    BY <2>1 DEF Tdata
  <2>4. Settled(u)
    BY <2>3 DEF Steady, Settled
  <2> QED
    BY <2>1, <2>2, <2>3, <2>4 DEF Steady, Quieter
<1>2. auth_type' = auth_type
  BY CompleteTsxStep DEF Steady
<1>3. ASSUME NEW w \in Tdata, Steady(tdata[r], w), Release([tdata EXCEPT ![r] = w], is_destroying, pp),
             UNCHANGED <<is_destroying, calls>>, ~Waits(r, user, calls, is_destroying, auth_type)
      PROVE  Orderly(tdata', pp) /\ Holding(tdata', user, calls', is_destroying', auth_type')
  <2>1. Orderly(tdata', pp)
    BY <1>3, StepOrderly DEF TypeOK
  <2>2. Holding(tdata', user, calls, is_destroying, auth_type)
    BY <1>3, OtherHolding DEF TypeOK
  <2> QED
    BY <1>2, <1>3, <2>1, <2>2
<1>4. CASE ~(~t.complete /\ t.on_complete)
  <2>1. Release([tdata EXCEPT ![r] = u], is_destroying, pp) /\ UNCHANGED <<is_destroying, calls>>
    BY <1>1, <1>4 DEF CompleteTsx
  <2>2. ~Waits(r, user, calls, is_destroying, auth_type)
    BY <1>4 DEF Holding, Good
  <2> QED
    BY <1>1, <1>3, <2>1, <2>2
<1>5. CASE ~t.complete /\ t.on_complete
  <2>1. Active(tdata, r)
    BY <1>5 DEF Active
  <2>2. stun_tsx_on_complete(r, u, answer, pp)
    BY <1>1, <1>5 DEF CompleteTsx
  <2>3. CASE /\ is_destroying \/ auth_type = "long"
             /\ Release([tdata EXCEPT ![r] = destroy_tdata(u, FALSE)], is_destroying, pp)
             /\ UNCHANGED <<is_destroying, calls>>
    <3>1. PICK w \in Tdata : w = destroy_tdata(u, FALSE) /\ Steady(u, w)
      BY <1>1, DestroyTdataType, DestroyTdataSettled, FALSE \in BOOLEAN DEF Steady, Quieter
    <3>2. Steady(tdata[r], w)
      BY <1>1, <3>1, SteadyTrans
    <3> QED
      BY <1>3, <2>3, <3>1, <3>2 DEF Waits
  <2>4. CASE ~is_destroying /\ Notify(u.token, r, u, answer = "timeout", pp)
    <3>1. PICK force \in BOOLEAN : force = (answer = "timeout")
      OBVIOUS
    <3>2. Notify(u.token, r, u, force, pp)
      BY <2>4, <3>1
    <3>3. u.token \in Slot /\ calls[u.token] = 0 /\ (auth_type = "short" => u.token = r)
      BY <1>1, <2>1 DEF OnceInv, Once, TypeOK, Tdata
    <3> QED
      BY <1>1, <1>2, <2>4, <3>2, <3>3, NotifyHeld
  <2>5. CASE ChallengeAnswered(r, u, answer, pp)
    BY <1>1, <1>2, <2>5, ChallengeAnsweredHeld
  <2> QED
    BY <2>2, <2>3, <2>4, <2>5 DEF stun_tsx_on_complete
<1> QED
  BY <1>4, <1>5

-----------------------------------------------------------------------------
(* The steps: each keeps the handles good                                  *)

LEMMA SendRequestHeld ==
    ASSUME IInv, HInv, NEW r \in Slot, SendRequest(r)
    PROVE  HInv'
<1>1. PICK retransmit \in BOOLEAN, ok \in BOOLEAN :
        /\ tdata' = [tdata EXCEPT ![r] = SentRequest(r, retransmit, ok)]
        /\ user' = [user EXCEPT ![r] = IF ok THEN "waiting" ELSE "refused"]
  BY DEF SendRequest
<1>2. PICK u : u = SentRequest(r, retransmit, ok) /\ Settled(u) /\ (ok => Good(u))
  BY SentRequestSettled
<1>3. tdata[r].state = "none" /\ UNCHANGED <<popped, is_destroying, auth_type, calls>>
  BY SlotAssumption DEF SendRequest, NextSlot, auth
<1>4. Orderly(tdata', popped)
  BY <1>1, <1>2, <1>3, NewOrderly DEF HInv, IInv, TypeOK
<1>5. ASSUME NEW s \in Slot, Waits(s, user', calls, is_destroying, auth_type)
      PROVE  Good(tdata'[s])
  <2>1. CASE s = r
    <3>1. user'[r] = "waiting" /\ tdata'[r] = u
      BY <1>1, <1>2, <1>5, <2>1 DEF Waits, IInv, TypeOK
    <3>2. ok
      BY <1>1, <3>1 DEF IInv, TypeOK
    <3> QED
      BY <1>2, <2>1, <3>1, <3>2
  <2>2. CASE s # r
    <3>1. tdata'[s] = tdata[s] /\ user'[s] = user[s]
      BY <1>1, <2>2 DEF IInv, TypeOK
    <3> QED
      BY <1>5, <3>1 DEF HInv, Holding, Waits
  <2> QED
    BY <2>1, <2>2
<1> QED
  BY <1>3, <1>4, <1>5 DEF HInv, Holding

LEMMA CancelRequestHeld ==
    ASSUME IInv, HInv, NEW r \in Slot, CancelRequest(r)
    PROVE  HInv'
<1>1. /\ ~is_destroying /\ auth_type = "short" /\ user[r] = "waiting" /\ calls[r] = 0
      /\ UNCHANGED <<popped, auth_type>>
  BY DEF CancelRequest, auth
<1>2. tdata[r].state # "none" /\ Settled(tdata[r]) /\ tdata[r] \in Tdata
  BY <1>1 DEF HInv, Holding, Waits, Good, Orderly, IInv, TypeOK
<1>3. CASE /\ user' = [user EXCEPT ![r] = "cancelled"]
           /\ tdata' = [tdata EXCEPT ![r] = destroy_tdata(@, FALSE)]
           /\ UNCHANGED <<calls, is_destroying>>
  <2>1. Steady(tdata[r], destroy_tdata(tdata[r], FALSE))
    BY <1>2, DestroyTdataSettled, FALSE \in BOOLEAN
  <2>2. Orderly(tdata', popped)
    BY <1>3, <2>1, UpdateOrderly DEF HInv, IInv, TypeOK
  <2>3. ASSUME NEW s \in Slot, Waits(s, user', calls, is_destroying, auth_type)
        PROVE  Good(tdata'[s])
    <3>1. s # r
      BY <1>3, <2>3 DEF Waits, IInv, TypeOK
    <3>2. tdata'[s] = tdata[s] /\ user'[s] = user[s]
      BY <1>3, <3>1 DEF IInv, TypeOK
    <3> QED
      BY <2>3, <3>2 DEF HInv, Holding, Waits
  <2> QED
    BY <1>1, <1>3, <2>2, <2>3 DEF HInv, Holding
<1>4. CASE Notify(r, r, tdata[r], FALSE, popped) /\ UNCHANGED user
  <2>1. Steady(tdata[r], tdata[r])
    BY <1>2, SteadySelf
  <2>2. Orderly(tdata', popped) /\ Holding(tdata', user, calls', is_destroying', auth_type)
    BY <1>1, <1>2, <1>4, <2>1, NotifyHeld, FALSE \in BOOLEAN DEF HInv, IInv
  <2> QED
    BY <1>1, <1>4, <2>2 DEF HInv
<1> QED
  BY <1>3, <1>4 DEF CancelRequest

LEMMA DestroySessionHeld ==
    ASSUME IInv, HInv, DestroySession
    PROVE  HInv'
<1>1. StopAll(tdata) \in [Slot -> Tdata] /\ Orderly(StopAll(tdata), popped)
  BY StopAllQuiet, StopAllOrderly DEF HInv, IInv, TypeOK
<1>2. Orderly(tdata', popped) /\ popped' = popped /\ is_destroying'
  BY <1>1, ReleaseOrderly DEF DestroySession
<1> QED
  BY <1>2 DEF HInv, Holding, Waits

LEMMA RxResponseHeld ==
    ASSUME IInv, HInv, NEW r \in Slot, NEW answer \in Answers, RxResponse(r, answer)
    PROVE  HInv'
<1>1. ~is_destroying /\ tdata[r].list = "pending" /\ UNCHANGED <<popped, user>>
  BY DEF RxResponse
<1>2. Settled(tdata[r]) /\ tdata[r] \in Tdata
  BY DEF HInv, Orderly, IInv, TypeOK
<1>3. tdata[r].state # "none"
  BY <1>1, <1>2 DEF Settled
<1>4. PICK t \in Tdata : /\ t = Cancel(tdata[r], "retransmit") /\ Steady(tdata[r], t)
                         /\ t.state = tdata[r].state /\ t.list = tdata[r].list
                         /\ t.complete = tdata[r].complete /\ t.on_complete = tdata[r].on_complete
  <2>1. Cancel(tdata[r], "retransmit").complete = tdata[r].complete
    BY <1>2 DEF Cancel, Tdata
  <2> QED
    BY <1>2, <2>1, CancelType, CancelSettled DEF Timers
<1>5. CASE answer = "provisional"
  <2>1. /\ Release([tdata EXCEPT ![r] = t], is_destroying, popped)
        /\ UNCHANGED <<is_destroying, auth_type, calls>>
    BY <1>4, <1>5 DEF RxResponse, auth
  <2>2. Waits(r, user, calls, is_destroying, auth_type) => Good(t)
    BY <1>4 DEF HInv, Holding, Good
  <2>3. Orderly(tdata', popped) /\ Holding(tdata', user, calls, is_destroying, auth_type)
    BY <1>4, <2>1, <2>2, StepOrderly, OtherHolding DEF HInv, IInv, TypeOK
  <2> QED
    BY <1>1, <2>1, <2>3 DEF HInv
<1>6. CASE answer # "provisional"
  <2>1. CompleteTsx(r, t, answer, popped)
    BY <1>4, <1>6 DEF RxResponse
  <2> QED
    BY <1>1, <1>3, <1>4, <2>1, CompleteTsxHeld DEF HInv, IInv
<1> QED
  BY <1>5, <1>6

LEMMA RxRequestHeld ==
    ASSUME IInv, HInv, NEW r \in Slot, RxRequest(r)
    PROVE  HInv'
<1>1. PICK cache \in BOOLEAN, ok \in BOOLEAN : tdata' = [tdata EXCEPT ![r] = SentResponse(r, cache, ok)]
  BY DEF RxRequest
<1>2. Settled(SentResponse(r, cache, ok))
  BY SentResponseSettled
<1>3. tdata[r].state = "none" /\ UNCHANGED <<popped, is_destroying, auth_type, calls, user>>
  BY SlotAssumption DEF RxRequest, NextSlot, auth
<1>4. Orderly(tdata', popped)
  BY <1>1, <1>2, <1>3, NewOrderly DEF HInv, IInv, TypeOK
<1>5. user[r] = "idle"
  BY <1>3 DEF IInv, OnceInv, Once
<1>6. Holding(tdata', user, calls, is_destroying, auth_type)
  BY <1>1, <1>5 DEF HInv, Holding, Waits, IInv, TypeOK
<1> QED
  BY <1>3, <1>4, <1>6 DEF HInv

-----------------------------------------------------------------------------
(* The steps of a poller                                                   *)

LEMMA PopTimerHeld ==
    ASSUME IInv, HInv, NEW p \in Pollers, NEW r \in Slot, NEW k \in Timers, PopTimer(p, r, k)
    PROVE  HInv'
<1>1. PICK u : u = [tdata[r] EXCEPT !.heap = @ \ {k}]
  OBVIOUS
<1>2. tdata[r] \in Tdata /\ Settled(tdata[r]) /\ Gripped(tdata[r], popped, r)
  BY DEF HInv, Orderly, IInv, TypeOK
<1>3. /\ u.heap = tdata[r].heap \ {k} /\ u.id = tdata[r].id /\ u.state = tdata[r].state
      /\ u.tsx = tdata[r].tsx /\ u.list = tdata[r].list
      /\ u.on_complete = tdata[r].on_complete /\ u.complete = tdata[r].complete
  BY <1>1, <1>2 DEF Tdata
<1>4. /\ popped[p] = None /\ k \in tdata[r].heap
      /\ popped' = [popped EXCEPT ![p] = <<r, k>>] /\ tdata' = [tdata EXCEPT ![r] = u]
      /\ UNCHANGED <<is_destroying, auth_type, user, calls>>
  BY <1>1 DEF PopTimer, auth
<1>5. /\ popped'[p] = <<r, k>> /\ \A q \in Pollers : q # p => popped'[q] = popped[q]
  BY <1>4 DEF IInv, TypeOK
<1>6. Settled(u)
  BY <1>2, <1>3 DEF Settled
<1>7. \A q \in Pollers, l \in Timers : popped'[q] = <<r, l>> =>
         (q = p /\ l = k) \/ (q # p /\ popped[q] = <<r, l>>)
  BY <1>5
<1>8. /\ u.state # "none" /\ (k = "cache" <=> ~u.tsx) /\ (k = "destroy" => ~u.on_complete)
  <2>1. tdata[r].id \in SUBSET Timers /\ k \in tdata[r].id
    BY <1>2, <1>4 DEF Settled, Tdata
  <2> QED
    BY <1>2, <1>3, <1>4, <2>1 DEF Settled
<1>9. \A q \in Pollers : k # "destroy" => popped[q] # <<r, k>>
  BY <1>2, <1>4 DEF Gripped
<1>10. Gripped(u, popped', r)
  <2> SUFFICES ASSUME NEW q \in Pollers, NEW l \in Timers, popped'[q] = <<r, l>>
               PROVE  /\ u.state # "none" /\ (l = "cache" <=> ~u.tsx)
                      /\ l = "destroy" => ~u.on_complete
                      /\ l # "destroy" => l \notin u.heap
                                          /\ \A o \in Pollers : popped'[o] = <<r, l>> => o = q
    BY DEF Gripped
  <2>1. CASE q = p /\ l = k
    BY <1>3, <1>5, <1>8, <1>9, <2>1
  <2>2. CASE q # p /\ popped[q] = <<r, l>>
    <3>1. l # "destroy" => l # k
      BY <1>9, <2>2
    <3>2. \A o \in Pollers : l # "destroy" /\ popped'[o] = <<r, l>> => popped[o] = <<r, l>>
      BY <3>1, <1>7
    <3> QED
      BY <1>2, <1>3, <2>2, <3>2 DEF Gripped
  <2> QED
    BY <1>7, <2>1, <2>2
<1>11. ASSUME NEW s \in Slot, s # r
       PROVE  Gripped(tdata[s], popped', s)
  <2>1. \A q \in Pollers, l \in Timers : popped'[q] = <<s, l>> => popped[q] = <<s, l>>
    BY <1>5, <1>11
  <2> QED
    BY <2>1 DEF HInv, Orderly, Gripped
<1>12. Orderly(tdata', popped')
  BY <1>4, <1>6, <1>10, <1>11 DEF HInv, Orderly, IInv, TypeOK
<1>13. Holding(tdata', user, calls, is_destroying, auth_type)
  BY <1>3, <1>4 DEF HInv, Holding, Good, IInv, TypeOK
<1> QED
  BY <1>4, <1>12, <1>13 DEF HInv

\* A callback starts with its timer out of the heap, and no other poller
\* has it, unless it is a destroy timer.
LEMMA CallbackHeld ==
    ASSUME IInv, HInv, NEW p \in Pollers, NEW r \in Slot, NEW k \in Timers, Callback(p, r, k)
    PROVE  /\ Orderly(tdata, popped') /\ tdata[r] \in Tdata /\ tdata[r].state # "none"
           /\ Settled(tdata[r]) /\ (k = "cache" <=> ~tdata[r].tsx)
           /\ k = "destroy" => ~tdata[r].on_complete
           /\ k # "destroy" => k \notin tdata[r].heap /\ \A q \in Pollers : popped'[q] # <<r, k>>
           /\ UNCHANGED user
<1>1. popped[p] = <<r, k>> /\ popped' = [popped EXCEPT ![p] = None] /\ UNCHANGED user
  BY DEF Callback
<1>2. \A s \in Slot, l \in Timers : <<s, l>> # None
  BY NoneAssumption DEF Timers
<1>3. popped'[p] = None /\ \A q \in Pollers : q # p => popped'[q] = popped[q]
  BY <1>1 DEF IInv, TypeOK
<1>4. \A q \in Pollers, s \in Slot, l \in Timers : popped'[q] = <<s, l>> => q # p /\ popped[q] = <<s, l>>
  BY <1>2, <1>3
<1>5. Orderly(tdata, popped')
  BY <1>4 DEF HInv, Orderly, Gripped
<1>6. tdata[r] \in Tdata /\ Settled(tdata[r]) /\ Gripped(tdata[r], popped, r)
  BY DEF HInv, Orderly, IInv, TypeOK
<1>7. /\ tdata[r].state # "none" /\ (k = "cache" <=> ~tdata[r].tsx)
      /\ k = "destroy" => ~tdata[r].on_complete
      /\ k # "destroy" => k \notin tdata[r].heap /\ \A q \in Pollers : popped[q] = <<r, k>> => q = p
  BY <1>1, <1>6 DEF Gripped
<1> QED
  BY <1>1, <1>4, <1>5, <1>6, <1>7

\* The timer that fired is no longer active.
LEMMA FiredSettled ==
    ASSUME NEW t \in Tdata, NEW k, Settled(t), k \notin t.heap
    PROVE  LET u == [t EXCEPT !.id = t.id \ {k}]
           IN  /\ u \in Tdata /\ Steady(t, u) /\ u.heap = t.heap /\ u.count = t.count
               /\ u.complete = t.complete /\ u.on_complete = t.on_complete
               /\ u.state = t.state /\ u.list = t.list /\ u.tsx = t.tsx
<1>1. PICK u : u = [t EXCEPT !.id = t.id \ {k}]
  OBVIOUS
<1>2. u \in Tdata /\ Quieter(t, u)
  <2>1. t.id \ {k} \in SUBSET Timers
    BY DEF Tdata
  <2> QED
    BY <1>1, <2>1, FieldsType
<1>3. u.heap = t.heap /\ u.id = t.id \ {k} /\ u.count = t.count /\ u.complete = t.complete
  BY <1>1 DEF Tdata
<1>4. u.on_complete = t.on_complete /\ u.state = t.state /\ u.list = t.list /\ u.tsx = t.tsx
  BY <1>1 DEF Tdata
<1>5. Settled(u)
  BY <1>3, <1>4 DEF Settled
<1> QED
  BY <1>1, <1>2, <1>3, <1>4, <1>5 DEF Steady

LEMMA RetransmitTimerHeld ==
    ASSUME IInv, HInv, NEW p \in Pollers, NEW r \in Slot, RetransmitTimer(p, r)
    PROVE  HInv'
<1>1. /\ Orderly(tdata, popped') /\ tdata[r] \in Tdata /\ tdata[r].state # "none"
      /\ Settled(tdata[r]) /\ tdata[r].tsx
      /\ "retransmit" \notin tdata[r].heap
      /\ \A q \in Pollers : popped'[q] # <<r, "retransmit">>
      /\ UNCHANGED user
  BY CallbackHeld DEF RetransmitTimer, Timers
<1>2. PICK t \in Tdata : /\ t = [tdata[r] EXCEPT !.id = @ \ {"retransmit"}]
                         /\ Steady(tdata[r], t) /\ t.heap = tdata[r].heap /\ t.tsx
                         /\ t.complete = tdata[r].complete /\ t.on_complete = tdata[r].on_complete
                         /\ t.state = tdata[r].state /\ t.list = tdata[r].list
  <2>1. PICK x \in Tdata : x = tdata[r]
    BY <1>1
  <2>2. PICK y : y = [x EXCEPT !.id = x.id \ {"retransmit"}]
    OBVIOUS
  <2>3. /\ y \in Tdata /\ Steady(x, y) /\ y.heap = x.heap /\ y.tsx = x.tsx
        /\ y.complete = x.complete /\ y.on_complete = x.on_complete
        /\ y.state = x.state /\ y.list = x.list
    BY <1>1, <2>1, <2>2, FiredSettled
  <2> QED
    BY <1>1, <2>1, <2>2, <2>3
<1>3. ASSUME NEW u \in Tdata, Steady(tdata[r], u), u.complete = tdata[r].complete,
             u.on_complete = tdata[r].on_complete, NEW answer, CompleteTsx(r, u, answer, popped')
      PROVE  HInv'
  BY <1>1, <1>3, CompleteTsxHeld DEF HInv, IInv
<1>4. CASE CompleteTsx(r, t, "timeout", popped')
  BY <1>2, <1>3, <1>4
<1>5. ASSUME NEW ok \in BOOLEAN, t.count < MaxTransmit
      PROVE  LET u == tsx_transmit_msg(t, ok)
             IN  /\ u \in Tdata /\ Quieter(tdata[r], u) /\ Settled(u)
                 /\ u.heap \subseteq tdata[r].heap \cup {"retransmit"}
                 /\ u.complete = tdata[r].complete /\ u.on_complete = tdata[r].on_complete
                 /\ u.state = tdata[r].state /\ u.list = tdata[r].list
                 /\ ~ok => "retransmit" \notin u.heap
  <2>1. t.count <= MaxTransmit
    BY <1>5, MaxTransmitAssumption DEF Tdata
  <2>2. Settled(t) /\ t.state # "none"
    BY <1>1, <1>2 DEF Steady
  <2>3. PICK u : u = tsx_transmit_msg(t, ok)
    OBVIOUS
  <2>4. u \in Tdata /\ Quieter(t, u)
    BY <2>1, <2>3, TransmitType
  <2>5. /\ Settled(u) /\ u.heap \subseteq t.heap \cup {"retransmit"}
        /\ u.list = t.list /\ u.state = t.state
        /\ u.complete = t.complete /\ u.on_complete = t.on_complete
        /\ ~ok => "retransmit" \notin u.heap
    BY <1>2, <2>1, <2>2, <2>3, TransmitSettled
  <2>6. Quieter(tdata[r], u)
    BY <1>2, <2>4 DEF Steady, Quieter
  <2> QED
    BY <1>2, <2>3, <2>4, <2>5, <2>6
<1>6. CASE /\ t.count < MaxTransmit /\ tdata' = [tdata EXCEPT ![r] = tsx_transmit_msg(t, TRUE)]
           /\ UNCHANGED <<is_destroying, auth, calls>>
  <2>1. PICK u \in Tdata : /\ u = tsx_transmit_msg(t, TRUE) /\ Quieter(tdata[r], u) /\ Settled(u)
                            /\ u.heap \subseteq tdata[r].heap \cup {"retransmit"}
                            /\ u.complete = tdata[r].complete /\ u.on_complete = tdata[r].on_complete
                            /\ u.state = tdata[r].state /\ u.list = tdata[r].list
    BY <1>5, <1>6, TRUE \in BOOLEAN
  <2>2. Gripped(u, popped', r)
    <3>1. Gripped(tdata[r], popped', r)
      BY <1>1 DEF Orderly
    <3> QED
      BY <1>1, <2>1, <3>1 DEF Gripped, Quieter
  <2>3. tdata'[r] = u /\ \A s \in Slot : s # r => tdata'[s] = tdata[s]
    BY <1>6, <2>1 DEF IInv, TypeOK
  <2>4. Orderly(tdata', popped')
    BY <1>1, <2>1, <2>2, <2>3 DEF Orderly
  <2>5. Holding(tdata', user, calls, is_destroying, auth_type)
    BY <2>1, <2>3 DEF HInv, Holding, Good
  <2> QED
    BY <1>1, <1>6, <2>4, <2>5 DEF HInv, auth
<1>7. CASE t.count < MaxTransmit /\ CompleteTsx(r, tsx_transmit_msg(t, FALSE), "nothing", popped')
  <2>1. PICK u \in Tdata : /\ u = tsx_transmit_msg(t, FALSE) /\ Quieter(tdata[r], u) /\ Settled(u)
                            /\ u.heap \subseteq tdata[r].heap \cup {"retransmit"}
                            /\ u.complete = tdata[r].complete /\ u.on_complete = tdata[r].on_complete
                            /\ "retransmit" \notin u.heap
    BY <1>5, <1>7, FALSE \in BOOLEAN
  <2> QED
    BY <1>3, <1>7, <2>1 DEF Steady
<1> QED
  BY <1>2, <1>4, <1>6, <1>7 DEF RetransmitTimer

LEMMA DestroyTimerHeld ==
    ASSUME IInv, HInv, NEW p \in Pollers, NEW r \in Slot, DestroyTimer(p, r)
    PROVE  HInv'
<1>1. /\ Orderly(tdata, popped') /\ tdata[r] \in Tdata /\ Settled(tdata[r])
      /\ tdata[r].tsx /\ ~tdata[r].on_complete /\ UNCHANGED user
  BY CallbackHeld DEF DestroyTimer, Timers
<1>2. PICK v \in Tdata : v = pj_stun_client_tsx_stop(tdata[r]) /\ Steady(tdata[r], v)
  BY <1>1, StopType, StopSettled
<1>3. PICK u : u = [v EXCEPT !.list = "none", !.state = "released"]
  OBVIOUS
<1>4. u \in Tdata /\ Quieter(v, u)
  BY <1>3, FieldsType, {} \in SUBSET Timers
<1>5. /\ u.list = "none" /\ u.state = "released" /\ u.tsx = v.tsx /\ u.on_complete = v.on_complete
      /\ u.heap = v.heap /\ u.id = v.id
  BY <1>3 DEF Tdata
<1>6. Steady(tdata[r], u)
  BY <1>2, <1>4, <1>5 DEF Steady, Settled, Quieter
<1>7. Release([tdata EXCEPT ![r] = u], is_destroying, popped') /\ UNCHANGED <<is_destroying, auth_type, calls>>
  BY <1>2, <1>3 DEF DestroyTimer, auth
<1>8. ~Waits(r, user, calls, is_destroying, auth_type)
  BY <1>1 DEF HInv, Holding, Good
<1>9. Orderly(tdata', popped')
  BY <1>1, <1>4, <1>6, <1>7, StepOrderly DEF IInv, TypeOK
<1>10. Holding(tdata', user, calls, is_destroying, auth_type)
  BY <1>7, <1>8, OtherHolding DEF HInv, IInv, TypeOK
<1> QED
  BY <1>1, <1>7, <1>9, <1>10 DEF HInv

LEMMA CacheTimerHeld ==
    ASSUME IInv, HInv, NEW p \in Pollers, NEW r \in Slot, CacheTimer(p, r)
    PROVE  HInv'
<1>1. /\ Orderly(tdata, popped') /\ tdata[r] \in Tdata /\ Settled(tdata[r]) /\ ~tdata[r].tsx
      /\ tdata[r].state # "none" /\ "cache" \notin tdata[r].heap /\ UNCHANGED user
  BY CallbackHeld DEF CacheTimer, Timers
<1>2. PICK w \in Tdata : w = [tdata[r] EXCEPT !.id = @ \ {"cache"}] /\ Steady(tdata[r], w) /\ ~w.tsx
                          /\ w.state = tdata[r].state
  <2>1. PICK x \in Tdata : x = tdata[r]
    BY <1>1
  <2>2. PICK y : y = [x EXCEPT !.id = x.id \ {"cache"}]
    OBVIOUS
  <2>3. /\ y \in Tdata /\ Steady(x, y) /\ y.heap = x.heap /\ y.tsx = x.tsx
        /\ y.complete = x.complete /\ y.on_complete = x.on_complete
        /\ y.state = x.state /\ y.list = x.list
    BY <1>1, <2>1, <2>2, FiredSettled
  <2> QED
    BY <1>1, <2>1, <2>2, <2>3
<1>3. PICK v : v = [w EXCEPT !.list = "none"]
  OBVIOUS
<1>4. v \in Tdata /\ v.list = "none" /\ v.tsx = w.tsx /\ v.heap = w.heap /\ v.id = w.id
  BY <1>3 DEF Tdata
<1>5. v.state = w.state /\ v.on_complete = w.on_complete /\ v.complete = w.complete /\ v.token = w.token
  BY <1>3 DEF Tdata
<1>6. Steady(w, v)
  BY <1>2, <1>4, <1>5 DEF Steady, Settled, Quieter
<1>7. PICK u \in Tdata : u = destroy_tdata(v, FALSE) /\ Steady(v, u)
  BY <1>1, <1>2, <1>4, <1>5, <1>6, DestroyTdataType, DestroyTdataSettled, FALSE \in BOOLEAN DEF Steady
<1>8. Steady(tdata[r], u)
  BY <1>2, <1>6, <1>7, SteadyTrans
<1>9. Release([tdata EXCEPT ![r] = u], is_destroying, popped') /\ UNCHANGED <<is_destroying, auth_type, calls>>
  BY <1>2, <1>3, <1>7 DEF CacheTimer, auth
<1>10. ~Waits(r, user, calls, is_destroying, auth_type)
  BY <1>1 DEF HInv, Holding, Good, Settled
<1>11. Orderly(tdata', popped')
  BY <1>1, <1>8, <1>9, StepOrderly DEF IInv, TypeOK
<1>12. Holding(tdata', user, calls, is_destroying, auth_type)
  BY <1>9, <1>10, OtherHolding DEF HInv, IInv, TypeOK
<1> QED
  BY <1>1, <1>9, <1>11, <1>12 DEF HInv

-----------------------------------------------------------------------------
(* The handle of a request                                                 *)

LEMMA InitHInv == Init => HInv
<1> SUFFICES ASSUME Init, NEW r \in Slot
             PROVE  Settled(tdata[r]) /\ Gripped(tdata[r], popped, r) /\ user[r] # "waiting"
  BY DEF HInv, Orderly, Holding, Waits
<1>1. PICK v : v = Request(r, FALSE)
  OBVIOUS
<1>2. v \in Tdata /\ v.heap = {} /\ v.id = {} /\ v.list = "none"
  BY <1>1, RequestType, FALSE \in BOOLEAN DEF Request
<1>3. PICK t : t = tdata[r]
  OBVIOUS
<1>4. t = [v EXCEPT !.state = "none", !.tsx = FALSE, !.on_complete = FALSE]
  BY <1>1, <1>3 DEF Init, NewTdata
<1>5. t.heap = {} /\ t.id = {} /\ t.list = "none" /\ t.state = "none"
  BY <1>2, <1>4 DEF Tdata
<1>6. ~t.tsx
  BY <1>2, <1>4 DEF Tdata
<1>7. \A p \in Pollers, k \in Timers : popped[p] # <<r, k>>
  BY NoneAssumption DEF Init, Timers
<1> QED
  BY <1>3, <1>5, <1>6, <1>7 DEF Settled, Gripped, Init

LEMMA NextHInv == IInv /\ HInv /\ [Next]_vars => HInv'
<1> SUFFICES ASSUME IInv, HInv, [Next]_vars PROVE HInv'
  OBVIOUS
<1>1. CASE UNCHANGED vars
  BY <1>1 DEF vars, HInv
<1>2. ASSUME NEW r \in Slot, SendRequest(r) \/ CancelRequest(r) \/ RxRequest(r)
      PROVE  HInv'
  BY <1>2, SendRequestHeld, CancelRequestHeld, RxRequestHeld
<1>3. ASSUME NEW r \in Slot, NEW answer \in Answers, RxResponse(r, answer)
      PROVE  HInv'
  BY <1>3, RxResponseHeld
<1>4. CASE DestroySession
  BY <1>4, DestroySessionHeld
<1>5. ASSUME NEW p \in Pollers, Poll(p)
      PROVE  HInv'
  BY <1>5, PopTimerHeld, RetransmitTimerHeld, DestroyTimerHeld, CacheTimerHeld DEF Poll
<1> QED
  BY <1>1, <1>2, <1>3, <1>4, <1>5 DEF Next

LEMMA AlwaysHInv == Spec => []HInv
  BY InitHInv, NextHInv, AlwaysIInv, PTL DEF Spec

\* The tdata of a check, which ICE keeps to cancel or to retransmit it, is
\* pending and its memory is good until ICE is told that the request is
\* complete or destroys the session, however many threads poll the timers.
THEOREM Handle_valid == Spec => []HandleValid
<1>1. HInv => HandleValid
  BY DEF HInv, Holding, Waits, Good, HandleValid
<1> QED
  BY <1>1, AlwaysHInv, PTL

-----------------------------------------------------------------------------
(* Memory that was given back, with one thread that polls the timers       *)

ApartAt(t, pp, r) == t.state = "released" =>
    /\ t.list = "none" /\ t.heap = {}
    /\ \A p \in Pollers, k \in Timers : pp[p] # <<r, k>>
Apart(td, pp) == \A r \in Slot : ApartAt(td[r], pp, r)

Idle(pp) == \A p \in Pollers : pp[p] = None

LEMMA IdleApart ==
    ASSUME NEW pp, Idle(pp), NEW t, NEW r \in Slot,
           t.state = "released" => t.list = "none" /\ t.heap = {}
    PROVE  ApartAt(t, pp, r)
  BY NoneAssumption DEF Idle, ApartAt, Timers

\* The destructor runs when no timer is left to a poller.
LEMMA ReleaseApart ==
    ASSUME NEW td \in [Slot -> Tdata], NEW pp, Orderly(td, pp), Apart(td, pp), NEW d, Release(td, d, pp)
    PROVE  Apart(tdata', pp)
<1>1. CASE d /\ ~Referenced(td, pp)
  <2>1. Idle(pp)
    BY <1>1 DEF Idle, Referenced
  <2>2. ASSUME NEW r \in Slot
        PROVE  ApartAt(stun_sess_on_destroy(td)[r], pp, r)
    <3>1. td[r] \in Tdata /\ Settled(td[r]) /\ ApartAt(td[r], pp, r)
      BY DEF Orderly, Apart
    <3>2. /\ destroy_tdata(td[r], TRUE).list = "none"
          /\ destroy_tdata(td[r], TRUE).heap = {}
      BY <3>1, DestroyTdataSettled, TRUE \in BOOLEAN
    <3>3. ApartAt(destroy_tdata(td[r], TRUE), pp, r)
      BY <2>1, <3>2, IdleApart
    <3> QED
      BY <3>1, <3>3 DEF stun_sess_on_destroy
  <2> QED
    BY <1>1, <2>2 DEF Release, Apart
<1>2. CASE ~(d /\ ~Referenced(td, pp))
  BY <1>2 DEF Release
<1> QED
  BY <1>1, <1>2

LEMMA StopAllApart ==
    ASSUME NEW td \in [Slot -> Tdata], NEW pp, Orderly(td, pp), Apart(td, pp)
    PROVE  Apart(StopAll(td), pp)
<1> SUFFICES ASSUME NEW r \in Slot PROVE ApartAt(StopAll(td)[r], pp, r)
  BY DEF Apart
<1>1. td[r] \in Tdata /\ Settled(td[r]) /\ ApartAt(td[r], pp, r)
  BY DEF Orderly, Apart
<1>2. /\ pj_stun_client_tsx_stop(td[r]).heap = td[r].heap \ {"retransmit", "destroy"}
      /\ pj_stun_client_tsx_stop(td[r]).state = td[r].state
      /\ pj_stun_client_tsx_stop(td[r]).list = td[r].list
  BY <1>1, StopType, StopSettled
<1>3. ApartAt(pj_stun_client_tsx_stop(td[r]), pp, r)
  BY <1>1, <1>2 DEF ApartAt
<1>4. /\ Cancel(td[r], "cache").heap = td[r].heap \ {"cache"}
      /\ Cancel(td[r], "cache").state = td[r].state /\ Cancel(td[r], "cache").list = td[r].list
  BY <1>1, CancelType, CancelSettled DEF Timers
<1>5. ApartAt(Cancel(td[r], "cache"), pp, r)
  BY <1>1, <1>4 DEF ApartAt
<1> QED
  BY <1>1, <1>3, <1>5 DEF StopAll

LEMMA StepApart ==
    ASSUME NEW td \in [Slot -> Tdata], NEW pp, Orderly(td, pp), NEW r \in Slot, NEW u \in Tdata,
           Steady(td[r], u), Apart(td, pp), ApartAt(u, pp, r),
           NEW d, Release([td EXCEPT ![r] = u], d, pp)
    PROVE  Apart(tdata', pp)
<1>1. PICK e \in [Slot -> Tdata] : e = [td EXCEPT ![r] = u]
  OBVIOUS
<1>2. Orderly(e, pp) /\ Apart(e, pp)
  BY <1>1, UpdateOrderly DEF Apart
<1> QED
  BY <1>1, <1>2, ReleaseApart

\* The callback of the one poller leaves no timer with any.
LEMMA CallbackIdle ==
    ASSUME TypeOK, \A p, q \in Pollers : p = q, NEW p \in Pollers, NEW r, NEW k, Callback(p, r, k)
    PROVE  Idle(popped')
  BY DEF Callback, TypeOK, Idle

LEMMA CallbackApart ==
    ASSUME TypeOK, Apart(tdata, popped), NEW p \in Pollers, NEW r \in Slot, NEW k \in Timers,
           Callback(p, r, k)
    PROVE  Apart(tdata, popped') /\ tdata[r].state # "released"
<1>1. /\ popped[p] = <<r, k>>
      /\ \A q \in Pollers : popped'[q] = popped[q] \/ popped'[q] = None
  BY DEF Callback, TypeOK
<1>2. \A s \in Slot, l \in Timers : <<s, l>> # None
  BY NoneAssumption DEF Timers
<1> QED
  BY <1>1, <1>2 DEF Apart, ApartAt

-----------------------------------------------------------------------------
(* Completion                                                              *)

LEMMA NotifyApart ==
    ASSUME TypeOK, NEW r \in Slot, NEW t \in Tdata, NEW token, NEW force \in BOOLEAN, NEW pp,
           Orderly(tdata, pp), Apart(tdata, pp), Steady(tdata[r], t), t.tsx, t.state = "live",
           force => Idle(pp), Notify(token, r, t, force, pp)
    PROVE  Apart(tdata', pp)
<1>1. PICK destroys \in BOOLEAN :
        LET td == [tdata EXCEPT ![r] = t]
            stopped == IF destroys THEN StopAll(td) ELSE td
        IN  Release([stopped EXCEPT ![r] = destroy_tdata(@, force)], destroys, pp)
  BY DEF Notify
<1>2. PICK td \in [Slot -> Tdata] : td = [tdata EXCEPT ![r] = t]
  BY DEF TypeOK
<1>3. Orderly(td, pp) /\ td[r] = t
  BY <1>2, UpdateOrderly DEF TypeOK
<1>4. Apart(td, pp)
  BY <1>2 DEF Apart, ApartAt, TypeOK
<1>5. PICK st \in [Slot -> Tdata] : st = (IF destroys THEN StopAll(td) ELSE td)
  BY StopAllQuiet
<1>6. Orderly(st, pp) /\ Apart(st, pp) /\ st[r].tsx /\ st[r].state = "live" /\ Settled(st[r])
  BY <1>3, <1>4, <1>5, StopAllOrderly, StopAllApart DEF Orderly
<1>7. PICK u \in Tdata : u = destroy_tdata(st[r], force)
  BY DestroyTdataType
<1>8. /\ Steady(st[r], u)
      /\ force => u.list = "none" /\ u.heap = {}
      /\ ~force => u.state = "live"
  BY <1>6, <1>7, DestroyTdataSettled
<1>9. ApartAt(u, pp, r)
  BY <1>8, IdleApart DEF ApartAt
<1>10. Release([st EXCEPT ![r] = u], destroys, pp)
  BY <1>1, <1>2, <1>5, <1>7
<1> QED
  BY <1>6, <1>8, <1>9, <1>10, StepApart

LEMMA ChallengeAnsweredApart ==
    ASSUME TypeOK, NEW r \in Slot, NEW t \in Tdata, NEW answer, NEW pp,
           Orderly(tdata, pp), Apart(tdata, pp), Steady(tdata[r], t), t.tsx, t.state = "live",
           tdata[r].state # "none", ChallengeAnswered(r, t, answer, pp)
    PROVE  Apart(tdata', pp)
<1>1. PICK n \in Slot, ok \in BOOLEAN :
        /\ NextSlot(n)
        /\ Release([tdata EXCEPT ![n] = SentRequest(t.token, t.retransmit, ok),
                                 ![r] = destroy_tdata(t, FALSE)], is_destroying, pp)
  BY DEF ChallengeAnswered
<1>2. t.token \in Slot /\ t.retransmit \in BOOLEAN
  BY DEF Tdata
<1>3. tdata[n].state = "none" /\ n # r
  BY <1>1, SlotAssumption DEF NextSlot
<1>4. PICK u \in Tdata : u = SentRequest(t.token, t.retransmit, ok) /\ Settled(u) /\ u.state = "live"
  BY <1>2, SentRequestType, SentRequestSettled
<1>5. PICK d \in Tdata : d = destroy_tdata(t, FALSE) /\ Steady(t, d) /\ d.state = "live"
  <2>1. Settled(t) /\ t.state # "none"
    BY DEF Steady
  <2>2. destroy_tdata(t, FALSE) \in Tdata
    BY DestroyTdataType, FALSE \in BOOLEAN
  <2>3. Steady(t, destroy_tdata(t, FALSE)) /\ destroy_tdata(t, FALSE).state = t.state
    BY <2>1, DestroyTdataSettled, FALSE \in BOOLEAN
  <2> QED
    BY <2>2, <2>3
<1>6. PICK e \in [Slot -> Tdata] : e = [tdata EXCEPT ![n] = u]
  BY DEF TypeOK
<1>7. Orderly(e, pp) /\ Apart(e, pp) /\ e[r] = tdata[r]
  <2>1. Orderly(e, pp)
    BY <1>3, <1>4, <1>6, NewOrderly DEF TypeOK
  <2>2. Apart(e, pp)
    BY <1>4, <1>6 DEF Apart, ApartAt, TypeOK
  <2> QED
    BY <1>3, <1>6, <2>1, <2>2 DEF TypeOK
<1>8. Steady(e[r], d) /\ ApartAt(d, pp, r)
  BY <1>5, <1>7, SteadyTrans DEF ApartAt
<1>9. Release([e EXCEPT ![r] = d], is_destroying, pp)
  BY <1>1, <1>4, <1>5, <1>6
<1> QED
  BY <1>7, <1>8, <1>9, StepApart

\* Only a timeout frees the tdata of its request at once.
LEMMA CompleteTsxApart ==
    ASSUME TypeOK, NEW r \in Slot, NEW t \in Tdata, NEW answer, NEW pp,
           Orderly(tdata, pp), Apart(tdata, pp), Steady(tdata[r], t), t.tsx, t.state = "live",
           tdata[r].state # "none", answer = "timeout" => Idle(pp), CompleteTsx(r, t, answer, pp)
    PROVE  Apart(tdata', pp)
<1>1. PICK u \in Tdata : u = [t EXCEPT !.complete = TRUE] /\ Steady(tdata[r], u) /\ u.tsx
                          /\ u.state = "live"
  <2>1. PICK u : u = [t EXCEPT !.complete = TRUE]
    OBVIOUS
  <2>2. u \in Tdata /\ u.complete = TRUE
    BY <2>1 DEF Tdata
  <2>3. /\ u.token = t.token /\ u.tsx = t.tsx /\ u.on_complete = t.on_complete /\ u.list = t.list
        /\ u.state = t.state /\ u.heap = t.heap /\ u.id = t.id
    BY <2>1 DEF Tdata
  <2>4. Settled(u)
    BY <2>3 DEF Steady, Settled
  <2> QED
    BY <2>1, <2>2, <2>3, <2>4 DEF Steady, Quieter
<1>2. PICK d \in Tdata : d = destroy_tdata(u, FALSE) /\ Steady(u, d) /\ d.state = "live"
  <2>1. Settled(u) /\ u.state # "none"
    BY <1>1 DEF Steady
  <2>2. destroy_tdata(u, FALSE) \in Tdata
    BY DestroyTdataType, FALSE \in BOOLEAN
  <2>3. Steady(u, destroy_tdata(u, FALSE)) /\ destroy_tdata(u, FALSE).state = u.state
    BY <1>1, <2>1, DestroyTdataSettled, FALSE \in BOOLEAN
  <2> QED
    BY <1>1, <2>2, <2>3
<1>3. Steady(tdata[r], d)
  BY <1>1, <1>2, SteadyTrans
<1>4. ASSUME NEW w \in Tdata, Steady(tdata[r], w), w.state = "live",
             Release([tdata EXCEPT ![r] = w], is_destroying, pp)
      PROVE  Apart(tdata', pp)
  <2>1. ApartAt(w, pp, r)
    BY <1>4 DEF ApartAt
  <2> QED
    BY <1>4, <2>1, StepApart DEF TypeOK
<1>5. CASE Release([tdata EXCEPT ![r] = u], is_destroying, pp)
  BY <1>1, <1>4, <1>5
<1>6. CASE Release([tdata EXCEPT ![r] = destroy_tdata(u, FALSE)], is_destroying, pp)
  BY <1>2, <1>3, <1>4, <1>6
<1>7. CASE Notify(u.token, r, u, answer = "timeout", pp)
  <2>1. PICK force \in BOOLEAN : force = (answer = "timeout")
    OBVIOUS
  <2>2. Notify(u.token, r, u, force, pp)
    BY <1>7, <2>1
  <2> QED
    BY <1>1, <2>1, <2>2, NotifyApart
<1>8. CASE ChallengeAnswered(r, u, answer, pp)
  BY <1>1, <1>8, ChallengeAnsweredApart
<1> QED
  BY <1>1, <1>5, <1>6, <1>7, <1>8 DEF CompleteTsx, stun_tsx_on_complete

-----------------------------------------------------------------------------
(* The steps: each leaves alone what was released                          *)

AInv == Apart(tdata, popped)

LEMMA NewApart ==
    ASSUME TypeOK, HInv, AInv, NEW r \in Slot, tdata[r].state = "none", NEW u,
           u.state = "released" => u.list = "none" /\ u.heap = {},
           tdata' = [tdata EXCEPT ![r] = u], UNCHANGED popped
    PROVE  AInv'
<1>1. \A p \in Pollers, k \in Timers : popped[p] # <<r, k>>
  BY DEF HInv, Orderly, Gripped
<1> QED
  BY <1>1 DEF AInv, Apart, ApartAt, TypeOK

LEMMA NewTdataApart ==
    ASSUME IInv, HInv, AInv, NEW r \in Slot, SendRequest(r) \/ RxRequest(r)
    PROVE  AInv'
<1>1. CASE SendRequest(r)
  <2>1. PICK retransmit \in BOOLEAN, ok \in BOOLEAN :
          tdata' = [tdata EXCEPT ![r] = SentRequest(r, retransmit, ok)]
    BY <1>1 DEF SendRequest
  <2>2. SentRequest(r, retransmit, ok).state = "live"
    BY SentRequestSettled
  <2>3. tdata[r].state = "none" /\ UNCHANGED popped
    BY <1>1, SlotAssumption DEF SendRequest, NextSlot
  <2> QED
    BY <2>1, <2>2, <2>3, NewApart DEF IInv
<1>2. CASE RxRequest(r)
  <2>1. PICK cache \in BOOLEAN, ok \in BOOLEAN : tdata' = [tdata EXCEPT ![r] = SentResponse(r, cache, ok)]
    BY <1>2 DEF RxRequest
  <2>2. PICK u : /\ u = SentResponse(r, cache, ok)
                 /\ u.state = "released" => u.list = "none" /\ u.heap = {}
    BY SentResponseSettled
  <2>3. tdata[r].state = "none" /\ UNCHANGED popped
    BY <1>2, SlotAssumption DEF RxRequest, NextSlot
  <2> QED
    BY <2>1, <2>2, <2>3, NewApart DEF IInv
<1> QED
  BY <1>1, <1>2

LEMMA CancelRequestApart ==
    ASSUME IInv, HInv, AInv, NEW r \in Slot, CancelRequest(r)
    PROVE  AInv'
<1>1. Good(tdata[r]) /\ tdata[r] \in Tdata /\ Settled(tdata[r]) /\ UNCHANGED popped
  BY DEF CancelRequest, HInv, Holding, Waits, Orderly, IInv, TypeOK
<1>2. tdata[r].state = "live" /\ tdata[r].tsx /\ Steady(tdata[r], tdata[r])
  BY <1>1, SteadySelf DEF Good, Settled
<1>3. CASE tdata' = [tdata EXCEPT ![r] = destroy_tdata(@, FALSE)]
  <2>1. destroy_tdata(tdata[r], FALSE).state = "live"
    BY <1>1, <1>2, DestroyTdataSettled, FALSE \in BOOLEAN
  <2> QED
    BY <1>1, <1>3, <2>1 DEF AInv, Apart, ApartAt, IInv, TypeOK
<1>4. CASE Notify(r, r, tdata[r], FALSE, popped)
  BY <1>1, <1>2, <1>4, NotifyApart, FALSE \in BOOLEAN DEF HInv, AInv, IInv
<1> QED
  BY <1>3, <1>4 DEF CancelRequest

LEMMA DestroySessionApart ==
    ASSUME IInv, HInv, AInv, DestroySession
    PROVE  AInv'
<1>1. /\ StopAll(tdata) \in [Slot -> Tdata] /\ Orderly(StopAll(tdata), popped)
      /\ Apart(StopAll(tdata), popped)
  BY StopAllQuiet, StopAllOrderly, StopAllApart DEF HInv, AInv, IInv, TypeOK
<1>2. Apart(tdata', popped) /\ popped' = popped
  BY <1>1, ReleaseApart DEF DestroySession
<1> QED
  BY <1>2 DEF AInv

\* A response is not for a request that was released: it is not pending.
LEMMA RxResponseApart ==
    ASSUME IInv, HInv, AInv, NEW r \in Slot, NEW answer \in Answers, RxResponse(r, answer)
    PROVE  AInv'
<1>1. tdata[r].list = "pending" /\ UNCHANGED popped
  BY DEF RxResponse
<1>2. tdata[r] \in Tdata /\ Settled(tdata[r]) /\ ApartAt(tdata[r], popped, r)
  BY DEF HInv, Orderly, AInv, Apart, IInv, TypeOK
<1>3. tdata[r].state = "live" /\ tdata[r].tsx
  BY <1>1, <1>2 DEF Settled, ApartAt, Tdata
<1>4. PICK t \in Tdata : /\ t = Cancel(tdata[r], "retransmit") /\ Steady(tdata[r], t)
                         /\ t.state = "live" /\ t.tsx
  BY <1>2, <1>3, CancelType, CancelSettled DEF Timers, Quieter
<1>5. CASE answer = "provisional"
  <2>1. Release([tdata EXCEPT ![r] = t], is_destroying, popped)
    BY <1>4, <1>5 DEF RxResponse
  <2>2. ApartAt(t, popped, r)
    BY <1>4 DEF ApartAt
  <2> QED
    BY <1>1, <1>4, <2>1, <2>2, StepApart DEF HInv, AInv, IInv, TypeOK
<1>6. CASE answer # "provisional"
  <2>1. CompleteTsx(r, t, answer, popped)
    BY <1>4, <1>6 DEF RxResponse
  <2>2. answer # "timeout"
    BY NonceAssumption DEF Answers, Final
  <2> QED
    BY <1>1, <1>3, <1>4, <2>1, <2>2, CompleteTsxApart DEF HInv, AInv, IInv
<1> QED
  BY <1>5, <1>6

LEMMA PopTimerApart ==
    ASSUME IInv, HInv, AInv, NEW p \in Pollers, NEW r \in Slot, NEW k \in Timers, PopTimer(p, r, k)
    PROVE  AInv'
<1>1. k \in tdata[r].heap /\ popped' = [popped EXCEPT ![p] = <<r, k>>]
  BY DEF PopTimer
<1>2. tdata[r] \in Tdata /\ tdata[r].state # "released"
  BY <1>1 DEF AInv, Apart, ApartAt, IInv, TypeOK
<1>3. tdata'[r].state = tdata[r].state /\ \A s \in Slot : s # r => tdata'[s] = tdata[s]
  BY <1>2 DEF PopTimer, IInv, TypeOK, Tdata
<1>4. \A q \in Pollers : popped'[q] = <<r, k>> \/ popped'[q] = popped[q]
  BY <1>1 DEF IInv, TypeOK
<1> QED
  BY <1>2, <1>3, <1>4 DEF AInv, Apart, ApartAt

LEMMA RetransmitTimerApart ==
    ASSUME \A p, q \in Pollers : p = q,
           IInv, HInv, AInv, NEW p \in Pollers, NEW r \in Slot, RetransmitTimer(p, r)
    PROVE  AInv'
<1>1. /\ Orderly(tdata, popped') /\ tdata[r] \in Tdata /\ tdata[r].state # "none"
      /\ Settled(tdata[r]) /\ tdata[r].tsx /\ "retransmit" \notin tdata[r].heap
  BY CallbackHeld DEF RetransmitTimer, Timers
<1>2. Apart(tdata, popped') /\ tdata[r].state # "released" /\ Idle(popped')
  BY CallbackApart, CallbackIdle DEF RetransmitTimer, Timers, AInv, IInv
<1>3. PICK t \in Tdata : /\ t = [tdata[r] EXCEPT !.id = @ \ {"retransmit"}]
                         /\ Steady(tdata[r], t) /\ t.heap = tdata[r].heap /\ t.tsx /\ t.state = "live"
  <2>1. PICK x \in Tdata : x = tdata[r]
    BY <1>1
  <2>2. PICK y : y = [x EXCEPT !.id = x.id \ {"retransmit"}]
    OBVIOUS
  <2>3. y \in Tdata /\ Steady(x, y) /\ y.heap = x.heap /\ y.tsx = x.tsx /\ y.state = x.state
    BY <1>1, <2>1, <2>2, FiredSettled
  <2>4. x.state = "live"
    BY <1>1, <1>2, <2>1 DEF Tdata
  <2> QED
    BY <1>1, <2>1, <2>2, <2>3, <2>4
<1>4. ASSUME NEW u \in Tdata, Steady(tdata[r], u), u.tsx, u.state = "live", NEW answer,
             CompleteTsx(r, u, answer, popped')
      PROVE  AInv'
  BY <1>1, <1>2, <1>4, CompleteTsxApart DEF AInv, IInv
<1>5. CASE CompleteTsx(r, t, "timeout", popped')
  BY <1>3, <1>4, <1>5
<1>6. ASSUME NEW ok \in BOOLEAN, t.count < MaxTransmit
      PROVE  LET u == tsx_transmit_msg(t, ok)
             IN  /\ u \in Tdata /\ u.tsx /\ u.state = "live"
                 /\ ~ok => Steady(tdata[r], u)
  <2>1. t.count <= MaxTransmit
    BY <1>6, MaxTransmitAssumption DEF Tdata
  <2>2. Settled(t) /\ t.state # "none"
    BY <1>3 DEF Steady
  <2>3. PICK u : u = tsx_transmit_msg(t, ok)
    OBVIOUS
  <2>4. u \in Tdata /\ Quieter(t, u)
    BY <2>1, <2>3, TransmitType
  <2>5. /\ Settled(u) /\ u.heap \subseteq t.heap \cup {"retransmit"} /\ u.state = t.state
        /\ ~ok => "retransmit" \notin u.heap
    <3>1. t.tsx
      BY <1>3
    <3> QED
      BY <2>1, <2>2, <2>3, <3>1, TransmitSettled
  <2>6. u.tsx /\ Quieter(tdata[r], u)
    BY <1>3, <2>4 DEF Steady, Quieter
  <2> QED
    BY <1>3, <2>3, <2>4, <2>5, <2>6 DEF Steady
<1>7. CASE t.count < MaxTransmit /\ tdata' = [tdata EXCEPT ![r] = tsx_transmit_msg(t, TRUE)]
  <2>1. tsx_transmit_msg(t, TRUE).state = "live"
    BY <1>6, <1>7, TRUE \in BOOLEAN
  <2> QED
    BY <1>2, <1>7, <2>1 DEF AInv, Apart, ApartAt, IInv, TypeOK
<1>8. CASE t.count < MaxTransmit /\ CompleteTsx(r, tsx_transmit_msg(t, FALSE), "nothing", popped')
  BY <1>4, <1>6, <1>8, FALSE \in BOOLEAN
<1> QED
  BY <1>3, <1>5, <1>7, <1>8 DEF RetransmitTimer

LEMMA DestroyTimerApart ==
    ASSUME \A p, q \in Pollers : p = q,
           IInv, HInv, AInv, NEW p \in Pollers, NEW r \in Slot, DestroyTimer(p, r)
    PROVE  AInv'
<1>1. /\ Orderly(tdata, popped') /\ tdata[r] \in Tdata /\ Settled(tdata[r]) /\ tdata[r].tsx
  BY CallbackHeld DEF DestroyTimer, Timers
<1>2. Apart(tdata, popped') /\ Idle(popped')
  BY CallbackApart, CallbackIdle DEF DestroyTimer, Timers, AInv, IInv
<1>3. PICK v \in Tdata : /\ v = pj_stun_client_tsx_stop(tdata[r]) /\ Steady(tdata[r], v)
                         /\ v.heap = tdata[r].heap \ {"retransmit", "destroy"}
  BY <1>1, StopType, StopSettled
<1>4. v.heap = {}
  BY <1>1, <1>3 DEF Settled, Tdata, Timers
<1>5. PICK u : u = [v EXCEPT !.list = "none", !.state = "released"]
  OBVIOUS
<1>6. u \in Tdata /\ Quieter(v, u)
  BY <1>5, FieldsType, {} \in SUBSET Timers
<1>7. /\ u.list = "none" /\ u.state = "released" /\ u.tsx = v.tsx /\ u.on_complete = v.on_complete
      /\ u.heap = v.heap /\ u.id = v.id
  BY <1>5 DEF Tdata
<1>8. Steady(tdata[r], u)
  BY <1>3, <1>6, <1>7 DEF Steady, Settled, Quieter
<1>9. ApartAt(u, popped', r)
  BY <1>2, <1>4, <1>7, IdleApart
<1>10. Release([tdata EXCEPT ![r] = u], is_destroying, popped')
  BY <1>3, <1>5 DEF DestroyTimer
<1> QED
  BY <1>1, <1>2, <1>6, <1>8, <1>9, <1>10, StepApart DEF AInv, IInv, TypeOK

LEMMA CacheTimerApart ==
    ASSUME \A p, q \in Pollers : p = q,
           IInv, HInv, AInv, NEW p \in Pollers, NEW r \in Slot, CacheTimer(p, r)
    PROVE  AInv'
<1>1. /\ Orderly(tdata, popped') /\ tdata[r] \in Tdata /\ Settled(tdata[r]) /\ ~tdata[r].tsx
      /\ tdata[r].state # "none" /\ "cache" \notin tdata[r].heap
  BY CallbackHeld DEF CacheTimer, Timers
<1>2. Apart(tdata, popped') /\ Idle(popped')
  BY CallbackApart, CallbackIdle DEF CacheTimer, Timers, AInv, IInv
<1>3. PICK w \in Tdata : w = [tdata[r] EXCEPT !.id = @ \ {"cache"}] /\ Steady(tdata[r], w) /\ ~w.tsx
                          /\ w.state = tdata[r].state
  <2>1. PICK x \in Tdata : x = tdata[r]
    BY <1>1
  <2>2. PICK y : y = [x EXCEPT !.id = x.id \ {"cache"}]
    OBVIOUS
  <2>3. y \in Tdata /\ Steady(x, y) /\ y.tsx = x.tsx /\ y.state = x.state
    BY <1>1, <2>1, <2>2, FiredSettled
  <2> QED
    BY <1>1, <2>1, <2>2, <2>3
<1>4. PICK v : v = [w EXCEPT !.list = "none"]
  OBVIOUS
<1>5. v \in Tdata /\ v.list = "none" /\ v.tsx = w.tsx /\ v.heap = w.heap /\ v.id = w.id
  BY <1>4 DEF Tdata
<1>6. v.state = w.state /\ v.on_complete = w.on_complete /\ v.complete = w.complete /\ v.token = w.token
  BY <1>4 DEF Tdata
<1>7. Steady(w, v) /\ Settled(v) /\ ~v.tsx /\ v.state # "none"
  BY <1>1, <1>3, <1>5, <1>6 DEF Steady, Settled, Quieter
<1>8. PICK u \in Tdata : u = destroy_tdata(v, FALSE) /\ Steady(v, u) /\ u.list = "none" /\ u.heap = {}
  BY <1>5, <1>7, DestroyTdataType, DestroyTdataSettled, FALSE \in BOOLEAN
<1>9. Steady(tdata[r], u)
  BY <1>3, <1>7, <1>8, SteadyTrans
<1>10. ApartAt(u, popped', r)
  BY <1>2, <1>8, IdleApart
<1>11. Release([tdata EXCEPT ![r] = u], is_destroying, popped')
  BY <1>3, <1>4, <1>8 DEF CacheTimer
<1> QED
  BY <1>1, <1>2, <1>9, <1>10, <1>11, StepApart DEF AInv, IInv, TypeOK

-----------------------------------------------------------------------------
LEMMA InitAInv == Init => AInv
<1> SUFFICES ASSUME Init, NEW r \in Slot PROVE tdata[r].state # "released"
  BY DEF AInv, Apart, ApartAt
<1>1. PICK v : v = Request(r, FALSE)
  OBVIOUS
<1>2. v \in Tdata
  BY <1>1, RequestType, FALSE \in BOOLEAN
<1>3. tdata[r] = [v EXCEPT !.state = "none", !.tsx = FALSE, !.on_complete = FALSE]
  BY <1>1 DEF Init, NewTdata
<1> QED
  BY <1>2, <1>3 DEF Tdata

LEMMA NextAInv ==
    ASSUME \A p, q \in Pollers : p = q
    PROVE  IInv /\ HInv /\ AInv /\ [Next]_vars => AInv'
<1> SUFFICES ASSUME IInv, HInv, AInv, [Next]_vars PROVE AInv'
  OBVIOUS
<1>1. CASE UNCHANGED vars
  BY <1>1 DEF vars, AInv
<1>2. ASSUME NEW r \in Slot, SendRequest(r) \/ CancelRequest(r) \/ RxRequest(r)
      PROVE  AInv'
  BY <1>2, NewTdataApart, CancelRequestApart
<1>3. ASSUME NEW r \in Slot, NEW answer \in Answers, RxResponse(r, answer)
      PROVE  AInv'
  BY <1>3, RxResponseApart
<1>4. CASE DestroySession
  BY <1>4, DestroySessionApart
<1>5. ASSUME NEW p \in Pollers, Poll(p)
      PROVE  AInv'
  BY <1>5, PopTimerApart, RetransmitTimerApart, DestroyTimerApart, CacheTimerApart DEF Poll
<1> QED
  BY <1>1, <1>2, <1>3, <1>4, <1>5 DEF Next

\* With one thread that polls the timer heap, as the client has, memory that
\* was given back is in no list, in no timer heap and not with the thread
\* about to call back.  With two it may be: a poller that took a timer out of
\* the heap is delayed until the other one frees the transaction.
THEOREM Nothing_dangles ==
    ASSUME \A p, q \in Pollers : p = q
    PROVE  Spec => []NothingDangles
<1>1. AInv => NothingDangles
  BY DEF AInv, Apart, ApartAt, NothingDangles
<1> QED
  BY <1>1, InitAInv, NextAInv, AlwaysIInv, AlwaysHInv, PTL DEF Spec
=============================================================================
