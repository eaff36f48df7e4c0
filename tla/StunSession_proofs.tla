------------------------- MODULE StunSession_proofs -------------------------
(***************************************************************************)
(* Proofs about StunSession.tla, for any number of transmit data, polling  *)
(* threads, transmissions and retries: a request completes at most once,   *)
(* and one that awaits its response has a timer.                           *)
(***************************************************************************)
EXTENDS StunSession, TLAPS

\* A transaction that will call back when it completes.
Active(td, r) == td[r].on_complete /\ ~td[r].complete

\* An active transaction stands for a request that waits and was not
\* completed; it is the only one that does, and without long term credentials
\* it is the one that the application sent.
Once(td, us, cs, at) ==
    /\ \A r \in Slot : Active(td, r) =>
          /\ td[r].tsx /\ us[td[r].token] = "waiting" /\ cs[td[r].token] = 0
          /\ at = "short" => td[r].token = r
    /\ \A r, s \in Slot : Active(td, r) /\ Active(td, s) /\ td[r].token = td[s].token => r = s
    /\ \A r \in Slot : td[r].state = "none" => ~Active(td, r) /\ us[r] = "idle"
    /\ \A r \in Slot : cs[r] <= (IF us[r] = "waiting" THEN 1 ELSE 0)

OnceInv == Once(tdata, user, calls, auth_type)

\* What may happen to a tdata without anybody being told.
Quieter(t, u) ==
    /\ u.token = t.token /\ u.tsx = t.tsx /\ (t.complete => u.complete)
    /\ u.on_complete => t.on_complete
    /\ u.state = "none" => t.state = "none"
Quiet(td, e) == \A r \in Slot : Quieter(td[r], e[r])

-----------------------------------------------------------------------------
(* The operators on one tdata                                              *)

LEMMA StopType ==
    ASSUME NEW t \in Tdata
    PROVE  /\ pj_stun_client_tsx_stop(t) \in Tdata
           /\ Quieter(t, pj_stun_client_tsx_stop(t))
           /\ pj_stun_client_tsx_stop(t).on_complete = t.on_complete
           /\ pj_stun_client_tsx_stop(t).list = t.list
           /\ pj_stun_client_tsx_stop(t).state = t.state
  BY DEF pj_stun_client_tsx_stop, Cancel, Tdata, Timers, Quieter

LEMMA CancelType ==
    ASSUME NEW t \in Tdata, NEW k \in Timers
    PROVE  /\ Cancel(t, k) \in Tdata /\ Quieter(t, Cancel(t, k))
           /\ Cancel(t, k).on_complete = t.on_complete
           /\ Cancel(t, k).state = t.state /\ Cancel(t, k).list = t.list
           /\ Cancel(t, k).count = t.count
  BY DEF Cancel, Tdata, Timers, Quieter

LEMMA ScheduleType ==
    ASSUME NEW t \in Tdata, NEW k \in Timers
    PROVE  /\ Schedule(t, k) \in Tdata /\ Quieter(t, Schedule(t, k))
           /\ Schedule(t, k).on_complete = t.on_complete
           /\ Schedule(t, k).state = t.state /\ Schedule(t, k).list = t.list
           /\ Schedule(t, k).count = t.count
           /\ k \in Schedule(t, k).heap
           /\ Schedule(t, k).retransmit = t.retransmit
  BY DEF Schedule, Tdata, Timers, Quieter

LEMMA ScheduleDestroyType ==
    ASSUME NEW t \in Tdata
    PROVE  /\ schedule_destroy(t) \in Tdata /\ Quieter(t, schedule_destroy(t))
           /\ ~schedule_destroy(t).on_complete
           /\ schedule_destroy(t).state = t.state
<1>1. PICK u \in Tdata : u = pj_stun_client_tsx_stop(t) /\ Quieter(t, u) /\ u.state = t.state
  BY StopType
<1>2. "destroy" \in Timers
  BY DEF Timers
<1>3. PICK w \in Tdata : w = Schedule(u, "destroy") /\ Quieter(u, w) /\ w.state = u.state
  BY <1>2, ScheduleType
<1>4. schedule_destroy(t) = [w EXCEPT !.on_complete = FALSE]
  BY <1>1, <1>3 DEF schedule_destroy
<1>5. schedule_destroy(t) \in Tdata
  BY <1>3, <1>4 DEF Tdata
<1>6. ~schedule_destroy(t).on_complete
  BY <1>3, <1>4 DEF Tdata
<1>7. Quieter(w, schedule_destroy(t)) /\ schedule_destroy(t).state = w.state
  BY <1>3, <1>4, <1>6 DEF Tdata, Quieter
<1> QED
  BY <1>1, <1>3, <1>5, <1>6, <1>7 DEF Quieter

\* Destroying a tdata ends its transaction quietly, and if it is not forced
\* the transaction loses its callback.
LEMMA DestroyTdataType ==
    ASSUME NEW t \in Tdata, NEW force \in BOOLEAN
    PROVE  /\ destroy_tdata(t, force) \in Tdata
           /\ Quieter(t, destroy_tdata(t, force))
           /\ t.tsx /\ ~force => ~destroy_tdata(t, force).on_complete
<1> DEFINE c == [Cancel(t, "cache") EXCEPT !.list = "none"]
           u == IF "cache" \in t.id THEN c ELSE t
           f == [pj_stun_client_tsx_stop(u) EXCEPT !.list = "none", !.state = "released"]
           g == [u EXCEPT !.state = "released"]
<1>1. c \in Tdata /\ Quieter(t, c)
  BY CancelType DEF Tdata, Timers, Quieter
<1>2. u \in Tdata /\ Quieter(t, u)
  BY <1>1 DEF Quieter
<1>3. f \in Tdata /\ Quieter(u, f)
  <2>1. PICK w \in Tdata : w = pj_stun_client_tsx_stop(u) /\ Quieter(u, w)
    BY <1>2, StopType
  <2> QED
    BY <2>1 DEF Tdata, Quieter
<1>4. g \in Tdata /\ Quieter(u, g)
  BY <1>2 DEF Tdata, Quieter
<1>5. schedule_destroy(u) \in Tdata /\ Quieter(u, schedule_destroy(u)) /\ ~schedule_destroy(u).on_complete
  BY <1>2, ScheduleDestroyType
<1>6. destroy_tdata(t, force) = IF force THEN f ELSE IF u.tsx THEN schedule_destroy(u) ELSE g
  BY DEF destroy_tdata
<1>7. u.tsx = t.tsx
  BY <1>2 DEF Quieter
<1> HIDE DEF c, u, f, g
<1> QED
  BY <1>2, <1>3, <1>4, <1>5, <1>6, <1>7 DEF Quieter

LEMMA TransmitType ==
    ASSUME NEW t \in Tdata, NEW ok \in BOOLEAN, t.count <= MaxTransmit
    PROVE  /\ tsx_transmit_msg(t, ok) \in Tdata
           /\ Quieter(t, tsx_transmit_msg(t, ok))
           /\ tsx_transmit_msg(t, ok).on_complete = t.on_complete
           /\ tsx_transmit_msg(t, ok).state = t.state
<1> DEFINE u == IF t.retransmit THEN Schedule(t, "retransmit") ELSE t
           sent == [u EXCEPT !.count = t.count + 1]
<1>1. u \in Tdata /\ Quieter(t, u) /\ u.on_complete = t.on_complete /\ u.state = t.state
  BY ScheduleType DEF Timers, Quieter
<1>2. t.count + 1 \in 0..(MaxTransmit + 1)
  BY MaxTransmitAssumption DEF Tdata
<1>3. sent \in Tdata /\ Quieter(t, sent) /\ sent.on_complete = t.on_complete /\ sent.state = t.state
  BY <1>1, <1>2 DEF Tdata, Quieter
<1>4. tsx_transmit_msg(t, ok) = IF ok THEN sent ELSE Cancel(sent, "retransmit")
  BY DEF tsx_transmit_msg
<1>5. "retransmit" \in Timers
  BY DEF Timers
<1> HIDE DEF u, sent
<1> QED
  BY <1>3, <1>4, <1>5, CancelType DEF Quieter

LEMMA RequestType ==
    ASSUME NEW token \in Slot, NEW retransmit \in BOOLEAN
    PROVE  Request(token, retransmit) \in Tdata
  BY MaxTransmitAssumption DEF Tdata, Timers, Request

\* A request that was sent is active, one that was not is not.
LEMMA SentRequestType ==
    ASSUME NEW token \in Slot, NEW retransmit \in BOOLEAN, NEW ok \in BOOLEAN
    PROVE  LET t == SentRequest(token, retransmit, ok)
           IN  /\ t \in Tdata /\ t.token = token /\ t.state # "none" /\ t.tsx
               /\ t.on_complete => ok
<1> DEFINE q == Request(token, retransmit)
           p == IF retransmit THEN q ELSE Schedule([q EXCEPT !.count = MaxTransmit], "retransmit")
           m == tsx_transmit_msg(p, ok)
           l == [m EXCEPT !.list = "pending"]
<1>0. q \in Tdata
  BY RequestType
<1>1. q \in Tdata /\ [q EXCEPT !.count = MaxTransmit] \in Tdata
  <2> HIDE DEF q
  <2> QED
    BY <1>0, MaxTransmitAssumption DEF Tdata
<1>2. /\ p \in Tdata /\ p.count <= MaxTransmit /\ p.state = "live" /\ p.token = token
      /\ p.tsx
  <2>1. CASE retransmit
    BY <1>1, <2>1, MaxTransmitAssumption DEF Request
  <2>2. CASE ~retransmit
    <3>1. PICK w \in Tdata : w = [q EXCEPT !.count = MaxTransmit]
      BY <1>1
    <3>2. /\ w.count = MaxTransmit /\ w.state = "live" /\ w.token = token /\ w.tsx
      BY <3>1 DEF Request
    <3>3. "retransmit" \in Timers
      BY DEF Timers
    <3>4. p = Schedule(w, "retransmit")
      BY <2>2, <3>1
    <3> QED
      BY <3>2, <3>3, <3>4, ScheduleType, MaxTransmitAssumption DEF Quieter
  <2> QED
    BY <2>1, <2>2
<1>3. m \in Tdata /\ Quieter(p, m) /\ m.state = p.state
  BY <1>2, TransmitType
<1>4. l \in Tdata /\ Quieter(m, l) /\ l.state = m.state
  BY <1>3 DEF Tdata, Quieter
<1>5. tsx_send_msg(q, ok) = m
  BY DEF tsx_send_msg, Request
<1>6. SentRequest(token, retransmit, ok) = IF ok THEN l ELSE destroy_tdata(m, FALSE)
  BY <1>5 DEF SentRequest
<1>7. /\ destroy_tdata(m, FALSE) \in Tdata /\ Quieter(m, destroy_tdata(m, FALSE))
      /\ m.tsx => ~destroy_tdata(m, FALSE).on_complete
  BY <1>3, DestroyTdataType
<1> HIDE DEF q, p, m, l
<1> QED
  BY <1>2, <1>3, <1>4, <1>6, <1>7 DEF Quieter

LEMMA SentResponseType ==
    ASSUME NEW token \in Slot, NEW cache \in BOOLEAN, NEW ok \in BOOLEAN
    PROVE  LET t == SentResponse(token, cache, ok)
           IN  t \in Tdata /\ t.state # "none" /\ ~t.on_complete /\ ~t.tsx
<1> DEFINE q == [Request(token, FALSE) EXCEPT !.tsx = FALSE, !.on_complete = FALSE]
           c == IF cache THEN [Schedule(q, "cache") EXCEPT !.list = "cached"] ELSE q
<1>1. q \in Tdata /\ q.state = "live" /\ ~q.on_complete /\ ~q.tsx
  <2>1. PICK v : v = Request(token, FALSE)
    OBVIOUS
  <2>2. v \in Tdata /\ v.state = "live"
    BY <2>1, RequestType, FALSE \in BOOLEAN DEF Request
  <2>3. q = [v EXCEPT !.tsx = FALSE, !.on_complete = FALSE]
    BY <2>1
  <2> HIDE DEF q
  <2>4. q \in Tdata
    BY <2>2, <2>3 DEF Tdata
  <2>5. q.state = "live"
    BY <2>2, <2>3 DEF Tdata
  <2>6. ~q.on_complete
    BY <2>2, <2>3 DEF Tdata
  <2>7. ~q.tsx
    BY <2>2, <2>3 DEF Tdata
  <2> QED
    BY <2>4, <2>5, <2>6, <2>7
<1>2. c \in Tdata /\ c.state = "live" /\ ~c.on_complete /\ ~c.tsx
  <2> HIDE DEF q
  <2>1. CASE cache
    <3>1. PICK w : w = Schedule(q, "cache")
      OBVIOUS
    <3>2. w \in Tdata /\ w.state = "live" /\ ~w.on_complete /\ ~w.tsx
      BY <1>1, <3>1, ScheduleType DEF Timers, Quieter
    <3>3. c = [w EXCEPT !.list = "cached"]
      BY <2>1, <3>1
    <3> QED
      BY <3>2, <3>3 DEF Tdata
  <2>2. CASE ~cache
    BY <1>1, <2>2
  <2> QED
    BY <2>1, <2>2
<1>3. SentResponse(token, cache, ok) = IF cache /\ ok THEN c ELSE destroy_tdata(c, FALSE)
  BY DEF SentResponse
<1> HIDE DEF q, c
<1>4. /\ destroy_tdata(c, FALSE) \in Tdata /\ destroy_tdata(c, FALSE).state # "none"
      /\ ~destroy_tdata(c, FALSE).on_complete /\ ~destroy_tdata(c, FALSE).tsx
  BY <1>2, DestroyTdataType, FALSE \in BOOLEAN DEF Quieter
<1> QED
  BY <1>2, <1>3, <1>4

LEMMA FieldsType ==
    ASSUME NEW t \in Tdata, NEW h \in SUBSET Timers
    PROVE  /\ [t EXCEPT !.heap = h] \in Tdata /\ Quieter(t, [t EXCEPT !.heap = h])
           /\ [t EXCEPT !.id = h] \in Tdata /\ Quieter(t, [t EXCEPT !.id = h])
           /\ [t EXCEPT !.id = h, !.list = "none"] \in Tdata
           /\ Quieter(t, [t EXCEPT !.id = h, !.list = "none"])
           /\ [t EXCEPT !.list = "none", !.state = "released"] \in Tdata
           /\ Quieter(t, [t EXCEPT !.list = "none", !.state = "released"])
  BY DEF Tdata, Quieter

-----------------------------------------------------------------------------
(* The operators on all of them                                            *)

\* What happens without anybody being told keeps the invariant.
LEMMA QuietOnce ==
    ASSUME NEW td \in [Slot -> Tdata], NEW e \in [Slot -> Tdata], Quiet(td, e),
           NEW us, NEW cs, NEW at, Once(td, us, cs, at)
    PROVE  Once(e, us, cs, at)
<1>1. \A r \in Slot : Active(e, r) => Active(td, r) /\ e[r].token = td[r].token /\ e[r].tsx = td[r].tsx
  BY DEF Quiet, Quieter, Active
<1>2. \A r \in Slot : e[r].state = "none" => td[r].state = "none"
  BY DEF Quiet, Quieter
<1> QED
  BY <1>1, <1>2 DEF Once

LEMMA UpdateQuiet ==
    ASSUME NEW td \in [Slot -> Tdata], NEW r \in Slot, NEW u \in Tdata, Quieter(td[r], u)
    PROVE  [td EXCEPT ![r] = u] \in [Slot -> Tdata] /\ Quiet(td, [td EXCEPT ![r] = u])
  BY DEF Quiet, Quieter

LEMMA StopAllQuiet ==
    ASSUME NEW td \in [Slot -> Tdata]
    PROVE  StopAll(td) \in [Slot -> Tdata] /\ Quiet(td, StopAll(td))
<1>1. ASSUME NEW r \in Slot
      PROVE  StopAll(td)[r] \in Tdata /\ Quieter(td[r], StopAll(td)[r])
  <2>1. pj_stun_client_tsx_stop(td[r]) \in Tdata /\ Quieter(td[r], pj_stun_client_tsx_stop(td[r]))
    BY StopType
  <2>2. Cancel(td[r], "cache") \in Tdata /\ Quieter(td[r], Cancel(td[r], "cache"))
    BY CancelType DEF Timers
  <2>3. Quieter(td[r], td[r])
    BY DEF Quieter
  <2> QED
    BY <2>1, <2>2, <2>3 DEF StopAll
<1> QED
  BY <1>1 DEF StopAll, Quiet

LEMMA ReleaseQuiet ==
    ASSUME NEW td \in [Slot -> Tdata], NEW d, NEW pp, Release(td, d, pp)
    PROVE  tdata' \in [Slot -> Tdata] /\ Quiet(td, tdata')
<1> DEFINE e == stun_sess_on_destroy(td)
<1>1. \A r \in Slot : e[r] \in Tdata /\ Quieter(td[r], e[r])
  BY DestroyTdataType, TRUE \in BOOLEAN DEF stun_sess_on_destroy, Quieter
<1>2. e \in [Slot -> Tdata] /\ Quiet(td, e)
  BY <1>1 DEF stun_sess_on_destroy, Quiet
<1>3. Quiet(td, td)
  BY DEF Quiet, Quieter
<1> QED
  BY <1>2, <1>3 DEF Release

\* The invariant and its types after a step that tells nobody.
LEMMA QuietStep ==
    ASSUME NEW td \in [Slot -> Tdata], NEW r \in Slot, NEW u \in Tdata, Quieter(td[r], u),
           NEW d, NEW pp, Release([td EXCEPT ![r] = u], d, pp),
           NEW us, NEW cs, NEW at, Once(td, us, cs, at)
    PROVE  tdata' \in [Slot -> Tdata] /\ Once(tdata', us, cs, at)
<1>1. PICK e \in [Slot -> Tdata] : e = [td EXCEPT ![r] = u] /\ Quiet(td, e)
  BY UpdateQuiet
<1>2. Once(e, us, cs, at)
  BY <1>1, QuietOnce
<1>3. tdata' \in [Slot -> Tdata] /\ Quiet(e, tdata')
  BY <1>1, ReleaseQuiet
<1> QED
  BY <1>2, <1>3, QuietOnce

\* A call of on_request_complete for a request that waits, by the only
\* transaction that could make it.
LEMMA NotifyOnce ==
    ASSUME TypeOK, OnceInv, NEW r \in Slot, NEW token \in Slot, NEW t \in Tdata,
           NEW force \in BOOLEAN, NEW pp,
           Quieter(tdata[r], t), t.complete \/ (~force /\ (t.on_complete => t.tsx)),
           user[token] = "waiting", calls[token] = 0,
           \A s \in Slot : Active(tdata, s) /\ tdata[s].token = token => s = r,
           Notify(token, r, t, force, pp)
    PROVE  /\ tdata' \in [Slot -> Tdata] /\ is_destroying' \in BOOLEAN
           /\ calls' \in [Slot -> Nat]
           /\ Once(tdata', user, calls', auth_type)
<1>1. calls' = [calls EXCEPT ![token] = 1] /\ calls' \in [Slot -> Nat]
  BY DEF Notify, TypeOK
<1>2. PICK destroys \in BOOLEAN :
        LET td == [tdata EXCEPT ![r] = t]
            stopped == IF destroys THEN StopAll(td) ELSE td
        IN  /\ is_destroying' = destroys
            /\ Release([stopped EXCEPT ![r] = destroy_tdata(@, force)], destroys, pp)
  BY DEF Notify
<1>3. PICK td \in [Slot -> Tdata] : td = [tdata EXCEPT ![r] = t] /\ Quiet(tdata, td)
  BY UpdateQuiet DEF TypeOK
<1>4. PICK st \in [Slot -> Tdata] : st = (IF destroys THEN StopAll(td) ELSE td) /\ Quiet(td, st)
  <2>1. StopAll(td) \in [Slot -> Tdata] /\ Quiet(td, StopAll(td))
    BY StopAllQuiet
  <2>2. Quiet(td, td)
    BY DEF Quiet, Quieter
  <2> QED
    BY <2>1, <2>2
<1>5. PICK e : e = [st EXCEPT ![r] = destroy_tdata(st[r], force)]
  OBVIOUS
<1>6. Release(e, destroys, pp)
  BY <1>2, <1>3, <1>4, <1>5
<1>7. destroy_tdata(st[r], force) \in Tdata /\ Quieter(st[r], destroy_tdata(st[r], force))
  BY DestroyTdataType
<1>8. e \in [Slot -> Tdata] /\ Quiet(st, e)
  BY <1>5, <1>7, UpdateQuiet
<1>9. ~Active(e, r)
  <2>1. td[r] = t /\ Quieter(t, st[r]) /\ e[r] = destroy_tdata(st[r], force)
    BY <1>3, <1>4, <1>5 DEF Quiet
  <2>2. CASE t.complete
    BY <2>1, <2>2, <1>7 DEF Quieter, Active
  <2>3. CASE ~force /\ (t.on_complete => t.tsx)
    BY <2>1, <2>3, <1>7, DestroyTdataType DEF Quieter, Active
  <2> QED
    BY <2>2, <2>3
<1>10. Once(e, user, calls, auth_type)
  BY <1>3, <1>4, <1>8, QuietOnce DEF TypeOK, OnceInv
<1>11. \A s \in Slot : Active(e, s) => s # r /\ e[s].token # token
  <2>1. \A s \in Slot : Active(e, s) => Active(tdata, s) /\ e[s].token = tdata[s].token
    <3>1. ASSUME NEW s \in Slot
          PROVE  /\ Quieter(tdata[s], td[s]) /\ Quieter(td[s], st[s]) /\ Quieter(st[s], e[s])
      BY <1>3, <1>4, <1>8 DEF Quiet
    <3> QED
      BY <3>1 DEF Quieter, Active
  <2>2. ASSUME NEW s \in Slot, Active(e, s)
        PROVE  s # r /\ e[s].token # token
    <3>1. s # r
      BY <2>2, <1>9
    <3>2. Active(tdata, s) /\ e[s].token = tdata[s].token
      BY <2>1, <2>2
    <3> QED
      BY <3>1, <3>2
  <2> QED
    BY <2>2
<1>12. Once(e, user, calls', auth_type)
  BY <1>1, <1>10, <1>11 DEF Once, TypeOK, Tdata
<1>13. tdata' \in [Slot -> Tdata] /\ Quiet(e, tdata')
  BY <1>6, <1>8, ReleaseQuiet
<1> QED
  BY <1>1, <1>2, <1>8, <1>12, <1>13, QuietOnce

-----------------------------------------------------------------------------
(* The steps: each keeps the types and the invariant                       *)

IInv == TypeOK /\ OnceInv

\* The application that waits for a request was not called, and its request
\* has no other transaction.
LEMMA ActiveAlone ==
    ASSUME TypeOK, OnceInv, NEW r \in Slot, Active(tdata, r)
    PROVE  /\ tdata[r].token \in Slot /\ tdata[r].tsx
           /\ user[tdata[r].token] = "waiting" /\ calls[tdata[r].token] = 0
           /\ \A s \in Slot : Active(tdata, s) /\ tdata[s].token = tdata[r].token => s = r
  BY DEF TypeOK, OnceInv, Once, Tdata

\* The request is sent again with credentials: its new transaction takes the
\* place of the old one.
LEMMA ChallengeAnsweredStep ==
    ASSUME TypeOK, OnceInv, NEW r \in Slot, NEW t \in Tdata, NEW answer, NEW pp,
           Active(tdata, r), Quieter(tdata[r], t), t.complete, ChallengeAnswered(r, t, answer, pp)
    PROVE  /\ tdata' \in [Slot -> Tdata] /\ Once(tdata', user, calls', auth_type)
           /\ calls' = calls /\ is_destroying' = is_destroying
           /\ auth_retry' \in 0..(MaxAuthRetry + 1) /\ next_nonce' \in Nonce
<1>1. /\ calls' = calls /\ is_destroying' = is_destroying
      /\ auth_retry' = auth_retry + 1 /\ next_nonce' \in Nonce /\ auth_retry + 1 <= MaxAuthRetry
      /\ auth_type = "long"
  <2>1. auth_retry \in Nat
    BY DEF TypeOK
  <2> QED
    BY <2>1, MaxAuthRetryAssumption DEF ChallengeAnswered, Challenged, TooManyRetries
<1>2. auth_retry' \in 0..(MaxAuthRetry + 1)
  BY <1>1, MaxAuthRetryAssumption DEF TypeOK
<1>3. PICK n \in Slot, ok \in BOOLEAN :
        /\ NextSlot(n)
        /\ Release([tdata EXCEPT ![n] = SentRequest(t.token, t.retransmit, ok),
                                 ![r] = destroy_tdata(t, FALSE)], is_destroying, pp)
  BY DEF ChallengeAnswered
<1>4. t.token \in Slot /\ t.retransmit \in BOOLEAN /\ t.token = tdata[r].token
  BY DEF Tdata, Quieter
<1>5. tdata[n].state = "none"
  BY <1>3, SlotAssumption DEF NextSlot
<1>6. n # r
  BY <1>5 DEF OnceInv, Once
<1>7. PICK u \in Tdata : u = SentRequest(t.token, t.retransmit, ok) /\ u.token = t.token
                         /\ u.state # "none" /\ u.tsx
  BY <1>4, SentRequestType
<1>8. PICK d \in Tdata : d = destroy_tdata(t, FALSE) /\ Quieter(t, d)
  BY DestroyTdataType, FALSE \in BOOLEAN
<1>9. PICK e \in [Slot -> Tdata] : e = [tdata EXCEPT ![n] = u, ![r] = d]
  BY DEF TypeOK
<1>10. e[n] = u /\ e[r] = d /\ \A s \in Slot : s \notin {n, r} => e[s] = tdata[s]
  BY <1>6, <1>9 DEF TypeOK
<1>11. ~Active(e, r) /\ e[r].token = tdata[r].token /\ (e[r].state = "none" => tdata[r].state = "none")
  BY <1>4, <1>8, <1>10 DEF Active, Quieter
<1>12. \A s \in Slot : Active(e, s) => s # r /\ (s = n \/ (Active(tdata, s) /\ e[s].token # u.token))
  <2>1. \A s \in Slot : s \notin {n, r} => (Active(e, s) <=> Active(tdata, s)) /\ e[s].token = tdata[s].token
    BY <1>10 DEF Active
  <2> QED
    BY <2>1, <1>11, <1>4, <1>7, ActiveAlone
<1>13. Once(e, user, calls, auth_type)
  <2>1. ASSUME NEW s \in Slot, Active(e, s)
        PROVE  /\ e[s].tsx /\ user[e[s].token] = "waiting" /\ calls[e[s].token] = 0
               /\ auth_type = "short" => e[s].token = s
    <3>1. CASE s = n
      BY <3>1, <1>1, <1>4, <1>7, <1>10, ActiveAlone
    <3>2. CASE s # n
      BY <2>1, <3>2, <1>10, <1>12 DEF OnceInv, Once
    <3> QED
      BY <3>1, <3>2
  <2>2. ASSUME NEW s \in Slot, NEW q \in Slot, Active(e, s), Active(e, q), e[s].token = e[q].token
        PROVE  s = q
    BY <2>2, <1>7, <1>10, <1>12 DEF OnceInv, Once
  <2>3. ASSUME NEW s \in Slot, e[s].state = "none"
        PROVE  ~Active(e, s) /\ user[s] = "idle"
    BY <2>3, <1>7, <1>10, <1>11, <1>12 DEF OnceInv, Once
  <2>4. \A s \in Slot : calls[s] <= (IF user[s] = "waiting" THEN 1 ELSE 0)
    BY DEF OnceInv, Once
  <2> QED
    BY <2>1, <2>2, <2>3, <2>4 DEF Once
<1>14. Release(e, is_destroying, pp)
  BY <1>3, <1>7, <1>8, <1>9
<1>15. tdata' \in [Slot -> Tdata] /\ Quiet(e, tdata')
  BY <1>14, ReleaseQuiet
<1> QED
  BY <1>1, <1>2, <1>13, <1>15, QuietOnce

\* The fields of the session after the authentication challenge is handled.
LEMMA ChallengeTypes ==
    ASSUME TypeOK, NEW answer, NotChallenged(answer) \/ ChallengeRefused(answer)
    PROVE  auth_retry' \in 0..(MaxAuthRetry + 1) /\ next_nonce' \in Nonce \cup {None}
           /\ auth_type' = auth_type
<1>1. CASE NotChallenged(answer)
  BY <1>1, MaxAuthRetryAssumption DEF NotChallenged, TypeOK
<1>2. CASE ChallengeRefused(answer)
  <2>1. CASE TooManyRetries /\ auth_retry' = MaxAuthRetry + 1 /\ UNCHANGED <<auth_type, next_nonce>>
    BY <2>1, MaxAuthRetryAssumption DEF TypeOK
  <2>2. CASE ~TooManyRetries /\ auth_retry' = auth_retry + 1 /\ next_nonce' = answer
             /\ UNCHANGED auth_type
    BY <1>2, <2>2, MaxAuthRetryAssumption DEF ChallengeRefused, Challenged, TooManyRetries, TypeOK
  <2> QED
    BY <1>2, <2>1, <2>2 DEF ChallengeRefused
<1> QED
  BY <1>1, <1>2

\* Whatever completes a transaction keeps the invariant.
LEMMA CompleteTsxStep ==
    ASSUME TypeOK, OnceInv, NEW r \in Slot, NEW t \in Tdata, Quieter(tdata[r], t),
           NEW answer, NEW pp, CompleteTsx(r, t, answer, pp)
    PROVE  /\ tdata' \in [Slot -> Tdata] /\ Once(tdata', user, calls', auth_type)
           /\ calls' \in [Slot -> Nat] /\ is_destroying' \in BOOLEAN
           /\ auth_retry' \in 0..(MaxAuthRetry + 1) /\ next_nonce' \in Nonce \cup {None}
           /\ auth_type' = auth_type
<1>1. PICK u \in Tdata : u = [t EXCEPT !.complete = TRUE] /\ u.complete /\ Quieter(tdata[r], u)
                          /\ u.token = tdata[r].token
  <2>1. [t EXCEPT !.complete = TRUE] \in Tdata
    BY DEF Tdata
  <2>2. [t EXCEPT !.complete = TRUE].complete
    BY DEF Tdata
  <2>3. Quieter(t, [t EXCEPT !.complete = TRUE])
    BY <2>2 DEF Tdata, Quieter
  <2> QED
    BY <2>1, <2>2, <2>3 DEF Quieter
<1>2. CASE ~(~t.complete /\ t.on_complete)
  <2>1. Release([tdata EXCEPT ![r] = u], is_destroying, pp) /\ UNCHANGED <<is_destroying, auth, calls>>
    BY <1>1, <1>2 DEF CompleteTsx
  <2>2. tdata' \in [Slot -> Tdata] /\ Once(tdata', user, calls, auth_type)
    BY <1>1, <2>1, QuietStep DEF TypeOK, OnceInv
  <2> QED
    BY <2>1, <2>2 DEF TypeOK, auth
<1>3. CASE ~t.complete /\ t.on_complete
  <2>1. Active(tdata, r)
    BY <1>3 DEF Active, Quieter
  <2>2. stun_tsx_on_complete(r, u, answer, pp)
    BY <1>1, <1>3 DEF CompleteTsx
  <2>3. PICK d \in Tdata : d = destroy_tdata(u, FALSE) /\ Quieter(tdata[r], d)
    <3>1. destroy_tdata(u, FALSE) \in Tdata /\ Quieter(u, destroy_tdata(u, FALSE))
      BY DestroyTdataType, FALSE \in BOOLEAN
    <3> QED
      BY <1>1, <3>1 DEF Quieter
  <2>4. CASE /\ Release([tdata EXCEPT ![r] = destroy_tdata(u, FALSE)], is_destroying, pp)
             /\ UNCHANGED <<is_destroying, auth, calls>>
    <3>1. tdata' \in [Slot -> Tdata] /\ Once(tdata', user, calls, auth_type)
      BY <2>3, <2>4, QuietStep DEF TypeOK, OnceInv
    <3> QED
      BY <2>4, <3>1 DEF TypeOK, auth
  <2>5. CASE /\ NotChallenged(answer) \/ ChallengeRefused(answer)
             /\ Notify(u.token, r, u, answer = "timeout", pp)
    <3>1. PICK force \in BOOLEAN : force = (answer = "timeout")
      OBVIOUS
    <3>2. Notify(u.token, r, u, force, pp)
      BY <2>5, <3>1
    <3>3. u.token \in Slot
      BY DEF Tdata
    <3>4. /\ user[u.token] = "waiting" /\ calls[u.token] = 0
          /\ \A s \in Slot : Active(tdata, s) /\ tdata[s].token = u.token => s = r
      BY <1>1, <2>1, ActiveAlone
    <3>5. /\ tdata' \in [Slot -> Tdata] /\ is_destroying' \in BOOLEAN
          /\ calls' \in [Slot -> Nat] /\ Once(tdata', user, calls', auth_type)
      <4>1. Quieter(tdata[r], u) /\ (u.complete \/ (~force /\ (u.on_complete => u.tsx)))
        BY <1>1
      <4> QED
        BY <3>2, <3>3, <3>4, <4>1, NotifyOnce
    <3> QED
      BY <2>5, <3>5, ChallengeTypes
  <2>6. CASE ChallengeAnswered(r, u, answer, pp)
    <3>1. auth_type' = auth_type
      BY <2>6 DEF ChallengeAnswered
    <3> QED
      BY <1>1, <2>1, <2>6, <3>1, ChallengeAnsweredStep DEF TypeOK
  <2> QED
    BY <2>2, <2>4, <2>5, <2>6 DEF stun_tsx_on_complete
<1> QED
  BY <1>2, <1>3

LEMMA SendRequestStep ==
    ASSUME IInv, NEW r \in Slot, SendRequest(r)
    PROVE  IInv'
<1>1. PICK retransmit \in BOOLEAN, ok \in BOOLEAN :
        /\ tdata' = [tdata EXCEPT ![r] = SentRequest(r, retransmit, ok)]
        /\ user' = [user EXCEPT ![r] = IF ok THEN "waiting" ELSE "refused"]
  BY DEF SendRequest
<1>2. PICK u \in Tdata : /\ u = SentRequest(r, retransmit, ok) /\ u.token = r
                         /\ u.state # "none" /\ u.tsx /\ (u.on_complete => ok)
  BY SentRequestType
<1>3. UNCHANGED <<popped, is_destroying, auth_type, auth_retry, next_nonce, peer, calls>>
  BY DEF SendRequest, auth
<1>4. tdata[r].state = "none"
  BY SlotAssumption DEF SendRequest, NextSlot
<1>5. user[r] = "idle" /\ calls[r] = 0
  BY <1>4 DEF IInv, TypeOK, OnceInv, Once
<1>6. TypeOK'
  BY <1>1, <1>2, <1>3 DEF IInv, TypeOK, Users
<1>7. \A s \in Slot : s # r /\ Active(tdata', s) =>
        Active(tdata, s) /\ tdata'[s] = tdata[s] /\ tdata[s].token # r
  <2>1. \A s \in Slot : Active(tdata, s) => tdata[s].token # r
    BY <1>5 DEF IInv, OnceInv, Once
  <2> QED
    BY <1>1, <1>2, <2>1 DEF Active, IInv, TypeOK
<1>8. tdata'[r] = u /\ (Active(tdata', r) => user'[r] = "waiting")
  BY <1>1, <1>2 DEF IInv, TypeOK, Active
<1>9. \A s \in Slot : s # r => user'[s] = user[s] /\ tdata'[s] = tdata[s]
  BY <1>1 DEF IInv, TypeOK
<1>10. Once(tdata', user', calls', auth_type')
  <2>1. ASSUME NEW s \in Slot, Active(tdata', s)
        PROVE  /\ tdata'[s].tsx /\ user'[tdata'[s].token] = "waiting" /\ calls'[tdata'[s].token] = 0
               /\ auth_type' = "short" => tdata'[s].token = s
    <3>1. CASE s = r
      BY <3>1, <2>1, <1>2, <1>3, <1>5, <1>8
    <3>2. CASE s # r
      <4>1. Active(tdata, s) /\ tdata'[s] = tdata[s] /\ tdata[s].token # r /\ tdata[s].token \in Slot
        BY <2>1, <3>2, <1>7 DEF IInv, TypeOK, Tdata
      <4> QED
        BY <4>1, <1>3, <1>9 DEF IInv, OnceInv, Once
    <3> QED
      BY <3>1, <3>2
  <2>2. ASSUME NEW s \in Slot, NEW q \in Slot, Active(tdata', s), Active(tdata', q),
               tdata'[s].token = tdata'[q].token
        PROVE  s = q
    BY <2>2, <1>2, <1>7, <1>8 DEF IInv, OnceInv, Once
  <2>3. ASSUME NEW s \in Slot, tdata'[s].state = "none"
        PROVE  ~Active(tdata', s) /\ user'[s] = "idle"
    BY <2>3, <1>2, <1>7, <1>8, <1>9 DEF IInv, OnceInv, Once
  <2>4. \A s \in Slot : calls'[s] <= (IF user'[s] = "waiting" THEN 1 ELSE 0)
    BY <1>3, <1>5, <1>9 DEF IInv, OnceInv, Once
  <2> QED
    BY <2>1, <2>2, <2>3, <2>4 DEF Once
<1> QED
  BY <1>6, <1>10 DEF IInv, OnceInv

LEMMA CancelRequestStep ==
    ASSUME IInv, NEW r \in Slot, CancelRequest(r)
    PROVE  IInv'
<1>1. /\ auth_type = "short" /\ user[r] = "waiting" /\ calls[r] = 0
      /\ UNCHANGED <<popped, auth_type, auth_retry, next_nonce, peer>>
  BY DEF CancelRequest, auth
<1>2. \A s \in Slot : Active(tdata, s) /\ tdata[s].token = r => s = r
  BY <1>1 DEF IInv, OnceInv, Once
<1>3. tdata[r] \in Tdata /\ (tdata[r].on_complete => tdata[r].complete \/ tdata[r].tsx)
  BY DEF IInv, TypeOK, OnceInv, Once, Active
<1>4. CASE /\ user' = [user EXCEPT ![r] = "cancelled"]
           /\ tdata' = [tdata EXCEPT ![r] = destroy_tdata(@, FALSE)]
           /\ UNCHANGED <<calls, is_destroying>>
  <2>1. PICK d \in Tdata : /\ d = destroy_tdata(tdata[r], FALSE) /\ Quieter(tdata[r], d)
                           /\ tdata[r].tsx => ~d.on_complete
    BY <1>3, DestroyTdataType, FALSE \in BOOLEAN
  <2>2. tdata' = [tdata EXCEPT ![r] = d]
    BY <1>4, <2>1
  <2>3. tdata' \in [Slot -> Tdata] /\ Quiet(tdata, tdata')
    BY <2>1, <2>2, UpdateQuiet DEF IInv, TypeOK
  <2>4. Once(tdata', user, calls, auth_type)
    BY <2>3, QuietOnce DEF IInv, TypeOK, OnceInv
  <2>5. ~Active(tdata', r)
    BY <1>3, <2>1, <2>2 DEF Active, Quieter, IInv, TypeOK
  <2>6. \A s \in Slot : Active(tdata', s) => tdata'[s].token # r /\ tdata'[s].token \in Slot
    BY <1>1, <2>3, <2>4, <2>5 DEF Once, Tdata
  <2>7. user'[r] = "cancelled" /\ \A s \in Slot : s # r => user'[s] = user[s]
    BY <1>4 DEF IInv, TypeOK
  <2>8. tdata'[r].state # "none"
    BY <1>1, <2>3, <2>4 DEF Once
  <2>9. Once(tdata', user', calls', auth_type')
    <3>1. \A s \in Slot : calls'[s] <= (IF user'[s] = "waiting" THEN 1 ELSE 0)
      BY <1>1, <1>4, <2>4, <2>7 DEF Once
    <3>2. ASSUME NEW s \in Slot, Active(tdata', s)
          PROVE  /\ tdata'[s].tsx /\ user'[tdata'[s].token] = "waiting" /\ calls'[tdata'[s].token] = 0
                 /\ auth_type' = "short" => tdata'[s].token = s
      <4>1. tdata'[s].token # r /\ tdata'[s].token \in Slot
        BY <2>6, <3>2
      <4>2. user'[tdata'[s].token] = user[tdata'[s].token]
        BY <2>7, <4>1
      <4>3. /\ tdata'[s].tsx /\ user[tdata'[s].token] = "waiting" /\ calls[tdata'[s].token] = 0
            /\ auth_type = "short" => tdata'[s].token = s
        BY <2>4, <3>2 DEF Once
      <4> QED
        BY <1>1, <1>4, <4>2, <4>3
    <3>3. \A s, q \in Slot : Active(tdata', s) /\ Active(tdata', q)
                            /\ tdata'[s].token = tdata'[q].token => s = q
      BY <2>4 DEF Once
    <3>4. \A s \in Slot : tdata'[s].state = "none" => ~Active(tdata', s) /\ user'[s] = "idle"
      BY <2>4, <2>7, <2>8 DEF Once
    <3> QED
      BY <3>1, <3>2, <3>3, <3>4 DEF Once
  <2>10. TypeOK'
    BY <1>1, <1>4, <2>3 DEF IInv, TypeOK, Users
  <2> QED
    BY <2>9, <2>10 DEF IInv, OnceInv
<1>5. CASE Notify(r, r, tdata[r], FALSE, popped) /\ UNCHANGED user
  <2>1. Quieter(tdata[r], tdata[r])
    BY DEF Quieter
  <2>2. /\ tdata' \in [Slot -> Tdata] /\ is_destroying' \in BOOLEAN
        /\ calls' \in [Slot -> Nat] /\ Once(tdata', user, calls', auth_type)
    <3>1. tdata[r].complete \/ (~FALSE /\ (tdata[r].on_complete => tdata[r].tsx))
      BY <1>3
    <3>2. FALSE \in BOOLEAN
      OBVIOUS
    <3> QED
      BY <1>1, <1>2, <1>3, <1>5, <2>1, <3>1, <3>2, NotifyOnce DEF IInv
  <2> QED
    BY <1>1, <1>5, <2>2 DEF IInv, TypeOK, OnceInv
<1> QED
  BY <1>4, <1>5 DEF CancelRequest

LEMMA DestroySessionStep ==
    ASSUME IInv, DestroySession
    PROVE  IInv'
<1>1. StopAll(tdata) \in [Slot -> Tdata] /\ Quiet(tdata, StopAll(tdata))
  BY StopAllQuiet DEF IInv, TypeOK
<1>2. tdata' \in [Slot -> Tdata] /\ Quiet(StopAll(tdata), tdata')
  BY <1>1, ReleaseQuiet DEF DestroySession
<1>3. Once(tdata', user, calls, auth_type)
  BY <1>1, <1>2, QuietOnce DEF IInv, TypeOK, OnceInv
<1> QED
  BY <1>2, <1>3 DEF DestroySession, IInv, TypeOK, OnceInv, auth

LEMMA RxResponseStep ==
    ASSUME IInv, NEW r \in Slot, NEW answer \in Answers, RxResponse(r, answer)
    PROVE  IInv'
<1>1. PICK t \in Tdata : t = Cancel(tdata[r], "retransmit") /\ Quieter(tdata[r], t)
  BY CancelType DEF Timers, IInv, TypeOK
<1>2. UNCHANGED <<popped, peer, user>>
  BY DEF RxResponse
<1>3. CASE answer = "provisional"
  <2>1. Release([tdata EXCEPT ![r] = t], is_destroying, popped) /\ UNCHANGED <<is_destroying, auth, calls>>
    BY <1>1, <1>3 DEF RxResponse
  <2>2. tdata' \in [Slot -> Tdata] /\ Once(tdata', user, calls, auth_type)
    BY <1>1, <2>1, QuietStep DEF IInv, TypeOK, OnceInv
  <2> QED
    BY <1>2, <2>1, <2>2 DEF IInv, TypeOK, OnceInv, auth
<1>4. CASE answer # "provisional"
  <2>1. CompleteTsx(r, t, answer, popped)
    BY <1>1, <1>4 DEF RxResponse
  <2> QED
    BY <1>1, <1>2, <2>1, CompleteTsxStep DEF IInv, TypeOK, OnceInv
<1> QED
  BY <1>3, <1>4

LEMMA RxRequestStep ==
    ASSUME IInv, NEW r \in Slot, RxRequest(r)
    PROVE  IInv'
<1>1. PICK cache \in BOOLEAN, ok \in BOOLEAN : tdata' = [tdata EXCEPT ![r] = SentResponse(r, cache, ok)]
  BY DEF RxRequest
<1>2. PICK u \in Tdata : u = SentResponse(r, cache, ok) /\ u.state # "none" /\ ~u.on_complete
  BY SentResponseType
<1>3. UNCHANGED <<popped, is_destroying, auth_type, auth_retry, next_nonce, peer, user, calls>>
  BY DEF RxRequest, auth
<1>4. TypeOK'
  BY <1>1, <1>2, <1>3 DEF IInv, TypeOK
<1>5. tdata'[r] = u /\ \A s \in Slot : s # r => tdata'[s] = tdata[s]
  BY <1>1, <1>2 DEF IInv, TypeOK
<1>6. ~Active(tdata', r) /\ \A s \in Slot : s # r => (Active(tdata', s) <=> Active(tdata, s))
  BY <1>2, <1>5 DEF Active
<1> QED
  BY <1>2, <1>3, <1>4, <1>5, <1>6 DEF IInv, OnceInv, Once

-----------------------------------------------------------------------------
(* The steps of a poller                                                   *)

LEMMA PopTimerStep ==
    ASSUME IInv, NEW p \in Pollers, NEW r \in Slot, NEW k \in Timers, PopTimer(p, r, k)
    PROVE  IInv'
<1>1. PICK u \in Tdata : u = [tdata[r] EXCEPT !.heap = @ \ {k}] /\ Quieter(tdata[r], u)
  <2>1. tdata[r].heap \ {k} \in SUBSET Timers
    BY DEF Tdata, IInv, TypeOK
  <2> QED
    BY <2>1, FieldsType DEF IInv, TypeOK
<1>2. tdata' = [tdata EXCEPT ![r] = u]
  BY <1>1 DEF PopTimer
<1>3. tdata' \in [Slot -> Tdata] /\ Quiet(tdata, tdata')
  BY <1>1, <1>2, UpdateQuiet DEF IInv, TypeOK
<1>4. Once(tdata', user, calls, auth_type)
  BY <1>3, QuietOnce DEF IInv, TypeOK, OnceInv
<1> QED
  BY <1>3, <1>4 DEF PopTimer, IInv, TypeOK, OnceInv, auth

\* What the callbacks have in common.
LEMMA CallbackTypes ==
    ASSUME TypeOK, NEW p \in Pollers, NEW r \in Slot, NEW k, Callback(p, r, k)
    PROVE  popped' \in [Pollers -> (Slot \X Timers) \cup {None}] /\ UNCHANGED <<peer, user>>
  BY DEF Callback, TypeOK

LEMMA RetransmitTimerStep ==
    ASSUME IInv, NEW p \in Pollers, NEW r \in Slot, RetransmitTimer(p, r)
    PROVE  IInv'
<1>1. popped' \in [Pollers -> (Slot \X Timers) \cup {None}] /\ UNCHANGED <<peer, user>>
  BY CallbackTypes DEF RetransmitTimer, IInv
<1>2. PICK t \in Tdata : t = [tdata[r] EXCEPT !.id = @ \ {"retransmit"}] /\ Quieter(tdata[r], t)
  <2>1. tdata[r].id \ {"retransmit"} \in SUBSET Timers
    BY DEF Tdata, IInv, TypeOK
  <2> QED
    BY <2>1, FieldsType DEF IInv, TypeOK
<1>3. ASSUME NEW u \in Tdata, Quieter(tdata[r], u), NEW answer, CompleteTsx(r, u, answer, popped')
      PROVE  IInv'
  BY <1>1, <1>3, CompleteTsxStep DEF IInv, TypeOK, OnceInv
<1>4. CASE CompleteTsx(r, t, "timeout", popped')
  BY <1>2, <1>3, <1>4
<1>5. CASE /\ t.count < MaxTransmit /\ tdata' = [tdata EXCEPT ![r] = tsx_transmit_msg(t, TRUE)]
           /\ UNCHANGED <<is_destroying, auth, calls>>
  <2>1. t.count <= MaxTransmit
    BY <1>2, <1>5, MaxTransmitAssumption DEF Tdata
  <2>2. PICK u \in Tdata : u = tsx_transmit_msg(t, TRUE) /\ Quieter(t, u)
    BY <2>1, TransmitType, TRUE \in BOOLEAN
  <2>3. Quieter(tdata[r], u)
    BY <1>2, <2>2 DEF Quieter
  <2>4. tdata' \in [Slot -> Tdata] /\ Quiet(tdata, tdata')
    BY <1>5, <2>2, <2>3, UpdateQuiet DEF IInv, TypeOK
  <2>5. Once(tdata', user, calls, auth_type)
    BY <2>4, QuietOnce DEF IInv, TypeOK, OnceInv
  <2> QED
    BY <1>1, <1>5, <2>4, <2>5 DEF IInv, TypeOK, OnceInv, auth
<1>6. CASE t.count < MaxTransmit /\ CompleteTsx(r, tsx_transmit_msg(t, FALSE), "nothing", popped')
  <2>1. t.count <= MaxTransmit
    BY <1>2, <1>6, MaxTransmitAssumption DEF Tdata
  <2>2. PICK u \in Tdata : u = tsx_transmit_msg(t, FALSE) /\ Quieter(t, u)
    BY <2>1, TransmitType, FALSE \in BOOLEAN
  <2>3. Quieter(tdata[r], u)
    BY <1>2, <2>2 DEF Quieter
  <2> QED
    BY <1>3, <1>6, <2>2, <2>3
<1> QED
  BY <1>2, <1>4, <1>5, <1>6 DEF RetransmitTimer

LEMMA DestroyTimerStep ==
    ASSUME IInv, NEW p \in Pollers, NEW r \in Slot, DestroyTimer(p, r)
    PROVE  IInv'
<1>1. popped' \in [Pollers -> (Slot \X Timers) \cup {None}] /\ UNCHANGED <<peer, user>>
  BY CallbackTypes DEF DestroyTimer, IInv
<1>2. PICK v \in Tdata : v = pj_stun_client_tsx_stop(tdata[r]) /\ Quieter(tdata[r], v)
  BY StopType DEF IInv, TypeOK
<1>3. PICK u \in Tdata : u = [v EXCEPT !.list = "none", !.state = "released"] /\ Quieter(tdata[r], u)
  <2>1. PICK u \in Tdata : u = [v EXCEPT !.list = "none", !.state = "released"] /\ Quieter(v, u)
    BY FieldsType, {} \in SUBSET Timers
  <2> QED
    BY <1>2, <2>1 DEF Quieter
<1>4. Release([tdata EXCEPT ![r] = u], is_destroying, popped') /\ UNCHANGED <<is_destroying, auth, calls>>
  BY <1>2, <1>3 DEF DestroyTimer
<1>5. tdata' \in [Slot -> Tdata] /\ Once(tdata', user, calls, auth_type)
  BY <1>3, <1>4, QuietStep DEF IInv, TypeOK, OnceInv
<1> QED
  BY <1>1, <1>4, <1>5 DEF IInv, TypeOK, OnceInv, auth

LEMMA CacheTimerStep ==
    ASSUME IInv, NEW p \in Pollers, NEW r \in Slot, CacheTimer(p, r)
    PROVE  IInv'
<1>1. popped' \in [Pollers -> (Slot \X Timers) \cup {None}] /\ UNCHANGED <<peer, user>>
  BY CallbackTypes DEF CacheTimer, IInv
<1>2. PICK v \in Tdata : v = [tdata[r] EXCEPT !.id = @ \ {"cache"}, !.list = "none"] /\ Quieter(tdata[r], v)
  <2>1. tdata[r].id \ {"cache"} \in SUBSET Timers
    BY DEF Tdata, IInv, TypeOK
  <2> QED
    BY <2>1, FieldsType DEF IInv, TypeOK
<1>3. PICK u \in Tdata : u = destroy_tdata(v, FALSE) /\ Quieter(v, u)
  BY DestroyTdataType, FALSE \in BOOLEAN
<1>4. Quieter(tdata[r], u)
  BY <1>2, <1>3 DEF Quieter
<1>5. Release([tdata EXCEPT ![r] = u], is_destroying, popped') /\ UNCHANGED <<is_destroying, auth, calls>>
  BY <1>2, <1>3 DEF CacheTimer
<1>6. tdata' \in [Slot -> Tdata] /\ Once(tdata', user, calls, auth_type)
  BY <1>4, <1>5, QuietStep DEF IInv, TypeOK, OnceInv
<1> QED
  BY <1>1, <1>5, <1>6 DEF IInv, TypeOK, OnceInv, auth

-----------------------------------------------------------------------------
(* The theorems                                                            *)

LEMMA InitIInv == Init => IInv
<1> SUFFICES ASSUME Init PROVE IInv
  OBVIOUS
<1>1. ASSUME NEW r \in Slot
      PROVE  NewTdata(r) \in Tdata /\ ~NewTdata(r).on_complete
  <2>1. PICK v : v = Request(r, FALSE)
    OBVIOUS
  <2>2. v \in Tdata
    BY <2>1, RequestType, FALSE \in BOOLEAN
  <2>3. NewTdata(r) = [v EXCEPT !.state = "none", !.tsx = FALSE, !.on_complete = FALSE]
    BY <2>1 DEF NewTdata
  <2>4. NewTdata(r) \in Tdata
    BY <2>2, <2>3 DEF Tdata
  <2>5. ~NewTdata(r).on_complete
    BY <2>2, <2>3 DEF Tdata
  <2> QED
    BY <2>4, <2>5
<1>2. TypeOK
  <2>1. tdata \in [Slot -> Tdata]
    BY <1>1 DEF Init
  <2>2. auth_retry \in 0..(MaxAuthRetry + 1)
    BY MaxAuthRetryAssumption DEF Init
  <2> QED
    BY <2>1, <2>2 DEF Init, TypeOK, Users
<1>3. \A r \in Slot : ~Active(tdata, r)
  BY <1>1 DEF Init, Active
<1>4. OnceInv
  BY <1>3 DEF Init, OnceInv, Once
<1> QED
  BY <1>2, <1>4 DEF IInv

LEMMA NextIInv == IInv /\ [Next]_vars => IInv'
<1> SUFFICES ASSUME IInv, [Next]_vars PROVE IInv'
  OBVIOUS
<1>1. CASE UNCHANGED vars
  BY <1>1 DEF vars, IInv, TypeOK, OnceInv
<1>2. ASSUME NEW r \in Slot, SendRequest(r) \/ CancelRequest(r) \/ RxRequest(r)
      PROVE  IInv'
  BY <1>2, SendRequestStep, CancelRequestStep, RxRequestStep
<1>3. ASSUME NEW r \in Slot, NEW answer \in Answers, RxResponse(r, answer)
      PROVE  IInv'
  BY <1>3, RxResponseStep
<1>4. CASE DestroySession
  BY <1>4, DestroySessionStep
<1>5. ASSUME NEW p \in Pollers, Poll(p)
      PROVE  IInv'
  BY <1>5, PopTimerStep, RetransmitTimerStep, DestroyTimerStep, CacheTimerStep DEF Poll
<1> QED
  BY <1>1, <1>2, <1>3, <1>4, <1>5 DEF Next

LEMMA AlwaysIInv == Spec => []IInv
  BY InitIInv, NextIInv, PTL DEF Spec

\* Every variable of a STUN session keeps its type; in particular a request
\* is transmitted at most PJ_STUN_MAX_TRANSMIT_COUNT times, once more being
\* counted over a reliable transport.
THEOREM Types_invariant == Spec => []TypeOK
  BY AlwaysIInv, PTL DEF IInv

\* on_request_complete is called at most once for a request, and never for
\* one that was refused or silently cancelled.
THEOREM Notified_once == Spec => []NotifiedOnce
<1>1. IInv => NotifiedOnce
  BY DEF IInv, OnceInv, Once, NotifiedOnce
<1> QED
  BY <1>1, AlwaysIInv, PTL

-----------------------------------------------------------------------------
(* A request that awaits its response has a timer                          *)

Awaits(t) == t.list = "pending" /\ t.on_complete /\ ~t.complete
Popped(pp, r) == \E p \in Pollers : pp[p] = <<r, "retransmit">>
Excused == is_destroying \/ peer # "final"

\* Without retransmission the one timer is the last one.
LastTimer(t) == t.tsx /\ ~t.retransmit => t.count >= MaxTransmit
WatchedAt(t, pp, excused, r) ==
    LastTimer(t) /\ (Awaits(t) /\ ~excused => "retransmit" \in t.heap \/ Popped(pp, r))
Watching(td, pp, excused) == \A r \in Slot : WatchedAt(td[r], pp, excused, r)

WInv == Watching(tdata, popped, Excused)

\* What may happen to a tdata while its timer stays, if it still awaits.
Counted(t, u) == /\ u.tsx = t.tsx /\ u.retransmit = t.retransmit
                 /\ t.count >= MaxTransmit => u.count >= MaxTransmit
Kept(t, u) == /\ Counted(t, u)
              /\ Awaits(u) => Awaits(t) /\ ("retransmit" \in t.heap => "retransmit" \in u.heap)

LEMMA KeptSelf == ASSUME NEW t \in Tdata PROVE Kept(t, t)
  BY MaxTransmitAssumption DEF Kept, Counted, Tdata

LEMMA StopCounted ==
    ASSUME NEW t \in Tdata
    PROVE  Counted(t, pj_stun_client_tsx_stop(t))
  BY MaxTransmitAssumption DEF pj_stun_client_tsx_stop, Cancel, Tdata, Timers, Counted

LEMMA CancelCounted ==
    ASSUME NEW t \in Tdata, NEW k \in Timers
    PROVE  Counted(t, Cancel(t, k)) /\ (k # "retransmit" => Kept(t, Cancel(t, k)))
<1>1. PICK c : c = Cancel(t, k)
  OBVIOUS
<1>2. /\ c.tsx = t.tsx /\ c.retransmit = t.retransmit /\ c.count = t.count /\ c.list = t.list
      /\ c.on_complete = t.on_complete /\ c.complete = t.complete /\ c.heap = t.heap \ {k}
  BY <1>1 DEF Cancel, Tdata
<1>3. t.count \in Nat
  BY MaxTransmitAssumption DEF Tdata
<1> QED
  BY <1>1, <1>2, <1>3 DEF Kept, Counted, Awaits

LEMMA ScheduleDestroyKept ==
    ASSUME NEW t \in Tdata
    PROVE  Kept(t, schedule_destroy(t))
<1>1. PICK v \in Tdata : v = pj_stun_client_tsx_stop(t) /\ Counted(t, v)
  BY StopType, StopCounted
<1>2. PICK w : w = Schedule(v, "destroy")
  OBVIOUS
<1>3. w \in Tdata
  BY <1>2, ScheduleType DEF Timers
<1>4. w.tsx = v.tsx /\ w.retransmit = v.retransmit /\ w.count = v.count
  BY <1>2 DEF Schedule, Tdata
<1>5. schedule_destroy(t) = [w EXCEPT !.on_complete = FALSE]
  BY <1>1, <1>2 DEF schedule_destroy
<1>6. Counted(w, schedule_destroy(t))
  BY <1>3, <1>5, MaxTransmitAssumption DEF Tdata, Counted
<1>7. ~Awaits(schedule_destroy(t))
  BY ScheduleDestroyType DEF Awaits
<1>8. Counted(t, schedule_destroy(t))
  BY <1>1, <1>4, <1>6 DEF Counted
<1> QED
  BY <1>7, <1>8 DEF Kept

LEMMA DestroyTdataKept ==
    ASSUME NEW t \in Tdata, NEW force \in BOOLEAN
    PROVE  Kept(t, destroy_tdata(t, force))
<1> DEFINE c == [Cancel(t, "cache") EXCEPT !.list = "none"]
           u == IF "cache" \in t.id THEN c ELSE t
           f == [pj_stun_client_tsx_stop(u) EXCEPT !.list = "none", !.state = "released"]
           g == [u EXCEPT !.state = "released"]
<1>1. c \in Tdata /\ Kept(t, c)
  <2>1. PICK w \in Tdata : w = Cancel(t, "cache") /\ Counted(t, w)
    BY CancelType, CancelCounted DEF Timers
  <2> QED
    BY <2>1, MaxTransmitAssumption DEF Tdata, Kept, Counted, Awaits
<1>2. u \in Tdata /\ Kept(t, u)
  BY <1>1, KeptSelf
<1>3. Kept(t, f)
  <2>1. PICK w \in Tdata : w = pj_stun_client_tsx_stop(u) /\ Counted(u, w)
    BY <1>2, StopType, StopCounted
  <2>2. Counted(w, f) /\ ~Awaits(f)
    BY <2>1, MaxTransmitAssumption DEF Tdata, Counted, Awaits
  <2>3. u.count \in Nat /\ t.count \in Nat /\ w.count \in Nat /\ f.count = w.count
    BY <1>2, <2>1, MaxTransmitAssumption DEF Tdata
  <2> HIDE DEF u, f
  <2> QED
    BY <1>2, <2>1, <2>2, <2>3 DEF Kept, Counted
<1>4. Kept(t, g)
  <2>1. /\ g.tsx = u.tsx /\ g.retransmit = u.retransmit /\ g.count = u.count /\ g.list = u.list
        /\ g.on_complete = u.on_complete /\ g.complete = u.complete /\ g.heap = u.heap
    <3> HIDE DEF u
    <3> QED
      BY <1>2 DEF Tdata
  <2> HIDE DEF u, g
  <2> QED
    BY <1>2, <2>1 DEF Kept, Counted, Awaits
<1>5. Kept(t, schedule_destroy(u))
  <2>1. Kept(u, schedule_destroy(u)) /\ schedule_destroy(u) \in Tdata /\ ~schedule_destroy(u).on_complete
    BY <1>2, ScheduleDestroyKept, ScheduleDestroyType
  <2>2. u.count \in Nat /\ t.count \in Nat /\ schedule_destroy(u).count \in Nat
    BY <1>2, <2>1, MaxTransmitAssumption DEF Tdata
  <2> HIDE DEF u
  <2> QED
    BY <1>2, <2>1, <2>2 DEF Kept, Counted, Awaits
<1>6. destroy_tdata(t, force) = IF force THEN f ELSE IF u.tsx THEN schedule_destroy(u) ELSE g
  BY DEF destroy_tdata
<1> HIDE DEF c, u, f, g
<1> QED
  BY <1>3, <1>4, <1>5, <1>6

\* A transmission schedules the next, if there is to be one.
LEMMA TransmitWatched ==
    ASSUME NEW t \in Tdata, NEW ok \in BOOLEAN, t.count <= MaxTransmit
    PROVE  /\ Counted(t, tsx_transmit_msg(t, ok))
           /\ tsx_transmit_msg(t, ok).count = t.count + 1
           /\ ok /\ (t.retransmit \/ "retransmit" \in t.heap) => "retransmit" \in tsx_transmit_msg(t, ok).heap
<1> DEFINE u == IF t.retransmit THEN Schedule(t, "retransmit") ELSE t
           sent == [u EXCEPT !.count = t.count + 1]
<1>1. /\ u \in Tdata /\ u.tsx = t.tsx /\ u.retransmit = t.retransmit
      /\ t.retransmit \/ "retransmit" \in t.heap => "retransmit" \in u.heap
  BY ScheduleType DEF Timers, Quieter
<1>2. t.count \in Nat /\ t.count + 1 \in 0..(MaxTransmit + 1)
  BY MaxTransmitAssumption DEF Tdata
<1>3. /\ sent \in Tdata /\ sent.tsx = t.tsx /\ sent.retransmit = t.retransmit
      /\ sent.count = t.count + 1 /\ sent.heap = u.heap
  <2> HIDE DEF u
  <2> QED
    BY <1>1, <1>2 DEF Tdata
<1>4. tsx_transmit_msg(t, ok) = IF ok THEN sent ELSE Cancel(sent, "retransmit")
  BY DEF tsx_transmit_msg
<1> HIDE DEF u, sent
<1>5. Counted(sent, Cancel(sent, "retransmit")) /\ Cancel(sent, "retransmit").count = sent.count
  BY <1>3, CancelCounted, CancelType DEF Timers
<1>6. Counted(t, sent)
  BY <1>1, <1>2, <1>3, MaxTransmitAssumption DEF Counted
<1> QED
  BY <1>1, <1>3, <1>4, <1>5, <1>6 DEF Counted

LEMMA SentRequestWatched ==
    ASSUME NEW token \in Slot, NEW retransmit \in BOOLEAN, NEW ok \in BOOLEAN
    PROVE  LET t == SentRequest(token, retransmit, ok)
           IN  /\ ~t.retransmit => t.count >= MaxTransmit
               /\ Awaits(t) => "retransmit" \in t.heap
<1> DEFINE q == Request(token, retransmit)
           w == [q EXCEPT !.count = MaxTransmit]
           p == IF q.retransmit THEN q ELSE Schedule(w, "retransmit")
           m == tsx_transmit_msg(p, ok)
           l == [m EXCEPT !.list = "pending"]
<1>1. q \in Tdata /\ q.count = 0
  BY RequestType DEF Request
<1>2. tsx_send_msg(q, ok) = m
  BY DEF tsx_send_msg
<1>3. SentRequest(token, retransmit, ok) = IF ok THEN l ELSE destroy_tdata(m, FALSE)
  BY <1>2 DEF SentRequest
<1> HIDE DEF q
<1>4. w \in Tdata /\ w.count = MaxTransmit /\ w.retransmit = q.retransmit
  BY <1>1, MaxTransmitAssumption DEF Tdata
<1> HIDE DEF w
<1>5. /\ Schedule(w, "retransmit") \in Tdata
      /\ Schedule(w, "retransmit").count = MaxTransmit
      /\ Schedule(w, "retransmit").retransmit = q.retransmit
      /\ "retransmit" \in Schedule(w, "retransmit").heap
  BY <1>4, ScheduleType DEF Timers
<1>6. /\ p \in Tdata /\ p.count <= MaxTransmit
      /\ p.retransmit \/ "retransmit" \in p.heap
      /\ ~p.retransmit => p.count >= MaxTransmit
  BY <1>1, <1>5, MaxTransmitAssumption
<1> HIDE DEF p
<1>7. m \in Tdata /\ (~m.retransmit => m.count >= MaxTransmit) /\ (ok => "retransmit" \in m.heap)
  BY <1>6, TransmitType, TransmitWatched DEF Counted
<1> HIDE DEF m
<1>8. l.retransmit = m.retransmit /\ l.count = m.count /\ l.heap = m.heap
  BY <1>7 DEF Tdata
<1> HIDE DEF l
<1>9. Counted(m, destroy_tdata(m, FALSE))
  BY <1>7, DestroyTdataKept, FALSE \in BOOLEAN DEF Kept
<1>10. ~ok => ~Awaits(SentRequest(token, retransmit, ok))
  BY SentRequestType DEF Awaits
<1>11. CASE ok
  BY <1>3, <1>7, <1>8, <1>11
<1>12. CASE ~ok
  BY <1>3, <1>7, <1>9, <1>10, <1>12 DEF Counted
<1> QED
  BY <1>11, <1>12

-----------------------------------------------------------------------------
(* The timers after the release of the group lock                          *)

LEMMA KeptWatching ==
    ASSUME NEW td, NEW e, \A r \in Slot : Kept(td[r], e[r]),
           NEW pp, NEW excused \in BOOLEAN, Watching(td, pp, excused)
    PROVE  Watching(e, pp, excused)
  BY DEF Kept, Counted, Watching, WatchedAt, LastTimer

LEMMA ReleaseWatching ==
    ASSUME NEW td \in [Slot -> Tdata], NEW d, NEW pp, Release(td, d, pp),
           NEW excused \in BOOLEAN, Watching(td, pp, excused)
    PROVE  Watching(tdata', pp, excused)
<1> DEFINE e == stun_sess_on_destroy(td)
<1>1. \A r \in Slot : Kept(td[r], e[r])
  BY DestroyTdataKept, KeptSelf, TRUE \in BOOLEAN DEF stun_sess_on_destroy
<1>2. Watching(e, pp, excused)
  <2> HIDE DEF e
  <2> QED
    BY <1>1, KeptWatching
<1> QED
  BY <1>2 DEF Release

LEMMA StopAllWatching ==
    ASSUME NEW td \in [Slot -> Tdata], NEW pp, NEW excused, Watching(td, pp, excused)
    PROVE  Watching(StopAll(td), pp, TRUE)
<1>1. ASSUME NEW r \in Slot
      PROVE  LastTimer(StopAll(td)[r])
  <2>1. Counted(td[r], pj_stun_client_tsx_stop(td[r])) /\ Counted(td[r], Cancel(td[r], "cache"))
    BY StopCounted, CancelCounted DEF Timers
  <2>2. Counted(td[r], StopAll(td)[r])
    BY <2>1 DEF StopAll, Counted
  <2> QED
    BY <2>2 DEF Counted, Watching, WatchedAt, LastTimer
<1> QED
  BY <1>1 DEF Watching, WatchedAt

\* What a step on one tdata has to show.
LEMMA StepWatching ==
    ASSUME NEW td \in [Slot -> Tdata], NEW r \in Slot, NEW u \in Tdata,
           NEW d, NEW pp, Release([td EXCEPT ![r] = u], d, pp), NEW excused \in BOOLEAN,
           WatchedAt(u, pp, excused, r),
           \A s \in Slot : s # r => WatchedAt(td[s], pp, excused, s)
    PROVE  Watching(tdata', pp, excused)
<1>1. PICK e \in [Slot -> Tdata] : e = [td EXCEPT ![r] = u]
  OBVIOUS
<1>2. Watching(e, pp, excused)
  BY <1>1 DEF Watching
<1> QED
  BY <1>1, <1>2, ReleaseWatching

\* A tdata that awaits nothing needs no timer.
LEMMA QuietWatched ==
    ASSUME NEW t, NEW u, Counted(t, u), ~Awaits(u), LastTimer(t), NEW pp, NEW excused, NEW r
    PROVE  WatchedAt(u, pp, excused, r)
  BY DEF Counted, WatchedAt, LastTimer

LEMMA NotifyWatching ==
    ASSUME TypeOK, NEW r \in Slot, NEW t \in Tdata, NEW token, NEW force \in BOOLEAN, NEW pp,
           WatchedAt(t, pp, peer # "final", r), ~is_destroying, UNCHANGED peer,
           \A s \in Slot : s # r => WatchedAt(tdata[s], pp, peer # "final", s),
           Notify(token, r, t, force, pp)
    PROVE  Watching(tdata', pp, Excused')
<1>1. PICK destroys \in BOOLEAN :
        LET td == [tdata EXCEPT ![r] = t]
            stopped == IF destroys THEN StopAll(td) ELSE td
        IN  /\ is_destroying' = destroys
            /\ Release([stopped EXCEPT ![r] = destroy_tdata(@, force)], destroys, pp)
  BY DEF Notify
<1>2. PICK td \in [Slot -> Tdata] : td = [tdata EXCEPT ![r] = t]
  BY DEF TypeOK
<1>3. Watching(td, pp, peer # "final")
  BY <1>2 DEF Watching, TypeOK
<1>4. PICK st \in [Slot -> Tdata] : st = (IF destroys THEN StopAll(td) ELSE td)
  BY StopAllQuiet
<1>5. PICK x \in BOOLEAN : x = (destroys \/ peer # "final")
  OBVIOUS
<1>6. Watching(st, pp, x)
  <2>1. CASE destroys
    BY <1>3, <1>4, <1>5, <2>1, StopAllWatching
  <2>2. CASE ~destroys
    BY <1>3, <1>4, <1>5, <2>2
  <2> QED
    BY <2>1, <2>2
<1>7. PICK u \in Tdata : u = destroy_tdata(st[r], force) /\ Kept(st[r], u)
  BY DestroyTdataType, DestroyTdataKept
<1>8. Release([st EXCEPT ![r] = u], destroys, pp)
  BY <1>1, <1>2, <1>4, <1>7
<1>9. WatchedAt(u, pp, x, r)
  BY <1>6, <1>7 DEF Kept, Counted, Watching, WatchedAt, LastTimer
<1>10. Watching(tdata', pp, x)
  <2>1. \A s \in Slot : s # r => WatchedAt(st[s], pp, x, s)
    BY <1>6 DEF Watching
  <2> QED
    BY <1>8, <1>9, <2>1, StepWatching, ZenonT(40)
<1> QED
  BY <1>1, <1>5, <1>10 DEF Excused

LEMMA ChallengeAnsweredWatching ==
    ASSUME TypeOK, OnceInv, NEW r \in Slot, NEW t \in Tdata, NEW answer, NEW pp,
           Active(tdata, r), t.token = tdata[r].token, ~Awaits(t), LastTimer(t),
           \A s \in Slot : s # r => WatchedAt(tdata[s], pp, Excused, s), UNCHANGED peer,
           ChallengeAnswered(r, t, answer, pp)
    PROVE  Watching(tdata', pp, Excused')
<1>1. is_destroying' = is_destroying
  BY DEF ChallengeAnswered
<1>2. PICK n \in Slot, ok \in BOOLEAN :
        /\ NextSlot(n)
        /\ Release([tdata EXCEPT ![n] = SentRequest(t.token, t.retransmit, ok),
                                 ![r] = destroy_tdata(t, FALSE)], is_destroying, pp)
  BY DEF ChallengeAnswered
<1>3. n # r
  <2>1. tdata[n].state = "none"
    BY <1>2, SlotAssumption DEF NextSlot
  <2> QED
    BY <2>1 DEF OnceInv, Once
<1>4. t.token \in Slot /\ t.retransmit \in BOOLEAN
  BY DEF Tdata
<1>5. PICK u \in Tdata : /\ u = SentRequest(t.token, t.retransmit, ok)
                         /\ ~u.retransmit => u.count >= MaxTransmit
                         /\ Awaits(u) => "retransmit" \in u.heap
  BY <1>4, SentRequestType, SentRequestWatched
<1>6. PICK d \in Tdata : d = destroy_tdata(t, FALSE) /\ Kept(t, d)
  BY DestroyTdataType, DestroyTdataKept, FALSE \in BOOLEAN
<1>7. PICK e \in [Slot -> Tdata] : e = [tdata EXCEPT ![n] = u]
  BY DEF TypeOK
<1>8. Release([e EXCEPT ![r] = d], is_destroying, pp)
  BY <1>2, <1>5, <1>6, <1>7
<1>9. PICK x \in BOOLEAN : x = Excused
  BY DEF Excused, TypeOK
<1>10. WatchedAt(d, pp, x, r)
  BY <1>6, QuietWatched DEF Kept
<1>11. \A s \in Slot : s # r => WatchedAt(e[s], pp, x, s)
  <2>1. WatchedAt(u, pp, x, n)
    BY <1>5 DEF WatchedAt, LastTimer
  <2> QED
    BY <1>7, <1>9, <2>1 DEF TypeOK
<1>12. Watching(tdata', pp, x)
  BY <1>8, <1>10, <1>11, StepWatching
<1> QED
  BY <1>1, <1>9, <1>12 DEF Excused

\* A transaction that is complete awaits nothing, however it completed.
LEMMA CompleteTsxWatching ==
    ASSUME TypeOK, OnceInv, NEW r \in Slot, NEW t \in Tdata, NEW answer, NEW pp,
           Quieter(tdata[r], t), LastTimer(t), UNCHANGED peer,
           \A s \in Slot : s # r => WatchedAt(tdata[s], pp, Excused, s),
           CompleteTsx(r, t, answer, pp)
    PROVE  Watching(tdata', pp, Excused')
<1>1. PICK u \in Tdata : /\ u = [t EXCEPT !.complete = TRUE] /\ u.complete
                          /\ u.token = tdata[r].token /\ Counted(t, u)
  <2>1. PICK u : u = [t EXCEPT !.complete = TRUE]
    OBVIOUS
  <2>2. u \in Tdata
    BY <2>1 DEF Tdata
  <2>3. u.complete
    BY <2>1 DEF Tdata
  <2>4. u.token = t.token /\ u.tsx = t.tsx /\ u.retransmit = t.retransmit /\ u.count = t.count
    BY <2>1 DEF Tdata
  <2> QED
    BY <2>1, <2>2, <2>3, <2>4 DEF Quieter, Counted
<1>2. ~Awaits(u) /\ LastTimer(u)
  BY <1>1 DEF Awaits, Counted, LastTimer
<1>3. PICK x \in BOOLEAN : x = Excused
  BY DEF Excused, TypeOK
<1>4. ASSUME NEW w \in Tdata, Kept(u, w), UNCHANGED is_destroying,
             Release([tdata EXCEPT ![r] = w], is_destroying, pp)
      PROVE  Watching(tdata', pp, Excused')
  <2>1. WatchedAt(w, pp, x, r)
    BY <1>2, <1>4, QuietWatched DEF Kept
  <2>2. Watching(tdata', pp, x)
    BY <1>3, <1>4, <2>1, StepWatching DEF TypeOK
  <2> QED
    BY <1>3, <1>4, <2>2 DEF Excused
<1>5. CASE ~(~t.complete /\ t.on_complete)
  <2>1. Release([tdata EXCEPT ![r] = u], is_destroying, pp) /\ UNCHANGED is_destroying
    BY <1>1, <1>5 DEF CompleteTsx
  <2> QED
    BY <1>4, <2>1, KeptSelf
<1>6. CASE ~t.complete /\ t.on_complete
  <2>1. Active(tdata, r)
    BY <1>6 DEF Active, Quieter
  <2>2. stun_tsx_on_complete(r, u, answer, pp)
    BY <1>1, <1>6 DEF CompleteTsx
  <2>3. CASE Release([tdata EXCEPT ![r] = destroy_tdata(u, FALSE)], is_destroying, pp)
             /\ UNCHANGED is_destroying
    BY <1>4, <2>3, DestroyTdataType, DestroyTdataKept, FALSE \in BOOLEAN
  <2>4. CASE ~is_destroying /\ Notify(u.token, r, u, answer = "timeout", pp)
    <3>1. PICK force \in BOOLEAN : force = (answer = "timeout")
      OBVIOUS
    <3>2. Notify(u.token, r, u, force, pp)
      BY <2>4, <3>1
    <3>3. \A s \in Slot : s # r => WatchedAt(tdata[s], pp, peer # "final", s)
      BY <2>4 DEF Excused
    <3>4. WatchedAt(u, pp, peer # "final", r)
      BY <1>2 DEF WatchedAt
    <3> QED
      BY <2>4, <3>2, <3>3, <3>4, NotifyWatching
  <2>5. CASE ChallengeAnswered(r, u, answer, pp)
    BY <1>1, <1>2, <2>1, <2>5, ChallengeAnsweredWatching
  <2> QED
    BY <2>2, <2>3, <2>4, <2>5 DEF stun_tsx_on_complete
<1> QED
  BY <1>5, <1>6

-----------------------------------------------------------------------------
(* The steps: each leaves the timers that are needed                       *)

LEMMA OneSlotWatching ==
    ASSUME TypeOK, WInv, NEW r \in Slot, NEW u \in Tdata, tdata' = [tdata EXCEPT ![r] = u],
           WatchedAt(u, popped, Excused, r), UNCHANGED <<popped, is_destroying, peer>>
    PROVE  WInv'
<1>1. tdata'[r] = u /\ \A s \in Slot : s # r => tdata'[s] = tdata[s]
  BY DEF TypeOK
<1>2. Excused' = Excused
  BY DEF Excused
<1> QED
  BY <1>1, <1>2 DEF WInv, Watching

LEMMA SendRequestWatching ==
    ASSUME TypeOK, WInv, NEW r \in Slot, SendRequest(r)
    PROVE  WInv'
<1>1. PICK retransmit \in BOOLEAN, ok \in BOOLEAN :
        tdata' = [tdata EXCEPT ![r] = SentRequest(r, retransmit, ok)]
  BY DEF SendRequest
<1>2. PICK u \in Tdata : /\ u = SentRequest(r, retransmit, ok)
                         /\ ~u.retransmit => u.count >= MaxTransmit
                         /\ Awaits(u) => "retransmit" \in u.heap
  BY SentRequestType, SentRequestWatched
<1>3. WatchedAt(u, popped, Excused, r)
  BY <1>2 DEF WatchedAt, LastTimer
<1>4. UNCHANGED <<popped, is_destroying, peer>>
  BY DEF SendRequest
<1> QED
  BY <1>1, <1>2, <1>3, <1>4, OneSlotWatching

LEMMA CancelRequestWatching ==
    ASSUME TypeOK, WInv, NEW r \in Slot, CancelRequest(r)
    PROVE  WInv'
<1>1. ~is_destroying /\ UNCHANGED <<popped, peer>>
  BY DEF CancelRequest
<1>2. CASE tdata' = [tdata EXCEPT ![r] = destroy_tdata(@, FALSE)] /\ UNCHANGED is_destroying
  <2>1. PICK u \in Tdata : u = destroy_tdata(tdata[r], FALSE) /\ Kept(tdata[r], u)
    BY DestroyTdataType, DestroyTdataKept, FALSE \in BOOLEAN DEF TypeOK
  <2>2. WatchedAt(u, popped, Excused, r)
    BY <2>1 DEF Kept, Counted, WInv, Watching, WatchedAt, LastTimer
  <2> QED
    BY <1>1, <1>2, <2>1, <2>2, OneSlotWatching
<1>3. CASE Notify(r, r, tdata[r], FALSE, popped)
  <2>1. \A s \in Slot : WatchedAt(tdata[s], popped, peer # "final", s)
    BY <1>1 DEF WInv, Watching, Excused
  <2>2. tdata[r] \in Tdata /\ FALSE \in BOOLEAN
    BY DEF TypeOK
  <2>3. Watching(tdata', popped, Excused')
    BY <1>1, <1>3, <2>1, <2>2, NotifyWatching
  <2> QED
    BY <1>1, <2>3 DEF WInv
<1> QED
  BY <1>2, <1>3 DEF CancelRequest

LEMMA DestroySessionWatching ==
    ASSUME TypeOK, WInv, DestroySession
    PROVE  WInv'
<1>1. StopAll(tdata) \in [Slot -> Tdata] /\ Watching(StopAll(tdata), popped, TRUE)
  BY StopAllQuiet, StopAllWatching DEF TypeOK, WInv
<1>2. Watching(tdata', popped, TRUE)
  BY <1>1, ReleaseWatching, TRUE \in BOOLEAN DEF DestroySession
<1>3. Excused' = TRUE /\ UNCHANGED popped
  BY DEF DestroySession, Excused
<1> QED
  BY <1>2, <1>3 DEF WInv

\* A response stops the timer: if it is final, it also completes the
\* transaction, and a provisional one comes from no peer of the invariant.
LEMMA RxResponseWatching ==
    ASSUME TypeOK, OnceInv, WInv, NEW r \in Slot, NEW answer \in Answers, RxResponse(r, answer)
    PROVE  WInv'
<1>1. PICK t \in Tdata : /\ t = Cancel(tdata[r], "retransmit") /\ Quieter(tdata[r], t)
                         /\ LastTimer(t)
  <2>1. Cancel(tdata[r], "retransmit") \in Tdata /\ Quieter(tdata[r], Cancel(tdata[r], "retransmit"))
    BY CancelType DEF Timers, TypeOK
  <2>2. Counted(tdata[r], Cancel(tdata[r], "retransmit"))
    BY CancelCounted DEF Timers, TypeOK
  <2> QED
    BY <2>1, <2>2 DEF Counted, LastTimer, WInv, Watching, WatchedAt
<1>2. UNCHANGED <<popped, peer>>
  BY DEF RxResponse
<1>3. CASE answer = "provisional"
  <2>1. Release([tdata EXCEPT ![r] = t], is_destroying, popped) /\ UNCHANGED is_destroying
    BY <1>1, <1>3 DEF RxResponse
  <2>2. Excused
    BY <1>3, NonceAssumption DEF Answers, Final, Excused
  <2>3. WatchedAt(t, popped, TRUE, r)
    BY <1>1 DEF WatchedAt
  <2>4. \A s \in Slot : s # r => WatchedAt(tdata[s], popped, TRUE, s)
    BY DEF WInv, Watching, WatchedAt
  <2>5. Watching(tdata', popped, TRUE)
    BY <2>1, <2>3, <2>4, StepWatching, TRUE \in BOOLEAN DEF TypeOK
  <2> QED
    BY <1>2, <2>1, <2>2, <2>5 DEF WInv, Excused, Watching, WatchedAt
<1>4. CASE answer # "provisional"
  <2>1. CompleteTsx(r, t, answer, popped)
    BY <1>1, <1>4 DEF RxResponse
  <2>2. \A s \in Slot : s # r => WatchedAt(tdata[s], popped, Excused, s)
    BY DEF WInv, Watching
  <2>3. Watching(tdata', popped, Excused')
    BY <1>1, <1>2, <2>1, <2>2, CompleteTsxWatching
  <2> QED
    BY <1>2, <2>3 DEF WInv
<1> QED
  BY <1>3, <1>4

LEMMA RxRequestWatching ==
    ASSUME TypeOK, WInv, NEW r \in Slot, RxRequest(r)
    PROVE  WInv'
<1>1. PICK cache \in BOOLEAN, ok \in BOOLEAN : tdata' = [tdata EXCEPT ![r] = SentResponse(r, cache, ok)]
  BY DEF RxRequest
<1>2. PICK u \in Tdata : u = SentResponse(r, cache, ok) /\ ~u.on_complete /\ ~u.tsx
  BY SentResponseType
<1>3. WatchedAt(u, popped, Excused, r)
  BY <1>2 DEF WatchedAt, LastTimer, Awaits
<1>4. UNCHANGED <<popped, is_destroying, peer>>
  BY DEF RxRequest
<1> QED
  BY <1>1, <1>2, <1>3, <1>4, OneSlotWatching

\* The timer that leaves the heap is with the poller.
LEMMA PopTimerWatching ==
    ASSUME TypeOK, WInv, NEW p \in Pollers, NEW r \in Slot, NEW k \in Timers, PopTimer(p, r, k)
    PROVE  WInv'
<1>1. PICK u : u = [tdata[r] EXCEPT !.heap = @ \ {k}]
  OBVIOUS
<1>2. /\ u.tsx = tdata[r].tsx /\ u.retransmit = tdata[r].retransmit /\ u.count = tdata[r].count
      /\ u.list = tdata[r].list /\ u.on_complete = tdata[r].on_complete
      /\ u.complete = tdata[r].complete /\ u.heap = tdata[r].heap \ {k}
  BY <1>1 DEF TypeOK, Tdata
<1>3. tdata'[r] = u /\ \A s \in Slot : s # r => tdata'[s] = tdata[s]
  BY <1>1 DEF PopTimer, TypeOK
<1>4. /\ k = "retransmit" => Popped(popped', r)
      /\ \A s \in Slot : Popped(popped, s) => Popped(popped', s)
  <2>1. \A s \in Slot : <<s, "retransmit">> # None
    BY NoneAssumption
  <2> QED
    BY <2>1 DEF PopTimer, TypeOK, Popped
<1>5. Excused' = Excused
  BY DEF PopTimer, Excused
<1>6. LastTimer(u) /\ (Awaits(u) => Awaits(tdata[r]))
  BY <1>2 DEF LastTimer, Awaits, WInv, Watching, WatchedAt
<1>7. WatchedAt(u, popped', Excused, r)
  BY <1>2, <1>4, <1>6 DEF WInv, Watching, WatchedAt
<1>8. \A s \in Slot : s # r => WatchedAt(tdata[s], popped', Excused, s)
  BY <1>4 DEF WInv, Watching, WatchedAt
<1> QED
  BY <1>3, <1>5, <1>7, <1>8 DEF WInv, Watching

\* A callback takes from the pollers the one timer that it serves.
LEMMA CallbackWatching ==
    ASSUME TypeOK, WInv, NEW p \in Pollers, NEW r \in Slot, NEW k \in Timers, Callback(p, r, k)
    PROVE  /\ \A s \in Slot : s # r => WatchedAt(tdata[s], popped', Excused, s)
           /\ k # "retransmit" => WatchedAt(tdata[r], popped', Excused, r)
           /\ UNCHANGED peer
<1>1. \A s \in Slot : s # r \/ k # "retransmit" => (Popped(popped, s) => Popped(popped', s))
  BY DEF Callback, TypeOK, Popped
<1> QED
  BY <1>1 DEF Callback, WInv, Watching, WatchedAt

LEMMA RetransmitTimerWatching ==
    ASSUME TypeOK, OnceInv, WInv, NEW p \in Pollers, NEW r \in Slot, RetransmitTimer(p, r)
    PROVE  WInv'
<1>1. (\A s \in Slot : s # r => WatchedAt(tdata[s], popped', Excused, s)) /\ UNCHANGED peer
  BY CallbackWatching DEF RetransmitTimer, Timers
<1>2. PICK t \in Tdata : t = [tdata[r] EXCEPT !.id = @ \ {"retransmit"}] /\ Quieter(tdata[r], t)
  <2>1. tdata[r].id \ {"retransmit"} \in SUBSET Timers
    BY DEF Tdata, TypeOK
  <2> QED
    BY <2>1, FieldsType DEF TypeOK
<1>3. LastTimer(t)
  <2>1. t.tsx = tdata[r].tsx /\ t.retransmit = tdata[r].retransmit /\ t.count = tdata[r].count
    BY <1>2 DEF Tdata, TypeOK
  <2> QED
    BY <2>1 DEF LastTimer, WInv, Watching, WatchedAt
<1>4. ASSUME NEW u \in Tdata, Quieter(tdata[r], u), LastTimer(u), NEW answer,
             CompleteTsx(r, u, answer, popped')
      PROVE  WInv'
  BY <1>1, <1>4, CompleteTsxWatching DEF WInv
<1>5. CASE CompleteTsx(r, t, "timeout", popped')
  BY <1>2, <1>3, <1>4, <1>5
<1>6. CASE t.count < MaxTransmit
  <2>1. t.count <= MaxTransmit
    BY <1>2, <1>6, MaxTransmitAssumption DEF Tdata
  <2>2. \A ok \in BOOLEAN :
          /\ tsx_transmit_msg(t, ok) \in Tdata
          /\ Quieter(tdata[r], tsx_transmit_msg(t, ok)) /\ LastTimer(tsx_transmit_msg(t, ok))
    <3> SUFFICES ASSUME NEW ok \in BOOLEAN
                 PROVE  LET u == tsx_transmit_msg(t, ok)
                        IN  u \in Tdata /\ Quieter(tdata[r], u) /\ LastTimer(u)
      OBVIOUS
    <3>1. PICK u \in Tdata : u = tsx_transmit_msg(t, ok) /\ Quieter(t, u) /\ Counted(t, u)
      BY <2>1, TransmitType, TransmitWatched
    <3>2. Quieter(tdata[r], u)
      BY <1>2, <3>1 DEF Quieter
    <3>3. LastTimer(u)
      BY <1>3, <3>1 DEF Counted, LastTimer
    <3> QED
      BY <3>1, <3>2, <3>3
  <2>3. CASE tdata' = [tdata EXCEPT ![r] = tsx_transmit_msg(t, TRUE)] /\ UNCHANGED is_destroying
    <3>1. PICK u \in Tdata : /\ u = tsx_transmit_msg(t, TRUE) /\ Quieter(tdata[r], u) /\ LastTimer(u)
                             /\ t.retransmit => "retransmit" \in u.heap
      BY <2>1, <2>2, TransmitWatched, TRUE \in BOOLEAN
    <3>2. Awaits(u) => t.tsx
      BY <1>2, <3>1 DEF Awaits, Quieter, OnceInv, Once, Active
    <3>3. ~(t.count >= MaxTransmit)
      BY <1>2, <1>6, MaxTransmitAssumption DEF Tdata
    <3>4. WatchedAt(u, popped', Excused, r)
      BY <1>3, <3>1, <3>2, <3>3 DEF WatchedAt, LastTimer
    <3>5. tdata'[r] = u /\ \A s \in Slot : s # r => tdata'[s] = tdata[s]
      BY <2>3, <3>1 DEF TypeOK
    <3>6. Excused' = Excused
      BY <1>1, <2>3 DEF Excused
    <3> QED
      BY <1>1, <3>4, <3>5, <3>6 DEF WInv, Watching
  <2>4. CASE CompleteTsx(r, tsx_transmit_msg(t, FALSE), "nothing", popped')
    BY <1>4, <2>2, <2>4, FALSE \in BOOLEAN
  <2> QED
    BY <1>2, <1>6, <2>3, <2>4, <1>5 DEF RetransmitTimer
<1> QED
  BY <1>2, <1>5, <1>6 DEF RetransmitTimer

LEMMA DestroyTimerWatching ==
    ASSUME TypeOK, WInv, NEW p \in Pollers, NEW r \in Slot, DestroyTimer(p, r)
    PROVE  WInv'
<1>1. (\A s \in Slot : s # r => WatchedAt(tdata[s], popped', Excused, s)) /\ UNCHANGED peer
  BY CallbackWatching DEF DestroyTimer, Timers
<1>2. PICK v \in Tdata : v = pj_stun_client_tsx_stop(tdata[r]) /\ Counted(tdata[r], v)
  BY StopType, StopCounted DEF TypeOK
<1>3. PICK u : u = [v EXCEPT !.list = "none", !.state = "released"]
  OBVIOUS
<1>4. u \in Tdata /\ u.list = "none"
  BY <1>3 DEF Tdata
<1>5. u.tsx = v.tsx /\ u.retransmit = v.retransmit /\ u.count = v.count
  BY <1>3 DEF Tdata
<1>6. PICK x \in BOOLEAN : x = Excused
  BY DEF Excused, TypeOK
<1>7. WatchedAt(u, popped', x, r)
  BY <1>2, <1>4, <1>5 DEF Counted, Awaits, LastTimer, WInv, Watching, WatchedAt
<1>8. Release([tdata EXCEPT ![r] = u], is_destroying, popped') /\ UNCHANGED is_destroying
  BY <1>2, <1>3 DEF DestroyTimer
<1>9. Watching(tdata', popped', x)
  BY <1>1, <1>4, <1>6, <1>7, <1>8, StepWatching DEF TypeOK
<1> QED
  BY <1>1, <1>6, <1>8, <1>9 DEF WInv, Excused

LEMMA CacheTimerWatching ==
    ASSUME TypeOK, WInv, NEW p \in Pollers, NEW r \in Slot, CacheTimer(p, r)
    PROVE  WInv'
<1>1. (\A s \in Slot : s # r => WatchedAt(tdata[s], popped', Excused, s)) /\ UNCHANGED peer
  BY CallbackWatching DEF CacheTimer, Timers
<1>2. PICK v : v = [tdata[r] EXCEPT !.id = @ \ {"cache"}, !.list = "none"]
  OBVIOUS
<1>3. /\ v \in Tdata /\ ~Awaits(v)
      /\ v.tsx = tdata[r].tsx /\ v.retransmit = tdata[r].retransmit /\ v.count = tdata[r].count
  <2>1. tdata[r] \in Tdata /\ tdata[r].id \ {"cache"} \in SUBSET Timers
    BY DEF TypeOK, Tdata
  <2>2. v \in Tdata
    BY <1>2, <2>1, FieldsType
  <2>3. v.list = "none" /\ v.tsx = tdata[r].tsx /\ v.retransmit = tdata[r].retransmit
    BY <1>2, <2>1 DEF Tdata
  <2>4. v.count = tdata[r].count
    BY <1>2, <2>1 DEF Tdata
  <2> QED
    BY <2>2, <2>3, <2>4 DEF Awaits
<1>4. PICK u \in Tdata : u = destroy_tdata(v, FALSE) /\ Kept(v, u)
  BY <1>3, DestroyTdataType, DestroyTdataKept, FALSE \in BOOLEAN
<1>5. LastTimer(v)
  BY <1>3 DEF LastTimer, WInv, Watching, WatchedAt
<1>6. PICK x \in BOOLEAN : x = Excused
  BY DEF Excused, TypeOK
<1>7. WatchedAt(u, popped', x, r)
  BY <1>3, <1>4, <1>5, QuietWatched DEF Kept
<1>8. Release([tdata EXCEPT ![r] = u], is_destroying, popped') /\ UNCHANGED is_destroying
  BY <1>2, <1>4 DEF CacheTimer
<1>9. Watching(tdata', popped', x)
  BY <1>1, <1>6, <1>7, <1>8, StepWatching DEF TypeOK
<1> QED
  BY <1>1, <1>6, <1>8, <1>9 DEF WInv, Excused

-----------------------------------------------------------------------------
LEMMA InitWInv == Init => WInv
<1> SUFFICES ASSUME Init, NEW r \in Slot
             PROVE  WatchedAt(tdata[r], popped, Excused, r)
  BY DEF WInv, Watching
<1>1. tdata[r] = NewTdata(r)
  BY DEF Init
<1>2. PICK v : v = Request(r, FALSE)
  OBVIOUS
<1>3. v \in Tdata
  BY <1>2, RequestType, FALSE \in BOOLEAN
<1>4. NewTdata(r) = [v EXCEPT !.state = "none", !.tsx = FALSE, !.on_complete = FALSE]
  BY <1>2 DEF NewTdata
<1>5. ~NewTdata(r).tsx
  BY <1>3, <1>4 DEF Tdata
<1>6. ~NewTdata(r).on_complete
  BY <1>3, <1>4 DEF Tdata
<1> QED
  BY <1>1, <1>5, <1>6 DEF WatchedAt, LastTimer, Awaits

LEMMA NextWInv == IInv /\ WInv /\ [Next]_vars => WInv'
<1> SUFFICES ASSUME TypeOK, OnceInv, WInv, [Next]_vars PROVE WInv'
  BY DEF IInv
<1>1. CASE UNCHANGED vars
  <2>1. tdata' = tdata /\ popped' = popped /\ Excused' = Excused
    BY <1>1 DEF vars, Excused
  <2> QED
    BY <2>1 DEF WInv
<1>2. ASSUME NEW r \in Slot, SendRequest(r) \/ CancelRequest(r) \/ RxRequest(r)
      PROVE  WInv'
  BY <1>2, SendRequestWatching, CancelRequestWatching, RxRequestWatching
<1>3. ASSUME NEW r \in Slot, NEW answer \in Answers, RxResponse(r, answer)
      PROVE  WInv'
  BY <1>3, RxResponseWatching
<1>4. CASE DestroySession
  BY <1>4, DestroySessionWatching
<1>5. ASSUME NEW p \in Pollers, Poll(p)
      PROVE  WInv'
  BY <1>5, PopTimerWatching, RetransmitTimerWatching, DestroyTimerWatching, CacheTimerWatching DEF Poll
<1> QED
  BY <1>1, <1>2, <1>3, <1>4, <1>5 DEF Next

\* A request that awaits its response is never left without a timer, in the
\* heap or with a poller, unless its session is destroyed or the peer sends
\* provisional or malformed responses: send, retransmission, response,
\* challenge and cancellation each leave one or complete the request.
THEOREM Always_watched == Spec => []Watched
<1>1. WInv => Watched
  BY DEF WInv, Watching, WatchedAt, Awaits, Excused, Popped, Watched
<1> QED
  BY <1>1, InitWInv, NextWInv, AlwaysIInv, PTL DEF Spec
=============================================================================
