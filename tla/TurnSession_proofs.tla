------------------------- MODULE TurnSession_proofs -------------------------
(***************************************************************************)
(* Proofs about TurnSession.tla, for any number of servers: a relay is     *)
(* kept alive and given back, no assertion fails, and every step is one of *)
(* Relay.tla.                                                              *)
(***************************************************************************)
EXTENDS TurnSession, TLAPS

Holding == {"ready", "deallocating"}

\* A session that its socket still has: it waits for no destruction, and what
\* is on its way belongs to its state.
Live(t) ==
    /\ t.attached /\ ~t.is_destroying /\ ~t.sock_timer /\ ~t.sock_destroying
    /\ t.timer # "destroy" /\ t.state \notin {"deallocated", "destroying"}
    /\ t.relay = "held" => t.state \in Holding
    /\ "allocate" \in t.reqs => t.state = "allocating"
    /\ "refresh" \in t.reqs => t.state \in Holding
    /\ t.timer = "keep_alive" => t.state \in Holding
    /\ t.connecting => t.state = "resolved"
    /\ t.state = "deallocating" => t.app = "left"
    /\ t.state = "ready" /\ ~t.refused
          => t.timer = "keep_alive" \/ "refresh" \in t.reqs

\* A session that its socket has let go of: it holds nothing, and a request
\* that is given up changes no more than its state.
Over(t) ==
    /\ ~t.attached /\ t.state \in {"resolved", "destroying"}
    /\ t.timer # "keep_alive" /\ t.app = "left" /\ t.relay # "held"

Good(t) == t \in Session /\ ~t.assert_failed
Sound(t) == Good(t) /\ (Live(t) \/ Over(t))

IInv == /\ Sound(s) /\ wk \in {"none", "keep_alive", "destroy"}
        /\ wk # "none" => s.timer # "none"

\* What no operator changes or undoes.
Frame(t, r) ==
    /\ r.is_destroying = t.is_destroying /\ r.sock_destroying = t.sock_destroying
    /\ t.timer # "none" => r.timer # "none"
\* The session ends, or goes on.
Ended(t, r) == Sound(r) /\ Frame(t, r) /\ r.app = "left"
Asking(t, r) ==
    Sound(r) /\ Frame(t, r) /\ r.app = t.app /\ r.state \in {"resolved", "allocating"}

-----------------------------------------------------------------------------
(* The operators                                                           *)

LEMMA DestroyingOver ==
    ASSUME NEW t, Good(t), t.relay # "held",
           t.attached => t.state # "destroying", ~t.attached => t.app = "left"
    PROVE  Ended(t, Destroying(t))
  <1> DEFINE u == set_state(t, "destroying")
  <1>1. /\ u \in Session /\ ~u.assert_failed /\ ~u.attached /\ u.app = "left"
        /\ u.state = "destroying" /\ u.relay # "held"
        /\ u.is_destroying = t.is_destroying /\ u.sock_destroying = t.sock_destroying
    <2>1. /\ t \in Session /\ ~t.assert_failed /\ "destroying" \in Late
          /\ "destroying" \in States
      BY DEF Good, Late, States
    <2>2. CASE t.attached
      <3>1. u = [t EXCEPT !.state = "destroying", !.app = "left",
                          !.attached = FALSE, !.sock_timer = TRUE]
        BY <2>1, <2>2 DEF set_state, Session
      <3> HIDE DEF u
      <3> QED BY <2>1, <3>1 DEF Session
    <2>3. CASE ~t.attached
      <3>1. u = [t EXCEPT !.state = "destroying"]
        BY <2>1, <2>3 DEF set_state, Session
      <3> HIDE DEF u
      <3> QED BY <2>1, <2>3, <3>1 DEF Session
    <2> QED BY <2>1, <2>2, <2>3 DEF Session
  <1> HIDE DEF u
  <1>2. Destroying(t) = [u EXCEPT !.timer = "destroy"]
    BY DEF Destroying, u
  <1> QED BY <1>1, <1>2 DEF Session, Sound, Good, Over, Ended, Frame

LEMMA DeallocatedLate == "deallocated" \in Late /\ "deallocated" # "destroying"
  BY DEF Late

LEMMA TerminateOver ==
    ASSUME NEW t, Good(t), ~t.attached => t.app = "left"
    PROVE  Ended(t, Terminate(t))
  <1> DEFINE v == Lost(t)
             u == set_state(v, "deallocated")
  <1>1. /\ Good(v) /\ v.relay # "held" /\ v.attached = t.attached /\ v.app = t.app
        /\ Frame(t, v)
    BY DEF Lost, Good, Session, Frame
  <1> HIDE DEF v
  <1>2. /\ Good(u) /\ u.relay # "held" /\ u.state = "deallocated"
        /\ ~u.attached => u.app = "left"
        /\ Frame(v, u)
    <2>1. u = [v EXCEPT !.state = "deallocated", !.app = IF v.attached THEN "left" ELSE @]
      BY DeallocatedLate DEF set_state
    <2> HIDE DEF u
    <2>2. "deallocated" \in States /\ v \in Session /\ ~v.assert_failed
      BY <1>1 DEF States, Good
    <2>3. u \in Session /\ u.assert_failed = v.assert_failed
      BY <2>1, <2>2 DEF Session
    <2>4. /\ u.relay = v.relay /\ u.state = "deallocated" /\ u.attached = v.attached
          /\ u.app = IF v.attached THEN "left" ELSE v.app
          /\ u.is_destroying = v.is_destroying /\ u.sock_destroying = v.sock_destroying
          /\ u.timer = v.timer
      BY <2>1, <2>2 DEF Session
    <2>5. ~u.attached => u.app = "left"
      BY <1>1, <2>4
    <2> QED BY <1>1, <2>2, <2>3, <2>4, <2>5 DEF Good, Frame
  <1>3. Terminate(t) = Destroying(u)
    BY DEF Terminate, u, v
  <1> HIDE DEF u
  <1>4. Ended(u, Destroying(u))
    BY <1>2, DestroyingOver
  <1> QED BY <1>1, <1>2, <1>3, <1>4 DEF Ended, Frame

\* A session of its socket on which nothing has been asked for yet.
Quiet(t) ==
    /\ Good(t) /\ t.attached /\ ~t.is_destroying /\ ~t.sock_timer
    /\ ~t.sock_destroying /\ ~t.connecting /\ "allocate" \notin t.reqs

LEMMA GiveBackEnds ==
    ASSUME NEW t, Quiet(t), t.timer # "destroy", NEW r \in GiveBack(t)
    PROVE  Ended(t, r)
  <1> DEFINE u == set_state(t, "deallocating")
             v == [u EXCEPT !.reqs = @ \cup {"dealloc"}, !.relay = "returned"]
             w == [u EXCEPT !.refused = TRUE]
  <1>1. /\ Quiet(u) /\ u.timer = t.timer /\ u.state = "deallocating" /\ u.app = "left"
        /\ Frame(t, u)
    BY DEF Quiet, Good, set_state, Session, States, Late, Frame
  <1>2. r = v \/ r = Terminate(w)
    BY DEF GiveBack
  <1> HIDE DEF u
  <1>3. CASE r = v
    BY <1>1, <1>3 DEF Quiet, Good, Session, Sound, Live, Holding, Ended, Frame
  <1>4. CASE r = Terminate(w)
    <2>1. Good(w) /\ w.attached /\ Frame(u, w)
      BY <1>1 DEF Quiet, Good, Session, Frame
    <2> HIDE DEF w
    <2>2. Ended(w, Terminate(w))
      BY <2>1, TerminateOver
    <2> QED BY <1>1, <1>4, <2>1, <2>2 DEF Ended, Frame
  <1> QED BY <1>2, <1>3, <1>4

\* It has no relay either.
Fresh(t) ==
    Quiet(t) /\ t.timer = "none" /\ t.relay # "held" /\ "refresh" \notin t.reqs

LEMMA AllocatesAsks ==
    ASSUME NEW t, Fresh(t), NEW r \in Allocates(t)
    PROVE  Ended(t, r) \/ Asking(t, r)
  <1> DEFINE u == [t EXCEPT !.state = "allocating", !.reqs = @ \cup {"allocate"}]
             v == [u EXCEPT !.refused = TRUE]
             w == [t EXCEPT !.refused = TRUE]
  <1>1. r = u \/ r = Terminate(v) \/ r = Terminate(w)
    BY DEF Allocates
  <1>2. Sound(u) /\ Frame(t, u) /\ u.app = t.app /\ u.state = "allocating" /\ u.attached
    BY DEF Fresh, Quiet, Good, Session, States, Sound, Live, Holding, Frame
  <1>3. Good(w) /\ w.attached /\ Frame(t, w)
    BY DEF Fresh, Quiet, Good, Session, Frame
  <1> HIDE DEF u, w
  <1>4. Good(v) /\ v.attached /\ Frame(t, v)
    BY <1>2 DEF Sound, Good, Session, Frame
  <1> HIDE DEF v
  <1>5. Ended(v, Terminate(v)) /\ Ended(w, Terminate(w))
    BY <1>3, <1>4, TerminateOver
  <1> QED BY <1>1, <1>2, <1>3, <1>4, <1>5 DEF Ended, Asking, Frame

LEMMA ConnectsAsks ==
    ASSUME NEW t, Fresh(t), NEW r \in Connects(t)
    PROVE  Ended(t, r) \/ Asking(t, r)
  <1> DEFINE u == [t EXCEPT !.state = "resolved"]
             v == [u EXCEPT !.connecting = TRUE]
  <1>1. r = Destroying(u) \/ r = v \/ r \in Allocates(u)
    BY DEF Connects, Fresh, Quiet
  <1>2. Fresh(u) /\ Frame(t, u) /\ u.app = t.app /\ u.state = "resolved"
    BY DEF Fresh, Quiet, Good, Session, States, Frame
  <1> HIDE DEF u
  <1>3. Sound(v) /\ Frame(u, v) /\ v.app = u.app /\ v.state = "resolved"
    BY <1>2 DEF Fresh, Quiet, Good, Session, Sound, Live, Holding, Frame
  <1> HIDE DEF v
  <1>4. Ended(u, Destroying(u))
    BY <1>2, DestroyingOver DEF Fresh, Quiet
  <1>5. CASE r = v
    BY <1>2, <1>3, <1>5 DEF Asking, Frame
  <1>6. CASE r = Destroying(u)
    BY <1>2, <1>4, <1>6 DEF Ended, Frame
  <1>7. CASE r \in Allocates(u)
    BY <1>2, <1>7, AllocatesAsks DEF Ended, Asking, Frame
  <1> QED BY <1>1, <1>5, <1>6, <1>7

-----------------------------------------------------------------------------
(* The actions                                                             *)

\* The states in the order in which a session that has its user goes through
\* them; the user never comes back, and what is destroyed stays so.
Onward(t, r) ==
    /\ t.app = "left" => r.app = "left"
    /\ t.is_destroying => r.is_destroying
    /\ t.sock_destroying => r.sock_destroying
    /\ r.is_destroying /\ r.sock_destroying => t.app = "left"
    /\ r.app = "user" =>
          \/ r.state = t.state
          \/ t.state \in {"null", "resolving"}
                /\ r.state \in {"resolving", "resolved", "allocating"}
          \/ t.state \in {"resolved", "allocating"}
                /\ r.state \in {"resolved", "allocating", "ready"}

Moves(t, r) ==
    Sound(t) => Sound(r) /\ Onward(t, r) /\ (t.timer # "none" => r.timer # "none")

\* Outcomes of the operators, from a session t that was first changed to u.
LEMMA EndedMoves ==
    ASSUME NEW t, NEW u, NEW r, Frame(t, u), Ended(u, r)
    PROVE  Moves(t, r)
  BY DEF Frame, Ended, Moves, Onward, Sound, Live, Over, Good, Session

LEMMA AskingMoves ==
    ASSUME NEW t, NEW u, NEW r, Frame(t, u), u.app = t.app, Asking(u, r),
           t.state \in {"null", "resolving", "resolved", "allocating"}
    PROVE  Moves(t, r)
  BY DEF Frame, Asking, Moves, Onward, Sound, Live, Over, Good, Session

\* A session on which nothing has been asked for is fresh.
LEMMA LiveFresh ==
    ASSUME NEW t, Sound(t), t.state \in {"null", "resolving"}
    PROVE  Fresh(t)
  BY DEF Sound, Live, Over, Good, Session, Fresh, Quiet, Holding

LEMMA FrameSame == ASSUME NEW t PROVE Frame(t, t)
  BY DEF Frame

LEMMA AllocMoves == ASSUME Sound(s), Alloc PROVE Moves(s, s')
  <1>1. s.state = "null" /\ Fresh(s)
    BY LiveFresh DEF Alloc
  <1>2. CASE s' = [s EXCEPT !.state = "resolving"]
    BY <1>1, <1>2
    DEF Fresh, Quiet, Good, Session, States, Sound, Live, Holding, Moves, Onward
  <1>3. CASE s' \in Connects(s)
    <2>1. Ended(s, s') \/ Asking(s, s')
      BY <1>1, <1>3, ConnectsAsks
    <2> QED BY <1>1, <2>1, FrameSame, EndedMoves, AskingMoves
  <1>4. CASE s' = Terminate(s)
    <2>1. Ended(s, s')
      BY <1>1, <1>4, TerminateOver DEF Fresh, Quiet
    <2> QED BY <2>1, FrameSame, EndedMoves
  <1> QED BY <1>2, <1>3, <1>4 DEF Alloc, Step

LEMMA NamesMoves == ASSUME Sound(s), Names PROVE Moves(s, s')
  <1>1. s.state = "resolving" /\ Fresh(s)
    BY LiveFresh DEF Names, Resolved, Unresolved
  <1>2. CASE s' = Destroying(s)
    <2>1. Ended(s, s')
      BY <1>1, <1>2, DestroyingOver DEF Fresh, Quiet
    <2> QED BY <2>1, FrameSame, EndedMoves
  <1>3. CASE s' \in Connects(s)
    <2>1. Ended(s, s') \/ Asking(s, s')
      BY <1>1, <1>3, ConnectsAsks
    <2> QED BY <1>1, <2>1, FrameSame, EndedMoves, AskingMoves
  <1> QED BY <1>2, <1>3 DEF Names, Resolved, Unresolved, Step

LEMMA ConnectedMoves == ASSUME Sound(s), Connected PROVE Moves(s, s')
  <1> DEFINE t == [s EXCEPT !.connecting = FALSE]
  <1>1. s' \in IF ~t.attached THEN {t} ELSE Allocates(t) \cup {Terminate(t)}
    BY DEF Connected, Step
  <1>2. /\ Good(t) /\ Frame(s, t) /\ t.app = s.app /\ t.attached = s.attached
        /\ s.connecting
    BY DEF Connected, Sound, Good, Session, Frame
  <1>3. CASE s.attached
    <2>1. s.state = "resolved" /\ Fresh(t)
      BY <1>2, <1>3 DEF Sound, Live, Over, Good, Session, Fresh, Quiet, Holding
    <2> HIDE DEF t
    <2>2. Ended(t, s') \/ Asking(t, s')
      BY <1>1, <1>2, <1>3, <2>1, AllocatesAsks, TerminateOver
    <2> QED BY <1>2, <2>1, <2>2, EndedMoves, AskingMoves
  <1>4. CASE ~s.attached
    <2>1. s' = t
      BY <1>1, <1>2, <1>4
    <2> QED BY <1>2, <1>4, <2>1 DEF Sound, Live, Over, Good, Session, Moves, Onward
  <1> QED BY <1>3, <1>4

LEMMA ClosedMoves == ASSUME Sound(s), Closed PROVE Moves(s, s')
  <1>1. Ended(s, s')
    BY TerminateOver DEF Closed, Step, Sound
  <1> QED BY <1>1, FrameSame, EndedMoves

LEMMA AllocateAnswerMoves ==
    ASSUME Sound(s), NEW ok \in BOOLEAN, AllocateAnswer(ok)
    PROVE  Moves(s, s')
  <1> DEFINE t == Answered("allocate")
  <1>1. /\ "allocate" \in s.reqs /\ (ok => s.attached)
        /\ s' \in IF t.pending_destroy THEN AllocateDestroys(t, ok)
                  ELSE IF ok THEN {Succeeds(t)} ELSE AllocateFails(t)
    BY DEF AllocateAnswer, Answers, Step
  <1>2. /\ Good(t) /\ Frame(s, t) /\ t.app = s.app /\ t.attached = s.attached
        /\ t.state = s.state /\ t.relay = s.relay /\ t.timer = s.timer
        /\ t.state \in States /\ t.srv \in 1 .. Servers
    BY DEF Answered, Sound, Good, Session, Frame
  <1>3. /\ t.relay # "held" /\ (~t.attached => t.app = "left")
        /\ t.attached => Fresh(t) /\ s.state = "allocating" /\ t.timer # "destroy"
    BY <1>1, <1>2 DEF Answered, Sound, Live, Over, Good, Session, Fresh, Quiet, Holding
  <1>4. ASSUME ~s.attached PROVE Over(s)
    BY <1>4 DEF Sound, Live
  <1>5. CASE t.pending_destroy /\ ok
    <2> DEFINE u == [t EXCEPT !.state = "ready", !.relay = "held"]
    <2>1. s' \in GiveBack(u)
      BY <1>1, <1>5 DEF AllocateDestroys
    <2> HIDE DEF t
    <2>2. Fresh(t) /\ Frame(s, t)
      BY <1>1, <1>2, <1>3, <1>5
    <2>3. Quiet(u) /\ u.timer # "destroy" /\ Frame(s, u)
      BY <2>2 DEF Fresh, Quiet, Good, Session, States, Frame
    <2> HIDE DEF u
    <2> QED BY <2>1, <2>3, GiveBackEnds, EndedMoves
  <1>6. CASE t.pending_destroy /\ ~ok
    <2> DEFINE u == [t EXCEPT !.state = "deallocated"]
    <2>1. s' = Destroying(u)
      BY <1>1, <1>6 DEF AllocateDestroys
    <2>2. /\ Good(u) /\ Frame(s, u) /\ u.relay # "held" /\ u.state = "deallocated"
          /\ ~u.attached => u.app = "left"
      BY <1>2, <1>3 DEF Good, Session, States, Frame
    <2> HIDE DEF u, t
    <2> QED BY <2>1, <2>2, DestroyingOver, EndedMoves
  <1>7. CASE ~t.pending_destroy /\ ok
    <2>1. s' = Succeeds(t)
      BY <1>1, <1>7
    <2> HIDE DEF t
    <2>2. t.state = "allocating" /\ Fresh(t) /\ s.state = "allocating"
      BY <1>1, <1>2, <1>3, <1>7
    <2>3. Succeeds(t) = [t EXCEPT !.assert_failed = @ \/ t.timer = "destroy", !.relay = "held",
                                  !.timer = "keep_alive", !.state = "ready"]
      BY <2>2, <1>2 DEF Succeeds, Late, Good, Session
    <2>4. /\ s' \in Session /\ ~s'.assert_failed /\ Live(s')
          /\ s'.state = "ready" /\ s'.app = t.app
          /\ s'.is_destroying = t.is_destroying /\ s'.sock_destroying = t.sock_destroying
          /\ s'.timer = "keep_alive"
      BY <2>1, <2>2, <2>3, ZenonT(30) DEF Fresh, Quiet, Good, Session, States, Live, Holding
    <2> QED BY <1>2, <2>2, <2>4 DEF Sound, Good, Moves, Onward, Frame, Live
  <1>8. CASE ~t.pending_destroy /\ ~ok
    <2> DEFINE u == [t EXCEPT !.srv = @ + 1]
    <2>1. s' \in AllocateFails(t)
      BY <1>1, <1>8
    <2>2. CASE s' = Terminate(t)
      <3> HIDE DEF t
      <3> QED BY <1>2, <1>3, <2>2, TerminateOver, EndedMoves
    <2>3. CASE t.srv # Servers /\ s' \in Connects(u)
      <3>1. t.srv + 1 \in 1 .. Servers
        BY <1>2, <2>3, ServersAssumption
      <3>2. CASE s.attached
        <4>1. Fresh(u) /\ Frame(s, u) /\ u.app = s.app /\ s.state = "allocating"
          BY <1>2, <1>3, <3>1, <3>2 DEF Fresh, Quiet, Good, Session, Frame
        <4> HIDE DEF u, t
        <4>2. Ended(u, s') \/ Asking(u, s')
          BY <2>3, <4>1, ConnectsAsks
        <4> QED BY <4>1, <4>2, EndedMoves, AskingMoves
      <3>3. CASE ~s.attached
        <4>1. s' = [u EXCEPT !.state = "resolved"]
          BY <1>2, <2>3, <3>3 DEF Connects, Good, Session
        <4>2. Over(s)
          BY <1>4, <3>3
        <4>3. /\ u \in Session /\ ~u.assert_failed /\ ~u.attached
              /\ u.timer = s.timer /\ u.app = s.app /\ u.relay = s.relay
              /\ u.is_destroying = s.is_destroying /\ u.sock_destroying = s.sock_destroying
          BY <1>2, <3>1, <3>3 DEF Good, Session, Frame, Answered
        <4> HIDE DEF u, t
        <4> QED BY <4>1, <4>2, <4>3
                DEF Session, States, Sound, Good, Over, Moves, Onward
      <3> QED BY <3>2, <3>3
    <2> QED BY <2>1, <2>2, <2>3 DEF AllocateFails
  <1> QED BY <1>5, <1>6, <1>7, <1>8

LEMMA RefreshAnswerMoves ==
    ASSUME Sound(s), NEW ok \in BOOLEAN, RefreshAnswer(ok)
    PROVE  Moves(s, s')
  <1> DEFINE t == Answered("refresh")
  <1>1. /\ "refresh" \in s.reqs /\ (ok => s.attached)
        /\ s' = IF ok THEN Succeeds(t) ELSE Terminate(t)
    BY DEF RefreshAnswer, Answers, Step
  <1>2. /\ Good(t) /\ Frame(s, t) /\ t.app = s.app /\ t.attached = s.attached
        /\ ~t.attached => t.app = "left"
    BY DEF Answered, Sound, Good, Session, Frame, Live, Over
  <1>3. CASE ~ok
    <2> HIDE DEF t
    <2> QED BY <1>1, <1>2, <1>3, TerminateOver, EndedMoves
  <1>4. CASE ok
    <2>1. Live(s) /\ s.state \in Holding /\ s \in Session /\ ~s.assert_failed
      BY <1>1, <1>4 DEF Sound, Good, Over, Live
    <2>2. /\ t \in Session /\ ~t.assert_failed /\ t.timer # "destroy" /\ t.state = s.state
          /\ t.attached /\ ~t.is_destroying /\ ~t.sock_timer /\ ~t.sock_destroying
          /\ "allocate" \notin t.reqs /\ ~t.connecting
          /\ t.state = "deallocating" => t.app = "left"
      BY <2>1 DEF Answered, Live, Session, Holding
    <2> HIDE DEF t
    <2>3. /\ Sound(s') /\ s'.state = s.state /\ s'.app = t.app
          /\ s'.is_destroying = t.is_destroying /\ s'.sock_destroying = t.sock_destroying
          /\ t.timer # "none" => s'.timer # "none"
      <3>1. CASE s.state = "ready"
        <4>1. s' = [t EXCEPT !.assert_failed = @ \/ t.timer = "destroy", !.relay = "held",
                             !.timer = "keep_alive", !.state = "ready"]
          BY <1>1, <1>4, <2>2, <3>1 DEF Succeeds, Late, Session
        <4> QED BY <2>2, <3>1, <4>1, ZenonT(30) DEF Session, States, Sound, Good, Live, Holding
      <3>2. CASE s.state = "deallocating"
        <4>1. s' = [t EXCEPT !.assert_failed = @ \/ t.timer = "destroy", !.relay = "held"]
          BY <1>1, <1>4, <2>2, <3>2 DEF Succeeds, Late, Session
        <4> QED BY <2>2, <3>2, <4>1, ZenonT(30) DEF Session, States, Sound, Good, Live, Holding
      <3> QED BY <2>1, <3>1, <3>2 DEF Holding
    <2> QED BY <1>2, <2>2, <2>3 DEF Frame, Moves, Onward
  <1> QED BY <1>3, <1>4

LEMMA DeallocAnswerMoves == ASSUME Sound(s), DeallocAnswer PROVE Moves(s, s')
  <1> DEFINE t == Answered("dealloc")
  <1>1. s' = Terminate(t)
    BY DEF DeallocAnswer, Step
  <1>2. Good(t) /\ Frame(s, t) /\ (~t.attached => t.app = "left")
    BY DEF Answered, Sound, Good, Session, Frame, Live, Over
  <1> HIDE DEF t
  <1> QED BY <1>1, <1>2, TerminateOver, EndedMoves

LEMMA PeerAnswerMoves ==
    ASSUME Sound(s), NEW mismatch \in BOOLEAN, PeerAnswer(mismatch)
    PROVE  Moves(s, s')
  <1> DEFINE t == Answered("peer")
  <1>1. s' = t \/ s' = Terminate(t)
    BY DEF PeerAnswer, Step
  <1>2. Good(t) /\ Frame(s, t) /\ (~t.attached => t.app = "left")
    BY DEF Answered, Sound, Good, Session, Frame, Live, Over
  <1>3. CASE s' = Terminate(t)
    <2> HIDE DEF t
    <2> QED BY <1>2, <1>3, TerminateOver, EndedMoves
  <1>4. CASE s' = t
    BY <1>4 DEF Answered, Sound, Good, Session, Live, Over, Moves, Onward
  <1> QED BY <1>1, <1>3, <1>4

\* The timer that fires is the only step that leaves no timer.
LEMMA TimerMoves ==
    ASSUME Sound(s), s.timer # "none", NEW due \in BOOLEAN, on_timer_event(due)
    PROVE  Sound(s') /\ Onward(s, s')
  <1>1. CASE s.timer = "destroy"
    <2>1. s' = [s EXCEPT !.is_destroying = TRUE, !.timer = "none", !.reqs = {}]
      BY <1>1 DEF on_timer_event, do_destroy
    <2> QED BY <1>1, <2>1 DEF Sound, Good, Session, Live, Over, Onward
  <1>2. CASE s.timer = "keep_alive"
    <2>1. Live(s) /\ s \in Session /\ ~s.assert_failed /\ s.state \in Holding
      BY <1>2 DEF Sound, Good, Live, Over
    <2>2. CASE s.state = "deallocating"
      <3>1. s' = [s EXCEPT !.timer = "none"]
        BY <1>2, <2>2 DEF on_timer_event, Taken, Late
      <3> QED BY <2>1, <2>2, <3>1 DEF Session, Sound, Good, Live, Holding, Onward
    <2>3. CASE s.state = "ready"
      <3> DEFINE a == [Taken EXCEPT !.reqs = @ \cup {"refresh"}]
                 b == [Taken EXCEPT !.refused = TRUE]
                 c == [Taken EXCEPT !.timer = "keep_alive"]
                 Fine(u) == /\ u \in Session /\ ~u.assert_failed /\ Live(u)
                            /\ u.state = "ready" /\ u.app = s.app
                            /\ u.is_destroying = s.is_destroying
                            /\ u.sock_destroying = s.sock_destroying
      <3>1. \E u \in {a, b, c} : s' = u \/ s' = [u EXCEPT !.reqs = @ \cup {"peer"}]
        BY <1>2, <2>3 DEF on_timer_event, WithPeers, Refreshes, Late
      <3>2. Fine(a)
        BY <2>1, <2>3 DEF Taken, Session, Live, Holding
      <3>3. Fine(b)
        BY <2>1, <2>3 DEF Taken, Session, Live, Holding
      <3>4. Fine(c)
        BY <2>1, <2>3 DEF Taken, Session, Live, Holding
      <3> HIDE DEF a, b, c
      <3>5. PICK u \in {a, b, c} : s' = u \/ s' = [u EXCEPT !.reqs = @ \cup {"peer"}]
        BY <3>1
      <3>6. Fine(u)
        BY <3>2, <3>3, <3>4
      <3>7. Fine(s')
        BY <3>5, <3>6 DEF Session, Live, Holding
      <3> QED BY <2>1, <2>3, <3>7 DEF Sound, Good, Onward, Live
    <2> QED BY <2>1, <2>2, <2>3 DEF Holding
  <1> QED BY <1>1, <1>2 DEF Sound, Good, Session

LEMMA SockTimerMoves == ASSUME Sound(s), SockTimer PROVE Moves(s, s')
  <1>1. s' = [s EXCEPT !.sock_timer = FALSE, !.sock_destroying = TRUE] /\ Over(s)
    BY DEF SockTimer, Step, Sound, Live
  <1> QED BY <1>1 DEF Sound, Good, Session, Over, Live, Moves, Onward

LEMMA AskForPeerMoves == ASSUME Sound(s), AskForPeer PROVE Moves(s, s')
  <1>1. s' = [s EXCEPT !.reqs = @ \cup {"peer"}]
    BY DEF AskForPeer, Step
  <1> QED BY <1>1 DEF Sound, Good, Session, Over, Live, Moves, Onward

LEMMA ShutdownMoves == ASSUME Sound(s), Shutdown PROVE Moves(s, s')
  <1> DEFINE t == [s EXCEPT !.app = "left"]
  <1>1. s' \in sess_shutdown(t) /\ s.app = "user" /\ s.state # "null"
    BY DEF Shutdown, Step
  <1>2. /\ Sound(s) /\ Live(s) /\ Sound(t) /\ Live(t) /\ Frame(s, t)
        /\ t.app = "left" /\ t.state = s.state
    BY <1>1 DEF Sound, Good, Session, Live, Over, Holding, Frame
  <1> HIDE DEF t
  <1>3. CASE t.state \in {"resolving", "allocating"}
    <2>1. s' = [t EXCEPT !.pending_destroy = TRUE]
      BY <1>1, <1>3 DEF sess_shutdown
    <2>2. Ended(t, s')
      BY <1>2, <1>3, <2>1 DEF Sound, Good, Session, Live, Holding, Ended, Frame
    <2> QED BY <1>2, <2>2, EndedMoves
  <1>4. CASE t.state = "ready"
    <2>1. s' \in GiveBack(t)
      BY <1>1, <1>4 DEF sess_shutdown
    <2>2. Quiet(t) /\ t.timer # "destroy"
      BY <1>2, <1>4 DEF Sound, Live, Quiet
    <2> QED BY <1>2, <2>1, <2>2, GiveBackEnds, EndedMoves
  <1>5. CASE t.state = "deallocating"
    <2>1. s' = t
      BY <1>1, <1>5 DEF sess_shutdown
    <2>2. Ended(t, s')
      BY <1>2, <2>1 DEF Ended, Frame
    <2> QED BY <1>2, <2>2, EndedMoves
  <1>6. CASE t.state = "resolved"
    <2>1. s' = Destroying(t)
      BY <1>1, <1>6 DEF sess_shutdown
    <2>2. Good(t) /\ t.relay # "held" /\ t.attached
      BY <1>2, <1>6 DEF Sound, Live, Holding
    <2> QED BY <1>2, <1>6, <2>1, <2>2, DestroyingOver, EndedMoves
  <1> QED BY <1>1, <1>2, <1>3, <1>4, <1>5, <1>6 DEF Live, Sound, Good, Session, States

-----------------------------------------------------------------------------
(* The theorems                                                            *)

LEMMA InitInv == Init => IInv
  <1> SUFFICES ASSUME Init PROVE IInv
    OBVIOUS
  <1>1. PICK tcp \in BOOLEAN : s = NewSession(tcp)
    BY DEF Init
  <1>2. 1 \in 1 .. Servers
    BY ServersAssumption
  <1> QED BY <1>1, <1>2
          DEF Init, IInv, NewSession, Sound, Good, Live, Holding, Session, States

LEMMA StepMoves ==
    ASSUME IInv, Next
    PROVE  IInv' /\ Onward(s, s')
  <1> USE DEF IInv
  <1>1. ASSUME Moves(s, s'), wk' = wk PROVE IInv' /\ Onward(s, s')
    BY <1>1 DEF Moves
  <1>2. CASE Alloc
    BY <1>1, <1>2, AllocMoves DEF Alloc, Step
  <1>3. CASE Names
    BY <1>1, <1>3, NamesMoves DEF Names, Resolved, Unresolved, Step
  <1>4. CASE Connected
    BY <1>1, <1>4, ConnectedMoves DEF Connected, Step
  <1>5. CASE Closed
    BY <1>1, <1>5, ClosedMoves DEF Closed, Step
  <1>6. ASSUME NEW ok \in BOOLEAN, AllocateAnswer(ok) PROVE IInv' /\ Onward(s, s')
    BY <1>1, <1>6, AllocateAnswerMoves DEF AllocateAnswer, Step
  <1>7. ASSUME NEW ok \in BOOLEAN, RefreshAnswer(ok) PROVE IInv' /\ Onward(s, s')
    BY <1>1, <1>7, RefreshAnswerMoves DEF RefreshAnswer, Step
  <1>8. CASE DeallocAnswer
    BY <1>1, <1>8, DeallocAnswerMoves DEF DeallocAnswer, Step
  <1>9. ASSUME NEW mismatch \in BOOLEAN, PeerAnswer(mismatch) PROVE IInv' /\ Onward(s, s')
    BY <1>1, <1>9, PeerAnswerMoves DEF PeerAnswer, Step
  <1>10. CASE TimerPop
    <2>1. s' = s /\ s.timer # "none" /\ wk' = s.timer
      BY <1>10 DEF TimerPop
    <2>2. Onward(s, s) /\ s.timer \in {"none", "keep_alive", "destroy"}
      BY DEF Onward, Sound, Good, Live, Over, Session
    <2> QED BY <2>1, <2>2
  <1>11. ASSUME NEW due \in BOOLEAN, on_timer_event(due) PROVE IInv' /\ Onward(s, s')
    <2>1. wk' = "none" /\ s.timer # "none"
      BY <1>11 DEF on_timer_event
    <2>2. Sound(s') /\ Onward(s, s')
      BY <1>11, <2>1, TimerMoves
    <2> QED BY <2>1, <2>2
  <1>12. CASE SockTimer
    BY <1>1, <1>12, SockTimerMoves DEF SockTimer, Step
  <1>13. CASE AskForPeer
    BY <1>1, <1>13, AskForPeerMoves DEF AskForPeer, Step
  <1>14. CASE Shutdown
    BY <1>1, <1>14, ShutdownMoves DEF Shutdown, Step
  <1> QED BY <1>2, <1>3, <1>4, <1>5, <1>6, <1>7, <1>8, <1>9, <1>10, <1>11, <1>12,
             <1>13, <1>14 DEF Next, AllocateEnds, Fires

LEMMA Inductive == Spec => []IInv
  <1>1. IInv /\ [Next]_vars => IInv'
    <2> SUFFICES ASSUME IInv, [Next]_vars PROVE IInv'
      OBVIOUS
    <2>1. CASE Next
      BY <2>1, StepMoves
    <2>2. CASE UNCHANGED vars
      BY <2>2 DEF vars, IInv
    <2> QED BY <2>1, <2>2
  <1> QED BY <1>1, InitInv, PTL DEF Spec

\* The session, its socket and the polling thread are well formed at any time
\* (turn_session.c, turn_sock.c).
THEOREM Types_invariant == Spec => []TypeOK
  <1>1. IInv => TypeOK
    BY DEF IInv, Sound, Good, TypeOK
  <1> QED BY <1>1, Inductive, PTL

\* A relay that is ready will be refreshed, by the timer of turn_session.c or
\* by the answer to a refresh, unless the network refused one.
THEOREM Kept_alive == Spec => []KeptAlive
  <1>1. IInv => KeptAlive
    BY DEF IInv, Sound, Live, Over, KeptAlive
  <1> QED BY <1>1, Inductive, PTL

\* No session is freed (do_destroy) that knows to hold a relay.
THEOREM Given_back == Spec => []GivenBack
  <1>1. IInv => GivenBack
    BY DEF IInv, Sound, Live, Over, GivenBack
  <1> QED BY <1>1, Inductive, PTL

\* The assertions of on_timer_event and on_allocate_success hold.
THEOREM No_assertion_fails == Spec => []NoAssertionFails
  <1>1. IInv => NoAssertionFails
    BY DEF IInv, Sound, Good, NoAssertionFails
  <1> QED BY <1>1, Inductive, PTL

\* Every step of the TURN client is a step of Relay.tla or none: what the
\* transport of ice_strans.c relies on, except that a relay ends.
THEOREM Implements_relay == Spec => R!Init /\ [][R!Next]_AbstractRelay
  <1>1. Init => R!Init
    BY DEF Init, R!Init, AbstractRelay, NewSession
  <1>2. IInv /\ [Next]_vars => [R!Next]_AbstractRelay
    <2> SUFFICES ASSUME IInv, [Next]_vars PROVE [R!Next]_AbstractRelay
      OBVIOUS
    <2>1. CASE UNCHANGED vars
      BY <2>1 DEF vars, AbstractRelay
    <2>2. CASE Next
      <3>1. IInv' /\ Onward(s, s')
        BY <2>2, StepMoves
      <3>2. /\ s.app \in {"user", "left"} /\ s'.app \in {"user", "left"}
            /\ s.is_destroying => s.app = "left"
            /\ s'.is_destroying => s'.app = "left"
            /\ s.app = "user" => s.state \in {"null", "resolving", "resolved", "allocating", "ready"}
            /\ s'.app = "user" => s'.state \in {"null", "resolving", "resolved", "allocating", "ready"}
        BY <3>1 DEF IInv, Sound, Good, Session, States, Live, Over
      <3> QED BY <3>1, <3>2 DEF Onward, AbstractRelay, R!Next, R!Resolve, R!Ready, R!Leave, R!Close
    <2> QED BY <2>1, <2>2
  <1> QED BY <1>1, <1>2, Inductive, PTL DEF Spec
=============================================================================
