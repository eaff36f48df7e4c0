----------------------------- MODULE NatClient -----------------------------
(***************************************************************************)
(* The application: the console of example/icecontroller.c and the         *)
(* functions of example/icewrapper.c on one slot of its list of transports *)
(* (MAX_ICE_TRANS is 1).  The console creates the transport, sleeps, makes *)
(* a session without asking whether the candidates have been gathered, and *)
(* then takes commands: connect to a peer, send to a peer.  The other      *)
(* functions of the wrapper are "invoked from the menu": Menu says which   *)
(* of them there is a command for.                                         *)
(*                                                                         *)
(* The server at which peers register is external: it may know nothing of  *)
(* a peer, something that does not suffice, or all of it.                  *)
(***************************************************************************)
EXTENDS IceStrans

CONSTANTS Peers, Menu
ASSUME ClientAssumption == "none" \notin Peers /\ Menu \subseteq {"create", "init", "stop", "destroy"}

VARIABLES console,  \* where the console is
          icest,    \* the slot points to a transport
          name,     \* the peer that the slot is named after
          rem,      \* the peer whose candidates have been read into the slot
          aborted   \* an assertion has ended the program
cvars == <<console, icest, name, rem, aborted>>
vars == <<tvars, cvars>>

Ready == call = "none" /\ ~misuse /\ ~aborted
Commands(c) == Ready /\ console \in {c} \cup (IF c \in Menu THEN {"ready"} ELSE {})
After == IF console = "ready" THEN "ready" ELSE "init"

\* The slot points to a transport that the callback has destroyed.
UseDestroyed ==
    /\ misuse' = TRUE
    /\ UNCHANGED <<st, call, wk, told, cvars>>
Destroyed == icest /\ st.destroy_req

\* natclient_create_instance
CreateInstance(cfg) ==
    /\ Commands("create") /\ ~icest
    /\ Create(cfg) \/ CreateWithoutRelay(cfg)
    /\ console' = After
    /\ UNCHANGED <<icest, name, rem, aborted>>
CreateFails ==
    /\ Ready /\ console = "create" /\ "create" \in Adversity
    /\ console' = "init"
    /\ UNCHANGED <<tvars, icest, name, rem, aborted>>
\* Nothing is returned when there is no candidate at all.
CreateReturns ==
    /\ CreateUpdate
    /\ icest' = (st.cand_list # <<>>)
    /\ UNCHANGED <<console, name, rem, aborted>>

\* natclient_init_session
InitSession ==
    /\ Commands("init") /\ icest /\ ~Destroyed /\ st.ice = "none"
    /\ InitIce
    /\ console' = "ready" /\ rem' = "none"
    /\ UNCHANGED <<icest, name, aborted>>
NoInstance ==
    /\ Ready /\ console = "init" /\ ~icest
    /\ console' = "ready"
    /\ UNCHANGED <<tvars, icest, name, rem, aborted>>
InitDestroyed == Commands("init") /\ Destroyed /\ UseDestroyed

\* natclient_stop_session and natclient_destroy_instance
StopSession ==
    /\ Commands("stop") /\ icest /\ ~Destroyed /\ st.ice # "none"
    /\ StopIce
    /\ rem' = "none"
    /\ UNCHANGED <<console, icest, name, aborted>>
DestroyInstance ==
    /\ Commands("destroy") /\ icest /\ ~Destroyed
    /\ Destroy
    /\ icest' = FALSE /\ rem' = "none"
    /\ UNCHANGED <<console, name, aborted>>

\* api_peer_connect: the slot is named, then natclient_connect_with_user
\* reads what the server knows of the peer, and then the checks are started.
RemoteInfo(p, found) == IF found = "all" THEN p ELSE "none"
Connect(p, found) ==
    /\ Ready /\ console = "ready" /\ name = "none"
    /\ name' = p
    /\ aborted' = (found = "nothing")
    /\ rem' = RemoteInfo(p, found)
    /\ console' = "nego"
    /\ UNCHANGED <<tvars, icest>>

\* natclient_start_nego
CannotStart == ~icest \/ rem = "none" \/ (~Destroyed /\ (st.ice = "none" \/ ~HasBase))
StartNego ==
    /\ Ready /\ console = "nego" /\ icest /\ ~Destroyed /\ rem # "none"
    /\ StartIce
    /\ console' = "ready"
    /\ UNCHANGED <<icest, name, rem, aborted>>
StartRefused ==
    /\ Ready /\ console = "nego" /\ CannotStart /\ ~Destroyed
    /\ console' = "ready"
    /\ UNCHANGED <<tvars, icest, name, rem, aborted>>
StartDestroyed == Ready /\ console = "nego" /\ Destroyed /\ UseDestroyed

\* natclient_send_data: without an address of the peer an assertion fails.
Send(p) ==
    /\ Ready /\ console = "ready" /\ name = p /\ icest /\ ~Destroyed
    /\ st.ice # "none" /\ rem = "none"
    /\ aborted' = TRUE
    /\ UNCHANGED <<tvars, console, icest, name, rem>>
SendDestroyed(p) ==
    Ready /\ console = "ready" /\ name = p /\ Destroyed /\ UseDestroyed

Goes == ~misuse /\ ~aborted
\* Steps of the library that the console has no part in.
Library(A) == Goes /\ A /\ UNCHANGED cvars
Return == CreateReturns \/ Library(CreateAnnounce \/ InitIceDone \/ StartChecks
                                   \/ StartDone \/ StopDone \/ Dangles)


CInit ==
    /\ Init
    /\ console = "create" /\ icest = FALSE /\ name = "none" /\ rem = "none"
    /\ aborted = FALSE
CNext ==
    \/ Library(WorkerNext) \/ Return
    \/ \E cfg \in Configs : CreateInstance(cfg)
    \/ CreateFails \/ InitSession \/ NoInstance \/ InitDestroyed
    \/ StopSession \/ DestroyInstance
    \/ StartNego \/ StartRefused \/ StartDestroyed
    \/ \E p \in Peers : Send(p) \/ SendDestroyed(p)
    \/ \E p \in Peers, found \in {"nothing", "little", "all"} : Connect(p, found)
CSpec == CInit /\ [][CNext]_vars

(***************************************************************************)
(* Fairness: a handler and a call run to their end; the one thread that    *)
(* polls comes to every timer and socket that is due, however often it     *)
(* finds others.  A request is answered, refused or given up               *)
(* (StunSession.tla); a relay is allocated or refused, and given back      *)
(* (Relay.tla);       a session completes and tells (Negotiation.tla).     *)
(* Nothing is promised of keep-alives or of a relay that is there, and     *)
(* nobody has to give a command.                                           *)
(***************************************************************************)
CFairness ==
    /\ WF_vars(Library(Announce \/ Fail \/ KaRuns)) /\ WF_vars(Return)
    /\ SF_vars(Library(StunNamed \/ StunEnds))
    /\ SF_vars(Library(TurnNamed \/ TurnEnds)) /\ SF_vars(Library(TurnClosed))
    /\ SF_vars(Library(IceEnds \/ IceTell))
CFairSpec == CSpec /\ CFairness

----------------------------------------------------------------------------
\* Whoever creates a transport hears how the gathering has ended, unless it
\* destroys the transport first, or a server was not resolved or reached.
GatheringTold ==
    (st.state # "null" /\ ~st.destroy_req)
        ~> (told.init # "none" \/ st.destroy_req \/ st.unnamed \/ ~Goes)

\* A transport that is destroyed is freed.
EverythingFreed == st.destroy_req ~> (Freed \/ ~Goes)

\* The console does not use a transport that has been destroyed.
NothingDangles == ~misuse

\* No assertion ends the program.
NeverAborts == ~aborted /\ ~st.assert_failed

\* What api_peer_connect tells the user of a slot that has a name.
NamedIsConnected ==
    console = "ready" /\ name # "none" => st.ice \in {"listed", "started", "done"}
=============================================================================
