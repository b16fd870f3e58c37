------------------------------ MODULE Process -------------------------------
(***************************************************************************)
(* The process from start to stop: run of src/main.rs, with the tunnel's   *)
(* first connect (EndpointConnect) and the SOCKS5 service (SocksConnect).  *)
(*                                                                         *)
(* The port is bound and the account loaded, the tunnel connects, then the *)
(* services start.  A signal or the end of a service begins the shutdown:  *)
(* the services get a grace period, are aborted after it, and the tunnel   *)
(* is cleared.  The supervisor is reduced to when it notices the           *)
(* cancellation: not while it handles an event (see Supervisor).  The      *)
(* metrics endpoint stops and fails like a supervisor that is never busy.  *)
(***************************************************************************)
EXTENDS EndpointConnect, SocksConnect

CONSTANTS
    DrainGrace       \* the five seconds the services have to stop

ASSUME ProcessAssumption == DrainGrace \in Nat

VARIABLES
    main,        \* the main task
    task,        \* per service: its task in the JoinSet
    drain,       \* time left of the grace period
    tunnel,      \* none, up, cleared
    exit,        \* how the process ended: none, ok, failure
    killed       \* history: the grace period expired

mainVars == <<main, task, drain, tunnel, exit, killed>>
vars == <<ep, cancel, socksVars, mainVars>>

Services == {"supervisor", "socks"}

TypeOK ==
    /\ EndpointTypeOK
    /\ SocksTypeOK
    /\ main \in {"start", "connect", "run", "drain", "stopped"}
    /\ task \in [Services -> {"off", "run", "busy", "ended", "joined"}]
    /\ drain \in 0 .. DrainGrace
    /\ tunnel \in {"none", "up", "cleared"}
    /\ exit \in {"none", "ok", "failure"}
    /\ killed \in BOOLEAN

Init ==
    /\ EndpointInit
    /\ SocksInit
    /\ main = "start"
    /\ task = [s \in Services |-> "off"]
    /\ drain = 0
    /\ tunnel = "none"
    /\ exit = "none"
    /\ killed = FALSE

-----------------------------------------------------------------------------
(* Start.                                                                  *)

\* Config, bind, load_or_register: an error ends the process.
StartFails ==
    /\ main = "start"
    /\ main' = "stopped" /\ exit' = "failure"
    /\ UNCHANGED <<ep, cancel, socksVars, task, drain, tunnel, killed>>

StartConnect ==
    /\ main = "start"
    /\ main' = "connect"
    /\ \E cfg \in Configs : Connect(cfg)
    /\ UNCHANGED <<cancel, socksVars, task, drain, tunnel, exit, killed>>

\* No endpoint answers, or IdentityPool::load fails and the tunnel is dropped.
ConnectFails ==
    /\ main = "connect" /\ ep.pc \in {"won", "lost"}
    /\ ep' = NotConnecting("over", 0)
    /\ main' = "stopped" /\ exit' = "failure"
    /\ UNCHANGED <<cancel, socksVars, task, drain, tunnel, killed>>

\* from_managed and the spawns: the token is not looked at on the way here.
StartServices ==
    /\ main = "connect" /\ ep.pc = "won"
    /\ ep' = NotConnecting("over", 0)
    /\ tunnel' = "up"
    /\ task' = [s \in Services |-> "run"]
    /\ server' = "listening"
    /\ main' = "run"
    /\ UNCHANGED <<cancel, connFree, dialFree, conn, dial, drain, exit, killed>>

\* signals::install: a signal cancels the token.
Signal ==
    /\ ~ cancel /\ main # "stopped"
    /\ cancel' = TRUE
    /\ UNCHANGED <<ep, socksVars, main, task, drain, tunnel, exit, killed>>

-----------------------------------------------------------------------------
(* The services.                                                           *)

\* The supervisor takes an event while the token is not cancelled, and handles
\* it to the end.
SupervisorWorks ==
    /\ \/ task["supervisor"] = "run" /\ ~ cancel /\ task' = [task EXCEPT !["supervisor"] = "busy"]
       \/ task["supervisor"] = "busy" /\ task' = [task EXCEPT !["supervisor"] = "run"]
    /\ UNCHANGED <<ep, cancel, socksVars, main, drain, tunnel, exit, killed>>

\* The service notices the token.
ServiceStops(s) ==
    /\ task[s] = "run" /\ cancel
    /\ s = "socks" => server = "returned"
    /\ task' = [task EXCEPT ![s] = "ended"]
    /\ UNCHANGED <<ep, cancel, socksVars, main, drain, tunnel, exit, killed>>

\* A probe or refresh task of the supervisor ends (the metrics endpoint: cannot
\* bind, or fails).
SupervisorFails ==
    /\ task["supervisor"] = "run" /\ ~ cancel
    /\ task' = [task EXCEPT !["supervisor"] = "ended"]
    /\ UNCHANGED <<ep, cancel, socksVars, main, drain, tunnel, exit, killed>>

-----------------------------------------------------------------------------
(* Stop.                                                                   *)

\* The select of run, which is not biased: the token, or a service that ended.
BeginShutdown(s) ==
    /\ main = "run"
    /\ \/ cancel /\ UNCHANGED <<exit, task>>
       \/ /\ task[s] = "ended"
          /\ task' = [task EXCEPT ![s] = "joined"]
          /\ exit' = "failure"
    /\ cancel' = TRUE
    /\ main' = "drain" /\ drain' = DrainGrace
    /\ UNCHANGED <<ep, socksVars, tunnel, killed>>

DrainJoin(s) ==
    /\ main = "drain" /\ task[s] = "ended"
    /\ task' = [task EXCEPT ![s] = "joined"]
    /\ UNCHANGED <<ep, cancel, socksVars, main, drain, tunnel, exit, killed>>

\* tunnel.clear(), and the result of run.
Finish ==
    /\ tunnel' = "cleared"
    /\ main' = "stopped"
    /\ exit' = IF exit = "none" THEN "ok" ELSE exit

\* Mutant of Drained: the tunnel is cleared as soon as the shutdown begins.
DrainedAtOnce ==
    /\ main = "drain"
    /\ Finish
    /\ UNCHANGED <<ep, cancel, socksVars, task, drain, killed>>

\* Every service has been joined.
Drained ==
    /\ main = "drain"
    /\ \A s \in Services : task[s] = "joined"
    /\ Finish
    /\ UNCHANGED <<ep, cancel, socksVars, task, drain, killed>>

\* Mutant of DrainExpires: nothing is aborted.
DrainExpiresWaits ==
    /\ main = "drain" /\ drain = 0
    /\ \A s \in Services : task[s] \in {"ended", "joined"}
    /\ Finish
    /\ UNCHANGED <<ep, cancel, socksVars, task, drain, killed>>

\* The grace period expires: services.shutdown() aborts and joins the rest.  An
\* aborted serve drops its JoinSet, which aborts the handlers without waiting.
DrainExpires ==
    /\ main = "drain" /\ drain = 0
    /\ \E s \in Services : task[s] # "joined"
    /\ task' = [s \in Services |-> "joined"]
    /\ server' = "returned"
    /\ killed' = TRUE
    /\ Finish
    /\ UNCHANGED <<ep, cancel, connFree, dialFree, conn, dial, drain>>

Tick ==
    /\ main # "stopped"
    /\ \/ main = "drain" /\ drain > 0
       \/ \E c \in Conns : dial[c].launch > 0 \/ dial[c].deadline > 0
    /\ drain' = Down(drain)
    /\ DialTick
    /\ UNCHANGED <<ep, cancel, server, connFree, dialFree, conn, main, task, tunnel, exit,
                   killed>>

Main ==
    \/ StartFails \/ StartConnect \/ ConnectFails \/ StartServices
    \/ \E s \in Services : BeginShutdown(s) \/ DrainJoin(s)
    \/ Drained \/ DrainExpires

Next ==
    \/ Main
    \/ Signal
    \/ SupervisorWorks \/ SupervisorFails
    \/ \E s \in Services : ServiceStops(s)
    \/ EndpointNext /\ UNCHANGED <<cancel, socksVars, mainVars>>
    \/ main # "stopped" /\ SocksNext /\ UNCHANGED <<ep, mainVars>>
    \/ Tick

Spec == Init /\ [][Next]_vars

\* Every task that can go on is polled again, time passes, handshakes and
\* lookups have timeouts of their own, and a probe of an endpoint has one.
\* Nothing makes an attempt to connect, a relay or a recovery end.
Fairness ==
    /\ WF_vars(Tick)
    /\ WF_vars(\/ Main
               \/ \E s \in Services : ServiceStops(s)
               \/ EndpointNext /\ UNCHANGED <<cancel, socksVars, mainVars>>
               \/ main # "stopped" /\ Serve /\ UNCHANGED <<ep, mainVars>>)
    /\ \A c \in Conns : WF_vars(main # "stopped" /\ Handler(c) /\ UNCHANGED <<ep, mainVars>>)

FairSpec == Spec /\ Fairness

-----------------------------------------------------------------------------
(* Properties.                                                             *)

\* The tunnel is taken away only when every handler task and every service has
\* been joined, except after the grace period expired (run: drain, then clear).
\* Attempts and relay tasks of handlers that were aborted have been asked to
\* stop by then, and nobody has waited for them: they may still run.
TunnelOutlivesUsers ==
    tunnel = "cleared" /\ ~ killed =>
        /\ \A c \in Conns : ~ HoldsConn(conn[c].phase)
        /\ \A s \in Services : task[s] = "joined"

\* A signal ends the process, at whatever point of the start or of the service
\* it comes and whatever the supervisor and the handlers are waiting for; so
\* does the end of a service.
ProcessStops ==
    cancel \/ (\E s \in Services : task[s] = "ended") ~> main = "stopped"

\* Whatever clients, resolver and network do, a handler gives its dial permit
\* back: a target that never answers cannot use up the pending dials for good.
DialSlotsComeBack ==
    \A c \in Conns :
        HoldsDial(conn[c].phase) ~> ~ HoldsDial(conn[c].phase) \/ main = "stopped"

\* Both races implement the abstract specification: connecting an endpoint has
\* no deadline of its own, a dial has one.
EndpointRaceSpec == INSTANCE Race WITH
    Racers <- {"connect"}, Candidates <- Nat, Parallel <- MaxProbes,
    MayGiveUp <- FALSE, race <- EndpointRace
DialRaceSpec == INSTANCE Race WITH
    Racers <- Conns, Candidates <- 1 .. MaxCandidates, Parallel <- MaxParallel,
    MayGiveUp <- TRUE, race <- DialRace

\* connect_candidate keeps the promise of Race: at most two probes at a time and,
\* once a handshake has been picked, at most two besides it; these are gone when
\* it returns, and it fails only when every endpoint has failed.
ConnectIsRace == EndpointRaceSpec!Spec

\* staggered_dial keeps the promise of Race: never more than max_parallel_dials
\* attempts, no loser left open, and no failure reported while an attempt has
\* connected.
DialIsRace == DialRaceSpec!Spec
=============================================================================
