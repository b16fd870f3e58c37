-------------------------- MODULE EndpointConnect ---------------------------
(***************************************************************************)
(* Connecting a WireGuard tunnel: endpoint_attempts and                    *)
(* Tunnel::connect_candidate of src/tunnel.rs.                             *)
(*                                                                         *)
(* The configured endpoint and the candidates of the API are expanded to a *)
(* list of (address, port) pairs; at most two of them are probed at a time *)
(* and the first handshake wins.  The winner is returned when the probes   *)
(* that still run, one begun last among them, have been shut down.  What a *)
(* probe meets is free; a probe has a timeout of its own, so it ends.      *)
(***************************************************************************)
EXTENDS Integers, Sequences, FiniteSets, SequencesExt, Lists

CONSTANTS
    Ips,             \* addresses of the WARP ingress
    Configs,         \* WireGuardConfigs: [endpoint, candidates]
    FallbackPorts,   \* WARP_WG_FALLBACK_PORTS
    MaxProbes        \* MAX_PARALLEL_ENDPOINT_ATTEMPTS

Endpoints == [ip : Ips, port : Nat]

ASSUME EndpointAssumption ==
    /\ Configs \subseteq [endpoint : Endpoints, candidates : Seq(Endpoints)]
    /\ FallbackPorts \in Seq(Nat)
    /\ MaxProbes \in Nat \ {0}

VARIABLE ep     \* the future of connect_candidate

-----------------------------------------------------------------------------
(* The list of attempts.                                                   *)

\* endpoint_ports
EndpointPorts(original) ==
    LET ports == <<original>> \o FallbackPorts
    IN  Kept(ports, {i \in DOMAIN ports : i = 1 \/ ports[i] # original})

Bases(cfg) == FirstOccurrences(<<cfg.endpoint>> \o cfg.candidates)

AtPorts(base) ==
    LET ports == EndpointPorts(base.port)
    IN  [k \in DOMAIN ports |-> [ip |-> base.ip, port |-> ports[k]]]

\* Every base at each of its ports.
AllPorts(bases) == Concat([b \in DOMAIN bases |-> AtPorts(bases[b])])

\* Mutant of EndpointAttempts: all ports of an address before the next address.
EndpointAttemptsByAddress(cfg) == FirstOccurrences(AllPorts(Bases(cfg)))

\* endpoint_attempts
EndpointAttempts(cfg) == FirstOccurrences(Bases(cfg) \o AllPorts(Bases(cfg)))

-----------------------------------------------------------------------------
(* connect_candidate.  An attempt is known by its place in the list.       *)

\* none: pending; ok and error: the probe has ended and is not joined yet.
ProbeStates == {"none", "running", "ok", "error", "failed"}

Alive(att) == {i \in DOMAIN att : att[i] \in {"running", "ok", "error"}}

NotConnecting(pc, winner) ==
    [pc |-> pc, cfg |-> <<>>, list |-> <<>>, started |-> 0, att |-> <<>>, winner |-> winner]

EndpointTypeOK ==
    /\ ep.pc \in {"idle", "racing", "closing", "won", "lost", "over"}
    /\ ep.started \in 0 .. Len(ep.list)
    /\ ep.att \in [1 .. Len(ep.list) -> ProbeStates]
    /\ ep.winner \in Nat

EndpointInit == ep = NotConnecting("idle", 0)

\* Mutant of SpawnNext: the end of the list is not looked at.
SpawnNextUnchecked(e) == [e EXCEPT !.started = @ + 1, !.att[e.started + 1] = "running"]

\* spawn_next
SpawnNext(e) ==
    IF e.started < Len(e.list)
    THEN [e EXCEPT !.started = @ + 1, !.att[e.started + 1] = "running"]
    ELSE e

\* Expand the list and start the first probes.
Connect(cfg) ==
    LET list  == EndpointAttempts(cfg)
        first == IF Len(list) < MaxProbes THEN Len(list) ELSE MaxProbes
    IN  /\ ep.pc = "idle"
        /\ ep' = [pc |-> "racing", cfg |-> cfg, list |-> list, started |-> first,
                  att |-> [i \in 1 .. Len(list) |-> IF i <= first THEN "running" ELSE "none"],
                  winner |-> 0]

\* try_endpoint returns: a handshake, an error or the probe's timeout.
ProbeEnds(i) ==
    /\ ep.pc = "racing" /\ ep.att[i] = "running"
    /\ \E outcome \in {"ok", "error"} : ep' = [ep EXCEPT !.att[i] = outcome]

\* Mutant of JoinProbe: the loop ends with the first failure.
JoinProbeEarly(i) ==
    /\ ep.pc = "racing"
    /\ \/ ep.att[i] = "ok" /\ ep' = [SpawnNext(ep) EXCEPT !.pc = "closing", !.winner = i]
       \/ ep.att[i] = "error" /\ ep' = NotConnecting("lost", 0)

\* join_next: the next probe is spawned before the result is looked at, a
\* handshake's too; a handshake ends the race, and so does the last failure.
JoinProbe(i) ==
    LET refilled == SpawnNext(ep)
    IN  /\ ep.pc = "racing"
        /\ \/ ep.att[i] = "ok" /\ ep' = [refilled EXCEPT !.pc = "closing", !.winner = i]
           \/ /\ ep.att[i] = "error"
              /\ ep' = IF Alive(refilled.att) = {i} THEN NotConnecting("lost", 0)
                       ELSE [refilled EXCEPT !.att[i] = "failed"]

\* probes.shutdown(): a probe that was aborted, or ended meanwhile, is joined and
\* its result dropped ...
ProbeClosed(i) ==
    /\ ep.pc = "closing" /\ i \in Alive(ep.att) \ {ep.winner}
    /\ ep' = [ep EXCEPT !.att[i] = "failed"]

\* ... and when none is left, the winner is returned.
ShutdownReturns ==
    /\ ep.pc = "closing" /\ Alive(ep.att) = {ep.winner}
    /\ ep' = NotConnecting("won", ep.winner)

EndpointNext ==
    \/ \E i \in 1 .. Len(ep.list) : ProbeEnds(i) \/ JoinProbe(i) \/ ProbeClosed(i)
    \/ ShutdownReturns

-----------------------------------------------------------------------------
\* The race as the abstract specification sees it.
EndpointRaceOf(e) ==
    LET alive == IF e.pc = "won" THEN {e.winner} ELSE {}
    IN  IF e.pc \in {"racing", "closing"}
        THEN [phase |-> e.pc, cands |-> DOMAIN e.att, started |-> 1 .. e.started,
              failed |-> {i \in DOMAIN e.att : e.att[i] = "failed"},
              connected |-> IF e.pc = "closing" THEN {e.winner}
                            ELSE {i \in DOMAIN e.att : e.att[i] = "ok"},
              open |-> Alive(e.att)]
        ELSE [phase |-> IF e.pc = "over" THEN "idle" ELSE e.pc,
              cands |-> {}, started |-> {}, failed |-> {},
              connected |-> alive, open |-> alive]

EndpointRace == [r \in {"connect"} |-> EndpointRaceOf(ep)]

\* The list of endpoint_attempts against its reference: the configured endpoint
\* first, every known address at its own port before any fallback port, every
\* address at every port, and no pair twice.
EndpointOrder ==
    ep.pc = "racing" =>
        LET bases == {ep.cfg.endpoint} \cup ToSet(ep.cfg.candidates)
        IN  /\ ep.list[1] = ep.cfg.endpoint
            /\ \A i, j \in DOMAIN ep.list :
                  ep.list[i] \in bases /\ ep.list[j] \notin bases => i < j
            /\ ToSet(ep.list) = UNION {{[ip |-> b.ip, port |-> p] :
                                           p \in {b.port} \cup ToSet(FallbackPorts)} : b \in bases}
            /\ Cardinality(ToSet(ep.list)) = Len(ep.list)
=============================================================================
