------------------------------- MODULE Health -------------------------------
(***************************************************************************)
(* The health probe loop and the business egress counters it evaluates:    *)
(* src/health.rs, src/egress.rs, and the part of a SOCKS5 CONNECT that     *)
(* feeds the counters (src/proxy/tcp.rs, handle).                          *)
(*                                                                         *)
(* One round of probe_loop: at a tick take observed_at, sample the         *)
(* handshake age, dial the targets, take the egress window, choose the     *)
(* event, and send it on the supervisor's bounded channel (waiting when it *)
(* is full).  The outcome of the network is chosen freely.                 *)
(*                                                                         *)
(* generation identifies the tunnel generation in service.  The field gen  *)
(* of an event is history: the generation its evidence was gathered on.    *)
(***************************************************************************)
EXTENDS Integers, Sequences, FiniteSets

CONSTANTS
    StartTime,           \* the instant of the initial state
    MaxTime,             \* bound: no probe starts at or after this instant
    QueueCap,            \* capacity of the supervisor's mpsc channel (64)
    Dials,               \* business dials, each made once
    MinSamples,          \* egress::MIN_SAMPLES (20)
    DegradedRounds       \* health::EGRESS_DEGRADED_ROUNDS (2)

ASSUME HealthAssumption ==
    /\ StartTime \in Nat \ {0}
    /\ MaxTime \in Nat /\ StartTime < MaxTime
    /\ QueueCap \in Nat \ {0}
    /\ IsFiniteSet(Dials)
    /\ MinSamples \in Nat \ {0}
    /\ DegradedRounds \in Nat \ {0}

VARIABLES
    now,            \* the clock
    events,         \* the supervisor's channel
    generation,     \* the current tunnel generation
    healthy,        \* Supervisor::healthy, read by the SOCKS5 handlers
    probe,          \* the probe task
    degraded,       \* degraded_rounds
    egress,         \* EgressStats, and the newest generation a failure came from
    dials,          \* per dial: not made, in flight on a generation, or its end
    verdicts        \* history: number of failures blamed on the egress

healthVars == <<probe, degraded, egress, dials, verdicts>>

Causes == {"ok", "handshake", "quorum", "egress", "refresh"}

Events == [cause : Causes, observed : Nat, gen : Nat]

EmptyWindow == [ok |-> 0, failed |-> 0, gen |-> 0]

IdleProbe == [pc |-> "tick", observed |-> 0, gen |-> 0, cause |-> "ok"]

HealthTypeOK ==
    /\ now \in Nat
    /\ events \in Seq(Events)
    /\ generation \in Nat
    /\ healthy \in BOOLEAN
    /\ probe \in [pc : {"tick", "probing", "send"}, observed : Nat, gen : Nat,
                  cause : Causes]
    /\ degraded \in Nat
    /\ egress \in [ok : Nat, failed : Nat, gen : Nat]
    /\ dials \in [Dials -> [pc : {"new", "dialing", "ok", "failed", "dropped"}, gen : Nat]]
    /\ verdicts \in Nat

HealthInit ==
    /\ now = StartTime
    /\ events = <<>>
    /\ generation = 0
    /\ healthy = FALSE
    /\ probe = IdleProbe
    /\ degraded = 0
    /\ egress = EmptyWindow
    /\ dials = [d \in Dials |-> [pc |-> "new", gen |-> 0]]
    /\ verdicts = 0

-----------------------------------------------------------------------------
(* Business dials.                                                         *)

\* A CONNECT passes the health gate; its dial snapshots the generation.
DialStart(d) ==
    /\ healthy
    /\ dials[d].pc = "new"
    /\ dials' = [dials EXCEPT ![d] = [pc |-> "dialing", gen |-> generation]]
    /\ UNCHANGED <<now, events, generation, healthy, probe, degraded, egress, verdicts>>

\* The dial ends and is recorded: EgressStats::record.
DialEnd(d, success) ==
    /\ dials[d].pc = "dialing"
    /\ dials' = [dials EXCEPT ![d].pc = IF success THEN "ok" ELSE "failed"]
    /\ egress' = IF success
                 THEN [egress EXCEPT !.ok = @ + 1]
                 ELSE [egress EXCEPT !.failed = @ + 1,
                                     !.gen = IF dials[d].gen > @ THEN dials[d].gen ELSE @]
    /\ UNCHANGED <<now, events, generation, healthy, probe, degraded, verdicts>>

\* EgressWindow::is_degraded, with FAIL_RATIO = 4/5.
IsDegraded(w) ==
    /\ w.ok + w.failed >= MinSamples
    /\ 5 * w.failed >= 4 * (w.ok + w.failed)

-----------------------------------------------------------------------------
(* probe_loop.                                                             *)

\* ticker.tick(): the interval is positive, so two rounds never start at the
\* same instant.
ProbeTick ==
    /\ probe.pc = "tick"
    /\ now > probe.observed
    /\ now < MaxTime
    /\ probe' = [probe EXCEPT !.pc = "probing", !.observed = now, !.gen = generation]
    /\ UNCHANGED <<now, events, generation, healthy, degraded, egress, dials, verdicts>>

\* Mutant of ProbeVerdict: the egress window is read and not taken.
ProbeVerdictKeepWindow(network) ==
    LET rounds == IF IsDegraded(egress) THEN degraded + 1 ELSE 0
        cause  == IF network # "ok" THEN network
                  ELSE IF rounds >= DegradedRounds THEN "egress" ELSE "ok"
    IN  /\ probe.pc = "probing"
        /\ degraded' = IF cause = "egress" THEN 0 ELSE rounds
        /\ probe' = [probe EXCEPT !.pc = "send", !.cause = cause]
        /\ verdicts' = IF cause = "egress" THEN verdicts + 1 ELSE verdicts
        /\ UNCHANGED <<now, events, generation, healthy, egress, dials>>

\* The dials have ended: take the egress window and choose the event.  A stale
\* handshake or a failed quorum wins over a degraded window; only a degraded
\* window that becomes the event clears the round counter.
\* take_window is two swaps; a record between them counts as before or after
\* the whole, so one step is enough.
ProbeVerdict(network) ==
    LET rounds == IF IsDegraded(egress) THEN degraded + 1 ELSE 0
        cause  == IF network # "ok" THEN network
                  ELSE IF rounds >= DegradedRounds THEN "egress" ELSE "ok"
    IN  /\ probe.pc = "probing"
        /\ degraded' = IF cause = "egress" THEN 0 ELSE rounds
        /\ egress' = EmptyWindow
        /\ probe' = [probe EXCEPT !.pc = "send", !.cause = cause,
                                  !.gen = IF cause = "egress" THEN egress.gen ELSE @]
        /\ verdicts' = IF cause = "egress" THEN verdicts + 1 ELSE verdicts
        /\ UNCHANGED <<now, events, generation, healthy, dials>>

\* Mutant of ProbeSend: the channel has no limit.
ProbeSendUnbounded ==
    /\ probe.pc = "send"
    /\ events' = Append(events, [cause |-> probe.cause, observed |-> probe.observed,
                                 gen |-> probe.gen])
    /\ probe' = [probe EXCEPT !.pc = "tick"]
    /\ UNCHANGED <<now, generation, healthy, degraded, egress, dials, verdicts>>

\* tx.send(evt).await
ProbeSend ==
    /\ probe.pc = "send"
    /\ Len(events) < QueueCap
    /\ events' = Append(events, [cause |-> probe.cause, observed |-> probe.observed,
                                 gen |-> probe.gen])
    /\ probe' = [probe EXCEPT !.pc = "tick"]
    /\ UNCHANGED <<now, generation, healthy, degraded, egress, dials, verdicts>>

HealthNext ==
    \/ \E d \in Dials : DialStart(d) \/ \E success \in BOOLEAN : DialEnd(d, success)
    \/ ProbeTick
    \/ \E network \in {"ok", "handshake", "quorum"} : ProbeVerdict(network)
    \/ ProbeSend

\* A failure is blamed on the egress only after a degraded window in each of
\* DegradedRounds rounds, and no business dial is ever counted twice: every
\* verdict has failed dials of its own behind it (take_window clears the
\* counters each round, the verdict clears degraded_rounds).
EgressVerdictsAreEarned ==
    LET failuresPerWindow == (4 * MinSamples + 4) \div 5
    IN  verdicts * DegradedRounds * failuresPerWindow
            <= Cardinality({d \in Dials : dials[d].pc = "failed"})

\* The process is gone.
HealthReset ==
    /\ events' = <<>>
    /\ healthy' = FALSE
    /\ probe' = IdleProbe
    /\ degraded' = 0
    /\ egress' = EmptyWindow
    /\ dials' = [d \in Dials |-> IF dials[d].pc = "dialing"
                                 THEN [dials[d] EXCEPT !.pc = "dropped"] ELSE dials[d]]
    /\ UNCHANGED verdicts
=============================================================================
