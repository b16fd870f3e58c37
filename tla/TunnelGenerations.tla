------------------------- MODULE TunnelGenerations --------------------------
(***************************************************************************)
(* Hot replacement of the WireGuard tunnel: src/tunnel.rs.                 *)
(*                                                                         *)
(* Tunnel keeps the current TunnelGeneration behind an ArcSwap.  Every TCP *)
(* connection and UDP socket opened through it holds a lease (an Arc) on   *)
(* the generation it was opened on, so a generation that has been replaced *)
(* lives on until its leases are dropped or its drain window ends; then a  *)
(* timer that holds only a Weak reference retires it, which ends the reads *)
(* and writes of the leases that are left.                                 *)
(***************************************************************************)
EXTENDS Integers, FiniteSets

CONSTANTS
    Conns,              \* users of the tunnel: dials, relays, UDP associations
    MaxGen,             \* bound: number of generations made
    MaxTime,            \* bound: the clock stops here once no timer is armed
    DrainGrace,         \* GenerationPolicy::drain_grace, after a refresh
    RecoveryDrainGrace, \* GenerationPolicy::recovery_drain_grace
    MaxAge,             \* GenerationPolicy::max_age
    MinDrainGrace       \* MIN_TUNNEL_DRAIN_GRACE

ASSUME GenerationAssumption ==
    /\ MaxGen \in Nat \ {0}
    /\ MaxTime \in Nat
    /\ DrainGrace \in Nat /\ RecoveryDrainGrace \in Nat
    /\ MaxAge \in Nat /\ MinDrainGrace \in Nat

VARIABLES
    now,
    made,       \* NEXT_GENERATION_ID - 1
    current,    \* the generation in service, or NoGen
    gens,       \* per generation, see Generation
    conn        \* per user: idle, dialing or open, and the generation it holds

vars == <<now, made, current, gens, conn>>

GenIds == 1 .. MaxGen
NoGen == 0

Reasons == {"Refresh", "Recovery"}

\* timer: the retirement task of a replaced generation; replacedAt and reason
\* are history.
Generation == [created : Nat, retired : BOOLEAN, timer : {"none", "armed", "done"},
               retireAt : Nat, replacedAt : Nat, reason : Reasons]

NewGeneration(t) == [created |-> t, retired |-> FALSE, timer |-> "none",
                     retireAt |-> 0, replacedAt |-> 0, reason |-> "Refresh"]

TypeOK ==
    /\ now \in Nat
    /\ made \in 0 .. MaxGen
    /\ current \in GenIds \cup {NoGen}
    /\ gens \in [GenIds -> Generation]
    /\ conn \in [Conns -> [pc : {"idle"}, gen : {NoGen}]
                       \cup [pc : {"dialing", "open"}, gen : GenIds]]

\* from_managed
Init ==
    /\ now = 0
    /\ made = 1
    /\ current = 1
    /\ gens = [g \in GenIds |-> NewGeneration(0)]
    /\ conn = [c \in Conns |-> [pc |-> "idle", gen |-> NoGen]]

-----------------------------------------------------------------------------
Min2(a, b) == IF a < b THEN a ELSE b
Max2(a, b) == IF a > b THEN a ELSE b
SatSub(a, b) == IF a > b THEN a - b ELSE 0

GraceFor(reason) == IF reason = "Refresh" THEN DrainGrace ELSE RecoveryDrainGrace

\* Mutant of RetirementDelay: the floor of the drain window is forgotten.
RetirementDelayNoFloor(age, reason) == Min2(GraceFor(reason), SatSub(MaxAge, age))

RetirementDelay(age, reason) ==
    LET grace == GraceFor(reason)
    IN  Max2(Min2(grace, SatSub(MaxAge, age)), Min2(MinDrainGrace, grace))

\* Strong references: the Tunnel's own and those of the dials and leases.
Alive(g) == current = g \/ \E c \in Conns : conn[c].pc # "idle" /\ conn[c].gen = g

\* schedule_retirement
ScheduleRetirement(g, reason) ==
    LET delay == RetirementDelay(now - g.created, reason)
    IN  [g EXCEPT !.replacedAt = now, !.reason = reason, !.retireAt = now + delay,
                  !.retired = @ \/ delay = 0,
                  !.timer = IF delay = 0 THEN "done" ELSE "armed"]

\* Mutant of Replace: the timer is armed for the generation that comes in.
ReplaceRetiresNew(reason) ==
    /\ made < MaxGen
    /\ current # NoGen
    /\ made' = made + 1
    /\ current' = made'
    /\ gens' = [gens EXCEPT ![made + 1] = ScheduleRetirement(NewGeneration(now), reason)]
    /\ UNCHANGED <<now, conn>>

\* replace: the new generation is in service before the old one is scheduled.
\* main clears the tunnel only when the supervisor has ended, so replace never
\* finds it empty.
Replace(reason) ==
    /\ made < MaxGen
    /\ current # NoGen
    /\ made' = made + 1
    /\ current' = made'
    /\ gens' = [gens EXCEPT ![made + 1] = NewGeneration(now),
                            ![current] = ScheduleRetirement(@, reason)]
    /\ UNCHANGED <<now, conn>>

\* Mutant of RetireTimer: the task wakes and cancels nothing.
RetireTimerIdle(g) ==
    /\ gens[g].timer = "armed"
    /\ now >= gens[g].retireAt
    /\ gens' = [gens EXCEPT ![g].timer = "done"]
    /\ UNCHANGED <<now, made, current, conn>>

\* Mutant of RetireTimer: the task cancels whatever generation is in service.
RetireTimerCurrent(g) ==
    /\ gens[g].timer = "armed" /\ current # NoGen
    /\ now >= gens[g].retireAt
    /\ gens' = [gens EXCEPT ![g].timer = "done", ![current].retired = TRUE]
    /\ UNCHANGED <<now, made, current, conn>>

\* The retirement task wakes: force_retire if the Weak reference upgrades.
RetireTimer(g) ==
    /\ gens[g].timer = "armed"
    /\ now >= gens[g].retireAt
    /\ gens' = [gens EXCEPT ![g].timer = "done", ![g].retired = @ \/ Alive(g)]
    /\ UNCHANGED <<now, made, current, conn>>

\* clear: graceful shutdown takes the tunnel away.
Clear ==
    /\ current # NoGen
    /\ current' = NoGen
    /\ gens' = [gens EXCEPT ![current].retired = TRUE]
    /\ UNCHANGED <<now, made, conn>>

-----------------------------------------------------------------------------
\* live_generation
Live == current # NoGen /\ ~ gens[current].retired

\* Mutant of Dial: the snapshot is not checked for a tunnel.
DialUnchecked(c) ==
    /\ conn[c].pc = "idle"
    /\ conn' = [conn EXCEPT ![c] = [pc |-> "dialing", gen |-> current]]
    /\ UNCHANGED <<now, made, current, gens>>

\* dial_tcp up to the await: snapshot the generation.
Dial(c) ==
    /\ conn[c].pc = "idle"
    /\ Live
    /\ conn' = [conn EXCEPT ![c] = [pc |-> "dialing", gen |-> current]]
    /\ UNCHANGED <<now, made, current, gens>>

\* Mutant of DialOk: the generation is not looked at again after the await.
DialOkUnchecked(c) ==
    /\ conn[c].pc = "dialing"
    /\ conn' = [conn EXCEPT ![c].pc = "open"]
    /\ UNCHANGED <<now, made, current, gens>>

\* The connect succeeds and the generation is still valid: a lease.
DialOk(c) ==
    /\ conn[c].pc = "dialing"
    /\ ~ gens[conn[c].gen].retired
    /\ conn' = [conn EXCEPT ![c].pc = "open"]
    /\ UNCHANGED <<now, made, current, gens>>

\* The connect fails or times out, or its generation was retired meanwhile.
DialErr(c) ==
    /\ conn[c].pc = "dialing"
    /\ conn' = [conn EXCEPT ![c] = [pc |-> "idle", gen |-> NoGen]]
    /\ UNCHANGED <<now, made, current, gens>>

\* bind_udp and bind_udp_v6: no await, the lease is taken at once.
BindUdp(c) ==
    /\ conn[c].pc = "idle"
    /\ Live
    /\ conn' = [conn EXCEPT ![c] = [pc |-> "open", gen |-> current]]
    /\ UNCHANGED <<now, made, current, gens>>

\* The user closes the connection.
Close(c) ==
    /\ conn[c].pc = "open"
    /\ conn' = [conn EXCEPT ![c] = [pc |-> "idle", gen |-> NoGen]]
    /\ UNCHANGED <<now, made, current, gens>>

\* read, write_all, send_to and recv_from of a retired lease return
\* ConnectionClosed, and the user drops the lease.
Cut(c) ==
    /\ conn[c].pc = "open"
    /\ gens[conn[c].gen].retired
    /\ conn' = [conn EXCEPT ![c] = [pc |-> "idle", gen |-> NoGen]]
    /\ UNCHANGED <<now, made, current, gens>>

Tick ==
    /\ now < MaxTime \/ \E g \in GenIds : gens[g].timer = "armed" /\ now < gens[g].retireAt
    /\ now' = now + 1
    /\ UNCHANGED <<made, current, gens, conn>>

Next ==
    \/ Tick
    \/ \E reason \in Reasons : Replace(reason)
    \/ \E g \in GenIds : RetireTimer(g)
    \/ Clear
    \/ \E c \in Conns :
          Dial(c) \/ DialOk(c) \/ DialErr(c) \/ BindUdp(c) \/ Close(c) \/ Cut(c)

Spec == Init /\ [][Next]_vars

\* Sleeping tasks wake, connects end (the netstack bounds them), and a user
\* whose read fails goes away.  Nobody has to close a working connection.
Fairness ==
    /\ WF_vars(Tick)
    /\ \A g \in GenIds : WF_vars(RetireTimer(g))
    /\ \A c \in Conns : WF_vars(DialOk(c) \/ DialErr(c)) /\ WF_vars(Cut(c))

FairSpec == Spec /\ Fairness

-----------------------------------------------------------------------------
(* Properties.                                                             *)

\* A generation that was in service and is not any more.
Replaced(g) == g \in 1 .. made /\ g # current

\* The generation in service is never retired: no late timer of an earlier
\* replacement, and no second replacement, reaches it (schedule_retirement
\* captures the generation it was called on).
ServiceIsLive == current # NoGen => ~ gens[current].retired

\* No lease is handed out on a retired generation, although the generation can
\* be retired while the connect awaits (dial_tcp looks at it again): otherwise
\* SOCKS5 answers success on a connection that is already dead.
NoDeadLease ==
    [][ \A c \in Conns : conn'[c].pc = "open" /\ conn[c].pc # "open"
            => ~ gens'[conn'[c].gen].retired ]_vars

\* A connection on a replaced generation keeps at least its drain window, and
\* is never retired before the timer is due, as long as the tunnel is not
\* cleared (retirement_delay, schedule_retirement).
DrainWindowKept ==
    \A g \in 1 .. made :
        (g # current /\ gens[g].retired /\ current # NoGen)
            => now >= gens[g].replacedAt + Min2(MinDrainGrace, GraceFor(gens[g].reason))

\* The drain window is bounded: by the grace of its reason, and by the maximal
\* age of the generation unless that is below the floor.
DrainWindowBounded ==
    \A g \in GenIds : gens[g].timer = "armed" =>
        LET floor == Min2(MinDrainGrace, GraceFor(gens[g].reason))
        IN  /\ gens[g].retireAt <= gens[g].replacedAt + GraceFor(gens[g].reason)
            /\ gens[g].retireAt <= Max2(gens[g].created + MaxAge, gens[g].replacedAt + floor)

\* Every generation that leaves service is dropped in the end, whatever its
\* connections do: no lease keeps an old tunnel, its tasks and its buffers
\* alive for ever.
ReplacedGenerationsEnd == \A g \in GenIds : Replaced(g) ~> ~ Alive(g)
=============================================================================
