----------------------- MODULE TunnelGenerationsProofs -----------------------
(***************************************************************************)
(* Safety of hot replacement (TunnelGenerations), proved for any number of *)
(* users and generations and any drain policy.                             *)
(***************************************************************************)
EXTENDS TunnelGenerations, TLAPS

USE GenerationAssumption

\* The generation in service is the youngest one, and no retirement task is
\* armed for it.
InService == current # NoGen => current = made /\ gens[current].timer = "none"

\* An armed task never fires before the floor of the drain window.
ArmedAfterFloor ==
    \A g \in GenIds : gens[g].timer = "armed" =>
        gens[g].retireAt >= gens[g].replacedAt + Min2(MinDrainGrace, GraceFor(gens[g].reason))

CreatedInPast == \A g \in GenIds : gens[g].created <= now

\* The inductive invariant.
Inv ==
    /\ TypeOK
    /\ InService
    /\ ServiceIsLive
    /\ ArmedAfterFloor
    /\ DrainWindowKept
    /\ CreatedInPast
    /\ DrainWindowBounded

-----------------------------------------------------------------------------
\* The grace of either reason is a duration.
LEMMA GraceType == \A reason \in Reasons : GraceFor(reason) \in Nat
BY DEF Reasons, GraceFor

\* The delay lies between the floor and the grace, and within the maximal age
\* unless that is below the floor.
LEMMA DelayBounds ==
    ASSUME NEW age \in Nat, NEW reason \in Reasons
    PROVE  LET delay == RetirementDelay(age, reason)
               floor == Min2(MinDrainGrace, GraceFor(reason))
           IN  /\ delay \in Nat
               /\ floor \in Nat
               /\ floor <= delay
               /\ delay <= GraceFor(reason)
               /\ age + delay <= MaxAge \/ delay = floor
BY GraceType DEF RetirementDelay, Min2, Max2, SatSub

\* What schedule_retirement does to the generation that leaves service.
LEMMA Scheduled ==
    ASSUME NEW g \in Generation, now \in Nat, g.created <= now, ~ g.retired,
           NEW reason \in Reasons
    PROVE  LET s == ScheduleRetirement(g, reason)
               floor == Min2(MinDrainGrace, GraceFor(reason))
           IN  /\ s \in Generation
               /\ s.created = g.created
               /\ s.replacedAt = now
               /\ s.reason = reason
               /\ s.retired => floor = 0
               /\ s.retireAt >= now + floor
               /\ s.retireAt <= now + GraceFor(reason)
               /\ s.retireAt <= Max2(g.created + MaxAge, now + floor)
<1> DEFINE age == now - g.created
           delay == RetirementDelay(age, reason)
           floor == Min2(MinDrainGrace, GraceFor(reason))
           s == ScheduleRetirement(g, reason)
<1>1. g.created \in Nat /\ age \in Nat
  BY DEF Generation
<1>2. /\ delay \in Nat /\ floor \in Nat
      /\ floor <= delay /\ delay <= GraceFor(reason)
      /\ age + delay <= MaxAge \/ delay = floor
  BY <1>1, DelayBounds
<1> HIDE DEF delay, floor
<1>3. s = [g EXCEPT !.replacedAt = now, !.reason = reason, !.retireAt = now + delay,
                    !.retired = @ \/ delay = 0,
                    !.timer = IF delay = 0 THEN "done" ELSE "armed"]
  BY DEF ScheduleRetirement, delay, age
<1> HIDE DEF s
<1>4. s \in Generation
  <2>1. (g.retired \/ delay = 0) \in BOOLEAN
    OBVIOUS
  <2>2. (IF delay = 0 THEN "done" ELSE "armed") \in {"none", "armed", "done"}
    OBVIOUS
  <2>3. now + delay \in Nat
    BY <1>2
  <2>4. PICK b \in BOOLEAN, t \in {"none", "armed", "done"}, at \in Nat :
           s = [g EXCEPT !.replacedAt = now, !.reason = reason, !.retireAt = at,
                         !.retired = b, !.timer = t]
    BY <1>3, <2>1, <2>2, <2>3, Zenon
  <2>5. s = [created |-> g.created, retired |-> b, timer |-> t, retireAt |-> at,
             replacedAt |-> now, reason |-> reason]
    BY <2>4 DEF Generation
  <2>6. QED
    BY <1>1, <2>5, Zenon DEF Generation
<1>5. /\ s.created = g.created
      /\ s.replacedAt = now
      /\ s.reason = reason
      /\ s.retired => delay = 0
      /\ s.retireAt = now + delay
  BY <1>2, <1>3 DEF Generation
<1>6. now + delay <= Max2(g.created + MaxAge, now + floor)
  BY <1>1, <1>2 DEF Max2
<1>7. QED
  BY <1>2, <1>4, <1>5, <1>6, GraceType DEF s, floor

-----------------------------------------------------------------------------
\* The invariant holds before the first tunnel.
LEMMA InitInv == Init => Inv
<1> SUFFICES ASSUME Init PROVE Inv
  OBVIOUS
<1>1. gens \in [GenIds -> Generation]
  BY DEF Init, NewGeneration, Generation, Reasons
<1>2. TypeOK
  BY <1>1 DEF Init, TypeOK, GenIds, NoGen
<1>3. 1 \in GenIds
  BY DEF GenIds
<1>4. QED
  BY <1>2, <1>3 DEF Init, Inv, InService, ServiceIsLive, ArmedAfterFloor, DrainWindowKept,
     CreatedInPast, DrainWindowBounded, NewGeneration, GenIds, NoGen

\* A replacement arms the timer of the old generation only.
LEMMA ReplacePreserves ==
    ASSUME Inv, NEW reason \in Reasons, Replace(reason)
    PROVE  Inv'
<1> DEFINE floor(g) == Min2(MinDrainGrace, GraceFor(gens'[g].reason))
           young == NewGeneration(now)
           old == ScheduleRetirement(gens[current], reason)
<1>1. /\ now \in Nat /\ now' = now /\ conn' = conn
      /\ made \in GenIds /\ made + 1 \in GenIds /\ made' = made + 1 /\ current' = made + 1
      /\ current = made /\ current # NoGen
      /\ gens \in [GenIds -> Generation]
  BY DEF Inv, TypeOK, InService, Replace, GenIds, NoGen
<1>2. /\ young \in Generation
      /\ young.created = now /\ young.timer = "none" /\ ~ young.retired
  BY <1>1 DEF NewGeneration, Generation, Reasons
<1>3. /\ old \in Generation
      /\ old.created = gens[current].created
      /\ old.replacedAt = now
      /\ old.reason = reason
      /\ old.retired => Min2(MinDrainGrace, GraceFor(reason)) = 0
      /\ old.retireAt >= now + Min2(MinDrainGrace, GraceFor(reason))
      /\ old.retireAt <= now + GraceFor(reason)
      /\ old.retireAt <= Max2(gens[current].created + MaxAge,
                              now + Min2(MinDrainGrace, GraceFor(reason)))
  <2>1. gens[current] \in Generation /\ gens[current].created <= now /\ ~ gens[current].retired
    BY <1>1 DEF Inv, ServiceIsLive, CreatedInPast
  <2>2. QED
    BY <1>1, <2>1, Scheduled
<1>4. gens' = [gens EXCEPT ![made + 1] = young, ![current] = old]
  BY DEF Replace
<1> HIDE DEF young, old
<1>5. /\ gens' \in [GenIds -> Generation]
      /\ gens'[made + 1] = young
      /\ gens'[current] = old
      /\ \A g \in GenIds : g # made + 1 /\ g # current => gens'[g] = gens[g]
  <2>1. made + 1 # current
    BY <1>1 DEF GenIds
  <2>2. QED
    BY <1>1, <1>2, <1>3, <1>4, <2>1
<1>6. TypeOK'
  BY <1>1, <1>5 DEF Inv, TypeOK, GenIds
<1>7. InService' /\ ServiceIsLive'
  BY <1>1, <1>2, <1>5 DEF InService, ServiceIsLive
<1>8. ArmedAfterFloor'
  BY <1>1, <1>2, <1>3, <1>5 DEF Inv, ArmedAfterFloor
<1>9. CreatedInPast'
  BY <1>1, <1>2, <1>3, <1>5 DEF Inv, CreatedInPast, Generation
<1>10. DrainWindowKept'
  <2> SUFFICES ASSUME NEW g \in 1 .. made', g # current', gens'[g].retired
               PROVE  now' >= gens'[g].replacedAt + floor(g)
    BY DEF DrainWindowKept
  <2>1. g \in GenIds /\ g \in 1 .. made /\ g # made + 1
    BY <1>1 DEF GenIds
  <2>2. CASE g = current
    BY <1>1, <1>3, <1>5, <2>2
  <2>3. CASE g # current
    BY <1>1, <1>5, <2>1, <2>3 DEF Inv, DrainWindowKept
  <2>4. QED
    BY <2>2, <2>3
<1>11. DrainWindowBounded'
  BY <1>1, <1>2, <1>3, <1>5 DEF Inv, DrainWindowBounded
<1>12. QED
  BY <1>6, <1>7, <1>8, <1>9, <1>10, <1>11 DEF Inv

\* A timer that wakes retires its own generation only, and in time.
LEMMA RetireTimerPreserves ==
    ASSUME Inv, NEW t \in GenIds, RetireTimer(t)
    PROVE  Inv'
<1>1. /\ gens \in [GenIds -> Generation] /\ now \in Nat
      /\ gens[t].timer = "armed" /\ now >= gens[t].retireAt
      /\ now' = now /\ made' = made /\ current' = current /\ conn' = conn
  BY DEF Inv, TypeOK, RetireTimer
<1>2. t # current
  BY <1>1 DEF Inv, InService, GenIds, NoGen
<1>3. PICK b \in BOOLEAN : gens' = [gens EXCEPT ![t].timer = "done", ![t].retired = b]
  <2>1. gens[t].retired \in BOOLEAN
    BY <1>1 DEF Generation
  <2>2. (gens[t].retired \/ Alive(t)) \in BOOLEAN
    OBVIOUS
  <2>3. QED
    BY <2>2 DEF RetireTimer
<1>4. /\ gens' \in [GenIds -> Generation]
      /\ gens'[t].timer = "done"
      /\ \A g \in GenIds : g # t => gens'[g] = gens[g]
      /\ \A g \in GenIds : /\ gens'[g].created = gens[g].created
                           /\ gens'[g].replacedAt = gens[g].replacedAt
                           /\ gens'[g].reason = gens[g].reason
                           /\ gens'[g].retireAt = gens[g].retireAt
  BY <1>1, <1>3 DEF Generation
<1>5. TypeOK'
  BY <1>1, <1>4 DEF Inv, TypeOK
<1>6. InService' /\ ServiceIsLive'
  BY <1>1, <1>2, <1>4 DEF Inv, TypeOK, InService, ServiceIsLive, NoGen
<1>7. ArmedAfterFloor' /\ CreatedInPast' /\ DrainWindowBounded'
  BY <1>1, <1>4 DEF Inv, ArmedAfterFloor, CreatedInPast, DrainWindowBounded
<1>8. DrainWindowKept'
  <2> SUFFICES ASSUME NEW g \in 1 .. made', g # current', gens'[g].retired, current' # NoGen
               PROVE  now' >= gens'[g].replacedAt
                                + Min2(MinDrainGrace, GraceFor(gens'[g].reason))
    BY DEF DrainWindowKept
  <2>0. g \in GenIds
    BY <1>1 DEF Inv, TypeOK, GenIds
  <2>1. CASE g = t
    <3>1. gens[t].retireAt >= gens[t].replacedAt
                                + Min2(MinDrainGrace, GraceFor(gens[t].reason))
      BY <1>1 DEF Inv, ArmedAfterFloor
    <3>2. /\ gens[t].retireAt \in Nat /\ gens[t].replacedAt \in Nat
          /\ Min2(MinDrainGrace, GraceFor(gens[t].reason)) \in Nat
      BY <1>1, GraceType DEF Generation, Min2
    <3>3. QED
      BY <1>1, <1>4, <2>1, <3>1, <3>2
  <2>2. CASE g # t
    BY <1>1, <1>4, <2>0, <2>2 DEF Inv, DrainWindowKept
  <2>3. QED
    BY <2>1, <2>2
<1>9. QED
  BY <1>5, <1>6, <1>7, <1>8 DEF Inv

\* clear leaves no generation in service.
LEMMA ClearPreserves == Inv /\ Clear => Inv'
<1> SUFFICES ASSUME Inv, Clear PROVE Inv'
  OBVIOUS
<1>1. /\ gens \in [GenIds -> Generation] /\ now \in Nat
      /\ current \in GenIds /\ current' = NoGen
      /\ now' = now /\ made' = made /\ conn' = conn
      /\ gens' = [gens EXCEPT ![current].retired = TRUE]
  BY DEF Inv, TypeOK, Clear
<1>2. /\ gens' \in [GenIds -> Generation]
      /\ \A g \in GenIds : /\ gens'[g].created = gens[g].created
                           /\ gens'[g].replacedAt = gens[g].replacedAt
                           /\ gens'[g].reason = gens[g].reason
                           /\ gens'[g].retireAt = gens[g].retireAt
                           /\ gens'[g].timer = gens[g].timer
  BY <1>1 DEF Generation
<1>3. TypeOK'
  BY <1>1, <1>2 DEF Inv, TypeOK
<1>4. InService' /\ ServiceIsLive' /\ DrainWindowKept'
  BY <1>1 DEF InService, ServiceIsLive, DrainWindowKept
<1>5. ArmedAfterFloor' /\ CreatedInPast' /\ DrainWindowBounded'
  BY <1>1, <1>2 DEF Inv, ArmedAfterFloor, CreatedInPast, DrainWindowBounded
<1>6. QED
  BY <1>3, <1>4, <1>5 DEF Inv

\* Time passes.
LEMMA TickPreserves == Inv /\ Tick => Inv'
<1> SUFFICES ASSUME Inv, Tick PROVE Inv'
  OBVIOUS
<1>1. /\ now \in Nat /\ now' = now + 1
      /\ gens \in [GenIds -> Generation]
      /\ made' = made /\ current' = current /\ gens' = gens /\ conn' = conn
  BY DEF Inv, TypeOK, Tick
<1>2. TypeOK' /\ InService' /\ ServiceIsLive' /\ ArmedAfterFloor' /\ DrainWindowBounded'
  BY <1>1 DEF Inv, TypeOK, InService, ServiceIsLive, ArmedAfterFloor, DrainWindowBounded
<1>3. CreatedInPast'
  BY <1>1 DEF Inv, CreatedInPast, Generation
<1>4. DrainWindowKept'
  <2> SUFFICES ASSUME NEW g \in 1 .. made, g # current, gens[g].retired, current # NoGen
               PROVE  now + 1 >= gens[g].replacedAt
                                    + Min2(MinDrainGrace, GraceFor(gens[g].reason))
    BY <1>1 DEF DrainWindowKept
  <2>1. g \in GenIds
    BY DEF Inv, TypeOK, GenIds
  <2>2. gens[g].replacedAt \in Nat /\ Min2(MinDrainGrace, GraceFor(gens[g].reason)) \in Nat
    BY <1>1, <2>1, GraceType DEF Generation, Min2
  <2>3. now >= gens[g].replacedAt + Min2(MinDrainGrace, GraceFor(gens[g].reason))
    BY DEF Inv, DrainWindowKept
  <2>4. QED
    BY <1>1, <2>2, <2>3
<1>5. QED
  BY <1>2, <1>3, <1>4 DEF Inv

\* A step of a user of the tunnel changes only who holds which generation.
ConnStep(c) == Dial(c) \/ DialOk(c) \/ DialErr(c) \/ BindUdp(c) \/ Close(c) \/ Cut(c)

\* Users do not touch the generations.
LEMMA ConnPreserves ==
    ASSUME Inv, NEW c \in Conns, ConnStep(c)
    PROVE  Inv'
<1>1. now' = now /\ made' = made /\ current' = current /\ gens' = gens
  BY DEF ConnStep, Dial, DialOk, DialErr, BindUdp, Close, Cut
<1>2. conn' \in [Conns -> [pc : {"idle"}, gen : {NoGen}]
                       \cup [pc : {"dialing", "open"}, gen : GenIds]]
  <2>1. conn \in [Conns -> [pc : {"idle"}, gen : {NoGen}]
                        \cup [pc : {"dialing", "open"}, gen : GenIds]]
    BY DEF Inv, TypeOK
  <2>2. current \in GenIds \cup {NoGen}
    BY DEF Inv, TypeOK
  <2>3. CASE Dial(c)
    BY <2>1, <2>2, <2>3 DEF Dial, Live
  <2>4. CASE DialOk(c)
    BY <2>1, <2>4 DEF DialOk
  <2>5. CASE DialErr(c)
    BY <2>1, <2>5 DEF DialErr
  <2>6. CASE BindUdp(c)
    BY <2>1, <2>2, <2>6 DEF BindUdp, Live
  <2>7. CASE Close(c)
    BY <2>1, <2>7 DEF Close
  <2>8. CASE Cut(c)
    BY <2>1, <2>8 DEF Cut
  <2>9. QED
    BY <2>3, <2>4, <2>5, <2>6, <2>7, <2>8 DEF ConnStep
<1>3. TypeOK'
  BY <1>1, <1>2 DEF Inv, TypeOK
<1>4. QED
  BY <1>1, <1>3 DEF Inv, InService, ServiceIsLive, ArmedAfterFloor, DrainWindowKept,
     CreatedInPast, DrainWindowBounded

\* Every step keeps the invariant.
LEMMA NextInv == Inv /\ [Next]_vars => Inv'
<1> SUFFICES ASSUME Inv, [Next]_vars PROVE Inv'
  OBVIOUS
<1>1. CASE Tick
  BY <1>1, TickPreserves
<1>2. CASE \E reason \in Reasons : Replace(reason)
  BY <1>2, ReplacePreserves
<1>3. CASE \E g \in GenIds : RetireTimer(g)
  BY <1>3, RetireTimerPreserves
<1>4. CASE Clear
  BY <1>4, ClearPreserves
<1>5. CASE \E c \in Conns : ConnStep(c)
  BY <1>5, ConnPreserves
<1>6. CASE UNCHANGED vars
  BY <1>6 DEF vars, Inv, TypeOK, InService, ServiceIsLive, ArmedAfterFloor, DrainWindowKept,
     CreatedInPast, DrainWindowBounded
<1>7. QED
  BY <1>1, <1>2, <1>3, <1>4, <1>5, <1>6 DEF Next, ConnStep

\* The invariant holds of every reachable state.
LEMMA Invariance == Spec => []Inv
BY InitInv, NextInv, PTL DEF Spec

-----------------------------------------------------------------------------
\* Every state of the generations and their users is well-formed: no lease on
\* a missing tunnel.
THEOREM TypeCorrect == Spec => []TypeOK
<1>1. Inv => TypeOK
  BY DEF Inv
<1>2. QED
  BY <1>1, Invariance, PTL

\* The generation in service is never retired (schedule_retirement, the
\* retirement task and clear).
THEOREM ServiceStaysLive == Spec => []ServiceIsLive
<1>1. Inv => ServiceIsLive
  BY DEF Inv
<1>2. QED
  BY <1>1, Invariance, PTL

\* A replaced generation keeps its drain window, for every drain policy
\* (retirement_delay).
THEOREM DrainWindowIsKept == Spec => []DrainWindowKept
<1>1. Inv => DrainWindowKept
  BY DEF Inv
<1>2. QED
  BY <1>1, Invariance, PTL

\* The drain window is bounded by the grace and by the maximal age
\* (retirement_delay).
THEOREM DrainWindowIsBounded == Spec => []DrainWindowBounded
<1>1. Inv => DrainWindowBounded
  BY DEF Inv
<1>2. QED
  BY <1>1, Invariance, PTL

\* No lease is handed out on a retired generation (dial_tcp, bind_udp).
THEOREM NoDeadLeaseIsGiven == Spec => NoDeadLease
<1>1. ASSUME Inv, [Next]_vars, NEW c \in Conns, conn'[c].pc = "open", conn[c].pc # "open"
      PROVE  ~ gens'[conn'[c].gen].retired
  <2>0. conn \in [Conns -> [pc : {"idle"}, gen : {NoGen}]
                       \cup [pc : {"dialing", "open"}, gen : GenIds]]
    BY <1>1 DEF Inv, TypeOK
  <2>1. PICK d \in Conns : ConnStep(d)
    BY <1>1 DEF Next, ConnStep, Tick, Replace, RetireTimer, Clear, vars
  <2>2. gens' = gens
    BY <2>1 DEF ConnStep, Dial, DialOk, DialErr, BindUdp, Close, Cut
  <2>3. CASE DialOk(d)
    BY <1>1, <2>0, <2>2, <2>3 DEF DialOk
  <2>4. CASE BindUdp(d)
    BY <1>1, <2>0, <2>2, <2>4 DEF BindUdp, Live
  <2>5. CASE Dial(d) \/ DialErr(d) \/ Close(d) \/ Cut(d)
    BY <1>1, <2>0, <2>5 DEF Dial, DialErr, Close, Cut
  <2>6. QED
    BY <2>1, <2>3, <2>4, <2>5 DEF ConnStep
<1>2. Inv /\ [Next]_vars =>
        [\A c \in Conns : conn'[c].pc = "open" /\ conn[c].pc # "open"
            => ~ gens'[conn'[c].gen].retired]_vars
  BY <1>1
<1>3. QED
  BY <1>2, Invariance, PTL DEF Spec, NoDeadLease
=============================================================================
