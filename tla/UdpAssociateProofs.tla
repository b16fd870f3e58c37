------------------------- MODULE UdpAssociateProofs -------------------------
(***************************************************************************)
(* Proofs about UdpAssociate: types, the account of the datagrams, and     *)
(* that the idle timer spares active associations.                         *)
(***************************************************************************)
EXTENDS UdpAssociate, TLAPS, SequenceTheorems

-----------------------------------------------------------------------------
(* Sequences.                                                              *)

\* The elements of three sequences joined.
LEMMA JoinThree ==
  ASSUME NEW S, NEW a \in Seq(S), NEW b \in Seq(S), NEW c \in Seq(S)
  PROVE  /\ a \o b \o c \in Seq(S)
         /\ Len(a \o b \o c) = Len(a) + Len(b) + Len(c)
         /\ DOMAIN (a \o b \o c) = 1 .. Len(a) + Len(b) + Len(c)
         /\ \A i \in 1 .. Len(a) + Len(b) + Len(c) :
               (a \o b \o c)[i] = IF i <= Len(a) THEN a[i]
                                  ELSE IF i <= Len(a) + Len(b) THEN b[i - Len(a)]
                                  ELSE c[i - Len(a) - Len(b)]
<1>1. a \o b \in Seq(S) /\ Len(a \o b) = Len(a) + Len(b)
  OBVIOUS
<1>2. a \o b \o c \in Seq(S) /\ Len(a \o b \o c) = Len(a \o b) + Len(c)
  BY <1>1
<1>3. Len(a) \in Nat /\ Len(b) \in Nat /\ Len(c) \in Nat
  OBVIOUS
<1>4. ASSUME NEW i \in 1 .. Len(a) + Len(b) + Len(c)
      PROVE  (a \o b \o c)[i] = IF i <= Len(a) THEN a[i]
                                ELSE IF i <= Len(a) + Len(b) THEN b[i - Len(a)]
                                ELSE c[i - Len(a) - Len(b)]
  BY <1>1, <1>2, <1>3
<1> QED
  BY <1>1, <1>2, <1>3, <1>4

\* A sequence in order, with every element of one source and up to a number.
Sorted(f, max, from) ==
    /\ \A i, j \in DOMAIN f : i < j => f[i].n < f[j].n
    /\ \A i \in DOMAIN f : f[i].n <= max /\ f[i].from = from

\* What is left of it stays in order.
LEMMA SortedPart ==
  ASSUME NEW f \in Seq(Datagrams), NEW g \in Seq(Datagrams), NEW max, NEW from,
         Sorted(f, max, from),
         NEW k \in [DOMAIN g -> DOMAIN f],
         \A i \in DOMAIN g : g[i] = f[k[i]],
         \A i, j \in DOMAIN g : i < j => k[i] < k[j]
  PROVE  Sorted(g, max, from)
<1>1. \A i \in DOMAIN g : k[i] \in DOMAIN f
  OBVIOUS
<1>2. ASSUME NEW i \in DOMAIN g, NEW j \in DOMAIN g, i < j
      PROVE  g[i].n < g[j].n
  <2>1. k[i] < k[j] /\ k[i] \in DOMAIN f /\ k[j] \in DOMAIN f
    BY <1>1, <1>2
  <2>2. f[k[i]].n < f[k[j]].n
    BY <2>1 DEF Sorted
  <2> QED BY <2>2
<1>3. ASSUME NEW i \in DOMAIN g
      PROVE  g[i].n <= max /\ g[i].from = from
  BY <1>1 DEF Sorted
<1> QED BY <1>2, <1>3 DEF Sorted

\* A newer element at the end keeps it in order.
LEMMA SortedAppend ==
  ASSUME NEW f \in Seq(Datagrams), NEW x \in Datagrams, NEW max \in Nat, NEW from,
         Sorted(f, max, from), x.n = max + 1, x.from = from
  PROVE  Sorted(Append(f, x), max + 1, from)
<1> DEFINE g == Append(f, x)
<1>1. /\ DOMAIN f = 1 .. Len(f) /\ DOMAIN g = 1 .. Len(f) + 1 /\ Len(f) \in Nat
      /\ \A i \in 1 .. Len(f) : g[i] = f[i]
      /\ g[Len(f) + 1] = x
  OBVIOUS
<1>2. \A i \in 1 .. Len(f) : f[i] \in Datagrams
  OBVIOUS
<1>3. \A i \in 1 .. Len(f) : f[i].n \in Nat
  BY <1>2 DEF Datagrams
<1> HIDE DEF g
<1>4. ASSUME NEW i \in DOMAIN g, NEW j \in DOMAIN g, i < j
      PROVE  g[i].n < g[j].n
  <2>1. i \in 1 .. Len(f)
    BY <1>1, <1>4
  <2>2. CASE j = Len(f) + 1
    BY <1>1, <1>3, <2>1, <2>2 DEF Sorted
  <2>3. CASE j # Len(f) + 1
    BY <1>1, <1>3, <1>4, <2>1, <2>3 DEF Sorted
  <2> QED BY <2>2, <2>3
<1>5. ASSUME NEW i \in DOMAIN g
      PROVE  g[i].n <= max + 1 /\ g[i].from = from
  <2>1. CASE i = Len(f) + 1
    BY <1>1, <2>1
  <2>2. CASE i # Len(f) + 1
    <3>1. i \in 1 .. Len(f) /\ g[i] = f[i]
      BY <1>1, <1>5, <2>2
    <3>2. f[i].n <= max /\ f[i].from = from /\ f[i].n \in Nat
      BY <3>1, <1>1, <1>3 DEF Sorted
    <3> QED BY <3>1, <3>2
  <2> QED BY <2>1, <2>2
<1> QED BY <1>4, <1>5 DEF g, Sorted
-----------------------------------------------------------------------------
(* The inductive invariant.                                                *)

\* Before the tunnel's sockets are bound there are no tasks and no datagrams.
NotStarted ==
    /\ hand = "bind" => relay = "off"
    /\ relay \in {"off", "start"} =>
          /\ \A t \in Tasks : task[t] = "off"
          /\ arrived = 0 /\ dropped = 0 /\ failed = 0
          /\ out = <<>> /\ queue = <<>>

\* A transfer that is less than the idle timeout ago has left its permit, or the
\* timer was set after it.
IdleIsLate == relay = "loop" => permit \/ quiet + idle >= IdleTimeout

Inv == TypeOK /\ NotStarted /\ IdleIsLate /\ DatagramsAccounted

-----------------------------------------------------------------------------
(* Type correctness.                                                       *)

\* The types hold initially.
LEMMA TypeInit == Init => TypeOK
<1> SUFFICES ASSUME Init PROVE TypeOK
  OBVIOUS
<1>1. task \in [Tasks -> {"off", "run", "send", "ended"}] /\ task["fwd"] = "off"
  BY DEF Init, Tasks
<1>2. <<>> \in Seq(Datagrams) /\ Len(<<>>) = 0
  OBVIOUS
<1>3. cancel \in BOOLEAN /\ token \in BOOLEAN /\ permit \in BOOLEAN
  BY DEF Init
<1>4. /\ queue \in Seq(Datagrams) /\ Len(queue) <= QueueDepth
      /\ inHand \in Seq(Datagrams) /\ out \in Seq(Datagrams)
      /\ Len(inHand) = IF task["fwd"] = "send" THEN 1 ELSE 0
  BY <1>1, <1>2, UdpAssumption DEF Init
<1>5. /\ grace \in 0 .. StopGrace /\ idle \in 0 .. IdleTimeout /\ quiet \in 0 .. IdleTimeout
      /\ dropped \in Nat /\ arrived \in Nat /\ failed \in Nat
  BY UdpAssumption DEF Init
<1>6. /\ control \in {"silent", "readable"}
      /\ hand \in {"bind", "wait", "stopping", "aborting", "done"}
      /\ relay \in {"off", "start", "loop", "reap", "ended"}
      /\ aborted \subseteq Tasks \cup {"relay"}
      /\ retired \in {"none", "one", "all"}
      /\ pinned \in Ports \cup {"none"}
  BY DEF Init
<1> QED BY <1>1, <1>3, <1>4, <1>5, <1>6 DEF TypeOK

\* A task that ends keeps the types: fwd leaves nothing in hand.
LEMMA TaskEndsType ==
  ASSUME TypeOK, NEW t \in Tasks, TaskEnds(t)
  PROVE  TypeOK'
<1>1. /\ task' \in [Tasks -> {"off", "run", "send", "ended"}]
      /\ task'[t] = "ended" /\ "fwd" \in Tasks
      /\ \A u \in Tasks \ {t} : task'[u] = task[u]
  BY DEF TypeOK, TaskEnds, Tasks
<1>2. <<>> \in Seq(Datagrams) /\ Len(<<>>) = 0
  OBVIOUS
<1>3. CASE t = "fwd"
  BY <1>1, <1>2, <1>3, UdpAssumption DEF TypeOK, TaskEnds, taskFree, handVars
<1>4. CASE t # "fwd"
  BY <1>1, <1>4 DEF TypeOK, TaskEnds, taskFree, handVars
<1> QED BY <1>3, <1>4

\* Every step keeps the types.
LEMMA TypeStep == TypeOK /\ NotStarted /\ [Next]_vars => TypeOK'
<1> SUFFICES ASSUME TypeOK, NotStarted, [Next]_vars PROVE TypeOK'
  OBVIOUS
<1> USE UdpAssumption
<1>1. CASE ServerStops
  BY <1>1 DEF TypeOK, ServerStops, handVars, dataVars, relayVars, taskFree, Tasks
<1>2. CASE ControlReadable
  BY <1>2 DEF TypeOK, ControlReadable, handVars, dataVars, relayVars, taskFree, Tasks
<1>3. CASE Retire
  BY <1>3 DEF TypeOK, Retire, handVars, dataVars, relayVars, taskFree, Tasks
<1>4. CASE BindFails
  BY <1>4 DEF TypeOK, BindFails, handVars, dataVars, relayVars, taskFree, Tasks
<1>5. CASE Associate
  BY <1>5 DEF TypeOK, Associate, handVars, dataVars, relayVars, taskFree, Tasks
<1>6. CASE HandlerLeaves
  BY <1>6 DEF TypeOK, HandlerLeaves, handVars, dataVars, relayVars, taskFree, Tasks
<1>7. CASE HandlerReturns
  BY <1>7 DEF TypeOK, HandlerReturns, handVars, dataVars, relayVars, taskFree, Tasks
<1>8. CASE HandlerAborts
  BY <1>8 DEF TypeOK, HandlerAborts, handVars, dataVars, relayVars, taskFree, Tasks
<1>9. CASE HandlerDropped
  BY <1>9 DEF TypeOK, HandlerDropped, handVars, dataVars, relayVars, taskFree, Tasks, Over
<1>10. CASE RelayFails
  BY <1>10 DEF TypeOK, RelayFails, handVars, dataVars, relayVars, taskFree, Tasks
<1>11. CASE RelayStarts
  <2>1. task["fwd"] = "off" /\ task' \in [Tasks -> {"off", "run", "send", "ended"}]
        /\ task'["fwd"] = "run"
    BY <1>11 DEF RelayStarts, NotStarted, Tasks
  <2>2. idle' \in 0 .. IdleTimeout
    BY <1>11 DEF RelayStarts
  <2> QED BY <1>11, <2>1, <2>2 DEF TypeOK, RelayStarts, handVars, dataVars
<1>12. CASE LoopEnds
  BY <1>12 DEF TypeOK, LoopEnds, handVars, dataVars, relayVars, taskFree, Tasks, LeaveLoop
<1>13. CASE Activity
  <2>1. idle' \in 0 .. IdleTimeout
    BY <1>13 DEF Activity
  <2>2. permit' \in BOOLEAN
    BY <1>13 DEF Activity
  <2> QED BY <1>13, <2>1, <2>2 DEF TypeOK, Activity, handVars, dataVars
<1>14. CASE IdleCut
  BY <1>14 DEF TypeOK, IdleCut, handVars, dataVars, relayVars, taskFree, Tasks, LeaveLoop, NothingEnded
<1>15. CASE RelayReturns
  BY <1>15 DEF TypeOK, RelayReturns, handVars, dataVars, relayVars, taskFree, Tasks
<1>16. CASE RelayDropped
  <2>1. idle' \in 0 .. IdleTimeout /\ quiet' \in 0 .. IdleTimeout
    BY <1>16 DEF RelayDropped
  <2>2. aborted' \subseteq Tasks \cup {"relay"}
    BY <1>16 DEF RelayDropped, TypeOK
  <2> QED BY <1>16, <2>1, <2>2 DEF TypeOK, RelayDropped, handVars, dataVars
<1>17. CASE ForwardBegins
  BY <1>17 DEF TypeOK, ForwardBegins, handVars, dataVars, relayVars, taskFree, Tasks, Runs
<1>18. CASE ForwardOk
  BY <1>18 DEF TypeOK, ForwardOk, handVars, dataVars, relayVars, taskFree, Tasks
<1>19. CASE ForwardFails
  BY <1>19 DEF TypeOK, ForwardFails, handVars, dataVars, relayVars, taskFree, Tasks
<1>20. CASE Reply
  BY <1>20 DEF TypeOK, Reply, handVars, dataVars, relayVars, taskFree, Tasks, Runs
<1>21. CASE Tick
  BY <1>21 DEF TypeOK, Tick, handVars, dataVars, relayVars, taskFree, Tasks, Down
<1>22. ASSUME NEW t \in Tasks, Reap(t) PROVE TypeOK'
  BY <1>22 DEF TypeOK, handVars, dataVars, relayVars, taskFree, Tasks, Reap
<1>23. ASSUME NEW t \in Tasks, TaskStops(t) PROVE TypeOK'
  BY <1>23, TaskEndsType DEF TaskStops
<1>24. ASSUME NEW t \in Tasks, TaskDropped(t) PROVE TypeOK'
  BY <1>24, TaskEndsType DEF TaskDropped
<1>25. ASSUME NEW t \in Tasks, SocketFails(t) PROVE TypeOK'
  BY <1>25, TaskEndsType DEF SocketFails
<1>26. ASSUME NEW from \in Ports, ReceiveDrops(from) PROVE TypeOK'
  BY <1>26 DEF TypeOK, handVars, dataVars, relayVars, taskFree, Tasks, ReceiveDrops, Receive, Runs
<1>27. ASSUME NEW from \in Ports, ReceiveQueues(from) PROVE TypeOK'
  <2>1. arrived' \in Nat /\ pinned' \in Ports \cup {"none"}
    BY <1>27 DEF TypeOK, ReceiveQueues, Receive
  <2>2. [n |-> arrived + 1, from |-> from] \in Datagrams
    BY DEF TypeOK, Datagrams
  <2>3. queue' \in Seq(Datagrams) /\ Len(queue') <= QueueDepth
    BY <1>27, <2>2 DEF TypeOK, ReceiveQueues
  <2> QED BY <1>27, <2>1, <2>3 DEF TypeOK, ReceiveQueues, taskFree, handVars
<1>28. CASE UNCHANGED vars
  BY <1>28 DEF TypeOK, vars, handVars, dataVars, relayVars, taskFree
<1> QED
  BY <1>1, <1>2, <1>3, <1>4, <1>5, <1>6, <1>7, <1>8, <1>9, <1>10, <1>11, <1>12, <1>13, <1>14, <1>15, <1>16, <1>17, <1>18, <1>19, <1>20, <1>21, <1>22, <1>23, <1>24, <1>25, <1>26, <1>27, <1>28 DEF Next, Handler, RunRelay, Data

-----------------------------------------------------------------------------
(* The tasks and the idle timer.                                           *)

\* Nothing happens to the datagrams before the sockets are bound.
LEMMA NotStartedStep == TypeOK /\ NotStarted /\ [Next]_vars => NotStarted'
<1> SUFFICES ASSUME TypeOK, NotStarted, [Next]_vars
             PROVE  NotStarted'
  OBVIOUS
<1>0. hand' = "bind" => relay' = "off"
  BY DEF NotStarted, Next, vars, ServerStops, ControlReadable, Retire, Handler, BindFails,
     Associate, HandlerLeaves, HandlerReturns, HandlerAborts, HandlerDropped, RunRelay,
     RelayFails, RelayStarts, LoopEnds, LeaveLoop, Activity, IdleCut, NothingEnded, Reap,
     RelayReturns, RelayDropped, Over, TaskStops, TaskDropped, SocketFails, TaskEnds, Data,
     ReceiveDrops, ReceiveQueues, ForwardBegins, ForwardOk, ForwardFails, Reply, Tick,
     handVars, dataVars, relayVars, taskFree
<1> SUFFICES ASSUME relay' \in {"off", "start"}
             PROVE  /\ relay \in {"off", "start"}
                    /\ UNCHANGED <<task, arrived, dropped, failed, out, queue>>
  BY <1>0 DEF NotStarted
<1>1. relay \in {"off", "start"}
  BY DEF NotStarted, Next, vars, ServerStops, ControlReadable, Retire, Handler, BindFails, Associate,
     HandlerLeaves, HandlerReturns, HandlerAborts, HandlerDropped, RunRelay, RelayFails,
     RelayStarts, LoopEnds, LeaveLoop, Activity, IdleCut, NothingEnded, Reap, RelayReturns,
     RelayDropped, TaskStops, TaskDropped, SocketFails, TaskEnds, Data, ReceiveDrops,
     ReceiveQueues, ForwardBegins, ForwardOk, ForwardFails, Reply, Tick, handVars, dataVars,
     relayVars, taskFree
<1>2. \A t \in Tasks : task[t] = "off"
  BY <1>1 DEF NotStarted
<1>3. ASSUME NEW t \in Tasks PROVE ~ TaskStops(t) /\ ~ TaskDropped(t) /\ ~ SocketFails(t)
  BY <1>2 DEF TaskStops, TaskDropped, SocketFails, Runs, Over
<1>4. ~ Data
  <2>1. task["recv"] = "off" /\ task["fwd"] = "off" /\ task["reply"] = "off"
    BY <1>2 DEF Tasks
  <2>2. ASSUME NEW from \in Ports PROVE ~ ReceiveDrops(from) /\ ~ ReceiveQueues(from)
    BY <2>1 DEF ReceiveDrops, ReceiveQueues, Receive, Runs
  <2>3. ~ ForwardBegins /\ ~ ForwardOk /\ ~ ForwardFails /\ ~ Reply
    BY <2>1 DEF ForwardBegins, ForwardOk, ForwardFails, Reply, Runs
  <2> QED BY <2>2, <2>3 DEF Data
<1> QED
  BY <1>1, <1>3, <1>4 DEF Next, vars, ServerStops, ControlReadable, Retire, Handler, BindFails,
     Associate, HandlerLeaves, HandlerReturns, HandlerAborts, HandlerDropped, RunRelay,
     RelayFails, RelayStarts, LoopEnds, LeaveLoop, Activity, IdleCut, NothingEnded, Reap,
     RelayReturns, RelayDropped, Tick, handVars, dataVars, relayVars

\* The idle timer stays behind the last transfer.
LEMMA IdleStep == TypeOK /\ IdleIsLate /\ [Next]_vars => IdleIsLate'
<1> SUFFICES ASSUME TypeOK, IdleIsLate, [Next]_vars, relay' = "loop"
             PROVE  permit' \/ quiet' + idle' >= IdleTimeout
  BY DEF IdleIsLate
<1> USE UdpAssumption
<1>1. quiet \in 0 .. IdleTimeout /\ idle \in 0 .. IdleTimeout
  BY DEF TypeOK
<1>2. CASE RelayStarts \/ Activity
  <2>1. idle' = IdleTimeout /\ quiet' = quiet
    BY <1>2 DEF RelayStarts, Activity
  <2> QED BY <1>1, <2>1
<1>3. CASE ForwardOk \/ Reply
  <2>1. permit' = TRUE
    BY <1>3 DEF ForwardOk, Reply
  <2> QED BY <2>1
<1>4. CASE Tick
  <2>1. /\ relay = "loop" /\ UNCHANGED permit
        /\ idle' = Down(idle)
        /\ quiet' = IF quiet < IdleTimeout THEN quiet + 1 ELSE quiet
    BY <1>4 DEF Tick
  <2>2. quiet + idle >= IdleTimeout => quiet' + idle' >= IdleTimeout
    BY <1>1, <2>1 DEF Down
  <2>3. permit \/ quiet + idle >= IdleTimeout
    BY <2>1 DEF IdleIsLate
  <2> QED BY <2>1, <2>2, <2>3
<1>5. CASE UNCHANGED <<relay, permit, quiet, idle>>
  <2>1. relay = "loop" /\ permit' = permit /\ quiet' = quiet /\ idle' = idle
    BY <1>5
  <2> QED BY <2>1 DEF IdleIsLate
<1>6. ASSUME ~ (RelayStarts \/ Activity), ~ (ForwardOk \/ Reply), ~ Tick
      PROVE  UNCHANGED <<relay, permit, quiet, idle>>
  BY <1>6 DEF Next, vars, ServerStops, ControlReadable, Retire, Handler, BindFails, Associate,
     HandlerLeaves, HandlerReturns, HandlerAborts, HandlerDropped, RunRelay, RelayFails,
     LoopEnds, LeaveLoop, IdleCut, Reap, RelayReturns, RelayDropped, TaskStops, TaskDropped,
     SocketFails, TaskEnds, Data, ReceiveDrops, ReceiveQueues, ForwardBegins, ForwardFails,
     handVars, dataVars, relayVars, taskFree
<1> QED BY <1>2, <1>3, <1>4, <1>5, <1>6

-----------------------------------------------------------------------------
(* The account of the datagrams.                                           *)

\* The flow of a state of the right type.
LEMMA FlowShape ==
  ASSUME TypeOK
  PROVE  /\ Flow \in Seq(Datagrams)
         /\ Len(Flow) = Len(out) + Len(inHand) + Len(queue)
         /\ DOMAIN Flow = 1 .. Len(out) + Len(inHand) + Len(queue)
         /\ \A i \in 1 .. Len(out) + Len(inHand) + Len(queue) :
               Flow[i] = IF i <= Len(out) THEN out[i]
                         ELSE IF i <= Len(out) + Len(inHand) THEN inHand[i - Len(out)]
                         ELSE queue[i - Len(out) - Len(inHand)]
<1>1. out \in Seq(Datagrams) /\ inHand \in Seq(Datagrams) /\ queue \in Seq(Datagrams)
  BY DEF TypeOK
<1> QED BY <1>1, JoinThree DEF Flow

\* The account in terms of Sorted.
LEMMA AccountIsSorted ==
  DatagramsAccounted <=>
    /\ Sorted(Flow, arrived, pinned)
    /\ ~ Over(task["fwd"]) => arrived = Len(Flow) + failed + dropped
BY DEF DatagramsAccounted, Sorted

\* A step that leaves its data alone keeps the account.
LEMMA AccountUnchanged ==
  ASSUME DatagramsAccounted, UNCHANGED <<dataVars, task>>
  PROVE  DatagramsAccounted'
BY DEF DatagramsAccounted, dataVars, Flow

\* The sockets are bound: there are no datagrams yet.
LEMMA AccountStarts ==
  ASSUME TypeOK, NotStarted, DatagramsAccounted, RelayStarts
  PROVE  DatagramsAccounted'
<1>1. UNCHANGED dataVars /\ relay = "start"
  BY DEF RelayStarts
<1>2. Flow' = Flow /\ arrived' = arrived /\ failed' = failed /\ dropped' = dropped
      /\ pinned' = pinned
  BY <1>1 DEF dataVars, Flow
<1>3. /\ arrived = 0 /\ failed = 0 /\ dropped = 0
      /\ Len(out) = 0 /\ Len(inHand) = 0 /\ Len(queue) = 0
  <2>1. task["fwd"] = "off"
    BY <1>1 DEF NotStarted, Tasks
  <2> QED BY <1>1, <2>1 DEF NotStarted, TypeOK
<1>4. Len(Flow) = 0
  BY <1>3, FlowShape
<1> QED BY <1>2, <1>3, <1>4, AccountIsSorted DEF DatagramsAccounted

\* A task ends, fwd with what it holds.
LEMMA AccountTaskEnds ==
  ASSUME TypeOK, TypeOK', DatagramsAccounted, NEW t \in Tasks, TaskEnds(t)
  PROVE  DatagramsAccounted'
<1>1. CASE t # "fwd"
  <2>1. task'["fwd"] = task["fwd"] /\ UNCHANGED dataVars
    BY <1>1 DEF TaskEnds, TypeOK, Tasks, dataVars
  <2> QED BY <2>1 DEF DatagramsAccounted, dataVars, Flow
<1>2. CASE t = "fwd"
  <2>1. /\ task'["fwd"] = "ended" /\ queue' = <<>> /\ inHand' = <<>>
        /\ out' = out /\ arrived' = arrived /\ pinned' = pinned
    BY <1>2 DEF TaskEnds, TypeOK, Tasks
  <2>2. /\ Flow' \in Seq(Datagrams)
        /\ DOMAIN Flow' = 1 .. Len(out)
        /\ \A i \in 1 .. Len(out) : Flow'[i] = out[i]
    <3>1. out \in Seq(Datagrams) /\ <<>> \in Seq(Datagrams) /\ Len(<<>>) = 0
          /\ Len(out) \in Nat
      BY DEF TypeOK
    <3>2. Flow' = out \o <<>> \o <<>>
      BY <2>1 DEF Flow
    <3> QED BY <3>1, <3>2, JoinThree
  <2>3. /\ Flow \in Seq(Datagrams) /\ Len(out) \in Nat
        /\ 1 .. Len(out) \subseteq DOMAIN Flow
        /\ \A i \in 1 .. Len(out) : Flow[i] = out[i]
    <3>1. Len(out) \in Nat /\ Len(inHand) \in Nat /\ Len(queue) \in Nat
      BY DEF TypeOK
    <3> QED BY <3>1, FlowShape
  <2> DEFINE k == [i \in DOMAIN Flow' |-> i]
  <2>4. Sorted(Flow', arrived, pinned)
    <3>1. k \in [DOMAIN Flow' -> DOMAIN Flow]
      BY <2>2, <2>3
    <3>2. \A i \in DOMAIN Flow' : Flow'[i] = Flow[k[i]]
      BY <2>2, <2>3
    <3>3. \A i, j \in DOMAIN Flow' : i < j => k[i] < k[j]
      OBVIOUS
    <3>4. Sorted(Flow, arrived, pinned)
      BY AccountIsSorted
    <3> HIDE DEF k
    <3> QED BY <2>2, <2>3, <3>1, <3>2, <3>3, <3>4, SortedPart
  <2> QED BY <2>1, <2>4 DEF DatagramsAccounted, Sorted, Over
<1> QED BY <1>1, <1>2

\* A datagram is counted as dropped.
LEMMA AccountDrop ==
  ASSUME TypeOK, DatagramsAccounted, NEW from \in Ports, ReceiveDrops(from)
  PROVE  DatagramsAccounted'
<1>1. /\ UNCHANGED <<task, queue, inHand, out, failed>>
      /\ arrived' = arrived + 1 /\ dropped' = dropped + 1
      /\ pinned' = from /\ pinned \in {"none", from}
  BY DEF ReceiveDrops, Receive
<1>2. Flow' = Flow
  BY <1>1 DEF Flow
<1>3. /\ arrived \in Nat /\ dropped \in Nat /\ failed \in Nat /\ Len(Flow) \in Nat
      /\ Flow \in Seq(Datagrams)
  BY FlowShape DEF TypeOK
<1>4. ASSUME NEW i \in DOMAIN Flow
      PROVE  Flow[i].n <= arrived + 1 /\ Flow[i].from = from
  <2>1. Flow[i] \in Datagrams
    BY <1>3
  <2>2. Flow[i].n \in Nat /\ Flow[i].from \in Ports
    BY <2>1 DEF Datagrams
  <2>3. Flow[i].n <= arrived /\ Flow[i].from = pinned
    BY DEF DatagramsAccounted
  <2> QED BY <1>1, <1>3, <2>2, <2>3, UdpAssumption
<1>5. ~ Over(task["fwd"]) => arrived + 1 = Len(Flow) + failed + (dropped + 1)
  BY <1>3 DEF DatagramsAccounted
<1> QED BY <1>1, <1>2, <1>4, <1>5 DEF DatagramsAccounted

\* A datagram goes to the end of the queue.
LEMMA AccountQueue ==
  ASSUME TypeOK, DatagramsAccounted, NEW from \in Ports, ReceiveQueues(from)
  PROVE  DatagramsAccounted'
<1> DEFINE x == [n |-> arrived + 1, from |-> from]
<1>1. /\ UNCHANGED <<task, dropped, inHand, out, failed>>
      /\ arrived' = arrived + 1 /\ queue' = Append(queue, x)
      /\ pinned' = from /\ pinned \in {"none", from}
  BY DEF ReceiveQueues, Receive
<1>2. /\ arrived \in Nat /\ dropped \in Nat /\ failed \in Nat /\ Len(Flow) \in Nat
      /\ Flow \in Seq(Datagrams)
  BY FlowShape DEF TypeOK
<1>3. x \in Datagrams /\ x.n = arrived + 1 /\ x.from = from
  BY <1>2 DEF Datagrams
<1> HIDE DEF x
<1>4. Flow' = Append(Flow, x)
  <2>1. out \in Seq(Datagrams) /\ inHand \in Seq(Datagrams) /\ queue \in Seq(Datagrams)
    BY DEF TypeOK
  <2>2. out \o inHand \in Seq(Datagrams)
    BY <2>1
  <2>3. (out \o inHand) \o Append(queue, x) = Append((out \o inHand) \o queue, x)
    BY <1>3, <2>1, <2>2
  <2> QED BY <1>1, <2>3 DEF Flow
<1>5. Sorted(Flow, arrived, from)
  <2>1. ASSUME NEW i \in DOMAIN Flow PROVE Flow[i].n <= arrived /\ Flow[i].from = from
    <3>1. Flow[i] \in Datagrams
      BY <1>2
    <3>2. Flow[i].from \in Ports
      BY <3>1 DEF Datagrams
    <3>3. Flow[i].n <= arrived /\ Flow[i].from = pinned
      BY DEF DatagramsAccounted
    <3> QED BY <1>1, <3>2, <3>3, UdpAssumption
  <2> QED BY <2>1 DEF Sorted, DatagramsAccounted
<1>6. Sorted(Flow', arrived', pinned')
  BY <1>1, <1>2, <1>3, <1>4, <1>5, SortedAppend
<1>7. Len(Flow') = Len(Flow) + 1
  BY <1>2, <1>3, <1>4
<1>8. ~ Over(task["fwd"]) => arrived + 1 = (Len(Flow) + 1) + failed + dropped
  BY <1>2 DEF DatagramsAccounted
<1> QED BY <1>1, <1>6, <1>7, <1>8 DEF DatagramsAccounted, Sorted

\* A datagram passes from the queue into the hand of fwd.
LEMMA AccountForwardBegins ==
  ASSUME TypeOK, DatagramsAccounted, ForwardBegins
  PROVE  DatagramsAccounted'
<1>1. /\ task' = [task EXCEPT !["fwd"] = "send"] /\ task["fwd"] = "run" /\ queue # <<>>
      /\ inHand' = <<Head(queue)>> /\ queue' = Tail(queue)
      /\ UNCHANGED <<pinned, dropped, arrived, out, failed>>
  BY DEF ForwardBegins, Runs
<1>2. /\ out \in Seq(Datagrams) /\ inHand \in Seq(Datagrams) /\ queue \in Seq(Datagrams)
      /\ Len(inHand) = 0
  BY <1>1 DEF TypeOK
<1>3. inHand = <<>>
  BY <1>2
<1>4. <<Head(queue)>> \o Tail(queue) = queue
  BY <1>1, <1>2
<1>5. out \o <<Head(queue)>> \o Tail(queue) = out \o (<<Head(queue)>> \o Tail(queue))
  <2>1. <<Head(queue)>> \in Seq(Datagrams) /\ Tail(queue) \in Seq(Datagrams)
    BY <1>1, <1>2
  <2> QED BY <1>2, <2>1, ConcatAssociative
<1>6. out \o <<>> = out
  BY <1>2, ConcatEmptySeq
<1>7. Flow' = Flow
  BY <1>1, <1>3, <1>4, <1>5, <1>6 DEF Flow
<1>8. ~ Over(task["fwd"])
  BY <1>1 DEF Over
<1> QED BY <1>1, <1>7, <1>8 DEF DatagramsAccounted

\* The datagram in hand is sent.
LEMMA AccountForwardOk ==
  ASSUME TypeOK, DatagramsAccounted, ForwardOk
  PROVE  DatagramsAccounted'
<1>1. /\ task["fwd"] = "send"
      /\ out' = out \o inHand /\ inHand' = <<>>
      /\ UNCHANGED <<pinned, queue, dropped, arrived, failed>>
  BY DEF ForwardOk
<1>2. out \in Seq(Datagrams) /\ inHand \in Seq(Datagrams)
  BY DEF TypeOK
<1>3. out \o inHand \in Seq(Datagrams)
  BY <1>2
<1>4. (out \o inHand) \o <<>> = out \o inHand
  BY <1>3, ConcatEmptySeq
<1>5. Flow' = Flow
  BY <1>1, <1>4 DEF Flow
<1>6. ~ Over(task["fwd"])
  BY <1>1 DEF Over
<1> QED BY <1>1, <1>5, <1>6 DEF DatagramsAccounted

\* The datagram in hand is given up: the rest closes up and stays in order.
LEMMA AccountForwardFails ==
  ASSUME TypeOK, DatagramsAccounted, ForwardFails
  PROVE  DatagramsAccounted'
<1>1. /\ task["fwd"] = "send" /\ inHand' = <<>> /\ failed' = failed + 1
      /\ UNCHANGED <<pinned, queue, dropped, arrived, out>>
  BY DEF ForwardFails
<1>2. /\ out \in Seq(Datagrams) /\ inHand \in Seq(Datagrams) /\ queue \in Seq(Datagrams)
      /\ Len(inHand) = 1
      /\ Len(out) \in Nat /\ Len(queue) \in Nat
      /\ arrived \in Nat /\ dropped \in Nat /\ failed \in Nat
  BY <1>1 DEF TypeOK
<1> DEFINE m == Len(out)
           l == Len(out) + Len(queue)
<1>3. /\ Flow \in Seq(Datagrams) /\ Len(Flow) = l + 1 /\ DOMAIN Flow = 1 .. l + 1
      /\ \A i \in 1 .. l + 1 :
            Flow[i] = IF i <= m THEN out[i]
                      ELSE IF i <= m + 1 THEN inHand[i - m] ELSE queue[i - m - 1]
  <2>1. Len(out) + Len(inHand) + Len(queue) = l + 1
    BY <1>2
  <2>2. Flow \in Seq(Datagrams) /\ Len(Flow) = l + 1 /\ DOMAIN Flow = 1 .. l + 1
    BY <2>1, FlowShape
  <2>3. ASSUME NEW i \in 1 .. l + 1
        PROVE  Flow[i] = IF i <= m THEN out[i]
                         ELSE IF i <= m + 1 THEN inHand[i - m] ELSE queue[i - m - 1]
    <3>1. Flow[i] = IF i <= Len(out) THEN out[i]
                    ELSE IF i <= Len(out) + Len(inHand) THEN inHand[i - Len(out)]
                    ELSE queue[i - Len(out) - Len(inHand)]
      BY <2>1, FlowShape
    <3> QED BY <1>2, <3>1
  <2> QED BY <2>2, <2>3
<1>4. /\ Flow' \in Seq(Datagrams) /\ Len(Flow') = l /\ DOMAIN Flow' = 1 .. l
      /\ \A i \in 1 .. l : Flow'[i] = IF i <= m THEN out[i] ELSE queue[i - m]
  <2>1. Flow' = out \o <<>> \o queue
    BY <1>1 DEF Flow
  <2>2. <<>> \in Seq(Datagrams) /\ Len(<<>>) = 0
    OBVIOUS
  <2> QED BY <1>2, <2>1, <2>2, JoinThree
<1> DEFINE k == [i \in DOMAIN Flow' |-> IF i <= m THEN i ELSE i + 1]
<1>5. l \in Nat /\ m \in Nat /\ m <= l
  BY <1>2
<1> HIDE DEF l, m
<1>6. Sorted(Flow', arrived, pinned)
  <2>1. k \in [DOMAIN Flow' -> DOMAIN Flow]
    BY <1>3, <1>4, <1>5
  <2>2. \A i \in DOMAIN Flow' : Flow'[i] = Flow[k[i]]
    BY <1>3, <1>4, <1>5
  <2>3. \A i, j \in DOMAIN Flow' : i < j => k[i] < k[j]
    BY <1>4, <1>5
  <2>4. Sorted(Flow, arrived, pinned)
    BY AccountIsSorted
  <2> HIDE DEF k
  <2> QED BY <1>3, <1>4, <2>1, <2>2, <2>3, <2>4, SortedPart
<1>7. arrived = Len(Flow) + failed + dropped
  BY <1>1 DEF DatagramsAccounted, Over
<1>8. arrived = Len(Flow') + (failed + 1) + dropped
  BY <1>2, <1>3, <1>4, <1>5, <1>7
<1> QED BY <1>1, <1>6, <1>8 DEF DatagramsAccounted, Sorted

\* Every step keeps the account.
LEMMA AccountStep ==
  ASSUME TypeOK, TypeOK', NotStarted, DatagramsAccounted, [Next]_vars
  PROVE  DatagramsAccounted'
<1>1. CASE RelayStarts
  BY <1>1, AccountStarts
<1>2. ASSUME NEW t \in Tasks, TaskStops(t) \/ TaskDropped(t) \/ SocketFails(t)
      PROVE  DatagramsAccounted'
  BY <1>2, AccountTaskEnds DEF TaskStops, TaskDropped, SocketFails
<1>3. CASE Data
  <2>1. CASE Reply
    BY <2>1, AccountUnchanged DEF Reply
  <2> QED
    BY <1>3, <2>1, AccountDrop, AccountQueue, AccountForwardBegins, AccountForwardOk,
       AccountForwardFails DEF Data
<1>4. ASSUME ~ RelayStarts, ~ Data,
             ~ \E t \in Tasks : TaskStops(t) \/ TaskDropped(t) \/ SocketFails(t)
      PROVE  UNCHANGED <<dataVars, task>>
  BY <1>4 DEF Next, vars, ServerStops, ControlReadable, Retire, Handler, BindFails, Associate,
     HandlerLeaves, HandlerReturns, HandlerAborts, HandlerDropped, RunRelay, RelayFails,
     LoopEnds, LeaveLoop, Activity, IdleCut, Reap, RelayReturns, RelayDropped, Tick, relayVars
<1> QED BY <1>1, <1>2, <1>3, <1>4, AccountUnchanged

-----------------------------------------------------------------------------
(* Theorems.                                                               *)

\* The invariant holds initially.
LEMMA InvInit == Init => Inv
<1> SUFFICES ASSUME Init PROVE Inv
  OBVIOUS
<1>1. TypeOK
  BY TypeInit
<1>2. NotStarted
  BY DEF Init, NotStarted
<1>3. IdleIsLate
  BY DEF Init, IdleIsLate
<1>4. /\ Len(Flow) = 0 /\ DOMAIN Flow = {}
      /\ arrived = 0 /\ failed = 0 /\ dropped = 0
  <2>1. Len(out) = 0 /\ Len(inHand) = 0 /\ Len(queue) = 0
    BY DEF Init
  <2> QED BY <1>1, <2>1, FlowShape DEF Init
<1>5. DatagramsAccounted
  BY <1>4 DEF DatagramsAccounted
<1> QED BY <1>1, <1>2, <1>3, <1>5 DEF Inv

\* Every step preserves it.
LEMMA InvStep == Inv /\ [Next]_vars => Inv'
<1> SUFFICES ASSUME Inv, [Next]_vars PROVE Inv'
  OBVIOUS
<1>1. TypeOK'
  BY TypeStep DEF Inv
<1>2. NotStarted'
  BY NotStartedStep DEF Inv
<1>3. IdleIsLate'
  BY IdleStep DEF Inv
<1>4. DatagramsAccounted'
  BY <1>1, AccountStep DEF Inv
<1> QED BY <1>1, <1>2, <1>3, <1>4 DEF Inv

\* The types, the bound of the client-to-tunnel queue among them, hold in every
\* state of run_relay and its handler.
THEOREM TypeCorrect == Spec => []TypeOK
<1>1. Inv => TypeOK
  BY DEF Inv
<1> QED BY <1>1, InvInit, InvStep, PTL DEF Spec

\* For every queue depth and any number of ports and datagrams: each datagram of
\* the client is accounted for, in order and from the pinned source.
THEOREM DatagramsAreAccounted == Spec => []DatagramsAccounted
<1>1. Inv => DatagramsAccounted
  BY DEF Inv
<1> QED BY <1>1, InvInit, InvStep, PTL DEF Spec

\* The idle branch of run_relay is taken only after a whole idle timeout without
\* a transfer.
THEOREM IdleSparesActive == Spec => ActiveAssociationKept
<1> DEFINE A == relay = "loop" /\ relay' = "reap" /\ ~ token
                /\ (\A t \in Tasks : task[t] # "ended")
                => quiet = IdleTimeout
<1>1. Inv /\ [Next]_vars => [A]_vars
  <2> SUFFICES ASSUME Inv, [Next]_vars, relay = "loop", relay' = "reap", ~ token,
                      \A t \in Tasks : task[t] # "ended"
               PROVE  quiet = IdleTimeout
    OBVIOUS
  <2>1. IdleCut
    BY DEF Next, vars, ServerStops, ControlReadable, Retire, Handler, BindFails, Associate,
       HandlerLeaves, HandlerReturns, HandlerAborts, HandlerDropped, RunRelay, RelayFails,
       RelayStarts, LoopEnds, LeaveLoop, Activity, Reap, RelayReturns, RelayDropped,
       TaskStops, TaskDropped, SocketFails, TaskEnds, Data, ReceiveDrops, ReceiveQueues,
       ForwardBegins, ForwardOk, ForwardFails, Reply, Tick, handVars, relayVars, taskFree
  <2>2. idle = 0 /\ ~ permit
    BY <2>1 DEF IdleCut
  <2>3. quiet + idle >= IdleTimeout
    BY <2>2 DEF Inv, IdleIsLate
  <2>4. quiet \in 0 .. IdleTimeout
    BY DEF Inv, TypeOK
  <2> QED BY <2>2, <2>3, <2>4, UdpAssumption
<1> QED BY <1>1, InvInit, InvStep, PTL DEF Spec, ActiveAssociationKept

-----------------------------------------------------------------------------
(* The tasks of an association.                                            *)

\* Who is over has left nothing running that nobody has aborted: a returned or
\* dropped handler no relay (AbortOnDropHandle in handle_udp_associate), a relay
\* that is over no task (the reaping of run_relay, or its handles).
NoOrphan ==
    /\ hand = "done" => Over(relay) \/ "relay" \in aborted
    /\ Over(relay) => \A t \in Tasks : Over(task[t]) \/ t \in aborted

\* A task that is over stays over, and an abort is never taken back.
LEMMA TaskStaysOver ==
    ASSUME TypeOK, NEW t \in Tasks, [Next]_vars, relay # "start"
    PROVE  /\ Over(task[t]) => Over(task'[t])
           /\ aborted \subseteq aborted'
<1> USE DEF Over
<1>1. task \in [Tasks -> {"off", "run", "send", "ended"}]
  BY DEF TypeOK
<1>2. ASSUME NEW u \in Tasks, TaskEnds(u)
      PROVE  Over(task[t]) => Over(task'[t])
  BY <1>1, <1>2 DEF TaskEnds
<1>3. ASSUME ForwardBegins \/ ForwardOk \/ ForwardFails
      PROVE  Over(task[t]) => Over(task'[t])
  <2>1. \E pc : task' = [task EXCEPT !["fwd"] = pc] /\ ~ Over(task["fwd"])
    BY <1>3 DEF ForwardBegins, ForwardOk, ForwardFails, Runs
  <2> QED BY <1>1, <2>1
<1>4. ASSUME UNCHANGED task
      PROVE  Over(task[t]) => Over(task'[t])
  BY <1>4
<1>5. \/ \E u \in Tasks : TaskEnds(u)
      \/ ForwardBegins \/ ForwardOk \/ ForwardFails
      \/ UNCHANGED task
  BY DEF Next, vars, ServerStops, ControlReadable, Retire, Handler, BindFails, Associate,
     HandlerLeaves, HandlerReturns, HandlerAborts, HandlerDropped, RunRelay, RelayFails,
     RelayStarts, LoopEnds, LeaveLoop, Activity, IdleCut, Reap, RelayReturns, RelayDropped,
     TaskStops, TaskDropped, SocketFails, Data, ReceiveDrops, ReceiveQueues, Reply, Tick,
     relayVars, taskFree
<1>6. aborted \subseteq aborted'
  BY DEF Next, vars, ServerStops, ControlReadable, Retire, Handler, BindFails, Associate,
     HandlerLeaves, HandlerReturns, HandlerAborts, HandlerDropped, RunRelay, RelayFails,
     RelayStarts, LoopEnds, LeaveLoop, Activity, IdleCut, Reap, RelayReturns, RelayDropped,
     TaskStops, TaskDropped, SocketFails, TaskEnds, Data, ReceiveDrops, ReceiveQueues,
     ForwardBegins, ForwardOk, ForwardFails, Reply, Tick, relayVars, taskFree
<1> QED BY <1>2, <1>3, <1>4, <1>5, <1>6

\* Every step keeps the ownership of the tasks.
LEMMA NoOrphanStep == Inv /\ NoOrphan /\ [Next]_vars => NoOrphan'
<1> SUFFICES ASSUME Inv, NoOrphan, [Next]_vars PROVE NoOrphan'
  OBVIOUS
<1>0. TypeOK /\ NotStarted
  BY DEF Inv
<1>1. ASSUME hand' = "done"
      PROVE  Over(relay') \/ "relay" \in aborted'
  <2>1. CASE BindFails \/ HandlerLeaves \/ HandlerReturns \/ HandlerDropped
    BY <1>0, <1>1, <2>1 DEF NotStarted, Over, BindFails, HandlerLeaves, HandlerReturns,
       HandlerDropped, relayVars
  <2>2. ASSUME ~ (BindFails \/ HandlerLeaves \/ HandlerReturns \/ HandlerDropped)
        PROVE  hand = "done" /\ aborted \subseteq aborted'
    BY <1>1, <2>2 DEF Next, vars, ServerStops, ControlReadable, Retire, Handler, Associate,
       HandlerAborts, RunRelay, RelayFails, RelayStarts, LoopEnds, LeaveLoop, Activity,
       IdleCut, Reap, RelayReturns, RelayDropped, TaskStops, TaskDropped, SocketFails,
       TaskEnds, Data, ReceiveDrops, ReceiveQueues, ForwardBegins, ForwardOk, ForwardFails,
       Reply, Tick, handVars, relayVars, taskFree
  <2>3. ASSUME ~ (BindFails \/ HandlerLeaves \/ HandlerReturns \/ HandlerDropped),
               Over(relay)
        PROVE  Over(relay')
    <3>1. hand = "done"
      BY <2>2, <2>3
    <3> QED
      BY <2>3, <3>1 DEF Over, Next, vars, ServerStops, ControlReadable, Retire, Handler,
         Associate, HandlerAborts, RunRelay, RelayFails, RelayStarts, LoopEnds, LeaveLoop,
         Activity, IdleCut, NothingEnded, Reap, RelayReturns, RelayDropped, TaskStops,
         TaskDropped, SocketFails, TaskEnds, Data, ReceiveDrops, ReceiveQueues,
         ForwardBegins, ForwardOk, ForwardFails, Reply, Tick, relayVars, taskFree
  <2> QED BY <2>1, <2>2, <2>3 DEF NoOrphan
<1>2. ASSUME Over(relay'), NEW t \in Tasks
      PROVE  Over(task'[t]) \/ t \in aborted'
  <2>1. CASE relay = "start"
    <3>1. task[t] = "off" /\ \A u \in Tasks : task[u] = "off"
      BY <1>0, <2>1 DEF NotStarted
    <3>2. relay' # "loop"
      BY <1>2 DEF Over
    <3>3. UNCHANGED task
      <4>1. ~ \E u \in Tasks : TaskStops(u) \/ TaskDropped(u) \/ SocketFails(u)
        BY <3>1 DEF TaskStops, TaskDropped, SocketFails, Runs, Over
      <4>2. task["fwd"] = "off"
        BY <3>1 DEF Tasks
      <4>3. ~ ForwardBegins /\ ~ ForwardOk /\ ~ ForwardFails
        BY <4>2 DEF ForwardBegins, ForwardOk, ForwardFails, Runs
      <4> QED
        BY <2>1, <3>2, <4>1, <4>3 DEF Next, vars, ServerStops, ControlReadable, Retire,
           Handler, BindFails, Associate, HandlerLeaves, HandlerReturns, HandlerAborts,
           HandlerDropped, RunRelay, RelayFails, RelayStarts, LoopEnds, LeaveLoop, Activity,
           IdleCut, Reap, RelayReturns, RelayDropped, Data, ReceiveDrops, ReceiveQueues,
           Reply, Tick, relayVars
    <3> QED BY <3>1, <3>3 DEF Over
  <2>2. CASE Over(relay)
    <3>1. relay # "start"
      BY <2>2 DEF Over
    <3> QED BY <1>0, <2>2, <3>1, TaskStaysOver DEF NoOrphan
  <2>3. CASE relay # "start" /\ ~ Over(relay)
    <3>1. RelayReturns \/ RelayDropped
      BY <1>0, <1>2, <2>3 DEF NotStarted, Over, Next, vars, ServerStops, ControlReadable,
         Retire, Handler, BindFails, Associate, HandlerLeaves, HandlerReturns, HandlerAborts,
         HandlerDropped, RunRelay, RelayFails, RelayStarts, LoopEnds, LeaveLoop, Activity,
         IdleCut, Reap, TaskStops, TaskDropped, SocketFails, TaskEnds, Data, ReceiveDrops,
         ReceiveQueues, ForwardBegins, ForwardOk, ForwardFails, Reply, Tick, handVars,
         relayVars, taskFree
    <3>2. CASE RelayReturns
      BY <3>2 DEF RelayReturns, Over
    <3>3. CASE RelayDropped
      BY <3>3 DEF RelayDropped
    <3> QED BY <3>1, <3>2, <3>3
  <2> QED BY <2>1, <2>2, <2>3
<1> QED BY <1>1, <1>2 DEF NoOrphan

\* An association leaves no relay and no task behind that is not at least aborted,
\* on every way out: return, error, grace period, abort or drop, of the handler or
\* of the relay (handle_udp_associate and run_relay).
THEOREM AssociationOwnsItsTasks == Spec => []NoOrphan
<1>1. Init => NoOrphan
  BY DEF Init, NoOrphan, Over
<1> QED BY <1>1, NoOrphanStep, InvInit, InvStep, PTL DEF Spec

=============================================================================
