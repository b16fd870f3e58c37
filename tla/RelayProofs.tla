---------------------------- MODULE RelayProofs -----------------------------
(***************************************************************************)
(* Proofs about Relay, for every idle timeout, grace period and chunk size *)
(* and for every length of the run.                                        *)
(***************************************************************************)
EXTENDS Relay, TLAPS

\* What the handler knows of the tasks at each of its program points.
CoordInv ==
    /\ coord.pc \in {"grace", "reap"} =>
          /\ task[coord.first].pc \in Ended
          /\ task[coord.first].at + Grace <= coord.deadline
    /\ coord.pc = "reap" => coord.deadline <= now
    /\ coord.pc \in {"joined", "watch", "done"} => \A d \in Dirs : task[d].pc \in Ended
    /\ coord.pc = "done" => ~ watcher.on

\* Times of the past are in the past.
ClockInv ==
    /\ lastTransfer <= now
    /\ \A d \in Dirs : task[d].at <= now

\* The counters lag by what the chunk in hand has already written.
CountInv ==
    \A d \in Dirs :
        /\ counted[d] + task[d].chunk = written[d] + task[d].left
        /\ task[d].left = 0 => task[d].chunk = 0
        /\ task[d].pc = "read" => task[d].left = 0

\* A transfer the deadline does not cover yet is announced by the permit.
WatchInv == watcher.on /\ ~ token => permit \/ lastTransfer + Idle <= watcher.deadline

Inv == TypeOK /\ ClockInv /\ CoordInv /\ CountInv /\ WatchInv /\ GraceIsKept

-----------------------------------------------------------------------------
\* The steps of a copying task, as opposed to those of the watcher, of the
\* handler and of the environment.
TaskStep(d) ==
    \/ \E k \in 1 .. MaxPieces : ReadChunk(d, k)
    \/ ReadEnd(d) \/ StopOnToken(d) \/ WritePiece(d) \/ WriteDone(d) \/ WriteFails(d)
    \/ Shutdown(d) \/ Aborted(d)

\* What any step of a copying task does to the record of that task, to the
\* counters, to the token and to the permit.
LEMMA TaskStepShape ==
    ASSUME Inv, NEW d \in Dirs, TaskStep(d)
    PROVE  /\ task[d].pc \notin Ended
           /\ \E t \in Tasks, c \in Nat, w \in Nat :
                 /\ task' = [task EXCEPT ![d] = t]
                 /\ counted' = [counted EXCEPT ![d] = c]
                 /\ written' = [written EXCEPT ![d] = w]
                 /\ t.left <= t.chunk
                 /\ t.at <= now
                 /\ c + t.chunk = w + t.left
                 /\ t.left = 0 => t.chunk = 0
                 /\ t.pc = "read" => t.left = 0
           /\ token' \in BOOLEAN /\ (token => token')
           /\ permit' \in BOOLEAN /\ (permit => permit')
           /\ lastTransfer' = lastTransfer \/ (lastTransfer' = now /\ permit')
           /\ UNCHANGED <<now, abort, watcher, coord, retired>>
<1> USE RelayAssumption
<1> DEFINE T == task[d]
           Shape(t, c, w) ==
                 /\ t \in Tasks /\ c \in Nat /\ w \in Nat
                 /\ task' = [task EXCEPT ![d] = t]
                 /\ counted' = [counted EXCEPT ![d] = c]
                 /\ written' = [written EXCEPT ![d] = w]
                 /\ t.left <= t.chunk
                 /\ t.at <= now
                 /\ c + t.chunk = w + t.left
                 /\ t.left = 0 => t.chunk = 0
                 /\ t.pc = "read" => t.left = 0
<1>0. /\ T \in Tasks /\ T.left <= T.chunk /\ T.at <= now
      /\ T.pc \in {"read", "write", "shutdown"} \cup Ended
      /\ T.chunk \in Nat /\ T.left \in Nat /\ T.reads \in Nat /\ T.at \in Nat
      /\ now \in Nat /\ token \in BOOLEAN /\ permit \in BOOLEAN
      /\ counted[d] \in Nat /\ written[d] \in Nat
      /\ counted[d] + T.chunk = written[d] + T.left
      /\ T.left = 0 => T.chunk = 0
      /\ T.pc = "read" => T.left = 0
      /\ counted = [counted EXCEPT ![d] = counted[d]]
      /\ written = [written EXCEPT ![d] = written[d]]
  BY DEF Inv, TypeOK, ClockInv, CountInv, Tasks
<1>1. ASSUME NEW k \in 1 .. MaxPieces, ReadChunk(d, k)
      PROVE  \E r \in Nat : Shape([T EXCEPT !.pc = "write", !.chunk = k, !.left = k, !.reads = r],
                                  counted[d], written[d])
  <2> DEFINE r == T.reads + 1
             t == [T EXCEPT !.pc = "write", !.chunk = k, !.left = k, !.reads = r]
  <2>1. k \in Nat /\ k > 0 /\ r \in Nat
    BY <1>0 DEF RelayAssumption
  <2>2. T.left = 0 /\ T.chunk = 0 /\ UNCHANGED <<counted, written>>
    BY <1>0, <1>1 DEF ReadChunk, Reading
  <2>3. task' = [task EXCEPT ![d] = t]
    BY <1>1 DEF ReadChunk
  <2> HIDE DEF r
  <2>4. ASSUME NEW S \in Tasks
        PROVE  /\ [S EXCEPT !.pc = "write", !.chunk = k, !.left = k, !.reads = r] \in Tasks
               /\ [S EXCEPT !.pc = "write", !.chunk = k, !.left = k, !.reads = r].pc = "write"
               /\ [S EXCEPT !.pc = "write", !.chunk = k, !.left = k, !.reads = r].chunk = k
               /\ [S EXCEPT !.pc = "write", !.chunk = k, !.left = k, !.reads = r].left = k
               /\ [S EXCEPT !.pc = "write", !.chunk = k, !.left = k, !.reads = r].at = S.at
    BY <2>1 DEF Tasks
  <2>5. t \in Tasks /\ t.pc = "write" /\ t.chunk = k /\ t.left = k /\ t.at = T.at
    BY <1>0, <2>4
  <2> HIDE DEF T, t
  <2>6. Shape(t, counted[d], written[d])
    BY <1>0, <2>1, <2>2, <2>3, <2>5
  <2>7. QED
    BY <2>1, <2>6 DEF t
<1>2. ASSUME ReadEnd(d) \/ StopOnToken(d) \/ WriteFails(d)
      PROVE  Shape([T EXCEPT !.pc = "shutdown"], counted[d], written[d])
  <2> DEFINE t == [T EXCEPT !.pc = "shutdown"]
  <2>1. /\ UNCHANGED <<counted, written>>
        /\ task' = [task EXCEPT ![d] = t]
    BY <1>0, <1>2 DEF ReadEnd, StopOnToken, WriteFails
  <2>2. ASSUME NEW S \in Tasks
        PROVE  /\ [S EXCEPT !.pc = "shutdown"] \in Tasks
               /\ [S EXCEPT !.pc = "shutdown"].pc = "shutdown"
               /\ [S EXCEPT !.pc = "shutdown"].chunk = S.chunk
               /\ [S EXCEPT !.pc = "shutdown"].left = S.left
               /\ [S EXCEPT !.pc = "shutdown"].at = S.at
    BY <1>0, <2>1 DEF Tasks, Ended
  <2>3. t \in Tasks /\ t.pc = "shutdown" /\ t.chunk = T.chunk /\ t.left = T.left /\ t.at = T.at
    BY <1>0, <2>1, <2>2
  <2> HIDE DEF T, t
  <2>4. Shape(t, counted[d], written[d])
    BY <1>0, <2>1, <2>3
  <2>5. QED
    BY <2>4 DEF t
<1>3. ASSUME WritePiece(d)
      PROVE  Shape([T EXCEPT !.left = @ - 1], counted[d], written[d] + 1)
  <2> DEFINE t == [T EXCEPT !.left = @ - 1]
  <2>1. /\ T.left > 1 /\ T.pc = "write" /\ counted' = counted
        /\ written' = [written EXCEPT ![d] = written[d] + 1]
        /\ task' = [task EXCEPT ![d] = t]
    BY <1>0, <1>3 DEF WritePiece, Writing
  <2>2. ASSUME NEW S \in Tasks, S.left > 1
        PROVE  /\ [S EXCEPT !.left = @ - 1] \in Tasks
               /\ [S EXCEPT !.left = @ - 1].pc = S.pc
               /\ [S EXCEPT !.left = @ - 1].chunk = S.chunk
               /\ [S EXCEPT !.left = @ - 1].left = S.left - 1
               /\ [S EXCEPT !.left = @ - 1].at = S.at
    BY <1>0, <2>1, <2>2 DEF Tasks, Ended
  <2>3. t \in Tasks /\ t.pc = T.pc /\ t.chunk = T.chunk /\ t.left = T.left - 1 /\ t.at = T.at
    BY <1>0, <2>1, <2>2
  <2> HIDE DEF T, t
  <2>4. Shape(t, counted[d], written[d] + 1)
    BY <1>0, <2>1, <2>3
  <2>5. QED
    BY <2>4 DEF t
<1>4. ASSUME WriteDone(d)
      PROVE  Shape([T EXCEPT !.left = 0, !.chunk = 0, !.pc = "read"],
                   counted[d] + T.chunk, written[d] + 1)
  <2> DEFINE t == [T EXCEPT !.left = 0, !.chunk = 0, !.pc = "read"]
  <2>1. /\ T.left = 1
        /\ counted' = [counted EXCEPT ![d] = counted[d] + T.chunk]
        /\ written' = [written EXCEPT ![d] = written[d] + 1]
        /\ task' = [task EXCEPT ![d] = t]
    BY <1>0, <1>4 DEF WriteDone
  <2>2. ASSUME NEW S \in Tasks
        PROVE  /\ [S EXCEPT !.left = 0, !.chunk = 0, !.pc = "read"] \in Tasks
               /\ [S EXCEPT !.left = 0, !.chunk = 0, !.pc = "read"].pc = "read"
               /\ [S EXCEPT !.left = 0, !.chunk = 0, !.pc = "read"].chunk = 0
               /\ [S EXCEPT !.left = 0, !.chunk = 0, !.pc = "read"].left = 0
               /\ [S EXCEPT !.left = 0, !.chunk = 0, !.pc = "read"].at = S.at
    BY <1>0, <2>1 DEF Tasks, Ended
  <2>3. t \in Tasks /\ t.pc = "read" /\ t.chunk = 0 /\ t.left = 0 /\ t.at = T.at
    BY <1>0, <2>1, <2>2
  <2> HIDE DEF T, t
  <2>4. Shape(t, counted[d] + T.chunk, written[d] + 1)
    BY <1>0, <2>1, <2>3
  <2>5. QED
    BY <2>4 DEF t
<1>5. ASSUME NEW p \in Ended, task' = [task EXCEPT ![d].pc = p, ![d].at = now],
             UNCHANGED <<counted, written>>
      PROVE  Shape([T EXCEPT !.pc = p, !.at = now], counted[d], written[d])
  <2> DEFINE t == [T EXCEPT !.pc = p, !.at = now]
  <2>1. /\ p # "read" /\ UNCHANGED <<counted, written>>
        /\ task' = [task EXCEPT ![d] = t]
    BY <1>0, <1>5 DEF Ended
  <2>2. ASSUME NEW S \in Tasks
        PROVE  /\ [S EXCEPT !.pc = p, !.at = now] \in Tasks
               /\ [S EXCEPT !.pc = p, !.at = now].pc = p
               /\ [S EXCEPT !.pc = p, !.at = now].chunk = S.chunk
               /\ [S EXCEPT !.pc = p, !.at = now].left = S.left
               /\ [S EXCEPT !.pc = p, !.at = now].at = now
    BY <1>0, <2>1 DEF Tasks, Ended
  <2>3. t \in Tasks /\ t.pc = p /\ t.chunk = T.chunk /\ t.left = T.left /\ t.at = now
    BY <1>0, <2>1, <2>2
  <2> HIDE DEF T, t
  <2>4. Shape(t, counted[d], written[d])
    BY <1>0, <2>1, <2>3
  <2>5. QED
    BY <2>4 DEF t
<1>6. /\ T.pc \notin Ended
      /\ token' \in BOOLEAN /\ (token => token')
      /\ permit' \in BOOLEAN /\ (permit => permit')
      /\ lastTransfer' = lastTransfer \/ (lastTransfer' = now /\ permit')
      /\ UNCHANGED <<now, abort, watcher, coord, retired>>
  BY <1>0 DEF TaskStep, ReadChunk, ReadEnd, StopOnToken, WritePiece, WriteDone, WriteFails,
              Shutdown, Aborted, Reading, Writing, Ended
<1>7. \E t \in Tasks, c \in Nat, w \in Nat : Shape(t, c, w)
  <2> HIDE DEF Shape
  <2> SUFFICES \E t, c, w : Shape(t, c, w)
    BY DEF Shape
  <2>1. CASE \E k \in 1 .. MaxPieces : ReadChunk(d, k)
    BY <1>1, <2>1
  <2>2. CASE ReadEnd(d) \/ StopOnToken(d) \/ WriteFails(d)
    BY <1>2, <2>2
  <2>3. CASE WritePiece(d)
    BY <1>3, <2>3
  <2>4. CASE WriteDone(d)
    BY <1>4, <2>4
  <2>5. CASE Shutdown(d) \/ Aborted(d)
    <3>1. PICK p \in Ended : /\ task' = [task EXCEPT ![d].pc = p, ![d].at = now]
                             /\ UNCHANGED <<counted, written>>
      BY <2>5 DEF Shutdown, Aborted, Ended
    <3>2. QED
      BY <1>5, <3>1
  <2>6. QED
    BY <2>1, <2>2, <2>3, <2>4, <2>5 DEF TaskStep
<1>8. QED
  BY <1>6, <1>7

\* The directions are each other's other.
LEMMA OtherOfOther ==
    ASSUME NEW d \in Dirs
    PROVE  Other(d) \in Dirs /\ Other(d) # d /\ Other(Other(d)) = d /\ Dirs = {d, Other(d)}
BY DEF Other, Dirs

\* The relay starts in a state of the invariant.
LEMMA InitInv == Init => Inv
<1> SUFFICES ASSUME Init PROVE Inv
  OBVIOUS
<1> USE RelayAssumption DEF RelayAssumption
<1>1. TypeOK
  <2>1. [pc |-> "read", chunk |-> 0, left |-> 0, reads |-> 0, at |-> 0] \in Tasks
    BY DEF Tasks
  <2>2. coord \in Coords
    BY DEF Init, Coords, Dirs
  <2>3. watcher \in [on : BOOLEAN, deadline : Nat]
    BY DEF Init
  <2>4. /\ task \in [Dirs -> Tasks]
        /\ \A d \in Dirs : task[d].left <= task[d].chunk
    BY <2>1 DEF Init
  <2>5. /\ abort \in [Dirs -> BOOLEAN]
        /\ counted \in [Dirs -> Nat] /\ written \in [Dirs -> Nat]
    BY DEF Init
  <2>6. now \in Nat /\ token \in BOOLEAN /\ permit \in BOOLEAN /\ retired \in BOOLEAN
        /\ lastTransfer \in Nat
    BY DEF Init
  <2>7. QED
    BY <2>2, <2>3, <2>4, <2>5, <2>6 DEF TypeOK
<1>2. ClockInv /\ CoordInv /\ CountInv /\ WatchInv /\ GraceIsKept
  BY DEF Init, ClockInv, CoordInv, CountInv, WatchInv, GraceIsKept
<1>3. QED
  BY <1>1, <1>2 DEF Inv

\* A step of a copying task keeps the invariant.
LEMMA TaskStepInv ==
    ASSUME Inv, NEW d \in Dirs, TaskStep(d)
    PROVE  Inv'
<1> USE RelayAssumption DEF RelayAssumption
<1>1. PICK t \in Tasks, c \in Nat, w \in Nat :
         /\ task' = [task EXCEPT ![d] = t]
         /\ counted' = [counted EXCEPT ![d] = c]
         /\ written' = [written EXCEPT ![d] = w]
         /\ t.left <= t.chunk
         /\ t.at <= now
         /\ c + t.chunk = w + t.left
         /\ t.left = 0 => t.chunk = 0
         /\ t.pc = "read" => t.left = 0
  BY TaskStepShape
<1>2. /\ task[d].pc \notin Ended
      /\ token' \in BOOLEAN /\ (token => token')
      /\ permit' \in BOOLEAN /\ (permit => permit')
      /\ lastTransfer' = lastTransfer \/ (lastTransfer' = now /\ permit')
      /\ UNCHANGED <<now, abort, watcher, coord, retired>>
  BY TaskStepShape
<1>3. /\ task'[d] = t /\ counted'[d] = c /\ written'[d] = w
      /\ \A o \in Dirs : o # d => /\ task'[o] = task[o] /\ counted'[o] = counted[o]
                                 /\ written'[o] = written[o]
      /\ task' \in [Dirs -> Tasks] /\ counted' \in [Dirs -> Nat] /\ written' \in [Dirs -> Nat]
  BY <1>1 DEF Inv, TypeOK
<1>4. \A o \in Dirs : task[o].pc \in Ended => task'[o] = task[o]
  BY <1>2, <1>3
<1>5. TypeOK'
  BY <1>1, <1>2, <1>3 DEF Inv, TypeOK
<1>6. ClockInv' /\ CountInv'
  BY <1>1, <1>2, <1>3 DEF Inv, TypeOK, ClockInv, CountInv
<1>7. CoordInv'
  BY <1>2, <1>4 DEF Inv, CoordInv, TypeOK, Coords
<1>8. WatchInv'
  BY <1>2 DEF Inv, WatchInv, TypeOK
<1>9. GraceIsKept'
  BY <1>2, <1>4, OtherOfOther DEF Inv, GraceIsKept
<1>10. QED
  BY <1>5, <1>6, <1>7, <1>8, <1>9 DEF Inv

\* A step of the watcher keeps the invariant.
LEMMA WatchStepInv ==
    ASSUME Inv, Watch
    PROVE  Inv'
<1> USE RelayAssumption DEF RelayAssumption
<1>1. /\ UNCHANGED <<now, task, abort, coord, retired, counted, written, lastTransfer>>
      /\ token' \in BOOLEAN /\ permit' \in BOOLEAN
      /\ watcher' \in [on : BOOLEAN, deadline : Nat]
      /\ watcher'.on => watcher.on
      /\ watcher'.on => lastTransfer + Idle <= watcher'.deadline
  <2>1. CASE WatcherRenews
    <3>1. now + Idle \in Nat /\ lastTransfer + Idle <= now + Idle
      BY DEF Inv, TypeOK, ClockInv
    <3>2. watcher'.on = watcher.on /\ watcher'.deadline = now + Idle
      BY <2>1 DEF WatcherRenews, Inv, TypeOK
    <3>3. watcher' \in [on : BOOLEAN, deadline : Nat]
      BY <2>1, <3>1 DEF WatcherRenews, Inv, TypeOK
    <3>4. QED
      BY <2>1, <3>1, <3>2, <3>3 DEF WatcherRenews, Inv, TypeOK
  <2>2. CASE WatcherCuts \/ WatcherStops
    BY <2>2 DEF WatcherCuts, WatcherStops, Inv, TypeOK
  <2>3. QED
    BY <2>1, <2>2 DEF Watch
<1>2. TypeOK' /\ ClockInv' /\ CoordInv' /\ CountInv' /\ GraceIsKept'
  BY <1>1 DEF Inv, TypeOK, ClockInv, CoordInv, CountInv, GraceIsKept
<1>3. WatchInv'
  BY <1>1 DEF WatchInv
<1>4. QED
  BY <1>2, <1>3 DEF Inv

\* A step of the handler keeps the invariant.
LEMMA CoordinateStepInv ==
    ASSUME Inv, Coordinate \/ HandlerDropped
    PROVE  Inv'
<1> USE RelayAssumption DEF RelayAssumption
<1>1. /\ UNCHANGED <<now, task, permit, watcher, retired, counted, written, lastTransfer>>
      /\ token' \in BOOLEAN /\ (token => token')
  BY DEF Coordinate, FirstEnds, SecondEnds, GraceOver, StopWatcher, RelayReturns,
         HandlerDropped, Inv, TypeOK
<1>2. ClockInv' /\ CountInv' /\ WatchInv'
  BY <1>1 DEF Inv, ClockInv, CountInv, WatchInv, TypeOK
<1>3. coord' \in Coords /\ abort' \in [Dirs -> BOOLEAN]
  <2>1. CASE \E d \in Dirs : FirstEnds(d)
    BY <2>1 DEF FirstEnds, Inv, TypeOK, Coords
  <2>2. CASE SecondEnds \/ StopWatcher \/ RelayReturns
    BY <2>2 DEF SecondEnds, StopWatcher, RelayReturns, Inv, TypeOK, Coords
  <2>3. CASE GraceOver \/ HandlerDropped
    <3>1. coord' \in Coords
      BY <2>3 DEF GraceOver, HandlerDropped, Inv, TypeOK, Coords
    <3>2. abort' \in [Dirs -> BOOLEAN]
      BY <2>3 DEF GraceOver, HandlerDropped, Inv, TypeOK
    <3>3. QED
      BY <3>1, <3>2
  <2>4. QED
    BY <2>1, <2>2, <2>3 DEF Coordinate
<1>4. TypeOK'
  BY <1>1, <1>3 DEF Inv, TypeOK
<1>5. CASE \E d \in Dirs : FirstEnds(d)
  <2>1. PICK d \in Dirs : FirstEnds(d)
    BY <1>5
  <2>2. coord'.pc = "grace" /\ coord'.first = d /\ coord'.deadline = now + Grace
    BY <2>1 DEF FirstEnds
  <2>3. CoordInv'
    BY <1>1, <2>1, <2>2 DEF FirstEnds, CoordInv, Inv, ClockInv, TypeOK, Tasks
  <2>4. GraceIsKept'
    BY <1>1, <2>1 DEF FirstEnds, GraceIsKept, Inv
  <2>5. QED
    BY <1>2, <1>4, <2>3, <2>4 DEF Inv
<1>6. CASE SecondEnds
  <2>1. coord'.pc = "joined" /\ coord.pc # "dropped" /\ abort' = abort
    BY <1>6 DEF SecondEnds, Inv, TypeOK, Coords
  <2>2. CoordInv'
    BY <1>1, <1>6, <2>1, OtherOfOther DEF SecondEnds, CoordInv, Inv, TypeOK, Coords
  <2>3. GraceIsKept'
    BY <1>1, <2>1 DEF GraceIsKept, Inv
  <2>4. QED
    BY <1>2, <1>4, <2>2, <2>3 DEF Inv
<1>7. CASE GraceOver
  <2>1. /\ coord'.pc = "reap" /\ coord'.first = coord.first /\ coord'.deadline = coord.deadline
        /\ coord.pc = "grace" /\ coord.deadline <= now /\ coord.first \in Dirs
        /\ coord.deadline \in Nat
        /\ abort' = [abort EXCEPT ![Other(coord.first)] = TRUE]
    BY <1>7 DEF GraceOver, Inv, TypeOK, Coords
  <2>2. CoordInv'
    BY <1>1, <2>1 DEF CoordInv, Inv
  <2>3. task[coord.first].pc \in Ended /\ now >= task[coord.first].at + Grace
    BY <2>1 DEF CoordInv, Inv, TypeOK, Tasks
  <2>4. GraceIsKept'
    BY <1>1, <2>1, <2>3, OtherOfOther DEF GraceIsKept, Inv, TypeOK
  <2>5. QED
    BY <1>2, <1>4, <2>2, <2>4 DEF Inv
<1>8. CASE StopWatcher \/ RelayReturns
  <2>1. /\ coord.pc \in {"joined", "watch"} /\ coord'.pc \in {"watch", "done"}
        /\ coord'.pc = "done" => ~ watcher.on
        /\ abort' = abort
    BY <1>8 DEF StopWatcher, RelayReturns, Inv, TypeOK, Coords
  <2>2. CoordInv'
    BY <1>1, <2>1 DEF CoordInv, Inv
  <2>3. GraceIsKept'
    BY <1>1, <2>1 DEF GraceIsKept, Inv
  <2>4. QED
    BY <1>2, <1>4, <2>2, <2>3 DEF Inv
<1>9. CASE HandlerDropped
  <2>1. coord'.pc = "dropped"
    BY <1>9 DEF HandlerDropped, Inv, TypeOK, Coords
  <2>2. CoordInv' /\ GraceIsKept'
    BY <2>1 DEF CoordInv, GraceIsKept
  <2>3. QED
    BY <1>2, <1>4, <2>2 DEF Inv
<1>10. QED
  BY <1>5, <1>6, <1>7, <1>8, <1>9 DEF Coordinate

\* Every step keeps the invariant.
LEMMA NextInv == Inv /\ [Next]_vars => Inv'
<1> SUFFICES ASSUME Inv, [Next]_vars PROVE Inv'
  OBVIOUS
<1> USE RelayAssumption DEF RelayAssumption
<1>1. CASE Tick
  BY <1>1 DEF Tick, Inv, TypeOK, Tasks, ClockInv, CoordInv, CountInv, WatchInv, GraceIsKept,
              Coords, Other, Dirs
<1>2. CASE Retire
  BY <1>2 DEF Retire, Inv, TypeOK, ClockInv, CoordInv, CountInv, WatchInv, GraceIsKept
<1>3. CASE Watch
  BY <1>3, WatchStepInv
<1>4. CASE Coordinate \/ HandlerDropped
  BY <1>4, CoordinateStepInv
<1>5. CASE \E d \in Dirs : TaskStep(d)
  BY <1>5, TaskStepInv
<1>6. CASE UNCHANGED vars
  BY <1>6 DEF vars, Inv, TypeOK, ClockInv, CoordInv, CountInv, WatchInv, GraceIsKept
<1>7. QED
  BY <1>1, <1>2, <1>3, <1>4, <1>5, <1>6 DEF Next, TaskStep

\* The invariant holds of every reachable state.
LEMMA Invariance == Spec => []Inv
BY InitInv, NextInv, PTL DEF Spec

-----------------------------------------------------------------------------
\* The variables of the relay keep their types, and a task never has more left
\* to write than the chunk it read.
THEOREM TypeCorrect == Spec => []TypeOK
<1>1. Inv => TypeOK
  BY DEF Inv
<1>2. QED
  BY <1>1, Invariance, PTL

\* A relay that has returned leaves no task behind: coordinate_relay joins both
\* tasks, and relay_with_idle_timeout the watcher.
THEOREM RelayLeavesNoTask == Spec => []NoTaskLeft
<1>1. Inv => NoTaskLeft
  BY DEF Inv, CoordInv, NoTaskLeft
<1>2. QED
  BY <1>1, Invariance, PTL

\* No half is aborted before its grace period is over.
THEOREM GracePeriodIsKept == Spec => []GraceIsKept
<1>1. Inv => GraceIsKept
  BY DEF Inv
<1>2. QED
  BY <1>1, Invariance, PTL

\* up_bytes and down_bytes never run ahead of the sockets.
THEOREM CountersAreExact == Spec => []CountsAreExact
<1>1. Inv => CountsAreExact
  BY DEF Inv, TypeOK, Tasks, CountInv, CountsAreExact
<1>2. QED
  BY <1>1, Invariance, PTL

\* The idle watcher cuts idle relays only.
THEOREM IdleWatcherSparesActive == Spec => ActiveRelayIsKept
<1>1. Inv /\ [Next]_vars =>
         [ ~ token /\ token' /\ watcher # watcher' => now >= lastTransfer + Idle ]_vars
  <2> SUFFICES ASSUME Inv, Next, ~ token, token', watcher # watcher'
               PROVE  now >= lastTransfer + Idle
    BY DEF vars
  <2>1. WatcherCuts
    BY DEF Next, Tick, Retire, Watch, WatcherRenews, WatcherStops, Coordinate, FirstEnds,
           SecondEnds, GraceOver, StopWatcher, RelayReturns, HandlerDropped, ReadChunk, ReadEnd,
           StopOnToken, WritePiece, WriteDone, WriteFails, Shutdown, Aborted
  <2>2. QED
    BY <2>1, RelayAssumption DEF WatcherCuts, Inv, WatchInv, TypeOK, RelayAssumption
<1>2. QED
  BY <1>1, Invariance, PTL DEF Spec, ActiveRelayIsKept
=============================================================================
