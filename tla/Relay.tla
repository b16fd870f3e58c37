------------------------------- MODULE Relay --------------------------------
(***************************************************************************)
(* The TCP relay of one SOCKS5 CONNECT: relay_with_idle_timeout and        *)
(* coordinate_relay of src/proxy/tcp.rs.                                   *)
(*                                                                         *)
(* Two tasks copy, one per direction; a watcher cancels both when nothing  *)
(* was transferred for a while; the handler waits for the first task to    *)
(* end, gives the other a grace period, then aborts it.  The token they    *)
(* share is looked at before a read and never during a write.  The peers   *)
(* are free: they send, close, reset, and read or do not read.             *)
(***************************************************************************)
EXTENDS Integers

CONSTANTS
    Idle,         \* limits.idle_timeout
    Grace,        \* limits.relay_close_grace
    MaxChunks,    \* bound: reads that return data, per direction
    MaxPieces,    \* bound: pieces a write_all hands to its socket one by one
    MaxTime       \* bound: the clock stops here once no timer is armed

ASSUME RelayAssumption ==
    /\ Idle \in Nat \ {0} /\ Grace \in Nat
    /\ MaxChunks \in Nat /\ MaxPieces \in Nat \ {0} /\ MaxTime \in Nat

Dirs == {"up", "down"}       \* send: client to upstream; recv: upstream to client
Other(d) == IF d = "up" THEN "down" ELSE "up"

VARIABLES
    now,
    task,        \* per direction: the copying task
    abort,       \* per direction: JoinHandle::abort was called
    token,       \* the shared CancellationToken is cancelled
    permit,      \* activity: the Notify holds a permit
    watcher,     \* the idle watcher and its deadline
    coord,       \* the handler's future, in coordinate_relay and after it
    retired,     \* the tunnel generation of the upstream lease is retired
    counted,     \* per direction: up_bytes and down_bytes, in pieces
    written,     \* history: pieces the socket really took
    lastTransfer \* history: when a write was last completed

vars == <<now, task, abort, token, permit, watcher, coord, retired,
          counted, written, lastTransfer>>

Ended == {"ended", "aborted"}

\* chunk: size of the chunk being written; left: how much of it is not written;
\* reads: number of chunks read; at: history, when the task ended.
Tasks == [pc : {"read", "write", "shutdown"} \cup Ended, chunk : Nat, left : Nat,
          reads : Nat, at : Nat]

Coords == [pc : {"first", "grace", "reap", "joined", "watch", "done", "dropped"},
           first : Dirs, deadline : Nat]

TypeOK ==
    /\ now \in Nat
    /\ task \in [Dirs -> Tasks]
    /\ \A d \in Dirs : task[d].left <= task[d].chunk
    /\ abort \in [Dirs -> BOOLEAN]
    /\ token \in BOOLEAN
    /\ permit \in BOOLEAN
    /\ watcher \in [on : BOOLEAN, deadline : Nat]
    /\ coord \in Coords
    /\ retired \in BOOLEAN
    /\ counted \in [Dirs -> Nat]
    /\ written \in [Dirs -> Nat]
    /\ lastTransfer \in Nat

Init ==
    /\ now = 0
    /\ task = [d \in Dirs |-> [pc |-> "read", chunk |-> 0, left |-> 0, reads |-> 0, at |-> 0]]
    /\ abort = [d \in Dirs |-> FALSE]
    /\ token = FALSE
    /\ permit = FALSE
    /\ watcher = [on |-> TRUE, deadline |-> Idle]
    /\ coord = [pc |-> "first", first |-> "up", deadline |-> 0]
    /\ retired = FALSE
    /\ counted = [d \in Dirs |-> 0]
    /\ written = [d \in Dirs |-> 0]
    /\ lastTransfer = 0

-----------------------------------------------------------------------------
(* The copying tasks.                                                      *)

\* The loop is at its biased select: the token comes first.
Reading(d) == task[d].pc = "read" /\ ~ token

\* Mutant of ReadChunk: the bytes are counted when they are read.
ReadChunkCounted(d, k) ==
    /\ Reading(d)
    /\ task[d].reads < MaxChunks
    /\ d = "down" => ~ retired
    /\ task' = [task EXCEPT ![d].pc = "write", ![d].chunk = k, ![d].left = k,
                            ![d].reads = @ + 1]
    /\ counted' = [counted EXCEPT ![d] = @ + k]
    /\ UNCHANGED <<now, abort, token, permit, watcher, coord, retired, written, lastTransfer>>

\* read returns data.
ReadChunk(d, k) ==
    /\ Reading(d)
    /\ task[d].reads < MaxChunks
    /\ d = "down" => ~ retired
    /\ task' = [task EXCEPT ![d].pc = "write", ![d].chunk = k, ![d].left = k,
                            ![d].reads = @ + 1]
    /\ UNCHANGED <<now, abort, token, permit, watcher, coord, retired, counted, written,
                   lastTransfer>>

\* read returns 0 or an error.
ReadEnd(d) ==
    /\ Reading(d)
    /\ task' = [task EXCEPT ![d].pc = "shutdown"]
    /\ UNCHANGED <<now, abort, token, permit, watcher, coord, retired, counted, written,
                   lastTransfer>>

StopOnToken(d) ==
    /\ task[d].pc = "read" /\ token
    /\ task' = [task EXCEPT ![d].pc = "shutdown"]
    /\ UNCHANGED <<now, abort, token, permit, watcher, coord, retired, counted, written,
                   lastTransfer>>

\* The upstream lease fails every write once its generation is retired.
Writing(d) ==
    /\ task[d].pc = "write"
    /\ d = "up" => ~ retired

\* Mutant of WritePiece: the end of the chunk is not noticed.
WritePieceUnchecked(d) ==
    /\ Writing(d)
    /\ task' = [task EXCEPT ![d].left = @ - 1]
    /\ written' = [written EXCEPT ![d] = @ + 1]
    /\ UNCHANGED <<now, abort, token, permit, watcher, coord, retired, counted, lastTransfer>>

\* The socket takes a piece and more is left of the chunk.
WritePiece(d) ==
    /\ Writing(d)
    /\ task[d].left > 1
    /\ task' = [task EXCEPT ![d].left = @ - 1]
    /\ written' = [written EXCEPT ![d] = @ + 1]
    /\ UNCHANGED <<now, abort, token, permit, watcher, coord, retired, counted, lastTransfer>>

\* Mutant of WriteDone: an upload does not renew the idle timer.
WriteDoneSilentUp(d) ==
    /\ Writing(d)
    /\ task[d].left = 1
    /\ task' = [task EXCEPT ![d].left = 0, ![d].chunk = 0, ![d].pc = "read"]
    /\ written' = [written EXCEPT ![d] = @ + 1]
    /\ counted' = [counted EXCEPT ![d] = @ + task[d].chunk]
    /\ permit' = (permit \/ d = "down")
    /\ lastTransfer' = now
    /\ UNCHANGED <<now, abort, token, watcher, coord, retired>>

\* write_all returns Ok: count the chunk, notify_one.
WriteDone(d) ==
    /\ Writing(d)
    /\ task[d].left = 1
    /\ task' = [task EXCEPT ![d].left = 0, ![d].chunk = 0, ![d].pc = "read"]
    /\ written' = [written EXCEPT ![d] = @ + 1]
    /\ counted' = [counted EXCEPT ![d] = @ + task[d].chunk]
    /\ permit' = TRUE
    /\ lastTransfer' = now
    /\ UNCHANGED <<now, abort, token, watcher, coord, retired>>

WriteFails(d) ==
    /\ task[d].pc = "write"
    /\ task' = [task EXCEPT ![d].pc = "shutdown"]
    /\ UNCHANGED <<now, abort, token, permit, watcher, coord, retired, counted, written,
                   lastTransfer>>

\* After the loop: close the write half, cancel the token.
Shutdown(d) ==
    /\ task[d].pc = "shutdown"
    /\ task' = [task EXCEPT ![d].pc = "ended", ![d].at = now]
    /\ token' = TRUE
    /\ UNCHANGED <<now, abort, permit, watcher, coord, retired, counted, written, lastTransfer>>

\* An abort takes effect at an await.  The end of the send task has none.
Aborted(d) ==
    /\ abort[d]
    /\ task[d].pc \in {"read", "write"} \/ (d = "down" /\ task[d].pc = "shutdown")
    /\ task' = [task EXCEPT ![d].pc = "aborted", ![d].at = now]
    /\ UNCHANGED <<now, abort, token, permit, watcher, coord, retired, counted, written,
                   lastTransfer>>

-----------------------------------------------------------------------------
(* The idle watcher: token, then activity, then the deadline.              *)

WatcherRenews ==
    /\ watcher.on /\ ~ token
    /\ permit
    /\ permit' = FALSE
    /\ watcher' = [watcher EXCEPT !.deadline = now + Idle]
    /\ UNCHANGED <<now, task, abort, token, coord, retired, counted, written, lastTransfer>>

WatcherCuts ==
    /\ watcher.on /\ ~ token
    /\ ~ permit
    /\ now >= watcher.deadline
    /\ token' = TRUE
    /\ watcher' = [watcher EXCEPT !.on = FALSE]
    /\ UNCHANGED <<now, task, abort, permit, coord, retired, counted, written, lastTransfer>>

\* The token is cancelled, or the handle was dropped with the handler.
WatcherStops ==
    /\ watcher.on
    /\ token \/ coord.pc = "dropped"
    /\ watcher' = [watcher EXCEPT !.on = FALSE]
    /\ UNCHANGED <<now, task, abort, token, permit, coord, retired, counted, written,
                   lastTransfer>>

-----------------------------------------------------------------------------
(* coordinate_relay.                                                       *)

\* The biased select: the send task first.
FirstEnds(d) ==
    /\ coord.pc = "first"
    /\ task[d].pc \in Ended
    /\ d = "down" => task["up"].pc \notin Ended
    /\ coord' = [pc |-> "grace", first |-> d, deadline |-> now + Grace]
    /\ UNCHANGED <<now, task, abort, token, permit, watcher, retired, counted, written,
                   lastTransfer>>

\* The second task ended, within its grace period or after its abort.
SecondEnds ==
    /\ coord.pc \in {"grace", "reap"}
    /\ task[Other(coord.first)].pc \in Ended
    /\ coord' = [coord EXCEPT !.pc = "joined"]
    /\ UNCHANGED <<now, task, abort, token, permit, watcher, retired, counted, written,
                   lastTransfer>>

\* Mutant of GraceOver: the task is left behind instead of aborted.
GraceOverDetach ==
    /\ coord.pc = "grace"
    /\ task[Other(coord.first)].pc \notin Ended
    /\ now >= coord.deadline
    /\ coord' = [coord EXCEPT !.pc = "joined"]
    /\ UNCHANGED <<now, task, abort, token, permit, watcher, retired, counted, written,
                   lastTransfer>>

\* Mutant of GraceOver: the task is waited for and never aborted.
GraceOverWaits ==
    /\ coord.pc = "grace"
    /\ task[Other(coord.first)].pc \notin Ended
    /\ now >= coord.deadline
    /\ coord' = [coord EXCEPT !.pc = "reap"]
    /\ UNCHANGED <<now, task, abort, token, permit, watcher, retired, counted, written,
                   lastTransfer>>

\* Mutant of GraceOver: there is no grace period.
GraceOverAtOnce ==
    /\ coord.pc = "grace"
    /\ task[Other(coord.first)].pc \notin Ended
    /\ abort' = [abort EXCEPT ![Other(coord.first)] = TRUE]
    /\ coord' = [coord EXCEPT !.pc = "reap"]
    /\ UNCHANGED <<now, task, token, permit, watcher, retired, counted, written, lastTransfer>>

GraceOver ==
    /\ coord.pc = "grace"
    /\ task[Other(coord.first)].pc \notin Ended
    /\ now >= coord.deadline
    /\ abort' = [abort EXCEPT ![Other(coord.first)] = TRUE]
    /\ coord' = [coord EXCEPT !.pc = "reap"]
    /\ UNCHANGED <<now, task, token, permit, watcher, retired, counted, written, lastTransfer>>

\* coordinate_relay has returned: cancel the token, wait for the watcher.
StopWatcher ==
    /\ coord.pc = "joined"
    /\ token' = TRUE
    /\ coord' = [coord EXCEPT !.pc = "watch"]
    /\ UNCHANGED <<now, task, abort, permit, watcher, retired, counted, written, lastTransfer>>

RelayReturns ==
    /\ coord.pc = "watch"
    /\ ~ watcher.on
    /\ coord' = [coord EXCEPT !.pc = "done"]
    /\ UNCHANGED <<now, task, abort, token, permit, watcher, retired, counted, written,
                   lastTransfer>>

\* serve stops: connections.shutdown() drops the handler, and with it the
\* AbortOnDropHandles it holds at that point.
HandlerDropped ==
    /\ coord.pc \notin {"done", "dropped"}
    /\ abort' = [d \in Dirs |-> TRUE]
    /\ coord' = [coord EXCEPT !.pc = "dropped"]
    /\ UNCHANGED <<now, task, token, permit, watcher, retired, counted, written, lastTransfer>>

-----------------------------------------------------------------------------
\* TunnelGeneration::force_retire, see TunnelGenerations.
Retire ==
    /\ ~ retired
    /\ retired' = TRUE
    /\ UNCHANGED <<now, task, abort, token, permit, watcher, coord, counted, written,
                   lastTransfer>>

Tick ==
    /\ \/ now < MaxTime
       \/ watcher.on /\ now < watcher.deadline
       \/ coord.pc = "grace" /\ now < coord.deadline
    /\ now' = now + 1
    /\ UNCHANGED <<task, abort, token, permit, watcher, coord, retired, counted, written,
                   lastTransfer>>

Watch == WatcherRenews \/ WatcherCuts \/ WatcherStops

Coordinate ==
    \/ \E d \in Dirs : FirstEnds(d)
    \/ SecondEnds \/ GraceOver \/ StopWatcher \/ RelayReturns

Next ==
    \/ Tick \/ Retire \/ Watch \/ Coordinate \/ HandlerDropped
    \/ \E d \in Dirs :
          \/ \E k \in 1 .. MaxPieces : ReadChunk(d, k)
          \/ ReadEnd(d) \/ StopOnToken(d) \/ WritePiece(d) \/ WriteDone(d) \/ WriteFails(d)
          \/ Shutdown(d) \/ Aborted(d)

Spec == Init /\ [][Next]_vars

\* Tasks that are ready are polled, and time passes.  No peer has to send, to
\* close or to read what is written to it: reads and writes may wait for ever,
\* except that a retired lease fails its write.
FairSpec ==
    /\ Spec
    /\ WF_vars(Tick) /\ WF_vars(Watch) /\ WF_vars(Coordinate)
    /\ \A d \in Dirs : WF_vars(StopOnToken(d) \/ Shutdown(d) \/ Aborted(d))
    /\ WF_vars(retired /\ WriteFails("up"))

-----------------------------------------------------------------------------
(* Properties.                                                             *)

\* The idle watcher never cuts a relay on which either direction completed a
\* write within the idle period, although it hears of it through a Notify that
\* keeps one permit and in a task of its own.
ActiveRelayIsKept ==
    [][ ~ token /\ token' /\ watcher # watcher' => now >= lastTransfer + Idle ]_vars

\* When the relay has returned, and its connection's permit with it, both
\* copying tasks and the watcher are gone (coordinate_relay: a JoinHandle that
\* is only dropped would go on with the sockets).
NoTaskLeft ==
    coord.pc = "done" => ~ watcher.on /\ \A d \in Dirs : task[d].pc \in Ended

\* A task is aborted only when the other one ended at least the grace period
\* ago, or the handler is gone: what it is still writing gets that time.
GraceIsKept ==
    \A d \in Dirs : abort[d] =>
        \/ coord.pc = "dropped"
        \/ task[Other(d)].pc \in Ended /\ now >= task[Other(d)].at + Grace

\* The byte counters never exceed what the sockets took, and a task that ended
\* outside a write has counted all of it: an abort may undercount and nothing
\* overcounts.
CountsAreExact ==
    \A d \in Dirs :
        /\ counted[d] <= written[d]
        /\ task[d].left = 0 => counted[d] = written[d]

\* When one half ends, the whole relay ends, although the other half may be
\* stuck in a write to a peer that does not read.
HalfEndsWhole == (\E d \in Dirs : task[d].pc = "ended") ~> coord.pc \in {"done", "dropped"}

\* When the token is cancelled, by the idle watcher too, the relay ends.
CancelEndsRelay == token ~> coord.pc \in {"done", "dropped"}
=============================================================================
