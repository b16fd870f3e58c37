---------------------------- MODULE SocksConnect ----------------------------
(***************************************************************************)
(* The SOCKS5 server: serve, handle, happy_eyeballs_dial and               *)
(* staggered_dial of src/proxy/tcp.rs.                                     *)
(*                                                                         *)
(* serve accepts connections under a limit and gives each a handler task.  *)
(* A CONNECT passes the health gate, takes one of the permits for pending  *)
(* dials, resolves its target and dials the candidates, staggered and a    *)
(* few at a time under one deadline; the permit is given back before the   *)
(* relay begins.  Clients, resolver and network are free.                  *)
(*                                                                         *)
(* An attempt is a task of its own: it ends at any time and the handler    *)
(* joins it later.  The shutdown().await of staggered_dial is one step, as *)
(* the handler waits there for the attempts it aborts.  Nobody waits for   *)
(* the attempts and relay tasks of a handler that is itself aborted: they  *)
(* may outlive it.  Timers count down.                                     *)
(***************************************************************************)
EXTENDS Integers, Sequences, FiniteSets, Lists

CONSTANTS
    Conns,            \* places for client connections
    V4, V6,           \* upstream addresses
    MaxConnections,   \* limits.max_concurrent_connections
    MaxDials,         \* limits.max_pending_dials
    MaxCandidates,    \* limits.max_dial_candidates
    MaxParallel,      \* limits.max_parallel_dials
    Delay,            \* limits.happy_eyeballs_delay
    ConnectTimeout,   \* limits.connect_timeout
    Errors,           \* how dial_tcp fails: error, or notReady (TunnelNotReady)
    MaxRecords        \* bound: records of one family in an answer

\* What Config::validate_with demands.
ASSUME SocksAssumption ==
    /\ IsFiniteSet(Conns)
    /\ V4 \cap V6 = {}
    /\ MaxConnections \in Nat \ {0} /\ MaxDials \in Nat \ {0}
    /\ MaxCandidates \in Nat \ {0} /\ MaxParallel \in Nat \ {0}
    /\ Delay \in Nat \ {0} /\ ConnectTimeout \in Nat \ {0}
    /\ Errors \subseteq {"error", "notReady"}
    /\ MaxRecords \in Nat

VARIABLES
    cancel,      \* the CancellationToken of the process
    server,      \* serve: off, listening, stopping, returned
    connFree,    \* permits left in semaphore
    dialFree,    \* permits left in dial_semaphore
    conn,        \* per connection: where its handler is, and its egress record
    dial         \* per connection: the locals of staggered_dial

socksVars == <<server, connFree, dialFree, conn, dial>>

Addrs == V4 \cup V6

\* free: no handler; noDial: a refusal is sent, or handle_udp_associate runs (see
\* UdpAssociate); replyErr: an error reply while the dial permit is still held;
\* relay: the success reply and the relay (see Relay); aborted: the handler is
\* gone, and tasks it had spawned have been aborted and are still to be dropped.
Phases == {"free", "handshake", "noDial", "resolve", "dial", "replyErr", "relay", "aborted"}

HoldsConn(phase) == phase \notin {"free", "aborted"}
HoldsDial(phase) == phase \in {"resolve", "dial", "replyErr"}

\* none: pending; ok, error and notReady: ended and not joined yet; failed and
\* refused: joined (refused: the error was TunnelNotReady).
Ended == {"ok", "error", "notReady"}
AttemptStates == {"none", "running", "failed", "refused"} \cup Ended

\* n: number of candidates; the first `started' of them have been tried; age:
\* history, time since an attempt was begun, up to Delay.
NoDial == [n |-> 0, started |-> 0, att |-> <<>>, launch |-> 0, deadline |-> 0, age |-> 0,
           winner |-> 0]

SocksTypeOK ==
    /\ cancel \in BOOLEAN
    /\ server \in {"off", "listening", "stopping", "returned"}
    /\ connFree \in 0 .. MaxConnections
    /\ dialFree \in 0 .. MaxDials
    /\ conn \in [Conns -> [phase : Phases, record : {"none", "ok", "failed"}]]
    /\ \A c \in Conns :
          /\ dial[c].n \in 0 .. MaxCandidates
          /\ dial[c].started \in 0 .. dial[c].n
          /\ dial[c].att \in [1 .. dial[c].n -> AttemptStates]
          /\ dial[c].launch \in 0 .. Delay
          /\ dial[c].deadline \in 0 .. ConnectTimeout
          /\ dial[c].age \in 0 .. Delay
          /\ dial[c].winner \in 0 .. MaxCandidates

SocksInit ==
    /\ cancel = FALSE
    /\ server = "off"
    /\ connFree = MaxConnections
    /\ dialFree = MaxDials
    /\ conn = [c \in Conns |-> [phase |-> "free", record |-> "none"]]
    /\ dial = [c \in Conns |-> NoDial]

-----------------------------------------------------------------------------
(* serve.                                                                  *)

\* A connection is accepted and there is a permit (without one its stream is
\* dropped at once and nothing changes); the token comes first.
Accept(c) ==
    /\ server = "listening" /\ ~ cancel
    /\ conn[c].phase = "free"
    /\ connFree > 0
    /\ connFree' = connFree - 1
    /\ conn' = [conn EXCEPT ![c].phase = "handshake"]
    /\ UNCHANGED <<cancel, server, dialFree, dial>>

\* connections.shutdown() is called ...
StopServing ==
    /\ server = "listening" /\ cancel
    /\ server' = "stopping"
    /\ UNCHANGED <<cancel, connFree, dialFree, conn, dial>>

\* ... and has joined every handler.
ServeReturns ==
    /\ server = "stopping"
    /\ \A c \in Conns : ~ HoldsConn(conn[c].phase)
    /\ server' = "returned"
    /\ UNCHANGED <<cancel, connFree, dialFree, conn, dial>>

-----------------------------------------------------------------------------
(* handle, up to the dial.                                                 *)

\* The handler's future is gone and its permits with it.  What it has spawned and
\* not joined is aborted: the drop of its JoinSet and its AbortOnDropHandles asks
\* for that and does not wait (phase is "aborted" then, otherwise "free").
HandlerEnds(c, phase) ==
    /\ conn' = [conn EXCEPT ![c] = [phase |-> phase, record |-> "none"]]
    /\ connFree' = connFree + 1
    /\ dialFree' = IF HoldsDial(conn[c].phase) THEN dialFree + 1 ELSE dialFree
    /\ dial' = [dial EXCEPT ![c] = NoDial]
    /\ UNCHANGED <<cancel, server>>

\* The handshake fails, its authentication included, or times out.
HandshakeFails(c) == conn[c].phase = "handshake" /\ HandlerEnds(c, "free")

\* UDP ASSOCIATE; or BIND, a closed health gate, or a CONNECT that finds no
\* permit for its dial, which are refused.
NoDialNeeded(c) ==
    /\ conn[c].phase = "handshake"
    /\ conn' = [conn EXCEPT ![c].phase = "noDial"]
    /\ UNCHANGED <<cancel, server, connFree, dialFree, dial>>

\* CONNECT passes the health gate and takes a dial permit.
TakeDialPermit(c) ==
    /\ conn[c].phase = "handshake"
    /\ dialFree > 0
    /\ dialFree' = dialFree - 1
    /\ conn' = [conn EXCEPT ![c].phase = "resolve"]
    /\ UNCHANGED <<cancel, server, connFree, dial>>

\* merge_dual: the families take turns, IPv6 first, then the longer one's rest.
MergeDual(v6, v4) ==
    LET both == IF Len(v6) < Len(v4) THEN Len(v6) ELSE Len(v4)
    IN  [k \in 1 .. Len(v6) + Len(v4) |->
            IF k > 2 * both THEN (IF Len(v6) > both THEN v6 ELSE v4)[k - both]
            ELSE IF k % 2 = 1 THEN v6[(k + 1) \div 2] ELSE v4[k \div 2]]

\* Without an IPv6 route only IPv4 is kept; duplicates go.
Clean(answer, hasV6) ==
    Kept(answer, {i \in FirstPlaces(answer) : hasV6 \/ answer[i] \in V4})

Cut(list) == SubSeq(list, 1, IF Len(list) < MaxCandidates THEN Len(list) ELSE MaxCandidates)

\* Mutant of Usable: the list is cut before it is cleaned.
UsableCutFirst(answer, hasV6) == Clean(Cut(answer), hasV6)

\* happy_eyeballs_dial: the rest is cut to max_dial_candidates.
Usable(answer, hasV6) == Cut(Clean(answer, hasV6))

RecordSets(family) == UNION {[1 .. n -> family] : n \in 0 .. MaxRecords}

\* Every answer of the resolver that is not empty, with and without an IPv6 route.
CandidateLists ==
    {Usable(MergeDual(p[1], p[2]), p[3]) :
        p \in (RecordSets(V6) \X RecordSets(V4) \X BOOLEAN)
                \ ({<<>>} \X {<<>>} \X BOOLEAN)}

\* How many candidates there can be: an attempt is known by its place in the list.
CandidateCounts == {Len(list) : list \in CandidateLists}

\* resolve_target fails.
ResolveFails(c) ==
    /\ conn[c].phase = "resolve"
    /\ conn' = [conn EXCEPT ![c].phase = "replyErr"]
    /\ UNCHANGED <<cancel, server, connFree, dialFree, dial>>

\* The answer has no usable candidate: happy_eyeballs_dial fails at once.
NoCandidate(c, n) ==
    /\ conn[c].phase = "resolve"
    /\ n = 0
    /\ conn' = [conn EXCEPT ![c] = [phase |-> "replyErr", record |-> "failed"]]
    /\ UNCHANGED <<cancel, server, connFree, dialFree, dial>>

\* staggered_dial up to its loop: the first attempt and the two timers.
BeginDial(c, n) ==
    /\ conn[c].phase = "resolve"
    /\ n > 0
    /\ conn' = [conn EXCEPT ![c].phase = "dial"]
    /\ dial' = [dial EXCEPT ![c] =
                   [n |-> n, started |-> 1,
                    att |-> [i \in 1 .. n |-> IF i = 1 THEN "running" ELSE "none"],
                    launch |-> Delay, deadline |-> ConnectTimeout, age |-> 0, winner |-> 0]]
    /\ UNCHANGED <<cancel, server, connFree, dialFree>>

-----------------------------------------------------------------------------
(* staggered_dial: the attempts and the biased select of the loop.         *)

\* dial_tcp of one attempt returns.
AttemptEnds(c, i) ==
    /\ conn[c].phase = "dial" /\ dial[c].att[i] = "running"
    /\ \E outcome \in {"ok"} \cup Errors : dial' = [dial EXCEPT ![c].att[i] = outcome]
    /\ UNCHANGED <<cancel, server, connFree, dialFree, conn>>

InFlight(d) == {i \in DOMAIN d.att : d.att[i] \in {"running"} \cup Ended}

\* Mutant of StartNext: the launch timer is not restarted.
StartNextNoReset(d) ==
    [d EXCEPT !.started = @ + 1, !.att[d.started + 1] = "running", !.age = 0]

\* Pop the next candidate, spawn its attempt, restart the launch timer.
StartNext(d) ==
    [d EXCEPT !.started = @ + 1, !.att[d.started + 1] = "running", !.launch = Delay,
              !.age = 0]

\* Mutant of JoinOk: the permit is only dropped with the handler.
JoinOkKeepsPermit(c, i) ==
    /\ conn[c].phase = "dial" /\ dial[c].att[i] = "ok"
    /\ conn' = [conn EXCEPT ![c] = [phase |-> "relay", record |-> "ok"]]
    /\ dial' = [dial EXCEPT ![c] = [NoDial EXCEPT !.winner = i]]
    /\ UNCHANGED <<cancel, server, connFree, dialFree>>

\* First branch: an attempt connected.  The others are shut down, the dial is
\* recorded and its permit dropped.
JoinOk(c, i) ==
    /\ conn[c].phase = "dial" /\ dial[c].att[i] = "ok"
    /\ conn' = [conn EXCEPT ![c] = [phase |-> "relay", record |-> "ok"]]
    /\ dial' = [dial EXCEPT ![c] = [NoDial EXCEPT !.winner = i]]
    /\ dialFree' = dialFree + 1
    /\ UNCHANGED <<cancel, server, connFree>>

\* An attempt failed: the loop goes on, at once with the next candidate if
\* nothing else is in flight ...
JoinFailed(c, i) ==
    LET joined == [dial[c] EXCEPT !.att[i] = IF @ = "error" THEN "failed" ELSE "refused"]
    IN  /\ conn[c].phase = "dial" /\ dial[c].att[i] \in {"error", "notReady"}
        /\ InFlight(joined) # {} \/ joined.started < joined.n
        /\ dial' = [dial EXCEPT ![c] = IF InFlight(joined) = {} THEN StartNext(joined)
                                       ELSE joined]
        /\ UNCHANGED <<cancel, server, connFree, dialFree, conn>>

\* ... or ends: the error handle gets is always staggered_dial's own, so the
\* exemption of TunnelNotReady never applies and the failure is recorded.
JoinLast(c, i) ==
    /\ conn[c].phase = "dial" /\ dial[c].att[i] \in {"error", "notReady"}
    /\ InFlight(dial[c]) = {i} /\ dial[c].started = dial[c].n
    /\ conn' = [conn EXCEPT ![c] = [phase |-> "replyErr", record |-> "failed"]]
    /\ dial' = [dial EXCEPT ![c] = NoDial]
    /\ UNCHANGED <<cancel, server, connFree, dialFree>>

\* Nothing to join: the other branches of the select may be taken.
NothingToJoin(d) == \A i \in DOMAIN d.att : d.att[i] \notin Ended

MayLaunch(d) ==
    d.launch = 0 /\ d.started < d.n /\ Cardinality(InFlight(d)) < MaxParallel

\* Second branch: the launch timer.
Launch(c) ==
    /\ conn[c].phase = "dial"
    /\ NothingToJoin(dial[c]) /\ MayLaunch(dial[c])
    /\ dial' = [dial EXCEPT ![c] = StartNext(@)]
    /\ UNCHANGED <<cancel, server, connFree, dialFree, conn>>

\* Mutant of DialDeadline: the branches are polled in any order.
DialDeadlineUnbiased(c) ==
    /\ conn[c].phase = "dial"
    /\ dial[c].deadline = 0
    /\ conn' = [conn EXCEPT ![c] = [phase |-> "replyErr", record |-> "failed"]]
    /\ dial' = [dial EXCEPT ![c] = NoDial]
    /\ UNCHANGED <<cancel, server, connFree, dialFree>>

\* Mutant of DialDeadline: attempts in flight are waited for.
DialDeadlineWaits(c) == InFlight(dial[c]) = {} /\ DialDeadlineUnbiased(c)

\* Third branch: the deadline; the attempts are shut down.
DialDeadline(c) ==
    /\ conn[c].phase = "dial"
    /\ dial[c].deadline = 0
    /\ NothingToJoin(dial[c]) /\ ~ MayLaunch(dial[c])
    /\ conn' = [conn EXCEPT ![c] = [phase |-> "replyErr", record |-> "failed"]]
    /\ dial' = [dial EXCEPT ![c] = NoDial]
    /\ UNCHANGED <<cancel, server, connFree, dialFree>>

-----------------------------------------------------------------------------
(* handle, after the dial.                                                 *)

\* The error reply is sent or fails.
ReplyEnds(c) == conn[c].phase = "replyErr" /\ HandlerEnds(c, "free")

\* The relay, the association or the refusal is over, at the client's pace.  Both
\* halves of a relay have been joined; an association that did not stop in time
\* is aborted, and its tasks with it.
RelayEnds(c) ==
    \/ conn[c].phase \in {"relay", "noDial"} /\ HandlerEnds(c, "free")
    \/ conn[c].phase = "noDial" /\ HandlerEnds(c, "aborted")

\* serve has called shutdown, or is gone itself with its JoinSet.
HandlerAborted(c) ==
    /\ server \in {"stopping", "returned"}
    /\ \/ HoldsConn(conn[c].phase) /\ HandlerEnds(c, "free")
       \/ conn[c].phase \in {"dial", "relay", "noDial"} /\ HandlerEnds(c, "aborted")

\* The tasks an aborted handler has left are dropped at their next poll.
TasksDropped(c) ==
    /\ conn[c].phase = "aborted"
    /\ conn' = [conn EXCEPT ![c].phase = "free"]
    /\ UNCHANGED <<cancel, server, connFree, dialFree, dial>>

Down(timer) == IF timer > 0 THEN timer - 1 ELSE 0

\* Time passes for the dials.
DialTick ==
    dial' = [c \in Conns |->
        [dial[c] EXCEPT !.launch = Down(@), !.deadline = Down(@),
                        !.age = IF conn[c].phase = "dial" /\ @ < Delay THEN @ + 1 ELSE @]]

Handler(c) ==
    \/ HandshakeFails(c) \/ NoDialNeeded(c) \/ TakeDialPermit(c)
    \/ ResolveFails(c)
    \/ \E n \in CandidateCounts : NoCandidate(c, n) \/ BeginDial(c, n)
    \/ \E i \in 1 .. MaxCandidates :
          i \in DOMAIN dial[c].att /\ (JoinOk(c, i) \/ JoinFailed(c, i) \/ JoinLast(c, i))
    \/ Launch(c) \/ DialDeadline(c)
    \/ ReplyEnds(c) \/ HandlerAborted(c)

Serve == StopServing \/ ServeReturns

SocksNext ==
    \/ \E c \in Conns :
          \/ Accept(c)
          \/ Handler(c)
          \/ \E i \in 1 .. MaxCandidates : i \in DOMAIN dial[c].att /\ AttemptEnds(c, i)
          \/ RelayEnds(c) \/ TasksDropped(c)
    \/ StopServing \/ ServeReturns
-----------------------------------------------------------------------------
(* Properties.                                                             *)

\* No permit is lost or made up on any path through serve and handle, and none
\* for a pending dial is held by an established relay, a refusal or a UDP
\* association: both semaphores always account for the
\* handlers that run.
PermitsConserved ==
    /\ connFree + Cardinality({c \in Conns : HoldsConn(conn[c].phase)}) = MaxConnections
    /\ dialFree + Cardinality({c \in Conns : HoldsDial(conn[c].phase)}) = MaxDials

\* A dial never bursts: an attempt is begun next to others only when
\* happy_eyeballs_delay has passed since the last one was, although the launch
\* timer, the joins and the immediate restarts interleave (staggered_dial).
AttemptsStaggered ==
    [][ \A c \in Conns :
          conn[c].phase = "dial" /\ dial'[c].started > dial[c].started
              => Cardinality(InFlight(dial'[c])) = 1 \/ dial[c].age = Delay
      ]_<<conn, dial>>

\* Where a stands first in seq.
FirstIn(seq, a) == CHOOSE i \in DOMAIN seq : seq[i] = a /\ \A j \in 1 .. i - 1 : seq[j] # a

\* The list made of an answer is right: each usable address once, none left out
\* unless the list is full, IPv6 and then IPv4 if there are both, and the
\* resolver's order within a family.
IsOrderedList(list, v6, v4, hasV6) ==
    LET wanted == {v4[i] : i \in DOMAIN v4} \cup (IF hasV6 THEN {v6[i] : i \in DOMAIN v6} ELSE {})
        tried  == {list[k] : k \in DOMAIN list}
    IN  /\ tried \subseteq wanted
        /\ Cardinality(tried) = Len(list)
        /\ tried = wanted \/ Len(list) = MaxCandidates
        /\ wanted \cap V4 # {} /\ wanted \cap V6 # {} /\ MaxCandidates > 1
              => list[1] \in V6 /\ list[2] \in V4
        /\ \A j, k \in DOMAIN list : j < k =>
              /\ list[j] \in V4 /\ list[k] \in V4 => FirstIn(v4, list[j]) < FirstIn(v4, list[k])
              /\ list[j] \in V6 /\ list[k] \in V6 => FirstIn(v6, list[j]) < FirstIn(v6, list[k])

AllListsOrdered ==
    \A v6 \in RecordSets(V6), v4 \in RecordSets(V4), hasV6 \in BOOLEAN :
        IsOrderedList(Usable(MergeDual(v6, v4), hasV6), v6, v4, hasV6)

\* Whatever the resolver answers to a CONNECT, the candidates it dials are
\* ordered and complete (merge_dual, happy_eyeballs_dial).
CandidateOrder == (\E c \in Conns : conn[c].phase = "resolve") => AllListsOrdered

\* A dial that fails only because the tunnel was not ready is not counted
\* against the egress (the exemption in handle).
NotReadyIsNotCounted ==
    [][ \A c \in Conns :
          conn[c].phase = "dial" /\ conn'[c].record = "failed"
              => \E i \in DOMAIN dial[c].att : dial[c].att[i] \notin {"none", "notReady", "refused"}
      ]_<<conn, dial>>

\* A dial as the abstract specification Race sees it: k is its entry in conn,
\* d its entry in dial.
DialRaceOf(k, d) ==
    LET alive == IF k.phase = "relay" THEN {d.winner} ELSE {}
    IN  IF k.phase = "dial"
        THEN [phase |-> "racing", cands |-> DOMAIN d.att, started |-> 1 .. d.started,
              failed |-> {i \in DOMAIN d.att : d.att[i] \in {"failed", "refused"}},
              connected |-> {i \in DOMAIN d.att : d.att[i] = "ok"},
              open |-> InFlight(d)]
        ELSE [phase |-> IF k.phase = "replyErr" THEN "lost"
                        ELSE IF k.phase = "relay" THEN "won" ELSE "idle",
              cands |-> {}, started |-> {}, failed |-> {},
              connected |-> alive, open |-> alive]

DialRace == [c \in Conns |-> DialRaceOf(conn[c], dial[c])]
=============================================================================
