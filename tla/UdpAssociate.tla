---------------------------- MODULE UdpAssociate ----------------------------
(***************************************************************************)
(* One SOCKS5 UDP ASSOCIATE: handle_udp_associate of src/proxy/tcp.rs and  *)
(* run_relay of src/proxy/udp.rs.                                          *)
(*                                                                         *)
(* The handler watches the control connection and owns the relay task; the *)
(* relay owns three tasks: recv takes the client's datagrams and queues    *)
(* them, fwd sends them into the tunnel, reply carries the answers back.   *)
(* Client, resolver and tunnel are free.                                   *)
(*                                                                         *)
(* A task runs from one await to the next in a step.  After abort() it     *)
(* does nothing but be dropped.  Datagrams that change nothing (from a     *)
(* foreign address or another port, answers before there is a client) have *)
(* no action.                                                              *)
(***************************************************************************)
EXTENDS Integers, Sequences

CONSTANTS
    Ports,          \* source addresses with the client's IP
    QueueDepth,     \* C2T_QUEUE_DEPTH
    IdleTimeout,    \* limits.idle_timeout
    StopGrace,      \* the two seconds the handler waits for the relay
    MaxDatagrams    \* bound: datagrams accepted from the client

ASSUME UdpAssumption ==
    /\ QueueDepth \in Nat \ {0} /\ IdleTimeout \in Nat \ {0}
    /\ StopGrace \in Nat /\ MaxDatagrams \in Nat
    /\ "none" \notin Ports

VARIABLES
    cancel,      \* the CancellationToken of the process
    control,     \* the control connection: silent, or readable (data, end, error)
    hand,        \* handle_udp_associate
    grace,       \* time left of its wait for the relay
    token,       \* the child token of this association
    relay,       \* run_relay
    task,        \* per task of the relay
    aborted,     \* tasks that abort() was called for, the relay among them
    retired,     \* how many of the sockets of TunnelUdpPair are of a retired generation
    pinned,      \* client_addr
    queue,       \* the channel c2t
    inHand,      \* the datagram fwd is forwarding, as a sequence
    permit,      \* activity: the Notify holds a permit
    idle,        \* time left of the idle timer
    dropped,     \* M_UDP_CLIENT_RX_DROPPED
    arrived,     \* history: datagrams from the client
    out,         \* history: datagrams sent into the tunnel
    failed,      \* history: datagrams whose forwarding failed
    quiet        \* history: time in the loop since the last transfer, up to IdleTimeout

handVars == <<cancel, control, hand, grace>>
dataVars == <<pinned, queue, inHand, dropped, arrived, out, failed>>
vars == <<handVars, token, relay, task, aborted, retired, dataVars,
          permit, idle, quiet>>

Tasks == {"recv", "reply", "fwd"}
Order == <<"recv", "reply", "fwd">>      \* in which run_relay reaps them

\* n: place among the client's datagrams; from: its source.
Datagrams == [n : Nat, from : Ports]

Over(pc) == pc \in {"off", "ended"}

AllEnded == hand = "done" /\ Over(relay) /\ \A t \in Tasks : Over(task[t])

TypeOK ==
    /\ cancel \in BOOLEAN
    /\ control \in {"silent", "readable"}
    /\ hand \in {"bind", "wait", "stopping", "aborting", "done"}
    /\ grace \in 0 .. StopGrace
    /\ token \in BOOLEAN
    /\ relay \in {"off", "start", "loop", "reap", "ended"}
    /\ task \in [Tasks -> {"off", "run", "send", "ended"}]
    /\ aborted \subseteq Tasks \cup {"relay"}
    /\ retired \in {"none", "one", "all"}
    /\ pinned \in Ports \cup {"none"}
    /\ queue \in Seq(Datagrams) /\ Len(queue) <= QueueDepth
    /\ inHand \in Seq(Datagrams)
    /\ Len(inHand) = IF task["fwd"] = "send" THEN 1 ELSE 0
    /\ permit \in BOOLEAN
    /\ idle \in 0 .. IdleTimeout
    /\ dropped \in Nat /\ arrived \in Nat /\ failed \in Nat
    /\ out \in Seq(Datagrams)
    /\ quiet \in 0 .. IdleTimeout

Init ==
    /\ cancel = FALSE
    /\ control = "silent"
    /\ hand = "bind"
    /\ grace = 0
    /\ token = FALSE
    /\ relay = "off"
    /\ task = [t \in Tasks |-> "off"]
    /\ aborted = {}
    /\ retired = "none"
    /\ pinned = "none"
    /\ queue = <<>> /\ inHand = <<>>
    /\ permit = FALSE
    /\ idle = IdleTimeout
    /\ dropped = 0 /\ arrived = 0 /\ failed = 0
    /\ out = <<>>
    /\ quiet = 0

-----------------------------------------------------------------------------
(* The surroundings.                                                       *)

\* The token of the process is cancelled, and its children with it.
ServerStops ==
    /\ ~ cancel /\ ~ AllEnded
    /\ cancel' = TRUE /\ token' = TRUE
    /\ UNCHANGED <<control, hand, grace, relay, task, aborted, retired, dataVars,
                   permit, idle, quiet>>

\* The client sends something on the control connection, or it ends; it is read
\* while the handler waits.
ControlReadable ==
    /\ control = "silent" /\ hand = "wait"
    /\ control' = "readable"
    /\ UNCHANGED <<cancel, hand, grace, token, relay, task, aborted, retired, dataVars,
                   permit, idle, quiet>>

\* The generation of a socket is retired.  The sockets, one or one per family,
\* were bound one after the other and need not be of the same generation.
Retire ==
    /\ relay = "loop" /\ retired # "all"
    /\ retired' \in (IF retired = "none" THEN {"one", "all"} ELSE {"all"})
    /\ UNCHANGED <<handVars, token, relay, task, aborted, dataVars, permit, idle, quiet>>

-----------------------------------------------------------------------------
(* handle_udp_associate.                                                   *)

relayVars == <<relay, task, retired, dataVars, permit, idle, quiet>>

\* The socket cannot be bound, or the reply cannot be sent.
BindFails ==
    /\ hand = "bind"
    /\ hand' = "done"
    /\ UNCHANGED <<cancel, control, grace, token, aborted, relayVars>>

\* The client is told of the success, then the relay is spawned.
Associate ==
    /\ hand = "bind"
    /\ hand' = "wait"
    /\ relay' = "start"
    /\ token' = cancel
    /\ UNCHANGED <<cancel, control, grace, task, aborted, retired, dataVars, permit,
                   idle, quiet>>

\* The biased select: the process stops, the relay is over, or the control
\* connection is readable, with whatever.
HandlerLeaves ==
    /\ hand = "wait"
    /\ cancel \/ relay = "ended" \/ control = "readable"
    /\ token' = TRUE
    /\ IF ~ cancel /\ relay = "ended"
       THEN hand' = "done" /\ UNCHANGED grace
       ELSE hand' = "stopping" /\ grace' = StopGrace
    /\ UNCHANGED <<cancel, control, aborted, relayVars>>

\* The relay has ended within the grace period, or after its abort.
HandlerReturns ==
    /\ hand \in {"stopping", "aborting"} /\ relay = "ended"
    /\ hand' = "done" /\ grace' = 0
    /\ UNCHANGED <<cancel, control, token, aborted, relayVars>>

HandlerAborts ==
    /\ hand = "stopping" /\ grace = 0 /\ relay # "ended"
    /\ hand' = "aborting"
    /\ aborted' = aborted \cup {"relay"}
    /\ UNCHANGED <<cancel, control, grace, token, relayVars>>

\* serve shuts its handlers down: AbortOnDropHandle aborts the relay.
HandlerDropped ==
    /\ cancel /\ hand # "done"
    /\ hand' = "done" /\ grace' = 0
    /\ aborted' = IF Over(relay) THEN aborted ELSE aborted \cup {"relay"}
    /\ UNCHANGED <<cancel, control, token, relayVars>>

-----------------------------------------------------------------------------
(* run_relay.                                                              *)

\* TunnelUdpPair::new fails: there is no live generation, or no socket.
RelayFails ==
    /\ relay = "start"
    /\ relay' = "ended"
    /\ UNCHANGED <<handVars, token, task, aborted, retired, dataVars, permit, idle, quiet>>

\* The tunnel's sockets are bound, one or two, and the tasks spawned.
RelayStarts ==
    /\ relay = "start"
    /\ relay' = "loop"
    /\ task' = [t \in Tasks |-> "run"]
    /\ idle' = IdleTimeout
    /\ UNCHANGED <<handVars, token, aborted, retired, dataVars, permit, quiet>>

\* The loop ends, its timer with it.
LeaveLoop ==
    /\ relay' = "reap"
    /\ token' = TRUE
    /\ idle' = 0 /\ quiet' = 0
    /\ UNCHANGED <<handVars, task, aborted, retired, dataVars, permit>>

\* The first four branches of the biased loop: the token, or a task that ended.
LoopEnds ==
    /\ relay = "loop"
    /\ token \/ \E t \in Tasks : task[t] = "ended"
    /\ LeaveLoop

NothingEnded == relay = "loop" /\ ~ token /\ \A t \in Tasks : task[t] # "ended"

\* Then the activity notice, ...
Activity ==
    /\ NothingEnded /\ permit
    /\ permit' = FALSE
    /\ idle' = IdleTimeout
    /\ UNCHANGED <<handVars, token, relay, task, aborted, retired, dataVars, quiet>>

\* Mutant of IdleCut: the idle timer is polled before the notice.
IdleCutFirst ==
    /\ NothingEnded /\ idle = 0
    /\ LeaveLoop

\* ... and the idle timer.
IdleCut ==
    /\ NothingEnded /\ ~ permit /\ idle = 0
    /\ LeaveLoop

Earlier(t) == {Order[i] : i \in {j \in DOMAIN Order : \A k \in 1 .. j : Order[k] # t}}

\* Mutant of Reap: fwd is only waited for, like a task that looks at the token.
ReapJoinsOnly(t) ==
    /\ relay = "reap"
    /\ task[t] # "ended" /\ t \notin aborted /\ t # "fwd"
    /\ \A u \in Earlier(t) : task[u] = "ended"
    /\ aborted' = aborted \cup {t}
    /\ UNCHANGED <<handVars, token, relayVars>>

\* abort() of the next task that has not ended, when those before it are joined.
Reap(t) ==
    /\ relay = "reap"
    /\ task[t] # "ended" /\ t \notin aborted
    /\ \A u \in Earlier(t) : task[u] = "ended"
    /\ aborted' = aborted \cup {t}
    /\ UNCHANGED <<handVars, token, relayVars>>

RelayReturns ==
    /\ relay = "reap"
    /\ \A t \in Tasks : task[t] = "ended"
    /\ relay' = "ended"
    /\ UNCHANGED <<handVars, token, task, aborted, retired, dataVars, permit, idle, quiet>>

\* The aborted relay is dropped: so are its handles, which abort the tasks.
RelayDropped ==
    /\ "relay" \in aborted /\ ~ Over(relay)
    /\ relay' = "ended"
    /\ idle' = 0 /\ quiet' = 0
    /\ aborted' = aborted \cup {t \in Tasks : ~ Over(task[t])}
    /\ UNCHANGED <<handVars, token, task, retired, dataVars, permit>>

-----------------------------------------------------------------------------
(* The three tasks.                                                        *)

taskFree == <<handVars, token, relay, aborted, retired, idle>>

Runs(t) == task[t] = "run" /\ t \notin aborted

\* What fwd holds goes with it: the channel and the datagram in hand.
TaskEnds(t) ==
    /\ task' = [task EXCEPT ![t] = "ended"]
    /\ queue' = (IF t = "fwd" THEN <<>> ELSE queue)
    /\ inHand' = (IF t = "fwd" THEN <<>> ELSE inHand)
    /\ UNCHANGED <<taskFree, pinned, dropped, arrived, out, failed, permit, quiet>>

\* A task notices the token: recv and fwd in their select, reply when its receive
\* has timed out.  fwd does not look at it while it forwards.
TaskStops(t) == Runs(t) /\ token /\ TaskEnds(t)

\* An aborted task is dropped.
TaskDropped(t) == t \in aborted /\ ~ Over(task[t]) /\ TaskEnds(t)

\* The socket of recv fails, or a socket of reply: the client's, or a tunnel's.
SocketFails(t) == t \in {"recv", "reply"} /\ Runs(t) /\ TaskEnds(t)

\* A datagram of the client: the first one pins its source.
Receive(from) ==
    /\ Runs("recv") /\ ~ token
    /\ arrived < MaxDatagrams
    /\ pinned \in {"none", from}
    /\ pinned' = from
    /\ arrived' = arrived + 1

\* Mutant of ReceiveDrops: a full queue drops without counting.
ReceiveDropsQuietly(from) ==
    /\ Receive(from)
    /\ dropped' = IF Len(queue) = QueueDepth THEN dropped ELSE dropped + 1
    /\ UNCHANGED <<taskFree, task, queue, inHand, out, failed, permit, quiet>>

\* It is larger than C2T_MAX_DATAGRAM, or the queue is full: counted and dropped.
ReceiveDrops(from) ==
    /\ Receive(from)
    /\ dropped' = dropped + 1
    /\ UNCHANGED <<taskFree, task, queue, inHand, out, failed, permit, quiet>>

\* Mutant of ReceiveQueues: the capacity is not looked at.
ReceiveQueuesUnbounded(from) ==
    /\ Receive(from)
    /\ queue' = Append(queue, [n |-> arrived + 1, from |-> from])
    /\ UNCHANGED <<taskFree, task, inHand, dropped, out, failed, permit, quiet>>

\* try_send.  (The channel closes only after the token was cancelled.)
ReceiveQueues(from) ==
    /\ Receive(from)
    /\ Len(queue) < QueueDepth
    /\ queue' = Append(queue, [n |-> arrived + 1, from |-> from])
    /\ UNCHANGED <<taskFree, task, inHand, dropped, out, failed, permit, quiet>>

\* fwd takes a datagram: forward_client_to_tunnel parses it and may resolve its
\* target.
ForwardBegins ==
    /\ Runs("fwd") /\ ~ token
    /\ queue # <<>>
    /\ task' = [task EXCEPT !["fwd"] = "send"]
    /\ inHand' = <<Head(queue)>> /\ queue' = Tail(queue)
    /\ UNCHANGED <<taskFree, pinned, dropped, arrived, out, failed, permit, quiet>>

\* The socket of the target's family takes it.
ForwardOk ==
    /\ task["fwd"] = "send" /\ "fwd" \notin aborted
    /\ retired # "all"
    /\ task' = [task EXCEPT !["fwd"] = "run"]
    /\ out' = out \o inHand /\ inHand' = <<>>
    /\ permit' = TRUE /\ quiet' = 0
    /\ UNCHANGED <<taskFree, pinned, queue, dropped, arrived, failed>>

\* Malformed, not resolved, no socket of that family or a retired one: logged.
ForwardFails ==
    /\ task["fwd"] = "send" /\ "fwd" \notin aborted
    /\ task' = [task EXCEPT !["fwd"] = "run"]
    /\ failed' = failed + 1 /\ inHand' = <<>>
    /\ UNCHANGED <<taskFree, pinned, queue, dropped, arrived, out, permit, quiet>>

\* An answer from the tunnel goes to the client; the token is looked at only
\* before the receive.
Reply ==
    /\ Runs("reply")
    /\ retired # "all"
    /\ pinned # "none"
    /\ permit' = TRUE /\ quiet' = 0
    /\ UNCHANGED <<taskFree, task, dataVars>>

-----------------------------------------------------------------------------
Down(timer) == IF timer > 0 THEN timer - 1 ELSE 0

\* The idle timer exists while the loop runs, the grace timer while the handler
\* stops.
Tick ==
    /\ \/ /\ relay = "loop"
          /\ idle' = Down(idle)
          /\ quiet' = IF quiet < IdleTimeout THEN quiet + 1 ELSE quiet
       \/ relay # "loop" /\ grace > 0 /\ UNCHANGED <<idle, quiet>>
    /\ grace' = Down(grace)
    /\ UNCHANGED <<cancel, control, hand, token, relay, task, aborted, retired,
                   dataVars, permit>>

Handler == BindFails \/ Associate \/ HandlerLeaves \/ HandlerReturns \/ HandlerAborts

RunRelay ==
    \/ RelayFails \/ RelayStarts
    \/ LoopEnds \/ Activity \/ IdleCut
    \/ \E t \in Tasks : Reap(t)
    \/ RelayReturns \/ RelayDropped

Data ==
    \/ \E from \in Ports : ReceiveDrops(from) \/ ReceiveQueues(from)
    \/ ForwardBegins \/ ForwardOk \/ ForwardFails
    \/ Reply

Next ==
    \/ ServerStops \/ ControlReadable \/ Retire
    \/ Handler \/ HandlerDropped
    \/ RunRelay
    \/ \E t \in Tasks : TaskStops(t) \/ TaskDropped(t) \/ SocketFails(t)
    \/ Data
    \/ Tick

Spec == Init /\ [][Next]_vars

\* Time passes and tasks that can go on are polled; a receive of a retired
\* generation fails.  Nothing makes the client send, or a forwarding end.
Fairness ==
    /\ WF_vars(Tick)
    /\ WF_vars(Handler)
    /\ WF_vars(RunRelay)
    /\ \A t \in Tasks : WF_vars(TaskStops(t)) /\ WF_vars(TaskDropped(t))
    /\ WF_vars(retired # "none" /\ SocketFails("reply"))

FairSpec == Spec /\ Fairness

-----------------------------------------------------------------------------
(* Properties.                                                             *)

\* What has got past the queue and what is still in it, in order.
Flow == out \o inHand \o queue

\* No datagram of the client is lost in silence, sent twice or overtaken: as long
\* as fwd runs each is sent, in the queue, in hand, failed or counted as dropped,
\* in the order of arrival, and all are of the one source that is pinned
\* (run_relay: recv never waits, overflow is counted).
DatagramsAccounted ==
    /\ \A i, j \in DOMAIN Flow : i < j => Flow[i].n < Flow[j].n
    /\ \A i \in DOMAIN Flow : Flow[i].n <= arrived /\ Flow[i].from = pinned
    /\ ~ Over(task["fwd"]) => arrived = Len(Flow) + failed + dropped

\* The idle timer never cuts an association that transferred a datagram, in
\* either direction, within the idle timeout, although the transfer and the
\* timer are in different tasks.
ActiveAssociationKept ==
    [][relay = "loop" /\ relay' = "reap" /\ ~ token /\ (\A t \in Tasks : task[t] # "ended")
          => quiet = IdleTimeout]_vars

\* The association ends with all its tasks when the control connection closes,
\* the process stops, a generation it uses is retired or its token is cancelled,
\* and it does not stay for ever when no datagram is transferred any more, even
\* if a forwarding never ends.
AssociationEnds ==
    /\ (control = "readable" \/ cancel \/ retired # "none" \/ token) ~> AllEnded
    /\ ~ <>[](relay = "loop" /\ quiet # 0)
=============================================================================
