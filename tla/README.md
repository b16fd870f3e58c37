# TLA+ models of cf-warp-rust

cf-warp-rust is a SOCKS5 proxy whose traffic leaves through a user-space WireGuard tunnel to
Cloudflare WARP. The process registers (or loads) a WARP account, brings up a tunnel, serves
SOCKS5 over it, probes it, and repairs it by itself: reconnect, fetch a new configuration, register
a new account, rotate to another identity. This directory holds TLA+ models of its concurrent and
failure-prone parts, the TLC configurations that check them on small instances, and TLAPS proofs of
the main safety properties for every value of the constants.

Line numbers below refer to files of the repository (`src/...` is the crate's own `src`).
`PROJECT.json` maps every definition to the lines it models.

## 1. Inventory

| Part | State | Operations | Talks to |
|---|---|---|---|
| Supervisor (`supervisor.rs`) | credentials, WireGuard configuration, consecutive failures, end of the last recovery, health flag | `handle_event` (ProbeOk, ProbeFailed, RefreshTick), `escalate`, `action_reconnect`, `action_rebuild_config`, `action_reregister`, `action_rotate` | receives from the 64-slot event channel, calls the account manager and the tunnel manager |
| Health probe (`health.rs`, `egress.rs`) | degraded rounds, two atomic counters of business dials | `probe_loop`, `EgressStats::record`, `take_window`, `is_degraded` | sends events to the supervisor; every SOCKS5 connection records into the counters |
| Accounts (`warp/account.rs`, `persistence.rs`, `identity_pool.rs`) | `account.json`, `last_register_attempt`, position in the pool | `load_or_register`, `prepare_reregister`, `prepare_rotate`, `commit_candidate`, `save` | WARP API, disk |
| Tunnel (`tunnel.rs`) | current generation, retired flags, retirement timers, leases | `connect_candidate`, `replace`, `schedule_retirement`, `force_retire`, `dial_tcp`, `bind_udp`, `clear` | used by SOCKS5, DNS, probe and supervisor |
| DNS resolver (`dns.rs`) | cache, negative cache, in-flight map with one watch channel per query | `resolve_dual`, `lookup_cache`, `store_cache`, `query_record_dedup`, `query_record` | called by every connection; UDP over the tunnel, or the system's resolver |
| SOCKS5 TCP (`proxy/tcp.rs`) | permits (connections, pending dials), the attempts of a dial, relay tasks, idle watcher | `serve`, `handle`, `staggered_dial`, `relay_with_idle_timeout`, `coordinate_relay` | tunnel leases, resolver, egress counters, health flag |
| SOCKS5 UDP (`proxy/udp.rs`) | pinned client address, bounded queue, idle timer, three tasks | `handle_udp_associate` (in `tcp.rs`), `run_relay`, `forward_client_to_tunnel` | two tunnel UDP leases, resolver, control connection |
| Start and shutdown (`main.rs`, `signals.rs`) | cancellation token, join handles | start, drain for five seconds, abort, `clear` | everything |
| Configuration (`config.rs`, `config_watch.rs`) | none after the start | `validate_with`; the watcher only logs | |
| `vendor/` | netstack over smoltcp and boringtun, HTTP client of the API | | used through connect, read, write, handshake and API outcomes |

What is hard to test in it: events that wait in a channel while the world they describe is replaced
(probe results, egress counters); multi-step commits of an account across the API, a handshake, the
disk and memory, each of which can fail or be cut by a crash; timers that sleep across later
replacements; a connect that awaits while its tunnel is retired; a singleflight leader that is
dropped in mid-query; a cooldown kept on two clocks, of which one can be set; the four-way race at the end of a relay; races between addresses whose attempts
end in any order and next to timers; permits given back on some fifteen ways out of a handler; tasks
that own tasks and end by token, abort or drop; a shutdown at any of these points.
`PROJECT.json` lists these hazards with their lines and the properties that cover them.

What makes each part correct:

* Supervisor: the ladder moves on evidence about the tunnel in service; credentials, configuration
  and tunnel never mix accounts; every completed step has installed a tunnel; nothing waits for ever.
* Accounts: the file on disk is always one that works; registrations respect the cooldown, as far as
  the process remembers the last one.
* Health: a business dial is counted once; the gate opens only on a probe of the recovered tunnel.
* Tunnel: the generation in service is alive; a replaced one keeps its drain window, no more, and is
  dropped in the end; no lease is born dead.
* DNS: one leader per in-flight slot, no lost waiter, no answer past its time to live, bounded cache.
* Relay: no task survives it; an active one is not cut; each half has its grace period; it ends.
* Races (`connect_candidate`, `staggered_dial`): one winner, no loser left open when they return, a
  bounded number of attempts, failure only when everything failed or the deadline passed; the lists they walk are right.
* SOCKS5 server: no permit is lost or held for ever.
* UDP association: no datagram lost in silence or overtaken, an active one is not cut, all tasks end.
* Process: a signal at any point ends it, and the tunnel goes after the services and the handler tasks.

## 2. Modules

| Module | Models | Notes |
|---|---|---|
| `AccountManager` | account file, cooldown, identity pool, save | operators used by `Supervisor` |
| `Health` | event channel, probe task, business dials, egress window | actions used by `Supervisor` |
| `Supervisor` | composes the two with the handler, the refresh timer, start, crash and restart | the system's core |
| `TunnelGenerations` | generations, drain windows, timers, leases | |
| `DnsResolver` | cache and singleflight | |
| `Relay` | one TCP relay: two tasks, watcher, handler, server shutdown, tunnel retirement | |
| `Race` | what a race between addresses promises | abstract specification |
| `Lists` | the loops that filter, deduplicate and flatten lists of addresses | operators used by the next two |
| `EndpointConnect` | the list of WireGuard endpoints and `connect_candidate`'s race over it | implements `Race` |
| `SocksConnect` | `serve`, `handle`, the candidate list, `staggered_dial` | implements `Race`, once per connection |
| `Process` | composes the two with `run` of `main.rs`: start, services, signal, drain, abort, clear | |
| `UdpAssociate` | one UDP association: handler, `run_relay` and its three tasks | |
| `MCSupervisor`, `MCProcess` | values for the constants of `Supervisor` and `Process` | the other modules are checked directly |
| `SupervisorProofs`, `TunnelGenerationsProofs`, `DnsResolverProofs`, `RelayProofs`, `UdpAssociateProofs` | theorems | |
| `ListProofs`, `ProcessProofs`, `EndpointProofs` | theorems about `Lists`, about `Process` with `SocksConnect`, and about `Process` with `EndpointConnect` and the lists | each extends the one before |

### Supervisor, Health, AccountManager

`pc` is the await the process is at: one of the `boot_*` points of `main.rs` and
`load_or_register`, `idle` (the `recv` of the event loop), or a point of a handler (`HandlerPcs`).
`job` holds the handler's locals. An action is what runs between two awaits, so the probe, the
refresh timer, business dials, the clock and a crash interleave at every await. All network and disk
outcomes are free: `StepFails` is the error return of any awaiting step. The saving of `account.json`
is two steps, the rename and what follows it (metadata, mode, sync), because `save` can fail between
them. `registered_at` and `last_register_attempt` are kept apart, as in the code, since the cooldown
reads both, and each has its own clock: the attempt is an `Instant` of the monotonic clock `now`; the
stamp is the wall clock in whole seconds (`Second` is their length in ticks), and is compared with the
wall clock, which is ahead of the monotonic one by `skew`. `WallClockSet` changes `skew` at any time,
so a stamp may lie in the future, where `duration_since` is an error and the check is skipped. An account is its origin (registered or from the pool) and a number; a WireGuard
configuration is the account it belongs to.

A probe round is: take the instant and (history) the generation, network outcome, take the egress
window, verdict, send. The network part of a round is one free outcome: stale handshake, quorum
failed, or passed. The backoff is the code's doubling with its cap.

History variables (`proven`, `recoveredGen`, `healthyGen`, `verdicts`, `calls`, the `gen` of an event)
are read by properties only.

### TunnelGenerations

A generation has its creation time, retired flag and retirement timer. `Replace` installs a new one
and runs `schedule_retirement` on the old one, with `retirement_delay` computed as in the code
(grace of the reason, remaining age, floor, immediate retirement for a zero delay). `Dial` takes a
snapshot of the generation, `DialOk` looks at it again after the await. `Cut` is a user whose
reads fail because the lease is retired.

### DnsResolver

Each caller resolves one host in one task per record type. The pcs are the points where another
task can run: lookup, the in-flight map, query, publish, removal of the slot, waiting. `Drop` is the
drop of the caller's future at any await: its guard removes the slot and closes the channel. The DNS
itself is a free answer, positive or negative, with (history) the instant it was given.

### Relay

One task per direction reads a chunk and writes it piece by piece; the token is looked at next to
the reads only. The watcher's select is in the code's order: token, activity, deadline.
`coordinate_relay` waits for the first task, then for the second within the grace period, then aborts
it. `HandlerDropped` is the stop of the server, which drops the handler with its abort-on-drop
handles. The peers are free, and may never read again.

### Race, EndpointConnect, SocksConnect, Process

`Race` says of each racer which candidates it has, which it has tried, which of those have failed or
connected and what is open, and how these may change in a step: begin, advance, pick a connection and
close the others one by one, win with one connection and nothing else open, lose, leave. While the
others are closed, as many as may run in parallel can be open besides the one that was picked. `Process` instantiates it twice: for `connect_candidate`, with the
places in the list of endpoints as candidates, two probes at a time and no deadline of its own; and for
every connection's `staggered_dial`, with `max_parallel_dials` and the right to give up at the
deadline. The refinement mappings (`EndpointRace`, `DialRaceOf`) are state functions of the detailed
modules; `ConnectIsRace` and `DialIsRace` are the abstract specifications as properties.

In `EndpointConnect` the list is built by the code's passes over addresses and ports, and its
result compared with a reference (`EndpointOrder`). The passes are operators of `Lists`: a loop that
pushes some elements of a list is the function that puts at place `k` the kept element of rank `k`, so
that what it computes can be proved from cardinalities, without induction over the list. Probes end at any time, the loop joins one, spawns
the next and then looks at the result, a success's too, as in `tunnel.rs`. A success leads to the await
of `probes.shutdown()` (phase `closing`): the other probe, and the one just spawned, are aborted and
joined one by one, or end meanwhile, and when none is left the winner is returned. So three probes may be
alive there, the winner included. In `SocksConnect` a handler has a phase,
from which follows which permits it holds; `HandlerEnds` is the drop of its future, with its permits,
from any phase. The tasks that the handler has spawned and not joined, its attempts or its relay, are only
asked to abort then, and nobody waits for them: the connection is `aborted` until `TasksDropped`, without
fairness, although the handler has been joined. (What such tasks still do is in `Relay` and
`UdpAssociate`.) The await of `attempts.shutdown()` in `staggered_dial` is one step with the decision before
it: no attempt is begun there, and the winner is chosen. Attempts are tasks: an attempt ends in one step and is joined in another, so that
the deadline, the launch timer and several ended attempts are pending together. `MergeDual` and
`Usable` are the code's merging, filtering and truncation of an answer, checked over every answer of
bounded length (`CandidateOrder`). `Process` adds the main task, the `JoinSet` of services and the
cancellation token. Its supervisor is only busy or not; what it does is in `Supervisor`.

### UdpAssociate

The handler, the relay's loop and the tasks `recv`, `fwd` and `reply` have a pc each. An abort marks a
task; the drop happens later (`TaskDropped`). A drop of the handler aborts the relay, a drop of the relay
aborts the tasks. A forwarding may wait for ever, as it may in the code (DNS, back-pressure). The two
sockets are leases of one or of two generations: `retired` says how many of them are gone.

## 3. Runs

Deadlock is checked in the supervisor runs (a step `Horizon` marks the states in which the bounded
clock has stopped and everything is handled). The others set `CHECK_DEADLOCK FALSE`, because there the
system may stop: every user is gone and no generation is left to make, every caller has its answer, the
relay, the association or the process is over.

| Run | Bounds | Shows |
|---|---|---|
| `SupervisorRecovery` | one pool identity, two starts, queue of 2, refresh every 2, clock 3 to 6 | types, `AccountsAgree`, `DiskAccountProven`, `HealthyTunnelProbed`, `LadderIgnoresOldProbes`; every handler returns, every probe is sent |
| `SupervisorCooldown` | no pool, rungs at 2, 3, 3, 4, cooldown 4, seconds of two ticks, a wall clock ahead by 0 or 5, two interchangeable dials, two degraded rounds of one sample, clock 3 to 8 | `RecoveryInstallsTunnel`, `CooldownKept` in the default deployment, `EgressVerdictsAreEarned` |
| `TunnelGenerations` | two users, three generations, clock to 7 | `ServiceIsLive`, `NoDeadLease`, `DrainWindowKept`, `ReplacedGenerationsEnd` |
| `DnsResolver` | three callers, two hosts, one record type, cache of 1 | `SlotsHaveLeaders`, `AnswersAreFresh`, `CacheIsBounded`, `EveryTaskEnds` |
| `Relay` | one chunk of up to two pieces per direction, idle 2, grace 1 | `NoTaskLeft`, `GraceIsKept`, `CountsAreExact`, `ActiveRelayIsKept`, `HalfEndsWhole` |
| `Process` | two connections, one dial permit, three addresses of two families, two parallel attempts, three endpoint configurations with up to nine endpoints, a signal at any point | `PermitsConserved`, `AttemptsStaggered`, `CandidateOrder`, `EndpointOrder`, `TunnelOutlivesUsers`, `ConnectIsRace`, `DialIsRace`, `DialSlotsComeBack`, `ProcessStops` |
| `UdpAssociate` | two source ports, a queue of one, two datagrams, idle 2, grace 1 | `DatagramsAccounted`, `ActiveAssociationKept`, `AssociationEnds` |
| `SupervisorCommit` (violated) | ladder at 1 | `FailedStepKeepsAccount`, see findings |
| `SupervisorCooldownRotate` (violated) | one pool identity | `RegistrationsSpaced` with a pool, see findings |
| `SupervisorEgressStale` (violated) | two dials | `LadderIgnoresOldEvidence`, see findings |
| `RelayIdle` (violated) | as `Relay` | `CancelEndsRelay`, see findings |
| `ProcessNotReady` (violated) | one connection, attempts that fail with `TunnelNotReady` | `NotReadyIsNotCounted`, see findings |

Why the bounds are enough. The ladder's thresholds are small so that every rung, every fallback and a
second round are reached; two of the rungs coincide in each run, for its size: `SupervisorRecovery` has no
`None` and no Reconnect rung (1, 1, 2, 3), `SupervisorCooldown` has both but no RebuildConfig rung of its own
(2, 3, 3, 4; the rebuild is reached as the fallback). The backoff is short or zero there, which leaves nothing
out: a handler may stay in `backoff` while time passes. In `SupervisorCooldown` a stamp may lose one tick of the
cooldown's four, and the wall clock jumps by five, forwards or back, which makes a stamp older than the cooldown
or puts it in the future: a re-registration comes early by the lost part of a second, by more after a
jump, or is refused. That an attempt in memory expires is beyond the clock of the run (early calls after it are
refused); the theorem has no such bound. In the other supervisor runs the wall clock is never set. A queue of two already lets stale and fresh probes mix and lets the senders
block. Two starts reach a crash at each await followed by a restart. Three generations are the least
in which a timer sleeps across two replacements. Three callers are the least for leader, waiter and
a later leader on one key; two hosts and a cache of one reach the eviction. Record types differ only
in the key, and the tasks of one caller share nothing but its drop, so one type stands for both in
the run; the module and the proofs have any set of them. One dial permit and two connections are the least in
which a handler waits for or is refused what another holds (two connections need no more than the two permits of
the run, so its connection limit never binds; three do not fit, and `PermitsAreConserved` covers every limit);
three addresses with two in parallel leave
one to be started by the timer and one by a failure. A queue of one is full after one datagram, and the
second is then dropped, queued behind a forwarding, or comes from the other port. The clock
is an integer; the bounds on it (`MaxTime`) let every timer expire at, before and after each other, and a pending timer may run past
the bound.

### Fairness

Weak fairness only, on steps of the program and never on those of users or peers.

* Supervisor: the runtime polls the handler and the probe task; each awaited call has a timeout, so a
  step that awaits ends (with any outcome); time passes. Crashes, probe ticks and settings of the wall clock
  are not fair.
* TunnelGenerations: sleeping timers wake, a connect ends, a user whose read fails leaves. Nobody
  has to close a working connection.
* DnsResolver: tasks are polled and a query ends (it has a timeout). Callers need not begin or drop.
* Relay: ready tasks are polled and time passes. Reads and writes may wait for ever, except that a
  retired lease fails its write.
* Process: time passes, main, the services that look at the token, the endpoint probes (each has a
  timeout) and the handlers (handshake and lookup have timeouts) go on. Nothing is assumed of an attempt
  to connect, of a relay, of the tasks of an aborted handler, of clients, or of a recovery the supervisor
  is in. While the endpoint race is `closing`, aborted probes end and are joined.
* UdpAssociate: time passes; handler, relay, cancelled and aborted tasks are polled; a receive on a
  retired lease fails. The client need not send and a forwarding need not end.

## 4. Findings

* **A failed save may still commit** (`persistence.rs:30`). The rename happens before the metadata,
  mode and sync calls. An error in one of those makes `action_reregister` return with the old account
  in use while `account.json` names the candidate; the comment at `supervisor.rs:282` says that a
  disk error keeps the current account. The candidate has completed a handshake, so a restart works
  (`DiskAccountProven`, proved).
* **The cooldown forgets with a pool** (`warp/account.rs:117`). A rotation commits the identity's own
  `registered_at`, and the registration at the start is not stamped in memory: start, rotate, fail
  registers again inside the cooldown, which the comment at `account.rs:46` says is strictly kept.
  Without a pool it is kept between attempts of the supervisor. After the registration at the start, which is
  remembered only as whole seconds of the wall clock, it may fall short by less than a second, or by more if
  the wall clock is set in between (`CooldownKept`, checked by `SupervisorCooldown` and proved).
* **Egress failures of the old tunnel move the ladder** (`health.rs:82`). Staleness is judged by the
  instant of the probe; the counters and `degraded_rounds` survive the recovery. For handshake and
  dial probes the comment at `supervisor.rs:54` holds (`LadderIgnoresOldProbes`, proved).
* **An idle relay stuck in two writes never ends** (`proxy/tcp.rs:767`). With both tasks in
  `write_all` towards peers that do not read, the idle watcher cancels a token nobody looks at and the
  grace period never starts. When one half ends, the rest does (`HalfEndsWhole`).
* **A tunnel that is not ready counts as an egress failure** (`proxy/tcp.rs:674`). The comment at
  `tcp.rs:355` exempts `TunnelNotReady` from the statistics, lest refusals during a rebuild trigger the
  next rebuild; but `staggered_dial` formats the last error into `Error::other`, so the test of `handle`
  is never true.

## 5. Proofs

All theorems are of the form `Spec => ...` (`EscalationIsMonotone` is about operators) for arbitrary constants that
satisfy the named assumptions: `SupervisorAssumption` and those of `AccountManager` and `Health`, which
are the relations `Config::validate_with` enforces; those of `TunnelGenerations`; `DnsAssumption`;
`RelayAssumption`; `SocksAssumption` (IPv4 and IPv6 addresses are different things, among others),
`ProcessAssumption` and `EndpointAssumption`; `UdpAssumption`.
The proofs have no bound on the clock or on lengths other than the named ones, which may be any number.

* `SupervisorProofs`. `TypeCorrect`. `AccountInv` strengthens `AccountsAgree`, `DiskAccountProven` and
  `RecoveryInstallsTunnel` with what the handler's locals mean at each await: the configuration it is
  connecting with is the account in use; the file it is about to rename has handshaken; the file of a
  starting process is the one on disk; the generation did not go back since the handler began. Hence
  `AccountsAlwaysAgree`, `DiskAccountAlwaysProven`, `RecoveryIsNeverANoOp`. `EvidenceInv` relates time
  and generation: every queued or running probe observed after the end of the last recovery was taken
  on that recovery's generation or a later one, a process that does not run has empty channels, and
  the gate is closed during a recovery. Hence `HealthyTunnelIsProbed` and
  `LadderIgnoresReplacedTunnels`. `EarnedInv` counts failed dials: those spent on verdicts, those of the
  degraded rounds since and those of the window are together at most the dials that failed; the
  verdicts alone do not say how many failures the window still holds. Hence `VerdictsAreAlwaysEarned`.
  `SpacedInv` says that the last call of the registration API is remembered at every await until the next
  one: in memory, or, if memory has no attempt, by the `registered_at` of the file on disk or about to be. Such
  a stamp is less than a second before the call and not in the future, unless the wall clock has been set since,
  when nothing is claimed of it (`StampedAfterCall`). Hence `RegistrationsStaySpaced` (`CooldownKept`),
  under two hypotheses: no identity pool, since a rotation replaces the stamp (the second finding
  of section 4), and one start, since a restart after a failed call has nothing to remember it by.
  `EscalationIsMonotone`: for every value of the `u8` counter a further failure leads to no milder rung
  and no shorter wait, and the wait is between the two configured bounds.
* `TunnelGenerationsProofs`. The invariant adds that the generation in service is the newest and has
  no timer, that an armed timer is due after the floor of the window, and that creation times are in
  the past. `TypeCorrect`, `ServiceStaysLive`, `DrainWindowIsKept`, `DrainWindowIsBounded`,
  `NoDeadLeaseIsGiven`.
* `DnsResolverProofs`. The invariant adds that an answer a leader is about to publish was given this
  instant, that an entry expires exactly one time to live after its answer, that a channel carries
  the answer of the task that owns it, and that what a waiter can read was given after it began.
  `TypeCorrect`, `SlotsHaveTheirLeaders`, `AnswersStayFresh`; and `CacheStaysBounded` for every finite
  limit, from the cardinality lemmas of the library. `ServedInv` says that the owner of a channel somebody
  waits on is querying, publishing or dropped, or has published before it removed its slot. Hence
  `NoWaiterIsForgotten`, the safety half of `EveryTaskEnds`: no waiter is left behind, no chain of waiters.
* `RelayProofs`. The invariant says what the handler knows at each of its points (`CoordInv`), that
  the counters lag by what the chunk in hand has written (`CountInv`), and that a transfer the
  watcher's deadline does not cover is announced by the permit (`WatchInv`). One lemma describes what
  any step of a copying task does; the rest follows from it. `TypeCorrect`, `RelayLeavesNoTask`,
  `GracePeriodIsKept`, `CountersAreExact`, `IdleWatcherSparesActive`.
* `ProcessProofs`. `DialInv` says of each connection that its dial, when it runs, has made the first
  `started` attempts, has some but at most `max_parallel_dials` in flight, and that the launch timer shows
  what is left of the delay (`Dialling`), and that there is no dial otherwise. One lemma per kind of step
  shows that a connection moves well (`Moved`): it stays good, takes a step of `Race` or none, and begins
  no attempt too early. `PermitInv` is the account of both semaphores, from the cardinality lemmas of the
  library; `StopInv` the order of the shutdown: handler tasks, then `serve`, then its task, then the tunnel,
  as long as the grace period has not expired. It says nothing of the tasks that joined handlers have aborted,
  since the code does not wait for them. `SocksTypeCorrect`, `PermitsAreConserved`,
  `TunnelOutlivesItsUsers`, `AttemptsAreStaggered`, and `DialImplementsRace`, the refinement.
* `ListProofs`. Ranks are a bijection between a finite ordered set and `1 .. n` (`Ranks`); hence what the
  operators of `Lists` return: the elements that are kept, in their order, each once
  (`IsPlaceList`, `FirstOccurrencesElements`, `DistinctElements`), the first of the list first, and for the
  nested loops every element of every row (`ConcatElements`).
* `EndpointProofs`. From these, `EndpointsOrdered` for every configuration and list of ports, and
  `CandidatesOrdered` for answers of any length: `merge_dual` puts each family at growing places
  (`IsSpread`), and filtering and cutting keep that order. `EndpointGood` says of the endpoint race that
  its list is the one of its configuration, that the first `started` probes were spawned and no others,
  and that at most `MaxProbes` are alive (`Probing`), or at most `MaxProbes` besides the picked one, which is
  connected, while the others are shut down (`Closing`). A probe is spawned before the result of another is
  looked at, so when the failed one is the last alive, all were spawned and have failed. Each step keeps it and is a step of `Race` or none
  (`EndpointMoved`). Hence `ConnectImplementsRace` and, with the types of `ProcessProofs`,
  `ProcessTypeCorrect`.
* `UdpAssociateProofs`. The invariant adds that nothing was received before the sockets are bound and
  that a transfer within the idle timeout has left its permit or was seen by the timer (`IdleIsLate`).
  `TypeCorrect`, `DatagramsAreAccounted`, `IdleSparesActive`. `AssociationOwnsItsTasks` (`NoOrphan`): who
  is over leaves nothing behind that has neither ended nor been aborted, the safety half of
  `AssociationEnds`.

Only model-checked: liveness (`HandlersReturn`, `ProbesAreSent`, `ReplacedGenerationsEnd`,
`EveryTaskEnds`, `HalfEndsWhole`, `ProcessStops`, `DialSlotsComeBack`, `AssociationEnds`), which needs
fairness and ENABLED, out of the prover's reach. Every invariant and every action property of a passing
run is stated by a theorem. `DrainWindowBounded`, `WaitersServed`, `NoOrphan` and `EscalationIsMonotone`
are proved and in no run.

## 6. Not modelled, and the plan

Not modelled, because they keep no control state or are bytes:

* the wire formats of SOCKS5, of its UDP header and of DNS, and the DNS transport (a query is one free
  answer; a truncated one is an error, `dns.rs:537`, like any other);
* `config.rs` beyond the relations of `validate_with`, which are the assumptions on the constants, and
  `config_watch.rs`, which only logs;
* metrics, log set-up, error types, the firewall hint in the error of `connect_candidate`;
* cryptography, packets, smoltcp and HTTP (`vendor/`), which appear as free outcomes.

One business dial of `Health`, one caller of `DnsResolver`, one relay and one association each make one
request; later requests are later instances of them. In `Process` a connection's place is used again.

Four hazards are modelled without a property, because the repository promises nothing about them:
probes that queue up during a failed recovery (`supervisor.rs:242`), registrations across a crash loop
(`account.rs:58`), the exit status when a signal and a service's end coincide (the select at `main.rs:168`
is not biased), and the success reply sent before the UDP sockets are bound (`tcp.rs:486`).

Next, in this order:

1. Proofs: what of `CooldownKept` survives a restart (a successful call does, by its stamp on disk).
2. Abstract specifications: a resolver without cache or singleflight implemented by `DnsResolver`; an
   atomic account switch implemented by the commit of `Supervisor`.
3. `DnsResolver`: the query itself, with its servers tried one after the other and the matching of answers.
