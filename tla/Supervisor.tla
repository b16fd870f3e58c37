----------------------------- MODULE Supervisor -----------------------------
(***************************************************************************)
(* The supervisor (src/supervisor.rs) composed with the health probe, the  *)
(* account manager and the start of the process (src/main.rs).             *)
(*                                                                         *)
(* One task handles the events of a bounded channel one at a time.  A      *)
(* failed probe climbs the recovery ladder: back off, then reconnect, or   *)
(* fetch a new configuration, or register a new account, or rotate to the  *)
(* next identity of the pool.  Every call that awaits the network or       *)
(* writes the disk is a step of its own (pc), so that the probe task, the  *)
(* refresh timer, the business dials, the clock and a crash of the process *)
(* interleave with the handler at every await.  Network and disk outcomes  *)
(* are free.                                                               *)
(***************************************************************************)
EXTENDS AccountManager, Health

CONSTANTS
    ReconnectAfter, RebuildConfigAfter, ReregisterAfter, RotateIdentityAfter,
    BackoffMin, BackoffMax,
    RefreshInterval,     \* warp.refresh_interval, 0 disables the timer
    MaxStarts            \* bound: how often the process is started

\* Config::validate_with
ASSUME SupervisorAssumption ==
    /\ ReconnectAfter \in Nat \ {0} /\ RebuildConfigAfter \in Nat
    /\ ReregisterAfter \in Nat /\ RotateIdentityAfter \in 1 .. 255
    /\ ReconnectAfter <= RebuildConfigAfter
    /\ RebuildConfigAfter <= ReregisterAfter
    /\ ReregisterAfter <= RotateIdentityAfter
    /\ BackoffMin \in Nat /\ BackoffMax \in Nat /\ BackoffMin <= BackoffMax
    /\ RefreshInterval \in Nat
    /\ MaxStarts \in Nat

VARIABLES
    pc,            \* where the process (start, then handle_event) is
    job,           \* locals of the running handler
    creds,         \* Supervisor::creds
    wgConfig,      \* Supervisor::wg_config: the account it belongs to
    tunnelCreds,   \* the account the current generation handshook with
    fails,         \* consecutive_failures
    completed,     \* last_recovery_completed
    refresh,       \* the refresh timer task
    starts,        \* history: how often the process was started
    proven,        \* history: accounts that completed a WireGuard handshake
    recoveredGen,  \* history: generation in service when completed was stamped
    healthyGen     \* history: generation probed by the last applied ProbeOk

memoryVars == <<creds, wgConfig, tunnelCreds>>
historyVars == <<starts, proven, recoveredGen, healthyGen>>
supervisorVars == <<pc, job, fails, completed, refresh>>

vars == <<accountVars, now, events, generation, healthy, healthVars,
          memoryVars, supervisorVars, historyVars>>

Actions == {"None", "Reconnect", "RebuildConfig", "Reregister", "RotateIdentity"}

BootPcs == {"boot_config", "boot_register", "boot_rename", "boot_sync", "boot_connect"}

HandlerPcs == {"backoff", "get_config", "connect", "register", "identity",
               "connect_candidate", "rename", "sync", "stamp"}

\* reason: a recovery step or the scheduled refresh; wake: end of the backoff;
\* wg: the account whose configuration is being connected; file: the candidate
\* account; gen: history, the generation in service when the handler began.
Jobs == [action : Actions, reason : {"Recovery", "Refresh"}, wake : Nat,
         wg : Credentials, file : AccountFile, gen : Nat]

NoJob == [action |-> "None", reason |-> "Recovery", wake |-> 0,
          wg |-> NoCredentials, file |-> NoFile, gen |-> 0]

Running == pc \in HandlerPcs \cup {"idle"}

TypeOK ==
    /\ AccountTypeOK
    /\ HealthTypeOK
    /\ pc \in {"down", "idle"} \cup BootPcs \cup HandlerPcs
    /\ job \in Jobs
    /\ creds \in Credentials
    /\ wgConfig \in Credentials
    /\ tunnelCreds \in Credentials
    /\ fails \in 0 .. 255
    /\ completed \in Nat \cup {NoInstant}
    /\ refresh \in [at : Nat, pending : BOOLEAN]
    /\ starts \in Nat
    /\ proven \in SUBSET Credentials
    /\ recoveredGen \in Nat
    /\ healthyGen \in Nat
    /\ Len(events) <= QueueCap

Init ==
    /\ AccountInit
    /\ HealthInit
    /\ pc = "down"
    /\ job = NoJob
    /\ creds = NoCredentials /\ wgConfig = NoCredentials /\ tunnelCreds = NoCredentials
    /\ fails = 0
    /\ completed = NoInstant
    /\ refresh = [at |-> 0, pending |-> FALSE]
    /\ starts = 0
    /\ proven = {}
    /\ recoveredGen = 0
    /\ healthyGen = 0

Goto(p) == pc' = p

-----------------------------------------------------------------------------
(* The clocks, and the refresh timer.                                      *)

Tick ==
    /\ now < MaxTime \/ (pc = "backoff" /\ now < job.wake)
    /\ now' = now + 1
    /\ UNCHANGED <<accountVars, events, generation, healthy, healthVars, memoryVars,
                   supervisorVars, historyVars>>

WallClockSet ==
    /\ SetWallClock
    /\ UNCHANGED <<now, events, generation, healthy, healthVars, memoryVars,
                   supervisorVars, historyVars>>

\* The first tick of the interval is skipped; missed ticks are skipped.
RefreshTick ==
    /\ RefreshInterval > 0 /\ Running
    /\ ~ refresh.pending
    /\ now >= refresh.at /\ now < MaxTime
    /\ \E next \in now + 1 .. now + RefreshInterval :
          /\ (next - refresh.at) % RefreshInterval = 0
          /\ refresh' = [at |-> next, pending |-> TRUE]
    /\ UNCHANGED <<accountVars, now, events, generation, healthy, healthVars, memoryVars,
                   pc, job, fails, completed, historyVars>>

RefreshSend ==
    /\ refresh.pending
    /\ Len(events) < QueueCap
    /\ events' = Append(events, [cause |-> "refresh", observed |-> 0, gen |-> 0])
    /\ refresh' = [refresh EXCEPT !.pending = FALSE]
    /\ UNCHANGED <<accountVars, now, generation, healthy, healthVars, memoryVars,
                   pc, job, fails, completed, historyVars>>

\* probe_loop and the SOCKS5 handlers run while the process does.
WhileRunning(A) ==
    /\ Running
    /\ A
    /\ UNCHANGED <<accountVars, memoryVars, supervisorVars, historyVars>>

Background == WhileRunning(HealthNext)

-----------------------------------------------------------------------------
(* Start of the process: load_or_register, connect_candidate, Supervisor::new. *)

\* The process ends.  Everything but account.json is lost.
ProcessGone ==
    /\ Goto("down")
    /\ job' = NoJob
    /\ ForgetMemory
    /\ HealthReset
    /\ fails' = 0
    /\ completed' = NoInstant
    /\ refresh' = [at |-> 0, pending |-> FALSE]
    /\ creds' = NoCredentials /\ wgConfig' = NoCredentials /\ tunnelCreds' = NoCredentials
    /\ UNCHANGED <<now, generation, historyVars>>

Crash == pc # "down" /\ starts < MaxStarts /\ ProcessGone

NotStarted == <<events, generation, healthy, healthVars, memoryVars, fails, completed,
                refresh, proven, recoveredGen, healthyGen>>

StartWithAccount ==
    /\ pc = "down" /\ starts < MaxStarts
    /\ disk # NoFile
    /\ starts' = starts + 1
    /\ Goto("boot_config")
    /\ UNCHANGED <<accountVars, now, job, NotStarted>>

StartUnregistered ==
    /\ pc = "down" /\ starts < MaxStarts
    /\ disk = NoFile
    /\ starts' = starts + 1
    /\ CallRegister(now)
    /\ Goto("boot_register")
    /\ UNCHANGED <<disk, lastAttempt, nextIdx, skew, now, job, NotStarted>>

BootConfigOk ==
    /\ pc = "boot_config"
    /\ job' = [NoJob EXCEPT !.file = disk]
    /\ Goto("boot_connect")
    /\ UNCHANGED <<accountVars, now, starts, NotStarted>>

BootRegisterOk ==
    /\ pc = "boot_register"
    /\ job' = [NoJob EXCEPT !.file = RegisteredFile(now)]
    /\ Goto("boot_rename")
    /\ UNCHANGED <<accountVars, now, starts, NotStarted>>

BootRename ==
    /\ pc = "boot_rename"
    /\ SaveRename(job.file)
    /\ Goto("boot_sync")
    /\ UNCHANGED <<now, job, starts, NotStarted>>

BootSync ==
    /\ pc = "boot_sync"
    /\ Goto("boot_connect")
    /\ UNCHANGED <<accountVars, now, job, starts, NotStarted>>

BootConnectOk ==
    /\ pc = "boot_connect"
    /\ generation' = generation + 1
    /\ tunnelCreds' = job.file.credentials
    /\ creds' = job.file.credentials
    /\ wgConfig' = job.file.credentials
    /\ proven' = proven \cup {job.file.credentials}
    /\ refresh' = [at |-> now + RefreshInterval, pending |-> FALSE]
    /\ recoveredGen' = generation + 1
    /\ Goto("idle")
    /\ UNCHANGED <<accountVars, now, job, events, healthy, healthVars, fails, completed,
                   starts, healthyGen>>

\* Any error before the services run makes main return Err.
BootFail == pc \in BootPcs /\ ProcessGone

-----------------------------------------------------------------------------
(* handle_event.                                                           *)

\* Mutant of ProbeIsStale: a probe of the completing instant counts as fresh.
ProbeIsStaleStrict(observed) == completed # NoInstant /\ observed < completed

ProbeIsStale(observed) == completed # NoInstant /\ observed <= completed

action_for(n) ==
    IF n >= RotateIdentityAfter THEN "RotateIdentity"
    ELSE IF n >= ReregisterAfter THEN "Reregister"
    ELSE IF n >= RebuildConfigAfter THEN "RebuildConfig"
    ELSE IF n >= ReconnectAfter THEN "Reconnect"
    ELSE "None"

\* 2^exp for exp \in 0 .. 16
PowersOfTwo == <<1, 2, 4, 8, 16, 32, 64, 128, 256, 512, 1024, 2048, 4096, 8192,
                 16384, 32768, 65536>>

backoff(n) ==
    LET exp == IF n - 1 < 16 THEN n - 1 ELSE 16
        ms  == BackoffMin * PowersOfTwo[exp + 1]
    IN  IF ms < BackoffMax THEN ms ELSE BackoffMax

\* rx.recv(): the loop takes the next event only when no handler runs.
Receive ==
    /\ pc = "idle"
    /\ events # <<>>
    /\ events' = Tail(events)

DiscardStale ==
    /\ Receive
    /\ Head(events).cause # "refresh"
    /\ ProbeIsStale(Head(events).observed)
    /\ UNCHANGED <<accountVars, now, generation, healthy, healthVars, memoryVars,
                   supervisorVars, historyVars>>

\* Mutant of HandleProbeOk: a stale success is believed.
HandleProbeOkStale ==
    /\ Receive
    /\ Head(events).cause = "ok"
    /\ healthy' = TRUE
    /\ fails' = 0
    /\ healthyGen' = Head(events).gen
    /\ UNCHANGED <<accountVars, now, generation, healthVars, memoryVars,
                   pc, job, completed, refresh, starts, proven, recoveredGen>>

HandleProbeOk ==
    /\ Receive
    /\ Head(events).cause = "ok"
    /\ ~ ProbeIsStale(Head(events).observed)
    /\ healthy' = TRUE
    /\ fails' = 0
    /\ healthyGen' = Head(events).gen
    /\ UNCHANGED <<accountVars, now, generation, healthVars, memoryVars,
                   pc, job, completed, refresh, starts, proven, recoveredGen>>

HandleProbeFailed ==
    /\ Receive
    /\ Head(events).cause \in {"handshake", "quorum", "egress"}
    /\ ~ ProbeIsStale(Head(events).observed)
    /\ healthy' = FALSE
    /\ fails' = IF fails < 255 THEN fails + 1 ELSE fails
    /\ job' = [NoJob EXCEPT !.action = action_for(fails'), !.wake = now + backoff(fails'),
                            !.gen = generation]
    /\ Goto("backoff")
    /\ UNCHANGED <<accountVars, now, generation, healthVars, memoryVars,
                   completed, refresh, historyVars>>

HandleRefresh ==
    /\ Receive
    /\ Head(events).cause = "refresh"
    /\ job' = [NoJob EXCEPT !.reason = "Refresh", !.gen = generation]
    /\ Goto("get_config")
    /\ UNCHANGED <<accountVars, now, generation, healthy, healthVars, memoryVars,
                   fails, completed, refresh, historyVars>>

-----------------------------------------------------------------------------
(* escalate, and the four recovery actions.                                *)

Elsewhere == <<now, events, healthy, healthVars, fails, refresh, starts, healthyGen>>

AtAction(action) ==
    /\ pc = "backoff" /\ now >= job.wake
    /\ job.action = action

\* The handler returns without stamping a completed recovery.
Return ==
    /\ Goto("idle")
    /\ job' = NoJob
    /\ UNCHANGED <<generation, memoryVars, completed, proven, recoveredGen, Elsewhere>>

EscalateNone ==
    /\ AtAction("None")
    /\ Return
    /\ UNCHANGED accountVars

StartReconnect ==
    /\ AtAction("Reconnect")
    /\ job' = [job EXCEPT !.wg = wgConfig]
    /\ Goto("connect")
    /\ UNCHANGED <<accountVars, generation, memoryVars, completed, proven, recoveredGen,
                   Elsewhere>>

StartRebuildConfig ==
    /\ AtAction("RebuildConfig")
    /\ Goto("get_config")
    /\ UNCHANGED <<accountVars, job, generation, memoryVars, completed, proven,
                   recoveredGen, Elsewhere>>

\* action_reregister, called by the ladder or by action_rotate on an empty pool.
AtReregister == AtAction("Reregister") \/ (AtAction("RotateIdentity") /\ PoolFiles = <<>>)

StartReregister ==
    /\ AtReregister
    /\ PrepareReregister(now)
    /\ Goto("register")
    /\ UNCHANGED <<job, generation, memoryVars, completed, proven, recoveredGen, Elsewhere>>

\* Mutant of ReregisterRefused: a refused registration is taken as done.
ReregisterRefusedNoOp ==
    /\ AtReregister
    /\ RefuseReregister(now)
    /\ Goto("stamp")
    /\ UNCHANGED <<job, generation, memoryVars, completed, proven, recoveredGen, Elsewhere>>

\* prepare_reregister fails: fall back to action_rebuild_config.
ReregisterRefused ==
    /\ AtReregister
    /\ RefuseReregister(now)
    /\ Goto("get_config")
    /\ UNCHANGED <<job, generation, memoryVars, completed, proven, recoveredGen, Elsewhere>>

StartRotate ==
    /\ AtAction("RotateIdentity")
    /\ TakeIdentity
    /\ job' = [job EXCEPT !.file = NextIdentity]
    /\ Goto("identity")
    /\ UNCHANGED <<generation, memoryVars, completed, proven, recoveredGen, Elsewhere>>

\* refresh_config(creds): get_config answers with a configuration of creds.
GetConfigOk ==
    /\ pc = "get_config"
    /\ job' = [job EXCEPT !.wg = creds]
    /\ Goto("connect")
    /\ UNCHANGED <<accountVars, generation, memoryVars, completed, proven, recoveredGen,
                   Elsewhere>>

\* Mutant of RegisterOk: the account is committed before its tunnel connects.
RegisterOkCommitFirst ==
    /\ pc = "register"
    /\ job' = [job EXCEPT !.file = RegisteredFile(now)]
    /\ Goto("rename")
    /\ UNCHANGED <<accountVars, generation, memoryVars, completed, proven, recoveredGen,
                   Elsewhere>>

RegisterOk ==
    /\ pc = "register"
    /\ job' = [job EXCEPT !.file = RegisteredFile(now)]
    /\ Goto("connect_candidate")
    /\ UNCHANGED <<accountVars, generation, memoryVars, completed, proven, recoveredGen,
                   Elsewhere>>

RegisterErr ==
    /\ pc = "register"
    /\ Goto("get_config")
    /\ UNCHANGED <<accountVars, job, generation, memoryVars, completed, proven,
                   recoveredGen, Elsewhere>>

IdentityOk ==
    /\ pc = "identity"
    /\ Goto("connect_candidate")
    /\ UNCHANGED <<accountVars, job, generation, memoryVars, completed, proven,
                   recoveredGen, Elsewhere>>

\* Tunnel::replace
Replace(account) ==
    /\ generation' = generation + 1
    /\ tunnelCreds' = account

\* Where a handler that succeeded goes: only escalate stamps its completion.
Returned == IF job.reason = "Recovery" THEN "stamp" ELSE "idle"

\* Tunnel::rebuild: the handshake succeeds, the tunnel is replaced.
ConnectOk ==
    /\ pc = "connect"
    /\ Replace(job.wg)
    /\ wgConfig' = job.wg
    /\ proven' = proven \cup {job.wg}
    /\ Goto(Returned)
    /\ UNCHANGED <<accountVars, job, creds, completed, recoveredGen, Elsewhere>>

\* Tunnel::connect_candidate on the candidate's configuration.
ConnectCandidateOk ==
    /\ pc = "connect_candidate"
    /\ proven' = proven \cup {job.file.credentials}
    /\ Goto("rename")
    /\ UNCHANGED <<accountVars, job, generation, memoryVars, completed, recoveredGen,
                   Elsewhere>>

\* commit_candidate: persistence::save, the rename and then the syncs.
CommitRename ==
    /\ pc = "rename"
    /\ SaveRename(job.file)
    /\ Goto("sync")
    /\ UNCHANGED <<job, generation, memoryVars, completed, proven, recoveredGen, Elsewhere>>

\* Mutant of CommitSync: the WireGuard configuration is not replaced.
CommitSyncOldConfig ==
    /\ pc = "sync"
    /\ creds' = job.file.credentials
    /\ Replace(job.file.credentials)
    /\ Goto(Returned)
    /\ UNCHANGED <<accountVars, job, wgConfig, completed, proven, recoveredGen, Elsewhere>>

CommitSync ==
    /\ pc = "sync"
    /\ creds' = job.file.credentials
    /\ wgConfig' = job.file.credentials
    /\ Replace(job.file.credentials)
    /\ Goto(Returned)
    /\ UNCHANGED <<accountVars, job, completed, proven, recoveredGen, Elsewhere>>

\* Mutant of StepFails: the handler retries in place instead of returning.
StepFailsRetry ==
    /\ pc \in {"get_config", "connect", "identity", "connect_candidate", "rename", "sync"}
    /\ Goto("get_config")
    /\ UNCHANGED <<accountVars, job, generation, memoryVars, completed, proven,
                   recoveredGen, Elsewhere>>

\* An API call, a handshake or a disk write of the handler fails.
StepFails ==
    /\ pc \in {"get_config", "connect", "identity", "connect_candidate", "rename", "sync"}
    /\ Return
    /\ UNCHANGED accountVars

StampCompleted ==
    /\ pc = "stamp"
    /\ completed' = now
    /\ recoveredGen' = generation
    /\ Goto("idle")
    /\ job' = NoJob
    /\ UNCHANGED <<accountVars, generation, memoryVars, proven, Elsewhere>>

-----------------------------------------------------------------------------
Boot ==
    \/ StartWithAccount \/ StartUnregistered \/ BootConfigOk \/ BootRegisterOk
    \/ BootRename \/ BootSync \/ BootConnectOk \/ BootFail

Handle ==
    \/ DiscardStale \/ HandleProbeOk \/ HandleProbeFailed \/ HandleRefresh
    \/ EscalateNone \/ StartReconnect \/ StartRebuildConfig \/ StartReregister
    \/ ReregisterRefused \/ StartRotate \/ GetConfigOk \/ RegisterOk \/ RegisterErr
    \/ IdentityOk \/ ConnectOk \/ ConnectCandidateOk \/ CommitRename \/ CommitSync
    \/ StepFails \/ StampCompleted

\* The horizon of the model: time is up and everything has been handled, or
\* the process is down and is not started again.
Horizon ==
    /\ \/ now >= MaxTime /\ pc = "idle" /\ events = <<>>
       \/ pc = "down" /\ starts = MaxStarts /\ now >= MaxTime
    /\ UNCHANGED vars

Next ==
    \/ Tick \/ WallClockSet \/ RefreshTick \/ RefreshSend \/ Background
    \/ Boot \/ Crash \/ Handle \/ Horizon

Spec == Init /\ [][Next]_vars

\* The runtime keeps polling the supervisor task and the probe task; every
\* network call of a handler has a timeout, and time passes.
FairSpec ==
    /\ Spec
    /\ WF_vars(Tick)
    /\ WF_vars(Boot)
    /\ WF_vars(Handle)
    /\ WF_vars(RefreshSend)
    /\ WF_vars(WhileRunning(\E network \in {"ok", "handshake", "quorum"} : ProbeVerdict(network)))
    /\ WF_vars(WhileRunning(ProbeSend))

-----------------------------------------------------------------------------
(* Properties.                                                             *)

\* The credentials, the saved WireGuard configuration and the tunnel in service
\* belong to one account whenever the proxy runs: no failed step, no refresh
\* and no fallback mixes two accounts (action_rebuild_config,
\* action_reregister, action_rotate).
AccountsAgree == Running => creds = wgConfig /\ creds = tunnelCreds

\* Whenever the proxy runs, account.json names an account that has completed a
\* WireGuard handshake, so a crash at any point of a re-registration or a
\* rotation restarts on a usable account (commit_candidate is called after
\* connect_candidate).
DiskAccountProven == Running => disk.credentials \in proven

\* A recovery step that counts as completed has put a new tunnel into service,
\* also on the fallback paths: an empty identity pool, a refused registration
\* (action_rotate: the top of the ladder must never be a no-op).
RecoveryInstallsTunnel == pc = "stamp" => generation > job.gen

\* A handshake or dial probe that advances the ladder was taken on the tunnel
\* that the last completed recovery put into service, or on a later one
\* (probe_is_stale).
LadderIgnoresOldProbes ==
    [][ fails' > fails /\ Head(events).cause # "egress"
            => Head(events).gen >= recoveredGen ]_vars

\* The same of every failure, the egress statistics included.
LadderIgnoresOldEvidence ==
    [][ fails' > fails => Head(events).gen >= recoveredGen ]_vars

\* The health flag that opens the SOCKS5 gate is never set for a recovered
\* tunnel on the strength of a probe of the tunnel it replaced.
HealthyTunnelProbed == healthy => healthyGen >= recoveredGen

\* Two calls of the registration API are at least the cooldown apart, failed
\* ones and the one at the start of the process included (prepare_reregister).
RegistrationsSpaced ==
    [][ calls'.n # calls.n /\ calls.last # NoInstant
            => now - calls.last >= RegisterCooldown ]_vars

\* What prepare_reregister keeps of that, in a process without an identity pool
\* and whatever the wall clock does: the cooldown after every attempt that is in
\* memory, and after the registration at the start, which only account.json
\* remembers, the cooldown less the part of a second that its stamp has lost,
\* unless the wall clock has been set since.
CooldownKept ==
    [][ calls'.n # calls.n /\ calls.last # NoInstant
            => \/ now - calls.last >= RegisterCooldown
               \/ /\ lastAttempt = NoInstant
                  /\ calls.wallSet \/ now - calls.last > RegisterCooldown - Second ]_vars

\* When no handler runs, account.json names the account in use: a failed
\* re-registration or rotation keeps the current account.
FailedStepKeepsAccount == pc = "idle" => disk.credentials = creds

\* Every handler ends, whatever fails, and a probe waiting for room in the
\* channel gets to send its event or dies with the process.
HandlersReturn == pc \in HandlerPcs ~> pc \in {"idle", "down"}
ProbesAreSent == probe.pc = "send" ~> probe.pc = "tick"
=============================================================================
