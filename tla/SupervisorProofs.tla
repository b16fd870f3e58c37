-------------------------- MODULE SupervisorProofs ---------------------------
(***************************************************************************)
(* Safety of the supervisor composed with the probe, the account manager   *)
(* and the restarts of the process (Supervisor), proved for every recovery *)
(* ladder, cooldown, identity pool, channel capacity and number of starts. *)
(***************************************************************************)
EXTENDS Supervisor, TLAPS, FiniteSetTheorems

USE AccountAssumption, HealthAssumption, SupervisorAssumption

-----------------------------------------------------------------------------
(* Types of the operators.                                                 *)

\* The types of the account constants.
LEMMA AccountTypes ==
    /\ NoCredentials \in Credentials
    /\ NoFile \in AccountFile
    /\ NoJob \in Jobs
    /\ \A file \in AccountFile : file.credentials \in Credentials
    /\ \A job1 \in Jobs : job1.file \in AccountFile /\ job1.wg \in Credentials
BY DEF NoCredentials, Credentials, NoFile, AccountFile, NoJob, Jobs, Actions

\* as_secs drops less than a second.
LEMMA WholeSeconds ==
    ASSUME NEW w \in Nat
    PROVE  /\ w \div Second \in Nat
           /\ Second * (w \div Second) \in Nat
           /\ Second * (w \div Second) <= w
           /\ w < Second * (w \div Second) + Second
<1>1. Second \in Nat \ {0}
  BY AccountAssumption DEF AccountAssumption
<1>2. \A s \in Nat \ {0} : \A v \in Nat :
         /\ v \div s \in Nat /\ s * (v \div s) \in Nat
         /\ s * (v \div s) <= v /\ v < s * (v \div s) + s
  OBVIOUS
<1>3. QED
  BY <1>1, <1>2

\* A registration yields an account file.
LEMMA RegisteredFileType ==
    ASSUME AccountTypeOK, NEW t \in Nat
    PROVE  RegisteredFile(t) \in AccountFile
<1>1. Second \in Nat \ {0} /\ Wall(t) \in Nat
  BY AccountAssumption DEF AccountTypeOK, AccountAssumption, Wall
<1>2. \A w \in Nat : w \div Second \in Nat
  BY <1>1, WholeSeconds
<1>3. QED
  BY <1>1, <1>2 DEF AccountTypeOK, RegisteredFile, AccountFile, Credentials, Calls

\* A non-empty pool yields an account file.
LEMMA NextIdentityType ==
    ASSUME AccountTypeOK, PoolFiles # <<>>
    PROVE  NextIdentity \in AccountFile
<1>1. Len(PoolFiles) \in Nat \ {0}
  BY DEF AccountAssumption
<1>2. nextIdx % Len(PoolFiles) \in 0 .. (Len(PoolFiles) - 1)
  BY <1>1 DEF AccountTypeOK
<1>3. QED
  BY <1>1, <1>2 DEF NextIdentity, AccountAssumption

\* The table of powers holds numbers.
LEMMA PowersType == \A i \in 1 .. 17 : PowersOfTwo[i] \in Nat
<1>1. PowersOfTwo \in Seq(Nat) /\ Len(PowersOfTwo) = 17
  BY DEF PowersOfTwo
<1>2. \A s \in Seq(Nat) : \A i \in 1 .. Len(s) : s[i] \in Nat
  OBVIOUS
<1>3. QED
  BY <1>1, <1>2, Zenon

\* The backoff of every failure count of a u8 is a duration.
LEMMA BackoffType == \A n \in 1 .. 255 : backoff(n) \in Nat
<1>1. \A i \in 1 .. 17 : PowersOfTwo[i] \in Nat
  BY PowersType
<1>2. \A m \in Nat : BackoffMin * m \in Nat
  OBVIOUS
<1> SUFFICES ASSUME NEW n \in 1 .. 255 PROVE backoff(n) \in Nat
  OBVIOUS
<1> DEFINE exp == IF n - 1 < 16 THEN n - 1 ELSE 16
<1>3. exp + 1 \in 1 .. 17
  OBVIOUS
<1> HIDE DEF exp
<1>4. BackoffMin * PowersOfTwo[exp + 1] \in Nat
  BY <1>1, <1>2, <1>3
<1>5. QED
  BY <1>4 DEF backoff, exp

\* Every failure count has an action.
LEMMA ActionForType == \A n \in Nat : action_for(n) \in Actions
BY DEF action_for, Actions

-----------------------------------------------------------------------------
(* Type correctness.                                                       *)

\* The types hold before the first start.
LEMMA InitType == Init => TypeOK
<1> SUFFICES ASSUME Init PROVE TypeOK
  OBVIOUS
<1>1. AccountTypeOK
  BY DEF Init, AccountInit, AccountTypeOK, NoFile, NoCredentials, AccountFile, Credentials,
     Calls, NoInstant
<1>2. HealthTypeOK
  <2>1. IdleProbe \in [pc : {"tick", "probing", "send"}, observed : Nat, gen : Nat, cause : Causes]
    BY DEF IdleProbe, Causes
  <2>2. EmptyWindow \in [ok : Nat, failed : Nat, gen : Nat]
    BY DEF EmptyWindow
  <2>3. dials \in [Dials -> [pc : {"new", "dialing", "ok", "failed", "dropped"}, gen : Nat]]
    BY DEF Init, HealthInit
  <2>4. events \in Seq(Events)
    BY DEF Init, HealthInit
  <2>5. QED
    BY <2>1, <2>2, <2>3, <2>4 DEF Init, HealthInit, HealthTypeOK
<1>3. Len(events) <= QueueCap
  BY DEF Init, HealthInit
<1>4. QED
  BY <1>1, <1>2, <1>3, AccountTypes DEF Init, TypeOK, NoInstant

\* Sending an event keeps the type of the channel.
LEMMA AppendEvent ==
    ASSUME NEW q \in Seq(Events), Len(q) < QueueCap, NEW e \in Events
    PROVE  Append(q, e) \in Seq(Events) /\ Len(Append(q, e)) <= QueueCap
OBVIOUS

\* The clocks and the refresh timer keep the types.
LEMMA TimeType ==
    ASSUME TypeOK, Tick \/ WallClockSet \/ RefreshTick \/ RefreshSend
    PROVE  TypeOK'
<1>1. CASE Tick
  BY <1>1 DEF Tick, TypeOK, AccountTypeOK, HealthTypeOK, memoryVars, supervisorVars,
     historyVars, accountVars, healthVars
<1>2. CASE RefreshTick
  <2>1. now \in Nat
    BY DEF TypeOK, HealthTypeOK
  <2>2. refresh' \in [at : Nat, pending : BOOLEAN]
    BY <1>2, <2>1 DEF RefreshTick
  <2>3. QED
    BY <1>2, <2>2 DEF RefreshTick, TypeOK, AccountTypeOK, HealthTypeOK, memoryVars,
       historyVars, accountVars, healthVars
<1>3. CASE RefreshSend
  <2>1. [cause |-> "refresh", observed |-> 0, gen |-> 0] \in Events
    BY DEF Events, Causes
  <2>2. events \in Seq(Events) /\ refresh \in [at : Nat, pending : BOOLEAN]
    BY DEF TypeOK, HealthTypeOK
  <2>3. events' \in Seq(Events) /\ Len(events') <= QueueCap
    BY <1>3, <2>1, <2>2, AppendEvent DEF RefreshSend
  <2>4. refresh' \in [at : Nat, pending : BOOLEAN]
    BY <1>3, <2>2 DEF RefreshSend
  <2>5. QED
    BY <1>3, <2>3, <2>4 DEF RefreshSend, TypeOK, AccountTypeOK, HealthTypeOK, memoryVars,
       historyVars, accountVars, healthVars
<1>4. CASE WallClockSet
  <2>1. calls \in Calls /\ calls' = [calls EXCEPT !.wallSet = TRUE]
    BY <1>4 DEF TypeOK, AccountTypeOK, WallClockSet, SetWallClock
  <2>2. calls' \in Calls
    BY <2>1 DEF Calls
  <2>3. QED
    BY <1>4, <2>2 DEF WallClockSet, SetWallClock, TypeOK, AccountTypeOK, HealthTypeOK,
       memoryVars, supervisorVars, historyVars, healthVars
<1>5. QED
  BY <1>1, <1>2, <1>3, <1>4

\* Dials and the probe keep the types.
LEMMA HealthType ==
    ASSUME HealthTypeOK, Len(events) <= QueueCap, HealthNext
    PROVE  HealthTypeOK' /\ Len(events') <= QueueCap
<1> USE DEF HealthTypeOK
<1>1. ASSUME NEW d \in Dials, DialStart(d)
      PROVE  HealthTypeOK' /\ Len(events') <= QueueCap
  BY <1>1 DEF DialStart
<1>2. ASSUME NEW d \in Dials, NEW success \in BOOLEAN, DialEnd(d, success)
      PROVE  HealthTypeOK' /\ Len(events') <= QueueCap
  <2>1. dials[d].gen \in Nat
    OBVIOUS
  <2>2. egress' \in [ok : Nat, failed : Nat, gen : Nat]
    <3>0. egress \in [ok : Nat, failed : Nat, gen : Nat] /\ egress.ok + 1 \in Nat
          /\ egress.failed + 1 \in Nat
      OBVIOUS
    <3> DEFINE gen == IF dials[d].gen > egress.gen THEN dials[d].gen ELSE egress.gen
    <3>1. gen \in Nat
      BY <2>1, <3>0
    <3> HIDE DEF gen
    <3>2. \/ egress' = [egress EXCEPT !.ok = egress.ok + 1]
          \/ egress' = [egress EXCEPT !.failed = egress.failed + 1, !.gen = gen]
      BY <1>2 DEF DialEnd, gen
    <3> HIDE DEF HealthTypeOK
    <3>3. QED
      BY <3>0, <3>1, <3>2
  <2>3. dials' \in [Dials -> [pc : {"new", "dialing", "ok", "failed", "dropped"}, gen : Nat]]
    <3>1. CASE success
      BY <1>2, <3>1 DEF DialEnd
    <3>2. CASE ~ success
      BY <1>2, <3>2 DEF DialEnd
    <3>3. QED
      BY <3>1, <3>2
  <2>4. QED
    BY <1>2, <2>2, <2>3 DEF DialEnd
<1>3. CASE ProbeTick
  BY <1>3 DEF ProbeTick
<1>4. ASSUME NEW network \in {"ok", "handshake", "quorum"}, ProbeVerdict(network)
      PROVE  HealthTypeOK' /\ Len(events') <= QueueCap
  <2> DEFINE rounds == IF IsDegraded(egress) THEN degraded + 1 ELSE 0
             cause  == IF network # "ok" THEN network
                       ELSE IF rounds >= DegradedRounds THEN "egress" ELSE "ok"
             gen    == IF cause = "egress" THEN egress.gen ELSE probe.gen
  <2>1. rounds \in Nat
    OBVIOUS
  <2> HIDE DEF rounds
  <2>2. cause \in Causes
    BY DEF Causes
  <2>3. /\ degraded' = IF cause = "egress" THEN 0 ELSE rounds
        /\ egress' = EmptyWindow
        /\ probe' = [probe EXCEPT !.pc = "send", !.cause = cause, !.gen = gen]
        /\ verdicts' = IF cause = "egress" THEN verdicts + 1 ELSE verdicts
        /\ UNCHANGED <<now, events, generation, healthy, dials>>
    BY <1>4 DEF ProbeVerdict, rounds
  <2> HIDE DEF cause
  <2>4. gen \in Nat
    OBVIOUS
  <2> HIDE DEF gen
  <2>5. probe' \in [pc : {"tick", "probing", "send"}, observed : Nat, gen : Nat, cause : Causes]
    BY <2>2, <2>3, <2>4
  <2>6. egress' \in [ok : Nat, failed : Nat, gen : Nat]
    BY <2>3 DEF EmptyWindow
  <2>7. degraded' \in Nat /\ verdicts' \in Nat
    <3>1. verdicts \in Nat
      OBVIOUS
    <3> HIDE DEF HealthTypeOK
    <3>2. degraded' = 0 \/ degraded' = rounds
      BY <2>3, Zenon
    <3>3. verdicts' = verdicts + 1 \/ verdicts' = verdicts
      BY <2>3, Zenon
    <3>4. QED
      BY <2>1, <3>1, <3>2, <3>3
  <2>8. QED
    BY <2>3, <2>5, <2>6, <2>7
<1>5. CASE ProbeSend
  <2>1. [cause |-> probe.cause, observed |-> probe.observed, gen |-> probe.gen] \in Events
    BY DEF Events
  <2>2. events' \in Seq(Events) /\ Len(events') <= QueueCap
    BY <1>5, <2>1, AppendEvent DEF ProbeSend
  <2>3. QED
    BY <1>5, <2>2 DEF ProbeSend
<1>6. QED
  BY <1>1, <1>2, <1>3, <1>4, <1>5 DEF HealthNext

\* The types of the locals of a handler.
LEMMA JobTypes ==
    ASSUME TypeOK
    PROVE  /\ job \in Jobs /\ job.file \in AccountFile /\ job.wg \in Credentials
           /\ job.file.credentials \in Credentials
           /\ job.gen \in Nat /\ job.wake \in Nat
           /\ now \in Nat /\ generation \in Nat
           /\ disk \in AccountFile /\ creds \in Credentials /\ wgConfig \in Credentials
<1>1. /\ job \in Jobs /\ now \in Nat /\ generation \in Nat
      /\ disk \in AccountFile /\ creds \in Credentials /\ wgConfig \in Credentials
  BY DEF TypeOK, HealthTypeOK, AccountTypeOK
<1>2. job.gen \in Nat /\ job.wake \in Nat
  BY <1>1 DEF Jobs
<1>3. QED
  BY <1>1, <1>2, AccountTypes

\* The locals of a handler that begins have their types.
LEMMA NewJobTypes ==
    ASSUME NEW file \in AccountFile, NEW gen \in Nat, NEW action \in Actions, NEW wake \in Nat
    PROVE  /\ [NoJob EXCEPT !.file = file] \in Jobs
           /\ [NoJob EXCEPT !.reason = "Refresh", !.gen = gen] \in Jobs
           /\ [NoJob EXCEPT !.action = action, !.wake = wake, !.gen = gen] \in Jobs
BY AccountTypes DEF Jobs

\* A call of the registration API keeps the types.
LEMMA CallRegisterType ==
    ASSUME TypeOK, CallRegister(now)
    PROVE  calls' \in Calls
<1>1. calls \in Calls /\ now \in Nat
  BY DEF TypeOK, AccountTypeOK, HealthTypeOK
<1>2. calls.n + 1 \in Nat
  BY <1>1 DEF Calls
<1>3. QED
  BY <1>1, <1>2 DEF CallRegister, Calls

\* The end of the process keeps the types.
LEMMA ProcessGoneType ==
    ASSUME TypeOK, ProcessGone
    PROVE  TypeOK'
<1>1. AccountTypeOK'
  BY DEF TypeOK, AccountTypeOK, ProcessGone, ForgetMemory, NoInstant
<1>2. IdleProbe \in [pc : {"tick", "probing", "send"}, observed : Nat, gen : Nat, cause : Causes]
  BY DEF IdleProbe, Causes
<1>3. EmptyWindow \in [ok : Nat, failed : Nat, gen : Nat]
  BY DEF EmptyWindow
<1>4. dials' \in [Dials -> [pc : {"new", "dialing", "ok", "failed", "dropped"}, gen : Nat]]
  <2>1. dials \in [Dials -> [pc : {"new", "dialing", "ok", "failed", "dropped"}, gen : Nat]]
    BY DEF TypeOK, HealthTypeOK
  <2>2. \A d \in Dials : [dials[d] EXCEPT !.pc = "dropped"]
                            \in [pc : {"new", "dialing", "ok", "failed", "dropped"}, gen : Nat]
    BY <2>1
  <2>3. dials' = [d \in Dials |-> IF dials[d].pc = "dialing"
                                  THEN [dials[d] EXCEPT !.pc = "dropped"] ELSE dials[d]]
    BY DEF ProcessGone, HealthReset
  <2>4. QED
    BY <2>1, <2>2, <2>3
<1>5. /\ events' = <<>> /\ healthy' = FALSE /\ probe' = IdleProbe /\ degraded' = 0
      /\ egress' = EmptyWindow /\ now' = now /\ generation' = generation
      /\ verdicts' = verdicts
  BY DEF ProcessGone, HealthReset
<1>6. events' \in Seq(Events) /\ Len(events') <= QueueCap
  BY <1>5
<1>7. HealthTypeOK'
  BY <1>2, <1>3, <1>4, <1>5, <1>6 DEF TypeOK, HealthTypeOK
<1>8. /\ pc' = "down" /\ job' = NoJob /\ fails' = 0 /\ completed' = NoInstant
      /\ refresh' = [at |-> 0, pending |-> FALSE]
      /\ creds' = NoCredentials /\ wgConfig' = NoCredentials /\ tunnelCreds' = NoCredentials
      /\ starts' = starts /\ proven' = proven /\ recoveredGen' = recoveredGen
      /\ healthyGen' = healthyGen
  BY DEF ProcessGone, Goto, historyVars
<1>9. refresh' \in [at : Nat, pending : BOOLEAN]
  BY <1>8
<1>10. QED
  BY <1>1, <1>6, <1>7, <1>8, <1>9, AccountTypes DEF TypeOK, NoInstant

\* Start and crash keep the types.
LEMMA BootType ==
    ASSUME TypeOK, Boot
    PROVE  TypeOK'
<1>1. CASE StartWithAccount
  <2>1. AccountTypeOK' /\ HealthTypeOK'
    BY <1>1 DEF StartWithAccount, NotStarted, TypeOK, AccountTypeOK, HealthTypeOK,
       accountVars, healthVars
  <2>2. QED
    BY <1>1, <2>1 DEF StartWithAccount, Goto, NotStarted, TypeOK, memoryVars, BootPcs
<1>2. CASE StartUnregistered
  <2>1. calls' \in Calls
    BY <1>2, CallRegisterType DEF StartUnregistered
  <2>2. QED
    BY <1>2, <2>1 DEF StartUnregistered, Goto, NotStarted, TypeOK, AccountTypeOK, HealthTypeOK,
       healthVars, memoryVars, BootPcs
<1>3. CASE BootConfigOk
  <2>1. job' \in Jobs
    BY <1>3, JobTypes, NewJobTypes DEF BootConfigOk, Actions
  <2>2. QED
    BY <1>3, <2>1 DEF BootConfigOk, Goto, NotStarted, TypeOK, AccountTypeOK, HealthTypeOK,
       accountVars, healthVars, memoryVars, BootPcs
<1>4. CASE BootRegisterOk
  <2>1. RegisteredFile(now) \in AccountFile
    BY JobTypes, RegisteredFileType DEF TypeOK
  <2>2. job' \in Jobs
    BY <1>4, <2>1, NewJobTypes DEF BootRegisterOk, Actions
  <2>3. QED
    BY <1>4, <2>2 DEF BootRegisterOk, Goto, NotStarted, TypeOK, AccountTypeOK, HealthTypeOK,
       accountVars, healthVars, memoryVars, BootPcs
<1>5. CASE BootRename
  BY <1>5, JobTypes DEF BootRename, SaveRename, Goto, NotStarted, TypeOK, AccountTypeOK,
     HealthTypeOK, healthVars, memoryVars, BootPcs
<1>6. CASE BootSync
  BY <1>6 DEF BootSync, Goto, NotStarted, TypeOK, AccountTypeOK, HealthTypeOK,
     accountVars, healthVars, memoryVars, BootPcs
<1>7. CASE BootConnectOk
  <2>1. refresh' \in [at : Nat, pending : BOOLEAN]
    <3>1. now + RefreshInterval \in Nat
      BY JobTypes
    <3>2. QED
      BY <1>7, <3>1 DEF BootConnectOk
  <2>2. /\ creds' \in Credentials /\ wgConfig' \in Credentials /\ tunnelCreds' \in Credentials
        /\ generation' \in Nat /\ recoveredGen' \in Nat
        /\ proven' \in SUBSET Credentials
    <3>1. job.file.credentials \in Credentials /\ generation + 1 \in Nat
      BY JobTypes
    <3>2. proven \in SUBSET Credentials
      BY DEF TypeOK
    <3>3. QED
      BY <1>7, <3>1, <3>2 DEF BootConnectOk
  <2>3. QED
    BY <1>7, <2>1, <2>2 DEF BootConnectOk, Goto, TypeOK, AccountTypeOK, HealthTypeOK,
       accountVars, healthVars
<1>8. CASE BootFail
  BY <1>8, ProcessGoneType DEF BootFail
<1>9. QED
  BY <1>1, <1>2, <1>3, <1>4, <1>5, <1>6, <1>7, <1>8 DEF Boot

\* Receiving an event keeps the type of the channel.
LEMMA ReceiveType ==
    ASSUME TypeOK, Receive
    PROVE  /\ events' \in Seq(Events) /\ Len(events') <= QueueCap
           /\ Head(events) \in Events
<1>1. events \in Seq(Events) /\ events # <<>> /\ events' = Tail(events)
      /\ Len(events) <= QueueCap
  BY DEF TypeOK, HealthTypeOK, Receive
<1>2. QED
  BY <1>1

\* handle_event keeps the types up to its first await.
LEMMA HandleEventType ==
    ASSUME TypeOK, DiscardStale \/ HandleProbeOk \/ HandleProbeFailed \/ HandleRefresh
    PROVE  TypeOK'
<1>1. Receive
  BY DEF DiscardStale, HandleProbeOk, HandleProbeFailed, HandleRefresh
<1>2. events' \in Seq(Events) /\ Len(events') <= QueueCap /\ Head(events) \in Events
  BY <1>1, ReceiveType
<1>3. CASE DiscardStale
  BY <1>2, <1>3 DEF DiscardStale, TypeOK, AccountTypeOK, HealthTypeOK, memoryVars,
     supervisorVars, historyVars, accountVars, healthVars
<1>4. CASE HandleProbeOk
  <2>1. Head(events).gen \in Nat
    BY <1>2 DEF Events
  <2>2. QED
    BY <1>2, <1>4, <2>1 DEF HandleProbeOk, TypeOK, AccountTypeOK, HealthTypeOK, memoryVars,
       accountVars, healthVars
<1>5. CASE HandleProbeFailed
  <2>1. fails \in 0 .. 255
    BY DEF TypeOK
  <2>2. fails' \in 1 .. 255
    <3>1. fails' = IF fails < 255 THEN fails + 1 ELSE fails
      BY <1>5 DEF HandleProbeFailed
    <3>2. QED
      BY <2>1, <3>1
  <2>3. action_for(fails') \in Actions /\ backoff(fails') \in Nat
    <3>1. \A n \in 1 .. 255 : n \in Nat
      OBVIOUS
    <3>2. fails' \in Nat
      BY <2>2, <3>1, Zenon
    <3>3. QED
      BY <2>2, <3>2, ActionForType, BackoffType, Zenon
  <2>4. job' \in Jobs
    <3>1. now \in Nat /\ generation \in Nat
      BY JobTypes
    <3>2. now + backoff(fails') \in Nat
      BY <2>3, <3>1
    <3>3. job' = [NoJob EXCEPT !.action = action_for(fails'), !.wake = now + backoff(fails'),
                               !.gen = generation]
      BY <1>5 DEF HandleProbeFailed
    <3>4. QED
      BY <2>3, <3>1, <3>2, <3>3, NewJobTypes, AccountTypes
  <2>5. /\ pc' = "backoff" /\ healthy' = FALSE
        /\ UNCHANGED <<accountVars, now, generation, healthVars, memoryVars,
                       completed, refresh, historyVars>>
    BY <1>5 DEF HandleProbeFailed, Goto
  <2>6. AccountTypeOK' /\ HealthTypeOK'
    BY <1>2, <2>5 DEF TypeOK, AccountTypeOK, HealthTypeOK, accountVars, healthVars
  <2>7. fails' \in 0 .. 255
    BY <2>2
  <2>8. QED
    BY <1>2, <2>4, <2>5, <2>6, <2>7 DEF TypeOK, memoryVars, historyVars, HandlerPcs
<1>6. CASE HandleRefresh
  <2>1. job' \in Jobs
    BY <1>6, JobTypes, NewJobTypes, AccountTypes DEF HandleRefresh, Actions
  <2>2. QED
    BY <1>2, <1>6, <2>1 DEF HandleRefresh, Goto, TypeOK, AccountTypeOK, HealthTypeOK,
       memoryVars, historyVars, accountVars, healthVars, HandlerPcs
<1>7. QED
  BY <1>3, <1>4, <1>5, <1>6

\* The steps of escalate and of the recovery actions.
RecoveryStep ==
    \/ EscalateNone \/ StartReconnect \/ StartRebuildConfig \/ StartReregister
    \/ ReregisterRefused \/ StartRotate \/ GetConfigOk \/ RegisterOk \/ RegisterErr
    \/ IdentityOk \/ ConnectOk \/ ConnectCandidateOk \/ CommitRename \/ CommitSync
    \/ StepFails \/ StampCompleted

\* What no step of a recovery touches, and where it can be.
LEMMA RecoveryFrame ==
    ASSUME RecoveryStep
    PROVE  /\ UNCHANGED <<now, events, healthy, healthVars, fails, refresh, starts, healthyGen>>
           /\ pc \in HandlerPcs
           /\ pc' \in HandlerPcs \cup {"idle"}
BY DEF RecoveryStep, EscalateNone, StartReconnect, StartRebuildConfig, StartReregister,
   ReregisterRefused, StartRotate, GetConfigOk, RegisterOk, RegisterErr, IdentityOk,
   ConnectOk, ConnectCandidateOk, CommitRename, CommitSync, StepFails, StampCompleted,
   Return, Returned, Goto, AtAction, AtReregister, Elsewhere, HandlerPcs, healthVars

\* A step of a recovery keeps the types of the account manager.
LEMMA RecoveryAccount ==
    ASSUME TypeOK, RecoveryStep
    PROVE  AccountTypeOK'
<1>1. CASE UNCHANGED accountVars
  BY <1>1 DEF TypeOK, AccountTypeOK, accountVars
<1>2. CASE StartReregister
  <2>1. calls' \in Calls
    BY <1>2, CallRegisterType DEF StartReregister, PrepareReregister
  <2>2. QED
    BY <1>2, <2>1, JobTypes DEF StartReregister, PrepareReregister, TypeOK, AccountTypeOK
<1>3. CASE StartRotate
  <2>1. nextIdx' = nextIdx + 1 /\ UNCHANGED <<disk, lastAttempt, skew, calls>>
    BY <1>3 DEF StartRotate, TakeIdentity
  <2>2. QED
    BY <2>1 DEF TypeOK, AccountTypeOK
<1>4. CASE CommitRename
  BY <1>4, JobTypes DEF CommitRename, SaveRename, TypeOK, AccountTypeOK
<1>5. QED
  BY <1>1, <1>2, <1>3, <1>4 DEF RecoveryStep, EscalateNone, StartReconnect,
     StartRebuildConfig, ReregisterRefused, RefuseReregister, GetConfigOk, RegisterOk,
     RegisterErr, IdentityOk, ConnectOk, ConnectCandidateOk, CommitSync, StepFails,
     StampCompleted

\* A step of a recovery keeps the types of its locals.
LEMMA RecoveryJob ==
    ASSUME TypeOK, RecoveryStep
    PROVE  job' \in Jobs
<1>1. CASE job' = job \/ job' = NoJob
  BY <1>1, JobTypes, AccountTypes
<1>2. CASE StartReconnect \/ GetConfigOk
  BY <1>2, JobTypes DEF StartReconnect, GetConfigOk, Jobs
<1>3. CASE StartRotate
  <2>1. NextIdentity \in AccountFile
    BY <1>3, NextIdentityType DEF StartRotate, TakeIdentity, TypeOK
  <2>2. QED
    BY <1>3, <2>1, JobTypes DEF StartRotate, Jobs
<1>4. CASE RegisterOk
  <2>1. RegisteredFile(now) \in AccountFile
    BY JobTypes, RegisteredFileType DEF TypeOK
  <2>2. QED
    BY <1>4, <2>1, JobTypes DEF RegisterOk, Jobs
<1>5. QED
  BY <1>1, <1>2, <1>3, <1>4 DEF RecoveryStep, EscalateNone, StartRebuildConfig,
     StartReregister, ReregisterRefused, RegisterErr, IdentityOk, ConnectOk,
     ConnectCandidateOk, CommitRename, CommitSync, StepFails, StampCompleted, Return

\* A step of a recovery keeps the types of the memory and of the history.
LEMMA RecoveryMemory ==
    ASSUME TypeOK, RecoveryStep
    PROVE  /\ creds' \in Credentials /\ wgConfig' \in Credentials /\ tunnelCreds' \in Credentials
           /\ generation' \in Nat /\ recoveredGen' \in Nat
           /\ completed' \in Nat \cup {NoInstant}
           /\ proven' \in SUBSET Credentials
<1>0. /\ creds \in Credentials /\ wgConfig \in Credentials /\ tunnelCreds \in Credentials
      /\ generation \in Nat /\ recoveredGen \in Nat /\ completed \in Nat \cup {NoInstant}
      /\ proven \in SUBSET Credentials
  BY DEF TypeOK, HealthTypeOK
<1>1. CASE ConnectOk
  BY <1>0, <1>1, JobTypes DEF ConnectOk, Replace
<1>2. CASE ConnectCandidateOk
  BY <1>0, <1>2, JobTypes DEF ConnectCandidateOk, memoryVars
<1>3. CASE CommitSync
  BY <1>0, <1>3, JobTypes DEF CommitSync, Replace
<1>4. CASE StampCompleted
  BY <1>0, <1>4, JobTypes DEF StampCompleted, memoryVars
<1>5. CASE UNCHANGED <<generation, memoryVars, completed, proven, recoveredGen>>
  BY <1>0, <1>5 DEF memoryVars
<1>6. QED
  BY <1>1, <1>2, <1>3, <1>4, <1>5 DEF RecoveryStep, EscalateNone, StartReconnect,
     StartRebuildConfig, StartReregister, ReregisterRefused, StartRotate, GetConfigOk,
     RegisterOk, RegisterErr, IdentityOk, CommitRename, StepFails, Return

\* Every step keeps the types.
LEMMA NextType == TypeOK /\ [Next]_vars => TypeOK'
<1> SUFFICES ASSUME TypeOK, [Next]_vars PROVE TypeOK'
  OBVIOUS
<1>1. CASE Tick \/ WallClockSet \/ RefreshTick \/ RefreshSend
  BY <1>1, TimeType
<1>2. CASE Background
  <2>1. HealthTypeOK' /\ Len(events') <= QueueCap
    BY <1>2, HealthType DEF Background, WhileRunning, TypeOK
  <2>2. QED
    BY <1>2, <2>1 DEF Background, WhileRunning, TypeOK, AccountTypeOK, memoryVars,
       supervisorVars, historyVars, accountVars
<1>3. CASE Boot
  BY <1>3, BootType
<1>4. CASE Crash
  BY <1>4, ProcessGoneType DEF Crash
<1>5. CASE DiscardStale \/ HandleProbeOk \/ HandleProbeFailed \/ HandleRefresh
  BY <1>5, HandleEventType
<1>6. CASE RecoveryStep
  <2>1. HealthTypeOK'
    BY <1>6, RecoveryFrame, RecoveryMemory DEF TypeOK, HealthTypeOK, healthVars
  <2>2. QED
    BY <1>6, <2>1, RecoveryFrame, RecoveryAccount, RecoveryJob, RecoveryMemory DEF TypeOK
<1>7. CASE Horizon \/ UNCHANGED vars
  <2>1. UNCHANGED <<accountVars, now, events, generation, healthy, healthVars,
                    memoryVars, supervisorVars, historyVars>>
    BY <1>7 DEF Horizon, vars
  <2>2. AccountTypeOK' /\ HealthTypeOK'
    BY <2>1 DEF TypeOK, AccountTypeOK, HealthTypeOK, accountVars, healthVars
  <2>3. QED
    BY <2>1, <2>2 DEF TypeOK, memoryVars, supervisorVars, historyVars
<1>8. QED
  BY <1>1, <1>2, <1>3, <1>4, <1>5, <1>6, <1>7 DEF Next, Handle, RecoveryStep

\* Every reachable state is well-formed; in particular the events waiting for
\* the supervisor never exceed the capacity of the channel, although the probe
\* task and the refresh timer both send on it.
THEOREM TypeCorrect == Spec => []TypeOK
BY InitType, NextType, PTL DEF Spec

-----------------------------------------------------------------------------
(* Accounts: memory, disk and tunnel.                                      *)

\* The inductive invariant of the account handling: what is connected is the
\* configuration of the account in use, what is committed has completed a
\* handshake, and at the start what is connected is what is on disk.
AccountInv ==
    /\ AccountsAgree
    /\ DiskAccountProven
    /\ RecoveryInstallsTunnel
    /\ pc = "connect" => job.wg = creds
    /\ pc \in {"rename", "sync"} => job.file.credentials \in proven
    /\ pc \in {"boot_sync", "boot_connect"} => job.file = disk
    /\ pc \in HandlerPcs => generation >= job.gen

\* The state AccountInv is about.
accountState == <<disk, pc, job, creds, wgConfig, tunnelCreds, generation, proven>>

\* A step that leaves that state alone keeps AccountInv.
LEMMA AccountStutter == AccountInv /\ UNCHANGED accountState => AccountInv'
BY DEF AccountInv, AccountsAgree, DiskAccountProven, RecoveryInstallsTunnel, Running,
   accountState

\* Start and crash keep AccountInv.
LEMMA AccountBoot ==
    ASSUME TypeOK, AccountInv, Boot \/ Crash
    PROVE  AccountInv'
<1> USE DEF AccountInv, AccountsAgree, DiskAccountProven, RecoveryInstallsTunnel, Running,
            HandlerPcs, BootPcs, Goto
<1>1. CASE StartWithAccount \/ StartUnregistered \/ BootRegisterOk
  BY <1>1 DEF StartWithAccount, StartUnregistered, BootRegisterOk
<1>2. CASE BootConfigOk
  <2>1. job' = [NoJob EXCEPT !.file = disk] /\ pc' = "boot_connect" /\ disk' = disk
    BY <1>2 DEF BootConfigOk, accountVars
  <2>2. job'.file = disk'
    BY <2>1 DEF NoJob
  <2>3. QED
    BY <2>1, <2>2
<1>3. CASE BootRename
  BY <1>3 DEF BootRename, SaveRename
<1>4. CASE BootSync
  BY <1>4 DEF BootSync, accountVars
<1>5. CASE BootConnectOk
  BY <1>5 DEF BootConnectOk, accountVars
<1>6. CASE BootFail \/ Crash
  BY <1>6 DEF BootFail, Crash, ProcessGone
<1>7. QED
  BY <1>1, <1>2, <1>3, <1>4, <1>5, <1>6 DEF Boot

\* handle_event keeps AccountInv up to its first await.
LEMMA AccountHandle ==
    ASSUME TypeOK, AccountInv, DiscardStale \/ HandleProbeOk \/ HandleProbeFailed \/ HandleRefresh
    PROVE  AccountInv'
<1>1. CASE DiscardStale \/ HandleProbeOk
  BY <1>1, AccountStutter DEF DiscardStale, HandleProbeOk, accountState, accountVars, memoryVars,
     supervisorVars, historyVars
<1>2. CASE HandleProbeFailed \/ HandleRefresh
  <2>1. /\ pc = "idle" /\ pc' \in {"backoff", "get_config"}
        /\ UNCHANGED <<accountVars, generation, memoryVars, historyVars>>
    BY <1>2 DEF HandleProbeFailed, HandleRefresh, Receive, Goto
  <2>2. job'.gen = generation
    <3>1. CASE HandleProbeFailed
      BY <3>1 DEF HandleProbeFailed, NoJob
    <3>2. CASE HandleRefresh
      BY <3>2 DEF HandleRefresh, NoJob
    <3>3. QED
      BY <1>2, <3>1, <3>2
  <2>3. generation \in Nat
    BY JobTypes
  <2>4. QED
    BY <2>1, <2>2, <2>3 DEF AccountInv, AccountsAgree, DiskAccountProven,
       RecoveryInstallsTunnel, Running, HandlerPcs, accountVars, memoryVars, historyVars
<1>3. QED
  BY <1>1, <1>2

\* Every step of a recovery or of a refresh keeps AccountInv.
LEMMA AccountRecovery ==
    ASSUME TypeOK, AccountInv, RecoveryStep
    PROVE  AccountInv'
<1> USE DEF AccountInv, AccountsAgree, DiskAccountProven, RecoveryInstallsTunnel, Running,
            HandlerPcs, Goto, memoryVars, accountVars
<1>0. job \in Jobs /\ generation \in Nat /\ job.gen \in Nat
  BY JobTypes
<1>1. CASE EscalateNone \/ StepFails
  BY <1>1, RecoveryFrame DEF EscalateNone, StepFails, Return
<1>2. CASE StartReconnect
  <2>1. job' = [job EXCEPT !.wg = wgConfig] /\ pc = "backoff" /\ pc' = "connect"
        /\ UNCHANGED <<accountVars, generation, memoryVars, proven>>
    BY <1>2 DEF StartReconnect, AtAction
  <2>2. job'.wg = wgConfig /\ job'.gen = job.gen
    BY <1>0, <2>1 DEF Jobs
  <2>3. QED
    BY <2>1, <2>2
<1>3. CASE StartRebuildConfig \/ StartReregister \/ ReregisterRefused \/ RegisterErr \/ IdentityOk
  BY <1>3, RecoveryFrame DEF StartRebuildConfig, StartReregister, ReregisterRefused, RegisterErr,
     IdentityOk, PrepareReregister, RefuseReregister
<1>4. CASE StartRotate
  <2>1. job' = [job EXCEPT !.file = NextIdentity] /\ pc = "backoff" /\ pc' = "identity"
        /\ UNCHANGED <<disk, generation, memoryVars, proven>>
    BY <1>4 DEF StartRotate, AtAction, TakeIdentity
  <2>2. job'.gen = job.gen
    BY <1>0, <2>1 DEF Jobs
  <2>3. QED
    BY <2>1, <2>2
<1>5. CASE GetConfigOk
  <2>1. job' = [job EXCEPT !.wg = creds] /\ pc = "get_config" /\ pc' = "connect"
        /\ UNCHANGED <<accountVars, generation, memoryVars, proven>>
    BY <1>5 DEF GetConfigOk
  <2>2. job'.wg = creds /\ job'.gen = job.gen
    BY <1>0, <2>1 DEF Jobs
  <2>3. QED
    BY <2>1, <2>2
<1>6. CASE RegisterOk
  <2>1. job' = [job EXCEPT !.file = RegisteredFile(now)] /\ pc = "register"
        /\ pc' = "connect_candidate"
        /\ UNCHANGED <<accountVars, generation, memoryVars, proven>>
    BY <1>6 DEF RegisterOk
  <2>2. job'.gen = job.gen
    BY <1>0, <2>1 DEF Jobs
  <2>3. QED
    BY <2>1, <2>2
<1>7. CASE ConnectOk
  BY <1>0, <1>7 DEF ConnectOk, Replace, Returned
<1>8. CASE ConnectCandidateOk
  BY <1>8 DEF ConnectCandidateOk
<1>9. CASE CommitRename
  BY <1>9 DEF CommitRename, SaveRename
<1>10. CASE CommitSync
  BY <1>0, <1>10 DEF CommitSync, Replace, Returned
<1>11. CASE StampCompleted
  BY <1>11 DEF StampCompleted
<1>12. QED
  BY <1>1, <1>2, <1>3, <1>4, <1>5, <1>6, <1>7, <1>8, <1>9, <1>10, <1>11 DEF RecoveryStep

\* Every step keeps AccountInv.
LEMMA AccountNext == TypeOK /\ AccountInv /\ [Next]_vars => AccountInv'
<1> SUFFICES ASSUME TypeOK, AccountInv, [Next]_vars PROVE AccountInv'
  OBVIOUS
<1>1. CASE Tick \/ WallClockSet \/ RefreshTick \/ RefreshSend
  BY <1>1, AccountStutter DEF Tick, WallClockSet, SetWallClock, RefreshTick, RefreshSend,
     accountState, accountVars, memoryVars, supervisorVars, historyVars
<1>2. CASE Background
  <2>1. generation' = generation
    BY <1>2 DEF Background, WhileRunning, HealthNext, DialStart, DialEnd, ProbeTick,
       ProbeVerdict, ProbeSend
  <2>2. QED
    BY <1>2, <2>1, AccountStutter DEF Background, WhileRunning, accountState, accountVars,
       memoryVars, supervisorVars, historyVars
<1>3. CASE Boot \/ Crash
  BY <1>3, AccountBoot
<1>4. CASE DiscardStale \/ HandleProbeOk \/ HandleProbeFailed \/ HandleRefresh
  BY <1>4, AccountHandle
<1>5. CASE RecoveryStep
  BY <1>5, AccountRecovery
<1>6. CASE Horizon \/ UNCHANGED vars
  BY <1>6, AccountStutter DEF Horizon, vars, accountState, accountVars, memoryVars,
     supervisorVars, historyVars
<1>7. QED
  BY <1>1, <1>2, <1>3, <1>4, <1>5, <1>6 DEF Next, Handle, RecoveryStep

\* AccountInv holds of every reachable state.
LEMMA AccountInvariance == Spec => []AccountInv
<1>1. Init => AccountInv
  BY DEF Init, AccountInv, AccountsAgree, DiskAccountProven, RecoveryInstallsTunnel, Running,
     HandlerPcs
<1>2. QED
  BY <1>1, AccountNext, TypeCorrect, PTL DEF Spec

\* Credentials, saved configuration and tunnel in service belong to one
\* account whenever the proxy runs (action_rebuild_config, action_reregister,
\* action_rotate).
THEOREM AccountsAlwaysAgree == Spec => []AccountsAgree
<1>1. AccountInv => AccountsAgree
  BY DEF AccountInv
<1>2. QED
  BY <1>1, AccountInvariance, PTL

\* Whenever the proxy runs, account.json names an account that has completed a
\* handshake, whatever fails and wherever the process crashes
\* (commit_candidate after connect_candidate).
THEOREM DiskAccountAlwaysProven == Spec => []DiskAccountProven
<1>1. AccountInv => DiskAccountProven
  BY DEF AccountInv
<1>2. QED
  BY <1>1, AccountInvariance, PTL

\* A recovery step that counts as completed has installed a new tunnel, on
\* every fallback path (escalate, action_rotate, action_reregister).
THEOREM RecoveryIsNeverANoOp == Spec => []RecoveryInstallsTunnel
<1>1. AccountInv => RecoveryInstallsTunnel
  BY DEF AccountInv
<1>2. QED
  BY <1>1, AccountInvariance, PTL

-----------------------------------------------------------------------------
(* Evidence: probes and the tunnel they were taken on.                     *)

\* A probe of instant t on generation g that is not stale is about the tunnel
\* the last completed recovery installed, or a later one.
Timely(t, g) == t <= now /\ (t > completed => g >= recoveredGen)

EventsTimely ==
    \A i \in 1 .. Len(events) :
        events[i].cause \notin {"egress", "refresh"} => Timely(events[i].observed, events[i].gen)

ProbeTimely ==
    probe.pc = "probing" \/ (probe.pc = "send" /\ probe.cause # "egress")
        => Timely(probe.observed, probe.gen)

\* Nothing of an earlier process is left when a new one starts.
CleanStart ==
    ~ Running => /\ events = <<>> /\ ~ healthy /\ probe.pc = "tick"
                 /\ completed = NoInstant /\ ~ refresh.pending

\* The gate is closed while a recovery runs.
ClosedInRecovery ==
    /\ pc \in HandlerPcs /\ job.reason = "Recovery" => ~ healthy
    /\ pc = "stamp" => job.reason = "Recovery"

\* The inductive invariant of the evidence.
EvidenceInv ==
    /\ HealthyTunnelProbed
    /\ recoveredGen <= generation
    /\ EventsTimely
    /\ ProbeTimely
    /\ CleanStart
    /\ ClosedInRecovery

\* The types of the state EvidenceInv is about.
LEMMA EvidenceTypes ==
    ASSUME TypeOK
    PROVE  /\ now \in Nat /\ generation \in Nat /\ recoveredGen \in Nat /\ healthyGen \in Nat
           /\ completed \in Nat \cup {NoInstant} /\ events \in Seq(Events)
           /\ probe \in [pc : {"tick", "probing", "send"}, observed : Nat, gen : Nat,
                         cause : Causes]
           /\ \A i \in 1 .. Len(events) : events[i].observed \in Nat /\ events[i].gen \in Nat
<1>1. /\ now \in Nat /\ generation \in Nat /\ recoveredGen \in Nat /\ healthyGen \in Nat
      /\ completed \in Nat \cup {NoInstant} /\ events \in Seq(Events)
      /\ probe \in [pc : {"tick", "probing", "send"}, observed : Nat, gen : Nat,
                    cause : Causes]
  BY DEF TypeOK, HealthTypeOK
<1>2. \A i \in 1 .. Len(events) : events[i] \in Events
  BY <1>1
<1>3. QED
  BY <1>1, <1>2 DEF Events

\* Appending one timely event to the channel.
LEMMA AppendTimely ==
    ASSUME events \in Seq(Events), EventsTimely, NEW e \in Events,
           events' = Append(events, e),
           e.cause \notin {"egress", "refresh"} => Timely(e.observed, e.gen),
           UNCHANGED <<now, completed, recoveredGen>>
    PROVE  EventsTimely'
<1> SUFFICES ASSUME NEW i \in 1 .. Len(events'),
                    events'[i].cause \notin {"egress", "refresh"}
             PROVE  Timely(events'[i].observed, events'[i].gen)
  BY DEF EventsTimely, Timely
<1>1. Len(events') = Len(events) + 1 /\ events'[Len(events) + 1] = e
  OBVIOUS
<1>2. CASE i = Len(events) + 1
  BY <1>1, <1>2
<1>3. CASE i \in 1 .. Len(events)
  <2>1. events'[i] = events[i]
    BY <1>3
  <2>2. QED
    BY <1>3, <2>1 DEF EventsTimely
<1>4. QED
  BY <1>1, <1>2, <1>3

\* The clocks and the refresh timer keep EvidenceInv.
LEMMA EvidenceTime ==
    ASSUME TypeOK, EvidenceInv, Tick \/ WallClockSet \/ RefreshTick \/ RefreshSend
    PROVE  EvidenceInv'
<1> USE EvidenceTypes
<1>1. CASE Tick
  <2>1. /\ now' = now + 1
        /\ UNCHANGED <<events, generation, healthy, probe, pc, job, completed, refresh,
                       recoveredGen, healthyGen>>
    BY <1>1 DEF Tick, supervisorVars, historyVars, healthVars
  <2>2. EventsTimely' /\ ProbeTimely'
    BY <2>1 DEF EvidenceInv, EventsTimely, ProbeTimely, Timely
  <2>3. QED
    BY <2>1, <2>2 DEF EvidenceInv, HealthyTunnelProbed, CleanStart, ClosedInRecovery, Running
<1>2. CASE RefreshTick
  <2>1. /\ Running
        /\ UNCHANGED <<now, events, generation, healthy, probe, pc, job, completed,
                       recoveredGen, healthyGen>>
    BY <1>2 DEF RefreshTick, historyVars, healthVars
  <2>2. QED
    BY <2>1 DEF EvidenceInv, EventsTimely, ProbeTimely, Timely, HealthyTunnelProbed, CleanStart,
       ClosedInRecovery, Running
<1>3. CASE RefreshSend
  <2> DEFINE e == [cause |-> "refresh", observed |-> 0, gen |-> 0]
  <2>1. /\ refresh.pending
        /\ events' = Append(events, e)
        /\ UNCHANGED <<now, generation, healthy, probe, pc, job, completed,
                       recoveredGen, healthyGen>>
    BY <1>3 DEF RefreshSend, historyVars, healthVars
  <2>2. e \in Events /\ e.cause = "refresh"
    BY DEF Events, Causes
  <2> HIDE DEF e
  <2>3. EventsTimely'
    BY <2>1, <2>2, AppendTimely DEF EvidenceInv
  <2>4. Running
    BY <2>1 DEF EvidenceInv, CleanStart
  <2>5. QED
    BY <2>1, <2>3, <2>4 DEF EvidenceInv, ProbeTimely, Timely, HealthyTunnelProbed, CleanStart,
       ClosedInRecovery, Running
<1>4. CASE WallClockSet
  <2>1. UNCHANGED <<now, events, generation, healthy, probe, pc, job, completed, refresh,
                    recoveredGen, healthyGen>>
    BY <1>4 DEF WallClockSet, supervisorVars, historyVars, healthVars
  <2>2. QED
    BY <2>1 DEF EvidenceInv, EventsTimely, ProbeTimely, Timely, HealthyTunnelProbed, CleanStart,
       ClosedInRecovery, Running
<1>5. QED
  BY <1>1, <1>2, <1>3, <1>4

\* Dials and the probe keep EvidenceInv.
LEMMA EvidenceHealth ==
    ASSUME TypeOK, EvidenceInv, Background
    PROVE  EvidenceInv'
<1> USE EvidenceTypes
<1>1. /\ Running /\ HealthNext
      /\ UNCHANGED <<pc, job, completed, refresh, recoveredGen, healthyGen>>
  BY DEF Background, WhileRunning, supervisorVars, historyVars
<1>2. UNCHANGED <<now, generation, healthy>>
  BY <1>1 DEF HealthNext, DialStart, DialEnd, ProbeTick, ProbeVerdict, ProbeSend
<1>3. /\ HealthyTunnelProbed' /\ recoveredGen' <= generation'
      /\ CleanStart' /\ ClosedInRecovery'
  BY <1>1, <1>2 DEF EvidenceInv, HealthyTunnelProbed, CleanStart, ClosedInRecovery, Running
<1>4. EventsTimely' /\ ProbeTimely'
  <2>1. CASE UNCHANGED <<events, probe>>
    BY <1>1, <1>2, <2>1 DEF EvidenceInv, EventsTimely, ProbeTimely, Timely
  <2>2. CASE ProbeTick
    <3>1. events' = events
          /\ probe' = [probe EXCEPT !.pc = "probing", !.observed = now, !.gen = generation]
      BY <2>2 DEF ProbeTick
    <3>2. probe'.observed = now /\ probe'.gen = generation
      BY <3>1
    <3>3. QED
      BY <1>1, <1>2, <3>1, <3>2 DEF EvidenceInv, EventsTimely, ProbeTimely, Timely
  <2>3. ASSUME NEW network \in {"ok", "handshake", "quorum"}, ProbeVerdict(network)
        PROVE  EventsTimely' /\ ProbeTimely'
    <3>1. PICK cause : /\ probe.pc = "probing" /\ events' = events
                       /\ probe' = [probe EXCEPT !.pc = "send", !.cause = cause,
                                      !.gen = IF cause = "egress" THEN egress.gen ELSE @]
      BY <2>3, Zenon DEF ProbeVerdict
    <3>2. /\ probe'.observed = probe.observed /\ probe'.cause = cause /\ probe'.pc = "send"
          /\ cause # "egress" => probe'.gen = probe.gen
      BY <3>1
    <3>3. QED
      BY <1>1, <1>2, <3>1, <3>2 DEF EvidenceInv, EventsTimely, ProbeTimely, Timely
  <2>4. CASE ProbeSend
    <3> DEFINE e == [cause |-> probe.cause, observed |-> probe.observed, gen |-> probe.gen]
    <3>1. /\ probe.pc = "send" /\ events' = Append(events, e)
          /\ probe' = [probe EXCEPT !.pc = "tick"]
      BY <2>4 DEF ProbeSend
    <3>2. /\ e \in Events /\ e.cause = probe.cause /\ e.observed = probe.observed
          /\ e.gen = probe.gen
      BY DEF Events
    <3> HIDE DEF e
    <3>3. EventsTimely'
      BY <1>1, <1>2, <3>1, <3>2, AppendTimely DEF EvidenceInv, ProbeTimely
    <3>4. probe'.pc = "tick"
      BY <3>1
    <3>5. QED
      BY <3>3, <3>4 DEF ProbeTimely
  <2>5. QED
    BY <1>1, <2>1, <2>2, <2>3, <2>4 DEF HealthNext, DialStart, DialEnd
<1>5. QED
  BY <1>3, <1>4 DEF EvidenceInv

\* Start and crash keep EvidenceInv.
LEMMA EvidenceBoot ==
    ASSUME TypeOK, EvidenceInv, Boot \/ Crash
    PROVE  EvidenceInv'
<1> USE EvidenceTypes
<1>1. CASE StartWithAccount \/ StartUnregistered \/ BootConfigOk \/ BootRegisterOk
           \/ BootRename \/ BootSync
  <2>1. /\ ~ Running /\ ~ Running' /\ pc' \notin HandlerPcs
        /\ UNCHANGED <<now, events, generation, healthy, probe, completed, refresh,
                       recoveredGen, healthyGen>>
    BY <1>1 DEF StartWithAccount, StartUnregistered, BootConfigOk, BootRegisterOk, BootRename,
       BootSync, Goto, NotStarted, healthVars, Running, HandlerPcs
  <2>2. QED
    BY <2>1 DEF EvidenceInv, EventsTimely, ProbeTimely, Timely, HealthyTunnelProbed, CleanStart,
       ClosedInRecovery, HandlerPcs
<1>2. CASE BootConnectOk
  <2>1. /\ ~ Running /\ pc' = "idle"
        /\ generation' = generation + 1 /\ recoveredGen' = generation + 1
        /\ UNCHANGED <<now, events, healthy, probe, completed, healthyGen>>
    BY <1>2 DEF BootConnectOk, Goto, healthVars, Running, HandlerPcs
  <2>2. events = <<>> /\ ~ healthy /\ probe.pc = "tick"
    BY <2>1 DEF EvidenceInv, CleanStart
  <2>3. Len(events') = 0
    BY <2>1, <2>2
  <2>4. QED
    BY <2>1, <2>2, <2>3 DEF EvidenceInv, EventsTimely, ProbeTimely, HealthyTunnelProbed,
       CleanStart, ClosedInRecovery, Running, HandlerPcs
<1>3. CASE BootFail \/ Crash
  <2>1. ProcessGone
    BY <1>3 DEF BootFail, Crash
  <2>2. /\ pc' = "down" /\ events' = <<>> /\ healthy' = FALSE /\ probe' = IdleProbe
        /\ completed' = NoInstant /\ refresh' = [at |-> 0, pending |-> FALSE]
        /\ UNCHANGED <<generation, recoveredGen>>
    BY <2>1 DEF ProcessGone, HealthReset, Goto, historyVars
  <2>3. probe'.pc = "tick" /\ Len(events') = 0 /\ ~ refresh'.pending
    BY <2>2 DEF IdleProbe
  <2>4. QED
    BY <2>2, <2>3 DEF EvidenceInv, EventsTimely, ProbeTimely, HealthyTunnelProbed,
       CleanStart, ClosedInRecovery, Running, HandlerPcs
<1>4. QED
  BY <1>1, <1>2, <1>3 DEF Boot

\* What an event that is not discarded says about its generation.
LEMMA HeadTimely ==
    ASSUME TypeOK, EvidenceInv, Receive, Head(events).cause \notin {"egress", "refresh"},
           ~ ProbeIsStale(Head(events).observed)
    PROVE  Head(events).gen >= recoveredGen
<1>1. events \in Seq(Events) /\ events # <<>>
  BY EvidenceTypes DEF Receive
<1>2. 1 \in 1 .. Len(events) /\ Head(events) = events[1]
  BY <1>1
<1>3. events[1].observed \in Nat
  BY <1>2, EvidenceTypes
<1>4. events[1].observed > completed
  BY <1>2, <1>3, EvidenceTypes DEF ProbeIsStale, NoInstant
<1>5. QED
  BY <1>2, <1>4 DEF EvidenceInv, EventsTimely, Timely

\* handle_event keeps EvidenceInv up to its first await.
LEMMA EvidenceHandle ==
    ASSUME TypeOK, EvidenceInv,
           DiscardStale \/ HandleProbeOk \/ HandleProbeFailed \/ HandleRefresh
    PROVE  EvidenceInv'
<1> USE EvidenceTypes
<1>1. /\ Receive
      /\ UNCHANGED <<now, generation, probe, completed, refresh, recoveredGen>>
  BY DEF DiscardStale, HandleProbeOk, HandleProbeFailed, HandleRefresh, supervisorVars,
     historyVars, healthVars
<1>2. pc = "idle" /\ pc' \in {"idle", "backoff", "get_config"}
  BY <1>1 DEF Receive, DiscardStale, HandleProbeOk, HandleProbeFailed, HandleRefresh, Goto,
     supervisorVars
<1>3. EventsTimely'
  <2>1. /\ events \in Seq(Events) /\ events # <<>> /\ events' = Tail(events)
    BY <1>1 DEF Receive
  <2>2. Len(events') = Len(events) - 1 /\ \A i \in 1 .. Len(events') : events'[i] = events[i + 1]
    BY <2>1
  <2>3. \A i \in 1 .. Len(events') : i + 1 \in 1 .. Len(events)
    BY <2>1, <2>2
  <2>4. QED
    BY <1>1, <2>2, <2>3 DEF EvidenceInv, EventsTimely, Timely
<1>4. ProbeTimely' /\ recoveredGen' <= generation' /\ CleanStart'
  BY <1>1, <1>2 DEF EvidenceInv, ProbeTimely, Timely, CleanStart, Running, HandlerPcs
<1>5. HealthyTunnelProbed' /\ ClosedInRecovery'
  <2>1. CASE DiscardStale
    BY <1>1, <1>2, <2>1 DEF DiscardStale, EvidenceInv, HealthyTunnelProbed, ClosedInRecovery,
       supervisorVars, historyVars, HandlerPcs
  <2>2. CASE HandleProbeOk
    <3>1. pc' = "idle" /\ healthyGen' = Head(events).gen
      BY <1>2, <2>2 DEF HandleProbeOk
    <3>2. Head(events).gen >= recoveredGen
      BY <1>1, <2>2, HeadTimely DEF HandleProbeOk
    <3>3. QED
      BY <1>1, <3>1, <3>2 DEF HealthyTunnelProbed, ClosedInRecovery, HandlerPcs
  <2>3. CASE HandleProbeFailed
    <3>1. pc' = "backoff" /\ healthy' = FALSE
      BY <2>3 DEF HandleProbeFailed, Goto
    <3>2. QED
      BY <3>1 DEF HealthyTunnelProbed, ClosedInRecovery
  <2>4. CASE HandleRefresh
    <3>1. /\ pc' = "get_config" /\ healthy' = healthy /\ healthyGen' = healthyGen
          /\ job' = [NoJob EXCEPT !.reason = "Refresh", !.gen = generation]
      BY <2>4 DEF HandleRefresh, Goto, historyVars
    <3>2. job'.reason = "Refresh"
      BY <3>1 DEF NoJob
    <3>3. QED
      BY <1>1, <3>1, <3>2 DEF EvidenceInv, HealthyTunnelProbed, ClosedInRecovery
  <2>5. QED
    BY <2>1, <2>2, <2>3, <2>4
<1>6. QED
  BY <1>3, <1>4, <1>5 DEF EvidenceInv

\* A handler keeps its reason, and only a recovery is stamped.
LEMMA RecoveryReason ==
    ASSUME TypeOK, RecoveryStep
    PROVE  /\ job'.reason = job.reason \/ pc' = "idle"
           /\ pc' = "stamp" => job.reason = "Recovery"
<1>1. job \in Jobs
  BY JobTypes
<1>2. CASE StartReconnect \/ GetConfigOk
  BY <1>1, <1>2 DEF StartReconnect, GetConfigOk, Goto, Jobs
<1>3. CASE StartRotate
  BY <1>1, <1>3 DEF StartRotate, Goto, Jobs
<1>4. CASE RegisterOk
  BY <1>1, <1>4 DEF RegisterOk, Goto, Jobs
<1>5. QED
  BY <1>2, <1>3, <1>4 DEF RecoveryStep, EscalateNone, StartRebuildConfig,
     StartReregister, ReregisterRefused, RegisterErr, IdentityOk, ConnectOk,
     ConnectCandidateOk, CommitRename, CommitSync, StepFails, StampCompleted, Return,
     Returned, Goto

\* Only the stamp moves the end of the last recovery.
LEMMA RecoveryGeneration ==
    ASSUME TypeOK, RecoveryStep
    PROVE  \/ StampCompleted /\ completed' = now /\ recoveredGen' = generation
              /\ generation' = generation
           \/ /\ completed' = completed /\ recoveredGen' = recoveredGen
              /\ generation' = generation \/ generation' = generation + 1
BY DEF RecoveryStep, EscalateNone, StartReconnect, StartRebuildConfig,
   StartReregister, ReregisterRefused, StartRotate, GetConfigOk, RegisterOk, RegisterErr,
   IdentityOk, ConnectOk, ConnectCandidateOk, CommitRename, CommitSync, StepFails,
   StampCompleted, Return, Replace

\* Every step of a recovery or of a refresh keeps EvidenceInv.
LEMMA EvidenceRecovery ==
    ASSUME TypeOK, EvidenceInv, RecoveryStep
    PROVE  EvidenceInv'
<1> USE EvidenceTypes
<1>1. /\ UNCHANGED <<now, events, healthy, probe, refresh, healthyGen>>
      /\ pc \in HandlerPcs /\ pc' \in HandlerPcs \cup {"idle"}
  BY RecoveryFrame DEF healthVars
<1>2. CleanStart'
  BY <1>1 DEF CleanStart, Running
<1>3. ClosedInRecovery'
  BY <1>1, RecoveryReason DEF EvidenceInv, ClosedInRecovery, HandlerPcs
<1>4. CASE StampCompleted
  <2>1. /\ pc = "stamp" /\ completed' = now /\ recoveredGen' = generation
        /\ generation' = generation
    BY <1>4 DEF StampCompleted
  <2>2. ~ healthy'
    BY <1>1, <2>1 DEF EvidenceInv, ClosedInRecovery
  <2>3. EventsTimely' /\ ProbeTimely'
    BY <1>1, <2>1 DEF EvidenceInv, EventsTimely, ProbeTimely, Timely
  <2>4. QED
    BY <1>2, <1>3, <2>1, <2>2, <2>3 DEF EvidenceInv, HealthyTunnelProbed
<1>5. CASE /\ completed' = completed /\ recoveredGen' = recoveredGen
           /\ generation' = generation \/ generation' = generation + 1
  BY <1>1, <1>2, <1>3, <1>5 DEF EvidenceInv, HealthyTunnelProbed, EventsTimely, ProbeTimely,
     Timely
<1>6. QED
  BY <1>4, <1>5, RecoveryGeneration

\* Every step keeps EvidenceInv.
LEMMA EvidenceNext == TypeOK /\ EvidenceInv /\ [Next]_vars => EvidenceInv'
<1> SUFFICES ASSUME TypeOK, EvidenceInv, [Next]_vars PROVE EvidenceInv'
  OBVIOUS
<1>1. CASE Tick \/ WallClockSet \/ RefreshTick \/ RefreshSend
  BY <1>1, EvidenceTime
<1>2. CASE Background
  BY <1>2, EvidenceHealth
<1>3. CASE Boot \/ Crash
  BY <1>3, EvidenceBoot
<1>4. CASE DiscardStale \/ HandleProbeOk \/ HandleProbeFailed \/ HandleRefresh
  BY <1>4, EvidenceHandle
<1>5. CASE RecoveryStep
  BY <1>5, EvidenceRecovery
<1>6. CASE Horizon \/ UNCHANGED vars
  <2>1. UNCHANGED <<now, events, generation, healthy, probe, pc, job, completed, refresh,
                    recoveredGen, healthyGen>>
    BY <1>6 DEF Horizon, vars, supervisorVars, historyVars, healthVars
  <2>2. QED
    BY <2>1 DEF EvidenceInv, EventsTimely, ProbeTimely, Timely, HealthyTunnelProbed, CleanStart,
       ClosedInRecovery, Running
<1>7. QED
  BY <1>1, <1>2, <1>3, <1>4, <1>5, <1>6 DEF Next, Handle, RecoveryStep

\* EvidenceInv holds of every reachable state.
LEMMA EvidenceInvariance == Spec => []EvidenceInv
<1>1. Init => EvidenceInv
  <2> SUFFICES ASSUME Init PROVE EvidenceInv
    OBVIOUS
  <2>1. /\ events = <<>> /\ healthy = FALSE /\ probe = IdleProbe /\ completed = NoInstant
        /\ refresh = [at |-> 0, pending |-> FALSE] /\ pc = "down"
        /\ recoveredGen = 0 /\ generation = 0
    BY DEF Init, HealthInit
  <2>2. Len(events) = 0 /\ probe.pc = "tick" /\ ~ refresh.pending
    BY <2>1 DEF IdleProbe
  <2>3. QED
    BY <2>1, <2>2 DEF EvidenceInv, EventsTimely, ProbeTimely, HealthyTunnelProbed, CleanStart,
       ClosedInRecovery, Running, HandlerPcs
<1>2. QED
  BY <1>1, EvidenceNext, TypeCorrect, PTL DEF Spec

\* The health flag is never set for a recovered tunnel on the strength of a
\* probe of the tunnel it replaced, however long the probe waited in the
\* channel (handle_event, probe_is_stale).
THEOREM HealthyTunnelIsProbed == Spec => []HealthyTunnelProbed
<1>1. EvidenceInv => HealthyTunnelProbed
  BY DEF EvidenceInv
<1>2. QED
  BY <1>1, EvidenceInvariance, PTL

\* A handshake or dial probe never advances the ladder for a tunnel that was
\* replaced since (handle_event, probe_is_stale).
THEOREM LadderIgnoresReplacedTunnels == Spec => LadderIgnoresOldProbes
<1>1. ASSUME TypeOK, EvidenceInv, [Next]_vars, fails' > fails, Head(events).cause # "egress"
      PROVE  Head(events).gen >= recoveredGen
  <2>0. fails \in Nat
    BY <1>1 DEF TypeOK
  <2>1. HandleProbeFailed
    <3>1. fails' # fails /\ fails' # 0
      BY <1>1, <2>0
    <3>2. ~ RecoveryStep
      BY <3>1, RecoveryFrame
    <3>3. QED
      BY <1>1, <3>1, <3>2 DEF Next, Tick, WallClockSet, RefreshTick, RefreshSend, Background, WhileRunning,
         Boot, StartWithAccount, StartUnregistered, BootConfigOk, BootRegisterOk, BootRename,
         BootSync, BootConnectOk, BootFail, Crash, ProcessGone, NotStarted, Handle, RecoveryStep,
         DiscardStale, HandleProbeOk, HandleRefresh, Horizon, vars, supervisorVars
  <2>2. QED
    BY <1>1, <2>1, HeadTimely DEF HandleProbeFailed
<1>2. TypeOK /\ EvidenceInv /\ [Next]_vars =>
        [fails' > fails /\ Head(events).cause # "egress"
            => Head(events).gen >= recoveredGen]_vars
  BY <1>1
<1>3. QED
  BY <1>2, TypeCorrect, EvidenceInvariance, PTL DEF Spec, LadderIgnoresOldProbes

-----------------------------------------------------------------------------
(* The egress verdicts.                                                    *)

FailedDials == {d \in Dials : dials[d].pc = "failed"}

FailuresPerWindow == (4 * MinSamples + 4) \div 5

\* The failures spent on verdicts, those of the degraded rounds since and those
\* of the window are different dials.
EarnedInv ==
    verdicts * DegradedRounds * FailuresPerWindow + degraded * FailuresPerWindow
        + egress.failed <= Cardinality(FailedDials)

\* Products of naturals.
LEMMA Products ==
    ASSUME NEW a \in Nat, NEW b \in Nat, NEW w \in Nat
    PROVE  /\ a * w \in Nat
           /\ (a + b) * w = a * w + b * w
           /\ a <= b => a * w <= b * w
<1>1. a * w \in Nat /\ (a + b) * w = a * w + b * w
  OBVIOUS
<1>2. ASSUME a <= b PROVE a * w <= b * w
  <2>1. b - a \in Nat /\ b = a + (b - a)
    BY <1>2
  <2>2. (b - a) * w \in Nat /\ (a + (b - a)) * w = a * w + (b - a) * w
    BY <2>1
  <2>3. QED
    BY <1>1, <2>1, <2>2
<1>3. QED
  BY <1>1, <1>2

\* A degraded window holds enough failures.
LEMMA DegradedWindow ==
    ASSUME NEW w \in [ok : Nat, failed : Nat, gen : Nat], IsDegraded(w)
    PROVE  w.failed >= FailuresPerWindow
BY DEF IsDegraded, FailuresPerWindow

\* The types of the counters.
LEMMA EarnedTypes ==
    ASSUME TypeOK
    PROVE  /\ verdicts \in Nat /\ degraded \in Nat /\ egress.failed \in Nat
           /\ egress \in [ok : Nat, failed : Nat, gen : Nat]
           /\ dials \in [Dials -> [pc : {"new", "dialing", "ok", "failed", "dropped"}, gen : Nat]]
           /\ FailuresPerWindow \in Nat
           /\ verdicts * DegradedRounds \in Nat
           /\ verdicts * DegradedRounds * FailuresPerWindow \in Nat
           /\ degraded * FailuresPerWindow \in Nat
           /\ IsFiniteSet(FailedDials) /\ Cardinality(FailedDials) \in Nat
<1>1. /\ verdicts \in Nat /\ degraded \in Nat
      /\ egress \in [ok : Nat, failed : Nat, gen : Nat]
      /\ dials \in [Dials -> [pc : {"new", "dialing", "ok", "failed", "dropped"}, gen : Nat]]
  BY DEF TypeOK, HealthTypeOK
<1>2. FailuresPerWindow \in Nat
  BY DEF FailuresPerWindow
<1>3. verdicts * DegradedRounds \in Nat
  BY <1>1, Products
<1>4. /\ verdicts * DegradedRounds * FailuresPerWindow \in Nat
      /\ degraded * FailuresPerWindow \in Nat
  BY <1>1, <1>2, <1>3, Products
<1>5. IsFiniteSet(FailedDials)
  <2>1. FailedDials \subseteq Dials
    BY DEF FailedDials
  <2>2. QED
    BY <2>1, FS_Subset
<1>6. Cardinality(FailedDials) \in Nat
  BY <1>5, FS_CardinalityType
<1>7. QED
  BY <1>1, <1>2, <1>3, <1>4, <1>5, <1>6

\* A verdict of the probe pays with the rounds and the window.
LEMMA EarnedVerdict ==
    ASSUME TypeOK, EarnedInv, NEW network \in {"ok", "handshake", "quorum"},
           ProbeVerdict(network)
    PROVE  EarnedInv'
<1> DEFINE rounds == IF IsDegraded(egress) THEN degraded + 1 ELSE 0
           W == FailuresPerWindow
           paid == verdicts * DegradedRounds * W
           saved == degraded * W
<1>0. /\ W \in Nat /\ saved \in Nat /\ paid \in Nat /\ egress.failed \in Nat
      /\ degraded \in Nat /\ Cardinality(FailedDials) \in Nat
  BY EarnedTypes
<1>1. /\ egress' = EmptyWindow /\ UNCHANGED dials
      /\ \/ rounds >= DegradedRounds /\ degraded' = 0 /\ verdicts' = verdicts + 1
         \/ degraded' = rounds /\ verdicts' = verdicts
  BY DEF ProbeVerdict
<1>2. egress'.failed = 0
  BY <1>1 DEF EmptyWindow
<1>3. FailedDials' = FailedDials
  BY <1>1 DEF FailedDials
<1>4. rounds \in Nat /\ rounds * W \in Nat /\ rounds * W <= saved + egress.failed
  <2>1. CASE IsDegraded(egress)
    <3>1. rounds = degraded + 1 /\ rounds \in Nat
      BY <1>0, <2>1
    <3>2. W <= egress.failed
      BY <2>1, EarnedTypes, DegradedWindow
    <3> HIDE DEF rounds, W
    <3>3. (degraded + 1) * W = saved + 1 * W /\ 1 * W = W
      BY <1>0, Products
    <3>4. rounds * W = saved + W
      BY <3>1, <3>3
    <3> HIDE DEF saved
    <3>5. QED
      BY <1>0, <3>1, <3>2, <3>4
  <2>2. CASE ~ IsDegraded(egress)
    <3>1. rounds = 0
      BY <2>2
    <3> HIDE DEF rounds, W, saved
    <3>2. rounds * W = 0
      BY <1>0, <3>1
    <3>3. QED
      BY <1>0, <3>1, <3>2
  <2>3. QED
    BY <2>1, <2>2
<1>5. paid + rounds * W <= Cardinality(FailedDials)
  <2>1. paid + saved + egress.failed <= Cardinality(FailedDials)
    BY DEF EarnedInv
  <2> DEFINE spent == rounds * W
  <2>2. spent \in Nat /\ spent <= saved + egress.failed
    BY <1>4
  <2> HIDE DEF rounds, W, paid, saved, spent
  <2>3. paid + spent <= Cardinality(FailedDials)
    BY <1>0, <2>1, <2>2
  <2>4. QED
    BY <2>3 DEF spent
<1> HIDE DEF rounds, W
<1>6. CASE rounds >= DegradedRounds /\ degraded' = 0 /\ verdicts' = verdicts + 1
  <2>1. (verdicts + 1) * DegradedRounds = verdicts * DegradedRounds + DegradedRounds
    BY EarnedTypes, Products
  <2>2. (verdicts * DegradedRounds + DegradedRounds) * W = paid + DegradedRounds * W
    BY EarnedTypes, Products DEF W
  <2>3. DegradedRounds * W <= rounds * W /\ DegradedRounds * W \in Nat
    BY <1>4, <1>6, EarnedTypes, Products DEF W
  <2>4. 0 * W = 0
    BY EarnedTypes DEF W
  <2>5. paid \in Nat /\ Cardinality(FailedDials) \in Nat
    BY EarnedTypes DEF W
  <2>6. verdicts' * DegradedRounds * W = paid + DegradedRounds * W
    BY <1>6, <2>1, <2>2
  <2>7. verdicts' * DegradedRounds * W + degraded' * W + egress'.failed
            <= Cardinality(FailedDials)
    <3> HIDE DEF paid
    <3>1. QED
      BY <1>2, <1>4, <1>5, <1>6, <2>3, <2>4, <2>5, <2>6
  <2>8. QED
    BY <1>3, <2>7 DEF EarnedInv, W, FailuresPerWindow
<1>7. CASE degraded' = rounds /\ verdicts' = verdicts
  <2>1. paid \in Nat /\ Cardinality(FailedDials) \in Nat
    BY EarnedTypes DEF W
  <2>2. paid + rounds * W + 0 <= Cardinality(FailedDials)
    <3> HIDE DEF paid
    <3>1. QED
      BY <1>4, <1>5, <2>1
  <2>3. verdicts' * DegradedRounds * W + degraded' * W + egress'.failed
            <= Cardinality(FailedDials)
    BY <1>2, <1>7, <2>2
  <2>4. QED
    BY <1>3, <2>3 DEF EarnedInv, W, FailuresPerWindow
<1>8. QED
  BY <1>1, <1>6, <1>7

\* A step that changes neither the verdicts nor the rounds keeps EarnedInv when
\* the window grows by no more than the failed dials.
LEMMA EarnedWindow ==
    ASSUME TypeOK, EarnedInv, UNCHANGED <<verdicts, degraded>>,
           NEW k \in Nat, egress'.failed = egress.failed + k,
           Cardinality(FailedDials') = Cardinality(FailedDials) + k
    PROVE  EarnedInv'
<1> DEFINE paid == verdicts * DegradedRounds * FailuresPerWindow
           saved == degraded * FailuresPerWindow
           n == Cardinality(FailedDials)
<1>1. paid \in Nat /\ saved \in Nat /\ egress.failed \in Nat /\ n \in Nat
  BY EarnedTypes
<1>2. paid + saved + egress.failed <= n
  BY DEF EarnedInv
<1>3. paid + saved + (egress.failed + k) <= n + k
  <2> HIDE DEF paid, saved, n
  <2>1. QED
    BY <1>1, <1>2
<1>4. QED
  BY <1>3 DEF EarnedInv, FailuresPerWindow

\* A step that changes none of the counters and no dial keeps EarnedInv.
LEMMA EarnedStutter ==
    ASSUME EarnedInv, UNCHANGED <<verdicts, degraded, egress, dials>>
    PROVE  EarnedInv'
BY DEF EarnedInv, FailedDials, FailuresPerWindow

\* A dial that ends is recorded once.
LEMMA EarnedDial ==
    ASSUME TypeOK, EarnedInv, NEW d \in Dials, NEW success \in BOOLEAN, DialEnd(d, success)
    PROVE  EarnedInv'
<1>1. /\ dials[d].pc = "dialing"
      /\ dials' = [dials EXCEPT ![d].pc = IF success THEN "ok" ELSE "failed"]
      /\ UNCHANGED <<verdicts, degraded>>
  BY DEF DialEnd
<1>2. dials \in [Dials -> [pc : {"new", "dialing", "ok", "failed", "dropped"}, gen : Nat]]
  BY EarnedTypes
<1>3. d \notin FailedDials
  BY <1>1 DEF FailedDials
<1>4. IsFiniteSet(FailedDials) /\ Cardinality(FailedDials) \in Nat
      /\ egress \in [ok : Nat, failed : Nat, gen : Nat] /\ egress.failed \in Nat
  BY EarnedTypes
<1>5. CASE success
  <2>1. FailedDials' = FailedDials
    BY <1>1, <1>2, <1>5 DEF FailedDials
  <2>2. egress' = [egress EXCEPT !.ok = @ + 1]
    BY <1>5 DEF DialEnd
  <2>3. egress'.failed = egress.failed
    BY <1>4, <2>2
  <2>4. egress'.failed = egress.failed + 0
        /\ Cardinality(FailedDials') = Cardinality(FailedDials) + 0
    BY <1>4, <2>1, <2>3
  <2>5. QED
    BY <1>1, <2>4, EarnedWindow
<1>6. CASE ~ success
  <2>1. FailedDials' = FailedDials \cup {d}
    BY <1>1, <1>2, <1>6 DEF FailedDials
  <2>2. Cardinality(FailedDials') = Cardinality(FailedDials) + 1
    BY <1>3, <1>4, <2>1, FS_AddElement
  <2>3. egress'.failed = egress.failed + 1
    BY <1>4, <1>6 DEF DialEnd
  <2>4. QED
    BY <1>1, <2>2, <2>3, EarnedWindow
<1>7. QED
  BY <1>5, <1>6

\* The probe task and the dials keep EarnedInv.
LEMMA EarnedHealth ==
    ASSUME TypeOK, EarnedInv, HealthNext
    PROVE  EarnedInv'
<1>1. ASSUME NEW d \in Dials, DialStart(d) PROVE EarnedInv'
  <2>1. /\ dials[d].pc = "new"
        /\ dials' = [dials EXCEPT ![d] = [pc |-> "dialing", gen |-> generation]]
        /\ UNCHANGED <<verdicts, degraded, egress>>
    BY <1>1 DEF DialStart
  <2>2. FailedDials' = FailedDials
    BY <2>1, EarnedTypes DEF FailedDials
  <2>3. egress'.failed = egress.failed + 0
        /\ Cardinality(FailedDials') = Cardinality(FailedDials) + 0
    BY <2>1, <2>2, EarnedTypes
  <2>4. QED
    BY <2>1, <2>3, EarnedWindow
<1>2. ASSUME NEW d \in Dials, NEW success \in BOOLEAN, DialEnd(d, success) PROVE EarnedInv'
  BY <1>2, EarnedDial
<1>3. CASE ProbeTick \/ ProbeSend
  BY <1>3, EarnedStutter DEF ProbeTick, ProbeSend
<1>4. ASSUME NEW network \in {"ok", "handshake", "quorum"}, ProbeVerdict(network)
      PROVE  EarnedInv'
  BY <1>4, EarnedVerdict
<1>5. QED
  BY <1>1, <1>2, <1>3, <1>4 DEF HealthNext

\* The end of the process forgets the window and the rounds, and no failure.
LEMMA EarnedGone ==
    ASSUME TypeOK, EarnedInv, ProcessGone
    PROVE  EarnedInv'
<1> DEFINE paid == verdicts * DegradedRounds * FailuresPerWindow
           saved == degraded * FailuresPerWindow
           n == Cardinality(FailedDials)
<1>1. /\ egress' = EmptyWindow /\ degraded' = 0 /\ verdicts' = verdicts
      /\ dials' = [d \in Dials |-> IF dials[d].pc = "dialing"
                                   THEN [dials[d] EXCEPT !.pc = "dropped"] ELSE dials[d]]
  BY DEF ProcessGone, HealthReset
<1>2. FailedDials' = FailedDials
  BY <1>1, EarnedTypes DEF FailedDials
<1>3. paid \in Nat /\ saved \in Nat /\ egress.failed \in Nat /\ n \in Nat
  BY EarnedTypes
<1>4. paid + saved + egress.failed <= n
  BY DEF EarnedInv
<1>5. egress'.failed = 0
  BY <1>1 DEF EmptyWindow
<1>6. degraded' * FailuresPerWindow = 0
  BY <1>1, EarnedTypes
<1>7. paid + 0 + 0 <= n
  <2> HIDE DEF paid, saved, n
  <2>1. QED
    BY <1>3, <1>4
<1>8. verdicts' * DegradedRounds * FailuresPerWindow + degraded' * FailuresPerWindow
          + egress'.failed <= Cardinality(FailedDials')
  BY <1>1, <1>2, <1>5, <1>6, <1>7
<1>9. QED
  BY <1>8 DEF EarnedInv, FailuresPerWindow

\* Every step keeps EarnedInv.
LEMMA EarnedNext == TypeOK /\ EarnedInv /\ [Next]_vars => EarnedInv'
<1> SUFFICES ASSUME TypeOK, EarnedInv, [Next]_vars PROVE EarnedInv'
  OBVIOUS
<1>1. CASE Tick \/ WallClockSet \/ RefreshTick \/ RefreshSend
  BY <1>1, EarnedStutter DEF Tick, WallClockSet, RefreshTick, RefreshSend, healthVars
<1>2. CASE Background
  BY <1>2, EarnedHealth DEF Background, WhileRunning
<1>3. CASE Crash \/ BootFail
  BY <1>3, EarnedGone DEF Crash, BootFail
<1>4. CASE Boot /\ ~ BootFail
  BY <1>4, EarnedStutter DEF Boot, StartWithAccount, StartUnregistered, BootConfigOk,
     BootRegisterOk, BootRename, BootSync, BootConnectOk, NotStarted, healthVars
<1>5. CASE DiscardStale \/ HandleProbeOk \/ HandleProbeFailed \/ HandleRefresh
  BY <1>5, EarnedStutter DEF DiscardStale, HandleProbeOk, HandleProbeFailed, HandleRefresh,
     healthVars
<1>6. CASE RecoveryStep
  BY <1>6, RecoveryFrame, EarnedStutter DEF healthVars
<1>7. CASE Horizon \/ UNCHANGED vars
  BY <1>7, EarnedStutter DEF Horizon, vars, healthVars
<1>8. QED
  BY <1>1, <1>2, <1>3, <1>4, <1>5, <1>6, <1>7 DEF Next, Handle, RecoveryStep

\* A failure is blamed on the egress only when DegradedRounds degraded windows
\* of business dials of its own stand behind it, whatever the probes, the
\* recoveries and the crashes in between (EgressStats, probe_loop).
THEOREM VerdictsAreAlwaysEarned == Spec => []EgressVerdictsAreEarned
<1>1. Init => EarnedInv
  <2> SUFFICES ASSUME Init PROVE EarnedInv
    OBVIOUS
  <2>1. verdicts = 0 /\ degraded = 0 /\ egress.failed = 0 /\ TypeOK
    BY InitType DEF Init, HealthInit, EmptyWindow
  <2>2. /\ FailuresPerWindow \in Nat /\ DegradedRounds \in Nat
        /\ Cardinality(FailedDials) \in Nat
    BY <2>1, EarnedTypes, HealthAssumption
  <2>3. 0 * DegradedRounds = 0 /\ 0 * FailuresPerWindow = 0
    BY <2>2
  <2>4. QED
    BY <2>1, <2>2, <2>3 DEF EarnedInv
<1>2. TypeOK /\ EarnedInv => EgressVerdictsAreEarned
  <2> SUFFICES ASSUME TypeOK, EarnedInv PROVE EgressVerdictsAreEarned
    OBVIOUS
  <2> DEFINE paid == verdicts * DegradedRounds * FailuresPerWindow
             saved == degraded * FailuresPerWindow
  <2>1. /\ paid \in Nat /\ saved \in Nat /\ egress.failed \in Nat
        /\ Cardinality(FailedDials) \in Nat
    BY EarnedTypes
  <2>2. paid + saved + egress.failed <= Cardinality(FailedDials)
    BY DEF EarnedInv
  <2>3. paid <= Cardinality(FailedDials)
    <3> HIDE DEF paid, saved
    <3>1. QED
      BY <2>1, <2>2
  <2>4. QED
    BY <2>3 DEF EgressVerdictsAreEarned, FailuresPerWindow, FailedDials
<1>3. QED
  BY <1>1, <1>2, EarnedNext, TypeCorrect, PTL DEF Spec

-----------------------------------------------------------------------------
(* The cooldown of the registration API.                                   *)

\* The stamp of an account file, in ticks of the wall clock.
Stamp(file) == Second * file.registered_at

\* A file is stamped less than a second before the last registration, or later, and
\* not in the future; nothing is known of a stamp once the wall clock has been set.
StampedAfterCall(file) ==
    /\ file # NoFile
    /\ \/ calls.wallSet
       \/ Wall(calls.last) < Stamp(file) + Second /\ Stamp(file) <= Wall(now)

\* What keeps the next registration away from the last one: the process is down
\* or still starting with it, or its instant is in memory, or, for the one at the
\* start, on disk.
CallRemembered ==
    \/ pc \in {"down", "boot_register", "boot_rename"}
    \/ lastAttempt = calls.last
    \/ lastAttempt = NoInstant /\ StampedAfterCall(disk)

\* The inductive invariant of one run of the process without an identity pool.
SpacedInv ==
    /\ starts = 0 => pc = "down" /\ calls.last = NoInstant
    /\ pc # "identity"
    /\ pc \in BootPcs \cup {"down"} => lastAttempt = NoInstant
    /\ pc = "boot_rename" => StampedAfterCall(job.file)
    /\ pc \in {"register", "connect_candidate", "rename"} => lastAttempt = calls.last
    /\ calls.last # NoInstant => calls.last <= now /\ CallRemembered

\* What CooldownKept says of a step.
CallSpaced ==
    calls'.n # calls.n /\ calls.last # NoInstant
        => \/ now - calls.last >= RegisterCooldown
           \/ /\ lastAttempt = NoInstant
              /\ calls.wallSet \/ now - calls.last > RegisterCooldown - Second

\* The types SpacedInv needs.
LEMMA SpacedTypes ==
    ASSUME TypeOK
    PROVE  /\ starts \in Nat /\ now \in Nat /\ calls \in Calls
           /\ calls.n \in Nat /\ calls.last \in Nat \cup {NoInstant}
           /\ calls.wallSet \in BOOLEAN
           /\ lastAttempt \in Nat \cup {NoInstant}
           /\ disk \in AccountFile /\ job.file \in AccountFile
           /\ skew \in Nat /\ Second \in Nat /\ RegisterCooldown \in Nat
<1>1. job \in Jobs /\ disk \in AccountFile /\ skew \in Skews /\ calls \in Calls
  BY DEF TypeOK, AccountTypeOK
<1>2. job.file \in AccountFile
  BY <1>1, AccountTypes
<1>3. QED
  BY <1>1, <1>2, AccountAssumption DEF TypeOK, AccountTypeOK, HealthTypeOK, Calls,
     AccountAssumption

\* A stamp is an instant.
LEMMA StampType ==
    ASSUME NEW file \in AccountFile
    PROVE  Stamp(file) \in Nat
<1>1. Second \in Nat /\ file.registered_at \in Nat
  BY AccountAssumption DEF AccountAssumption, AccountFile
<1>2. \A x, y \in Nat : x * y \in Nat
  OBVIOUS
<1>3. QED
  BY <1>1, <1>2 DEF Stamp

\* A stamp keeps its meaning while time passes.
LEMMA StampStays ==
    ASSUME TypeOK, NEW file \in AccountFile, StampedAfterCall(file),
           UNCHANGED <<calls, skew>>, now' = now \/ now' = now + 1
    PROVE  /\ file # NoFile
           /\ \/ calls'.wallSet
              \/ /\ calls'.last + skew' < Stamp(file) + Second
                 /\ Stamp(file) <= now' + skew'
<1>1. /\ now \in Nat /\ skew \in Nat /\ Stamp(file) \in Nat /\ now' \in Nat /\ now <= now'
  BY SpacedTypes, StampType
<1>2. CASE calls.wallSet
  BY <1>2 DEF StampedAfterCall
<1>3. CASE Wall(calls.last) < Stamp(file) + Second /\ Stamp(file) <= Wall(now)
  <2>1. calls.last + skew < Stamp(file) + Second /\ Stamp(file) <= now + skew
    BY <1>3 DEF Wall
  <2>2. Stamp(file) <= now' + skew
    BY <1>1, <2>1
  <2>3. QED
    BY <2>1, <2>2 DEF StampedAfterCall
<1>4. QED
  BY <1>2, <1>3 DEF StampedAfterCall

\* Time passes, and nothing SpacedInv is about changes.
LEMMA SpacedStutter ==
    ASSUME TypeOK, SpacedInv, UNCHANGED <<starts, pc, job, calls, lastAttempt, disk, skew>>,
           now' = now \/ now' = now + 1
    PROVE  SpacedInv' /\ CallSpaced
<1>1. calls.last \in Nat \cup {NoInstant} /\ now \in Nat
      /\ disk \in AccountFile /\ job.file \in AccountFile
  BY SpacedTypes
<1>2. \A t \in Nat : t <= now => t <= now'
  BY <1>1
<1>3. /\ StampedAfterCall(disk) => StampedAfterCall(disk)'
      /\ StampedAfterCall(job.file) => StampedAfterCall(job.file)'
  BY <1>1, StampStays DEF StampedAfterCall, Wall, Stamp
<1>4. calls.last # NoInstant => calls.last <= now' /\ CallRemembered'
  BY <1>1, <1>2, <1>3 DEF SpacedInv, CallRemembered
<1>5. QED
  BY <1>3, <1>4 DEF SpacedInv, CallSpaced

\* The wall clock is set: from now on nothing is claimed of the stamps.
LEMMA SpacedWallClock ==
    ASSUME TypeOK, SpacedInv, WallClockSet
    PROVE  SpacedInv' /\ CallSpaced
<1>1. /\ calls \in Calls /\ calls' = [calls EXCEPT !.wallSet = TRUE]
      /\ UNCHANGED <<starts, pc, job, lastAttempt, disk, now>>
  BY SpacedTypes DEF WallClockSet, SetWallClock, supervisorVars, historyVars
<1>2. calls'.wallSet /\ calls'.last = calls.last /\ calls'.n = calls.n
  BY <1>1 DEF Calls
<1>3. /\ StampedAfterCall(disk) => StampedAfterCall(disk)'
      /\ StampedAfterCall(job.file) => StampedAfterCall(job.file)'
  BY <1>1, <1>2 DEF StampedAfterCall
<1>4. calls.last # NoInstant => calls.last <= now' /\ CallRemembered'
  BY <1>1, <1>2, <1>3 DEF SpacedInv, CallRemembered
<1>5. QED
  BY <1>1, <1>2, <1>3, <1>4 DEF SpacedInv, CallSpaced

\* The start of the process keeps SpacedInv: the account it registers is stamped
\* after the call, up to the part of a second that the stamp loses.
LEMMA SpacedBoot ==
    ASSUME MaxStarts <= 1, TypeOK, SpacedInv, Boot
    PROVE  SpacedInv' /\ CallSpaced
<1>0. /\ starts \in Nat /\ now \in Nat /\ calls \in Calls
      /\ calls.n \in Nat /\ calls.last \in Nat \cup {NoInstant}
      /\ disk \in AccountFile /\ job.file \in AccountFile
      /\ skew \in Nat /\ Second \in Nat
  BY SpacedTypes
<1>1. CASE StartWithAccount
  <2>1. starts = 0 /\ starts' = 1 /\ calls.last = NoInstant /\ pc = "down"
    BY <1>0, <1>1, SupervisorAssumption DEF StartWithAccount, SpacedInv
  <2>2. pc' = "boot_config" /\ calls' = calls /\ lastAttempt' = lastAttempt
    BY <1>1 DEF StartWithAccount, Goto, accountVars
  <2>3. QED
    BY <2>1, <2>2 DEF SpacedInv, CallSpaced
<1>2. CASE StartUnregistered
  <2>1. starts = 0 /\ starts' = 1 /\ calls.last = NoInstant /\ pc = "down"
    BY <1>0, <1>2, SupervisorAssumption DEF StartUnregistered, SpacedInv
  <2>2. pc' = "boot_register" /\ calls'.last = now /\ now' = now /\ lastAttempt' = lastAttempt
    BY <1>2 DEF StartUnregistered, Goto, CallRegister
  <2>3. QED
    BY <1>0, <2>1, <2>2 DEF SpacedInv, CallRemembered, CallSpaced, NoInstant
<1>3. CASE BootRegisterOk
  <2>1. /\ pc = "boot_register" /\ pc' = "boot_rename"
        /\ UNCHANGED <<now, starts, calls, lastAttempt, skew>>
        /\ job' = [NoJob EXCEPT !.file = RegisteredFile(now)]
    BY <1>3 DEF BootRegisterOk, Goto, accountVars
  <2>2. job'.file = RegisteredFile(now)
    BY <2>1 DEF NoJob
  <2>3. job'.file # NoFile /\ job'.file.registered_at = Wall(now) \div Second
    BY <2>2 DEF RegisteredFile, NoFile, NoCredentials
  <2>4. Wall(now) \in Nat
    BY <1>0 DEF Wall
  <2>5. Stamp(job.file)' = Second * (Wall(now) \div Second)
    BY <2>3 DEF Stamp
  <2>6. /\ Stamp(job.file)' \in Nat /\ Stamp(job.file)' <= Wall(now)
        /\ Wall(now) < Stamp(job.file)' + Second
    BY <2>4, <2>5, WholeSeconds
  <2>7. StampedAfterCall(job.file)'
    <3>1. calls.last <= now /\ calls.last \in Int
      BY <1>0 DEF SpacedInv, NoInstant
    <3>2. calls'.last = calls.last /\ now' = now /\ skew' = skew
      BY <2>1
    <3>3. calls.last + skew <= now + skew /\ calls.last + skew \in Int
      BY <1>0, <3>1
    <3>4. Wall(calls.last)' <= Wall(now) /\ Wall(now)' = Wall(now) /\ Wall(calls.last)' \in Int
      BY <3>2, <3>3 DEF Wall
    <3>5. Wall(calls.last)' < Stamp(job.file)' + Second /\ Stamp(job.file)' <= Wall(now)'
      BY <1>0, <2>4, <2>6, <3>4
    <3>6. QED
      BY <2>3, <3>5 DEF StampedAfterCall
  <2>8. QED
    BY <1>0, <2>1, <2>7 DEF SpacedInv, CallRemembered, CallSpaced, BootPcs
<1>4. CASE BootRename
  <2>1. /\ pc = "boot_rename" /\ pc' = "boot_sync"
        /\ UNCHANGED <<now, starts, calls, skew, lastAttempt>>
        /\ disk' = job.file
    BY <1>4 DEF BootRename, Goto, SaveRename
  <2>2. StampedAfterCall(disk)'
    BY <2>1 DEF SpacedInv, StampedAfterCall, Wall, Stamp
  <2>3. lastAttempt = NoInstant
    BY <2>1 DEF SpacedInv, BootPcs
  <2>4. QED
    BY <2>1, <2>2, <2>3 DEF SpacedInv, CallRemembered, CallSpaced
<1>5. CASE BootConfigOk \/ BootSync \/ BootConnectOk
  <2>1. /\ pc \in {"boot_config", "boot_sync", "boot_connect"}
        /\ pc' \in {"boot_connect", "idle"}
        /\ UNCHANGED <<now, starts, calls, disk, lastAttempt, skew>>
    BY <1>5 DEF BootConfigOk, BootSync, BootConnectOk, Goto, accountVars
  <2>2. lastAttempt = NoInstant
    BY <2>1 DEF SpacedInv, BootPcs
  <2>3. QED
    BY <2>1, <2>2 DEF SpacedInv, CallRemembered, StampedAfterCall, Wall, Stamp, CallSpaced
<1>6. CASE BootFail
  <2>1. /\ pc # "down" /\ pc' = "down" /\ UNCHANGED <<now, starts, calls>>
        /\ lastAttempt' = NoInstant
    BY <1>6 DEF BootFail, BootPcs, ProcessGone, Goto, ForgetMemory, historyVars
  <2>2. QED
    BY <2>1 DEF SpacedInv, CallRemembered, CallSpaced
<1>7. QED
  BY <1>1, <1>2, <1>3, <1>4, <1>5, <1>6 DEF Boot

\* A step of a recovery keeps SpacedInv, and one that calls the registration API
\* has waited for the cooldown that is remembered.
LEMMA SpacedRecovery ==
    ASSUME PoolFiles = <<>>, TypeOK, SpacedInv, RecoveryStep
    PROVE  SpacedInv' /\ CallSpaced
<1>0. /\ now \in Nat /\ calls.n \in Nat /\ calls.last \in Nat \cup {NoInstant}
      /\ disk \in AccountFile /\ RegisterCooldown \in Nat /\ skew \in Nat /\ Second \in Nat
  BY SpacedTypes
<1>1. /\ now' = now /\ starts' = starts
      /\ pc \in HandlerPcs /\ pc' \in HandlerPcs \cup {"idle"}
      /\ pc \notin BootPcs \cup {"down"} /\ pc' \notin BootPcs \cup {"down"}
      /\ pc' # "boot_rename"
  BY RecoveryFrame DEF HandlerPcs, BootPcs
<1>2. CASE StartReregister
  <2>1. /\ pc' = "register" /\ lastAttempt' = now /\ calls'.last = now
        /\ ~ DiskCooldownActive(now) /\ ~ AttemptCooldownActive(now)
    BY <1>2 DEF StartReregister, PrepareReregister, CallRegister, Goto
  <2>2. SpacedInv'
    BY <1>0, <1>1, <2>1 DEF SpacedInv, CallRemembered, HandlerPcs
  <2>3. ASSUME calls.last # NoInstant
        PROVE  \/ now - calls.last >= RegisterCooldown
               \/ /\ lastAttempt = NoInstant
                  /\ calls.wallSet \/ now - calls.last > RegisterCooldown - Second
    <3>1. \/ lastAttempt = calls.last
          \/ lastAttempt = NoInstant /\ StampedAfterCall(disk)
      BY <1>1, <2>3 DEF SpacedInv, CallRemembered, BootPcs
    <3>2. CASE lastAttempt = calls.last
      BY <1>0, <2>1, <2>3, <3>2 DEF AttemptCooldownActive, NoInstant
    <3>3. CASE lastAttempt = NoInstant /\ StampedAfterCall(disk) /\ ~ calls.wallSet
      <4>1. /\ disk # NoFile
            /\ calls.last + skew < Stamp(disk) + Second
            /\ Stamp(disk) <= now + skew
        BY <3>3 DEF StampedAfterCall, Wall
      <4>2. ~ (Stamp(disk) <= Wall(now) /\ Wall(now) - Stamp(disk) < RegisterCooldown)
        BY <2>1, <4>1, Zenon DEF DiskCooldownActive, Stamp
      <4>3. Wall(now) = now + skew
        BY DEF Wall
      <4>4. Stamp(disk) \in Nat /\ calls.last \in Nat
        BY <1>0, <2>3, StampType
      <4>5. now - calls.last > RegisterCooldown - Second
        BY <1>0, <4>1, <4>2, <4>3, <4>4
      <4>6. QED
        BY <3>3, <4>5
    <3>4. CASE lastAttempt = NoInstant /\ calls.wallSet
      BY <3>4
    <3>5. QED
      BY <3>1, <3>2, <3>3, <3>4
  <2>4. QED
    BY <2>2, <2>3 DEF CallSpaced
<1>3. CASE CommitRename
  <2>1. pc = "rename" /\ pc' = "sync" /\ calls' = calls /\ lastAttempt' = lastAttempt
    BY <1>3 DEF CommitRename, SaveRename, Goto
  <2>2. QED
    BY <1>1, <2>1 DEF SpacedInv, CallRemembered, CallSpaced, HandlerPcs
<1>4. CASE RegisterOk \/ ConnectCandidateOk
  <2>1. /\ pc \in {"register", "connect_candidate"} /\ pc' \in {"connect_candidate", "rename"}
        /\ UNCHANGED <<calls, lastAttempt, disk>>
    BY <1>4 DEF RegisterOk, ConnectCandidateOk, Goto, accountVars
  <2>2. QED
    BY <1>1, <2>1 DEF SpacedInv, CallRemembered, CallSpaced, HandlerPcs
<1>5. CASE \/ EscalateNone \/ StartReconnect \/ StartRebuildConfig \/ ReregisterRefused
           \/ GetConfigOk \/ RegisterErr \/ ConnectOk \/ CommitSync \/ StepFails
           \/ StampCompleted
  <2>1. /\ pc' \in {"idle", "connect", "get_config", "stamp"}
        /\ UNCHANGED <<calls, lastAttempt, disk, skew>>
    BY <1>5 DEF EscalateNone, StartReconnect, StartRebuildConfig, ReregisterRefused,
       RefuseReregister, GetConfigOk, RegisterErr, ConnectOk, CommitSync, StepFails,
       StampCompleted, Return, Returned, Goto, accountVars
  <2>2. calls.last # NoInstant => CallRemembered'
    BY <1>1, <2>1 DEF SpacedInv, CallRemembered, StampedAfterCall, Wall, Stamp, BootPcs
  <2>3. QED
    BY <1>1, <2>1, <2>2 DEF SpacedInv, CallSpaced
<1>6. CASE StartRotate \/ IdentityOk
  BY <1>6 DEF StartRotate, IdentityOk, TakeIdentity, SpacedInv
<1>7. QED
  BY <1>2, <1>3, <1>4, <1>5, <1>6 DEF RecoveryStep

\* Every step of a run of the process.
LEMMA SpacedNext ==
    ASSUME PoolFiles = <<>>, MaxStarts <= 1, TypeOK, SpacedInv, [Next]_vars
    PROVE  SpacedInv' /\ CallSpaced
<1>1. CASE Tick \/ RefreshTick \/ RefreshSend \/ Horizon \/ UNCHANGED vars
  <2>1. /\ UNCHANGED <<starts, pc, job, calls, lastAttempt, disk, skew>>
        /\ now' = now \/ now' = now + 1
    BY <1>1 DEF Tick, RefreshTick, RefreshSend, Horizon, vars, accountVars, supervisorVars,
       historyVars
  <2>2. QED
    BY <2>1, SpacedStutter
<1>2. CASE Background
  <2>1. UNCHANGED <<starts, pc, job, calls, lastAttempt, disk, skew>> /\ now' = now
    BY <1>2 DEF Background, WhileRunning, HealthNext, DialStart, DialEnd, ProbeTick,
       ProbeVerdict, ProbeSend, accountVars, supervisorVars, historyVars
  <2>2. QED
    BY <2>1, SpacedStutter
<1>3. CASE Boot
  BY <1>3, SpacedBoot
<1>4. CASE Crash
  <2>1. starts = 0 /\ pc # "down"
    <3>1. starts \in Nat
      BY SpacedTypes
    <3>2. QED
      BY <1>4, <3>1, SupervisorAssumption DEF Crash
  <2>2. QED
    BY <2>1 DEF SpacedInv
<1>5. CASE DiscardStale \/ HandleProbeOk
  <2>1. UNCHANGED <<starts, pc, job, calls, lastAttempt, disk, skew>> /\ now' = now
    BY <1>5 DEF DiscardStale, HandleProbeOk, accountVars, supervisorVars, historyVars
  <2>2. QED
    BY <2>1, SpacedStutter
<1>6. CASE HandleProbeFailed \/ HandleRefresh
  <2>1. /\ pc = "idle" /\ pc' \in {"backoff", "get_config"}
        /\ UNCHANGED <<now, starts, calls, lastAttempt, disk, skew>>
    BY <1>6 DEF HandleProbeFailed, HandleRefresh, Receive, Goto, accountVars, historyVars
  <2>2. calls.last # NoInstant => CallRemembered'
    BY <2>1 DEF SpacedInv, CallRemembered, StampedAfterCall, Wall, Stamp
  <2>3. QED
    BY <2>1, <2>2 DEF SpacedInv, CallSpaced, BootPcs
<1>7. CASE RecoveryStep
  BY <1>7, SpacedRecovery
<1>8. CASE WallClockSet
  BY <1>8, SpacedWallClock
<1>9. QED
  BY <1>1, <1>2, <1>3, <1>4, <1>5, <1>6, <1>7, <1>8 DEF Next, Handle, RecoveryStep

\* In one run of the process and without an identity pool, whatever the length of
\* the cooldown and whenever the wall clock is set: a registration comes a full
\* cooldown after the last attempt, the failed ones included, when that attempt is
\* in memory (prepare_reregister).  After the registration at the start
\* (load_or_register), which only the stamp of account.json remembers, less than a
\* second of the cooldown can be missing, and the whole of it only if the wall
\* clock has been set since.  Both hypotheses are needed: a restart forgets the last
\* attempt, and an identity of the pool replaces the stamp on disk.
THEOREM RegistrationsStaySpaced ==
    ASSUME PoolFiles = <<>>, MaxStarts <= 1
    PROVE  Spec => CooldownKept
<1>1. Init => SpacedInv
  BY DEF Init, AccountInit, SpacedInv
<1>2. TypeOK /\ SpacedInv /\ [Next]_vars => SpacedInv'
  BY SpacedNext
<1>3. TypeOK /\ SpacedInv /\ [Next]_vars => [CallSpaced]_vars
  BY SpacedNext
<1>4. QED
  BY <1>1, <1>2, <1>3, TypeCorrect, PTL DEF Spec, CooldownKept, CallSpaced

-----------------------------------------------------------------------------
(* The ladder.                                                             *)

\* The rungs in the order in which they interfere more and more.
Rungs == <<"None", "Reconnect", "RebuildConfig", "Reregister", "RotateIdentity">>

RungOf(action) == CHOOSE r \in 1 .. 5 : Rungs[r] = action

\* The rungs are numbered from the mildest to the last.
LEMMA RungNumbers ==
    /\ RungOf("None") = 1 /\ RungOf("Reconnect") = 2 /\ RungOf("RebuildConfig") = 3
    /\ RungOf("Reregister") = 4 /\ RungOf("RotateIdentity") = 5
<1>1. /\ Rungs[1] = "None" /\ Rungs[2] = "Reconnect" /\ Rungs[3] = "RebuildConfig"
      /\ Rungs[4] = "Reregister" /\ Rungs[5] = "RotateIdentity"
  BY DEF Rungs
<1>2. \A r, q \in 1 .. 5 : Rungs[r] = Rungs[q] => r = q
  <2>1. \A r \in 1 .. 5 : r = 1 \/ r = 2 \/ r = 3 \/ r = 4 \/ r = 5
    OBVIOUS
  <2> QED BY <1>1, <2>1
<1>3. ASSUME NEW r \in 1 .. 5 PROVE RungOf(Rungs[r]) = r
  BY <1>2 DEF RungOf
<1> QED BY <1>1, <1>3

\* The table of powers grows.
LEMMA PowersGrow ==
    \A i, j \in 1 .. 17 : i <= j => /\ PowersOfTwo[i] \in Nat /\ PowersOfTwo[j] \in Nat
                                    /\ 1 <= PowersOfTwo[i] /\ PowersOfTwo[i] <= PowersOfTwo[j]
<1> DEFINE P == PowersOfTwo
           At(k, x) ==
              \/ (k = 1 /\ x = 1) \/ (k = 2 /\ x = 2) \/ (k = 3 /\ x = 4)
              \/ (k = 4 /\ x = 8) \/ (k = 5 /\ x = 16) \/ (k = 6 /\ x = 32)
              \/ (k = 7 /\ x = 64) \/ (k = 8 /\ x = 128) \/ (k = 9 /\ x = 256)
              \/ (k = 10 /\ x = 512) \/ (k = 11 /\ x = 1024) \/ (k = 12 /\ x = 2048)
              \/ (k = 13 /\ x = 4096) \/ (k = 14 /\ x = 8192)
              \/ (k = 15 /\ x = 16384) \/ (k = 16 /\ x = 32768)
              \/ (k = 17 /\ x = 65536)
<1>1. /\ P[1] = 1 /\ P[2] = 2 /\ P[3] = 4 /\ P[4] = 8 /\ P[5] = 16 /\ P[6] = 32
      /\ P[7] = 64 /\ P[8] = 128 /\ P[9] = 256 /\ P[10] = 512 /\ P[11] = 1024
      /\ P[12] = 2048 /\ P[13] = 4096 /\ P[14] = 8192 /\ P[15] = 16384
      /\ P[16] = 32768 /\ P[17] = 65536
  BY DEF PowersOfTwo
<1>2. \A k \in 1 .. 17 : P[k] \in Nat
  BY PowersType
<1> HIDE DEF P
<1>3. ASSUME NEW k \in 1 .. 17 PROVE At(k, P[k])
  BY <1>1
<1>4. ASSUME NEW k \in 1 .. 17, NEW l \in 1 .. 17, k <= l, NEW x \in Nat, NEW y \in Nat,
             At(k, x), At(l, y)
      PROVE  1 <= x /\ x <= y
  BY <1>4
<1> HIDE DEF At
<1>5. ASSUME NEW i \in 1 .. 17, NEW j \in 1 .. 17, i <= j
      PROVE  P[i] \in Nat /\ P[j] \in Nat /\ 1 <= P[i] /\ P[i] <= P[j]
  <2>1. At(i, P[i]) /\ At(j, P[j]) /\ P[i] \in Nat /\ P[j] \in Nat
    BY <1>2, <1>3
  <2> QED BY <1>4, <1>5, <2>1
<1> QED BY <1>5 DEF P

\* For any thresholds and bounds that validate_with accepts, and every value of the
\* u8 counter: another failure never leads to a milder rung (action_for) or to a
\* shorter wait, and the wait stays between backoff_min and backoff_max although
\* the exponent is cut at 16 and the product at the maximum (backoff).
THEOREM EscalationIsMonotone ==
    ASSUME NEW m \in 1 .. 255, NEW n \in 1 .. 255, m <= n
    PROVE  /\ RungOf(action_for(m)) <= RungOf(action_for(n))
           /\ backoff(m) <= backoff(n)
           /\ BackoffMin <= backoff(m) /\ backoff(m) <= BackoffMax
<1>1. RungOf(action_for(m)) <= RungOf(action_for(n))
  <2>1. /\ ReconnectAfter \in Nat /\ RebuildConfigAfter \in Nat
        /\ ReregisterAfter \in Nat /\ RotateIdentityAfter \in Nat
    BY SupervisorAssumption DEF SupervisorAssumption
  <2> DEFINE rung(k) == IF k >= RotateIdentityAfter THEN 5
                        ELSE IF k >= ReregisterAfter THEN 4
                        ELSE IF k >= RebuildConfigAfter THEN 3
                        ELSE IF k >= ReconnectAfter THEN 2 ELSE 1
  <2>2. ASSUME NEW k \in 1 .. 255 PROVE RungOf(action_for(k)) = rung(k)
    <3>1. \/ k >= RotateIdentityAfter /\ action_for(k) = "RotateIdentity"
          \/ /\ ~ k >= RotateIdentityAfter /\ k >= ReregisterAfter
             /\ action_for(k) = "Reregister"
          \/ /\ ~ k >= RotateIdentityAfter /\ ~ k >= ReregisterAfter
             /\ k >= RebuildConfigAfter /\ action_for(k) = "RebuildConfig"
          \/ /\ ~ k >= RotateIdentityAfter /\ ~ k >= ReregisterAfter
             /\ ~ k >= RebuildConfigAfter /\ k >= ReconnectAfter
             /\ action_for(k) = "Reconnect"
          \/ /\ ~ k >= RotateIdentityAfter /\ ~ k >= ReregisterAfter
             /\ ~ k >= RebuildConfigAfter /\ ~ k >= ReconnectAfter
             /\ action_for(k) = "None"
      BY DEF action_for
    <3> QED BY <3>1, RungNumbers
  <2>3. rung(m) <= rung(n)
    BY <2>1
  <2>4. RungOf(action_for(m)) = rung(m) /\ RungOf(action_for(n)) = rung(n)
    BY <2>2
  <2> HIDE DEF rung
  <2> QED BY <2>3, <2>4
<1> DEFINE exp(k) == IF k - 1 < 16 THEN k - 1 ELSE 16
           a == PowersOfTwo[exp(m) + 1]
           b == PowersOfTwo[exp(n) + 1]
<1>2. exp(m) + 1 \in 1 .. 17 /\ exp(n) + 1 \in 1 .. 17 /\ exp(m) + 1 <= exp(n) + 1
  OBVIOUS
<1>3. a \in Nat /\ b \in Nat /\ 1 <= a /\ a <= b
  BY <1>2, PowersGrow
<1>4. BackoffMin \in Nat /\ BackoffMax \in Nat /\ BackoffMin <= BackoffMax
  BY SupervisorAssumption DEF SupervisorAssumption
<1>5. \A x, y, z \in Nat : y <= z => x * y <= x * z /\ x * y \in Nat /\ x * z \in Nat
  OBVIOUS
<1>6. BackoffMin * 1 <= BackoffMin * a /\ BackoffMin * a <= BackoffMin * b
      /\ BackoffMin * a \in Nat /\ BackoffMin * b \in Nat
  BY <1>3, <1>4, <1>5
<1>7. /\ backoff(m) = IF BackoffMin * a < BackoffMax THEN BackoffMin * a ELSE BackoffMax
      /\ backoff(n) = IF BackoffMin * b < BackoffMax THEN BackoffMin * b ELSE BackoffMax
  BY DEF backoff
<1> HIDE DEF a, b
<1>8. backoff(m) <= backoff(n) /\ BackoffMin <= backoff(m) /\ backoff(m) <= BackoffMax
  BY <1>4, <1>6, <1>7
<1> QED BY <1>1, <1>8
=============================================================================
