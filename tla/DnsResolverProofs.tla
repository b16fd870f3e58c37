-------------------------- MODULE DnsResolverProofs --------------------------
(***************************************************************************)
(* Safety of the DNS resolver's singleflight map and cache (DnsResolver),  *)
(* proved for any callers, hosts, record types and times to live.          *)
(***************************************************************************)
EXTENDS DnsResolver, FiniteSetTheorems, TLAPS

USE DnsAssumption

\* Synchronous code takes no time: a leader that has its answer got it now.
LeaderAnswerIsNew ==
    \A c \in Callers, q \in QTypes :
        task[c][q].pc \in {"publish", "remove"} => task[c][q].answer.at = now

BeganInPast == \A c \in Callers : request[c].began <= now

\* An entry expires its answer's time to live after the DNS gave the answer.
EntriesExpire ==
    \A k \in Keys : cache[k] # NoEntry =>
        cache[k].expires = cache[k].answer.at + Ttl(cache[k].answer)

\* A channel carries the answer of the task that owns it.
ChannelsCarryAnswers ==
    \A c \in Callers, q \in QTypes : published[c][q] # NoAnswer =>
        task[c][q].pc \in {"remove", "done"} /\ published[c][q] = task[c][q].answer

\* What a waiter can read on its channel was given after the waiter began.
WaitersInTime ==
    \A c \in Callers, q \in QTypes : task[c][q].pc = "wait" =>
        \/ published[task[c][q].leader][q] = NoAnswer
        \/ published[task[c][q].leader][q].at >= request[c].began

\* The inductive invariant.
Inv ==
    /\ TypeOK
    /\ SlotsHaveLeaders
    /\ LeaderAnswerIsNew
    /\ BeganInPast
    /\ EntriesExpire
    /\ ChannelsCarryAnswers
    /\ WaitersInTime
    /\ AnswersAreFresh

-----------------------------------------------------------------------------
(* How a step changes one task.                                            *)

\* Task q of caller c becomes [pc |-> p, leader |-> l, answer |-> a].
Moves(c, q, p, l, a) ==
    /\ task' \in [Callers -> [QTypes -> Tasks]]
    /\ task'[c][q].pc = p
    /\ task'[c][q].leader = l
    /\ task'[c][q].answer = a
    /\ \A d \in Callers, r \in QTypes : d # c \/ r # q => task'[d][r] = task[d][r]

\* Replacing the record of one task moves only that task.
LEMMA MovesByUpdate ==
    ASSUME TypeOK, NEW c \in Callers, NEW q \in QTypes, NEW t \in Tasks,
           task' = [task EXCEPT ![c][q] = t]
    PROVE  Moves(c, q, t.pc, t.leader, t.answer)
BY DEF Moves, TypeOK

\* Setting the pc of one task moves only that task.
LEMMA MovesPc ==
    ASSUME TypeOK, NEW c \in Callers, NEW q \in QTypes, NEW p \in Pcs,
           task' = [task EXCEPT ![c][q].pc = p]
    PROVE  Moves(c, q, p, task[c][q].leader, task[c][q].answer)
<1> DEFINE t == [task[c][q] EXCEPT !.pc = p]
<1>1. task \in [Callers -> [QTypes -> Tasks]]
  BY DEF TypeOK
<1>2. task[c][q] \in Tasks
  BY <1>1
<1>3. /\ t \in Tasks
      /\ t.pc = p /\ t.leader = task[c][q].leader /\ t.answer = task[c][q].answer
  BY <1>2 DEF Tasks
<1>4. task' = [task EXCEPT ![c][q] = t]
  BY <1>1
<1> HIDE DEF t
<1>5. QED
  BY <1>3, <1>4, MovesByUpdate

\* Setting the pc and the channel of one task moves only that task.
LEMMA MovesPcLeader ==
    ASSUME TypeOK, NEW c \in Callers, NEW q \in QTypes, NEW p \in Pcs, NEW l \in Callers,
           task' = [task EXCEPT ![c][q].pc = p, ![c][q].leader = l]
    PROVE  Moves(c, q, p, l, task[c][q].answer)
<1> DEFINE t == [task[c][q] EXCEPT !.pc = p, !.leader = l]
<1>1. task \in [Callers -> [QTypes -> Tasks]]
  BY DEF TypeOK
<1>2. task[c][q] \in Tasks
  BY <1>1
<1>3. /\ t \in Tasks
      /\ t.pc = p /\ t.leader = l /\ t.answer = task[c][q].answer
  BY <1>2 DEF Tasks
<1>4. task' = [task EXCEPT ![c][q] = t]
  BY <1>1
<1> HIDE DEF t
<1>5. QED
  BY <1>3, <1>4, MovesByUpdate

\* Setting the pc and the answer of one task moves only that task.
LEMMA MovesPcAnswer ==
    ASSUME TypeOK, NEW c \in Callers, NEW q \in QTypes, NEW p \in Pcs, NEW a \in MaybeAnswer,
           task' = [task EXCEPT ![c][q].pc = p, ![c][q].answer = a]
    PROVE  Moves(c, q, p, task[c][q].leader, a)
<1> DEFINE t == [task[c][q] EXCEPT !.pc = p, !.answer = a]
<1>1. task \in [Callers -> [QTypes -> Tasks]]
  BY DEF TypeOK
<1>2. task[c][q] \in Tasks
  BY <1>1
<1>3. /\ t \in Tasks
      /\ t.pc = p /\ t.leader = task[c][q].leader /\ t.answer = a
  BY <1>2 DEF Tasks
<1>4. task' = [task EXCEPT ![c][q] = t]
  BY <1>1
<1> HIDE DEF t
<1>5. QED
  BY <1>3, <1>4, MovesByUpdate

-----------------------------------------------------------------------------
\* The types of the pieces, for the steps below.
LEMMA Facts ==
    ASSUME TypeOK, NEW c \in Callers, NEW q \in QTypes
    PROVE  /\ now \in Nat
           /\ request[c].host \in Hosts /\ request[c].began \in Nat
           /\ request[c].on \in BOOLEAN
           /\ Key(c, q) \in Keys
           /\ task[c][q].pc \in Pcs
           /\ task[c][q].leader \in Callers \cup {NoCaller}
           /\ task[c][q].answer \in MaybeAnswer
           /\ published[c][q] \in MaybeAnswer
           /\ inFlight[Key(c, q)] \in Callers \cup {NoCaller}
           /\ cache[Key(c, q)] \in Entries
<1>1. request[c] \in [host : Hosts, began : Nat, on : BOOLEAN] /\ task[c][q] \in Tasks
  BY DEF TypeOK
<1>2. Key(c, q) \in Keys
  BY <1>1 DEF Key, Keys
<1>3. QED
  BY <1>1, <1>2 DEF TypeOK, Tasks

\* The invariant holds before the first request.
LEMMA InitInv == Init => Inv
<1> SUFFICES ASSUME Init PROVE Inv
  OBVIOUS
<1>1. NoAnswer \in MaybeAnswer /\ NoEntry \in Entries /\ "lookup" \in Pcs
  BY DEF MaybeAnswer, Entries, Pcs
<1>2. /\ request \in [Callers -> [host : Hosts, began : Nat, on : BOOLEAN]]
      /\ \A c \in Callers : request[c].began = 0
  <2>1. request \in [Callers -> [host : Hosts, began : {0}, on : {FALSE}]]
    BY DEF Init
  <2>2. ASSUME NEW r \in [host : Hosts, began : {0}, on : {FALSE}]
        PROVE  r \in [host : Hosts, began : Nat, on : BOOLEAN] /\ r.began = 0
    <3>1. r = [host |-> r.host, began |-> 0, on |-> FALSE] /\ r.host \in Hosts
      OBVIOUS
    <3>2. \A h \in Hosts : [host |-> h, began |-> 0, on |-> FALSE]
                               \in [host : Hosts, began : Nat, on : BOOLEAN]
      OBVIOUS
    <3>3. QED
      BY <3>1, <3>2, Zenon
  <2>3. QED
    BY <2>1, <2>2
<1>3. task \in [Callers -> [QTypes -> Tasks]]
  BY <1>1 DEF Init, Tasks
<1>4. \A c \in Callers, q \in QTypes :
          task[c][q].pc = "lookup" /\ task[c][q].answer = NoAnswer
  BY DEF Init
<1>5. TypeOK
  BY <1>1, <1>2, <1>3, <1>4 DEF Init, TypeOK
<1>6. SlotsHaveLeaders
  BY <1>4 DEF Init, SlotsHaveLeaders, Leads, Keys
<1>7. LeaderAnswerIsNew /\ WaitersInTime /\ AnswersAreFresh
  BY <1>4 DEF LeaderAnswerIsNew, WaitersInTime, AnswersAreFresh
<1>8. BeganInPast
  BY <1>2 DEF Init, BeganInPast
<1>9. EntriesExpire
  BY DEF Init, EntriesExpire
<1>10. ChannelsCarryAnswers
  BY DEF Init, ChannelsCarryAnswers
<1>11. QED
  BY <1>5, <1>6, <1>7, <1>8, <1>9, <1>10 DEF Inv

-----------------------------------------------------------------------------
(* What a step that moves one task leaves intact, conjunct by conjunct.    *)

\* A move keeps the types.
LEMMA MoveType ==
    ASSUME TypeOK, NEW c \in Callers, NEW q \in QTypes, NEW p, NEW l, NEW a,
           Moves(c, q, p, l, a),
           now' = now, request' = request,
           cache' \in [Keys -> Entries], inFlight' \in [Keys -> Callers \cup {NoCaller}],
           published' \in [Callers -> [QTypes -> MaybeAnswer]],
           p \in {"wait", "selfquery"} => l # NoCaller,
           p \in {"publish", "remove", "done"} <=> a # NoAnswer
    PROVE  TypeOK'
<1>1. ASSUME NEW d \in Callers, NEW r \in QTypes
      PROVE  /\ task'[d][r].pc \in {"wait", "selfquery"} => task'[d][r].leader # NoCaller
             /\ task'[d][r].pc \in {"publish", "remove", "done"}
                    <=> task'[d][r].answer # NoAnswer
  <2>1. CASE d = c /\ r = q
    BY <2>1 DEF Moves
  <2>2. CASE d # c \/ r # q
    BY <2>2 DEF Moves, TypeOK
  <2>3. QED
    BY <2>1, <2>2
<1>2. now' \in Nat /\ request' \in [Callers -> [host : Hosts, began : Nat, on : BOOLEAN]]
  BY DEF TypeOK
<1>3. task' \in [Callers -> [QTypes -> Tasks]]
  BY DEF Moves
<1>4. QED
  BY <1>1, <1>2, <1>3 DEF TypeOK

\* A move that neither takes nor leaves a slot keeps SlotsHaveLeaders.
LEMMA MoveSlots ==
    ASSUME TypeOK, SlotsHaveLeaders,
           NEW c \in Callers, NEW q \in QTypes, NEW p, NEW l, NEW a,
           Moves(c, q, p, l, a),
           request' = request, inFlight' = inFlight,
           p \in {"query", "publish", "remove"} <=> Leads(c, q)
    PROVE  SlotsHaveLeaders'
<1>1. \A d \in Callers, r \in QTypes : Leads(d, r)' <=> Leads(d, r)
  BY DEF Moves, Leads
<1>2. \A h \in Hosts, r \in QTypes : inFlight[<<h, r>>] \in Callers \cup {NoCaller}
  BY DEF TypeOK, Keys
<1>3. QED
  BY <1>1, <1>2 DEF SlotsHaveLeaders, Key

\* A move keeps the answers of the leaders new.
LEMMA MoveNew ==
    ASSUME LeaderAnswerIsNew, NEW c \in Callers, NEW q \in QTypes, NEW p, NEW l, NEW a,
           Moves(c, q, p, l, a), now' = now,
           p \in {"publish", "remove"} => a.at = now
    PROVE  LeaderAnswerIsNew'
BY DEF LeaderAnswerIsNew, Moves

\* A move that touches no channel keeps what the channels carry.
LEMMA MoveChannels ==
    ASSUME ChannelsCarryAnswers, NEW c \in Callers, NEW q \in QTypes, NEW p, NEW l, NEW a,
           Moves(c, q, p, l, a), published' = published,
           published[c][q] # NoAnswer => p \in {"remove", "done"} /\ a = task[c][q].answer
    PROVE  ChannelsCarryAnswers'
BY DEF ChannelsCarryAnswers, Moves

\* A move keeps the waiters in time.
LEMMA MoveWaiters ==
    ASSUME WaitersInTime, NEW c \in Callers, NEW q \in QTypes, NEW p, NEW l, NEW a,
           Moves(c, q, p, l, a), published' = published, request' = request,
           p = "wait" => \/ published[l][q] = NoAnswer
                         \/ published[l][q].at >= request[c].began
    PROVE  WaitersInTime'
BY DEF WaitersInTime, Moves

\* A move to an answer that is fresh keeps AnswersAreFresh.
LEMMA MoveFresh ==
    ASSUME AnswersAreFresh, NEW c \in Callers, NEW q \in QTypes, NEW p, NEW l, NEW a,
           Moves(c, q, p, l, a), request' = request,
           p = "done" => a.at >= request[c].began \/ a.at + Ttl(a) > request[c].began
    PROVE  AnswersAreFresh'
BY DEF AnswersAreFresh, Moves, Ttl

-----------------------------------------------------------------------------
(* Every step preserves the invariant.                                     *)

\* lookup_cache finds a valid entry.
LEMMA LookupHitInv ==
    ASSUME Inv, NEW c \in Callers, NEW q \in QTypes, LookupHit(c, q)
    PROVE  Inv'
<1> DEFINE entry == cache[Key(c, q)]
<1> USE DEF Inv
<1>1. /\ task[c][q].pc = "lookup"
      /\ now' = now /\ request' = request /\ cache' = cache
      /\ inFlight' = inFlight /\ published' = published
      /\ entry # NoEntry /\ entry.expires > now
  BY DEF LookupHit, Valid
<1>2. entry.answer \in Answers /\ entry.answer # NoAnswer /\ entry.answer \in MaybeAnswer
  BY <1>1, Facts DEF Entries, Answers, NoAnswer, MaybeAnswer
<1>3. Moves(c, q, "done", task[c][q].leader, entry.answer)
  BY <1>2, MovesPcAnswer DEF LookupHit, Pcs
<1>4. entry.answer.at + Ttl(entry.answer) > request[c].began
  BY <1>1, <1>2, Facts DEF EntriesExpire, BeganInPast, Ttl, Answers
<1>5. published[c][q] = NoAnswer
  BY <1>1 DEF ChannelsCarryAnswers
<1>6. TypeOK'
  BY <1>1, <1>2, <1>3, MoveType DEF TypeOK
<1>7. SlotsHaveLeaders'
  BY <1>1, <1>3, MoveSlots DEF Leads
<1>8. LeaderAnswerIsNew' /\ ChannelsCarryAnswers' /\ WaitersInTime' /\ AnswersAreFresh'
  BY <1>1, <1>3, <1>4, <1>5, MoveNew, MoveChannels, MoveWaiters, MoveFresh
<1>9. BeganInPast' /\ EntriesExpire'
  BY <1>1 DEF BeganInPast, EntriesExpire, Ttl
<1>10. QED
  BY <1>6, <1>7, <1>8, <1>9

\* lookup_cache finds none, and removes an expired one.
LEMMA LookupMissInv ==
    ASSUME Inv, NEW c \in Callers, NEW q \in QTypes, LookupMiss(c, q)
    PROVE  Inv'
<1> USE DEF Inv
<1>1. /\ task[c][q].pc = "lookup"
      /\ now' = now /\ request' = request
      /\ cache' = [cache EXCEPT ![Key(c, q)] = NoEntry]
      /\ inFlight' = inFlight /\ published' = published
  BY DEF LookupMiss
<1>2. task[c][q].answer = NoAnswer /\ published[c][q] = NoAnswer
  BY <1>1 DEF TypeOK, ChannelsCarryAnswers
<1>3. Moves(c, q, "dedup", task[c][q].leader, task[c][q].answer)
  BY MovesPc DEF LookupMiss, Pcs
<1>4. cache' \in [Keys -> Entries] /\ EntriesExpire'
  BY <1>1, Facts DEF TypeOK, EntriesExpire, Entries, Ttl
<1>6. TypeOK'
  BY <1>1, <1>2, <1>3, <1>4, MoveType DEF TypeOK
<1>7. SlotsHaveLeaders'
  BY <1>1, <1>3, MoveSlots DEF Leads
<1>8. LeaderAnswerIsNew' /\ ChannelsCarryAnswers' /\ WaitersInTime' /\ AnswersAreFresh'
  BY <1>1, <1>2, <1>3, MoveNew, MoveChannels, MoveWaiters, MoveFresh
<1>9. BeganInPast'
  BY <1>1 DEF BeganInPast
<1>10. QED
  BY <1>4, <1>6, <1>7, <1>8, <1>9

\* A task puts its channel into the free slot of its key.
LEMMA BecomeLeaderInv ==
    ASSUME Inv, NEW c \in Callers, NEW q \in QTypes, BecomeLeader(c, q)
    PROVE  Inv'
<1> USE DEF Inv
<1>1. /\ task[c][q].pc = "dedup"
      /\ now' = now /\ request' = request /\ cache' = cache /\ published' = published
      /\ inFlight[Key(c, q)] = NoCaller
      /\ inFlight' = [inFlight EXCEPT ![Key(c, q)] = c]
  BY DEF BecomeLeader, AtDedup
<1>2. task[c][q].answer = NoAnswer /\ published[c][q] = NoAnswer
  BY <1>1 DEF TypeOK, ChannelsCarryAnswers
<1>3. Moves(c, q, "query", c, task[c][q].answer)
  BY MovesPcLeader DEF BecomeLeader, Pcs, AwaitPcs
<1>4. /\ inFlight' \in [Keys -> Callers \cup {NoCaller}]
      /\ inFlight'[Key(c, q)] = c
      /\ \A k \in Keys : k # Key(c, q) => inFlight'[k] = inFlight[k]
  BY <1>1, Facts DEF TypeOK
<1>6. TypeOK'
  BY <1>1, <1>2, <1>3, <1>4, MoveType DEF TypeOK
<1>7. SlotsHaveLeaders'
  <2>1. ASSUME NEW h \in Hosts, NEW r \in QTypes, inFlight'[<<h, r>>] # NoCaller
        PROVE  /\ request[inFlight'[<<h, r>>]].host = h
               /\ task'[inFlight'[<<h, r>>]][r].pc \in {"query", "publish", "remove"}
    <3>0. <<h, r>> \in Keys /\ inFlight'[<<h, r>>] \in Callers
      BY <1>4, <2>1 DEF Keys
    <3>1. CASE <<h, r>> = Key(c, q)
      BY <1>3, <1>4, <3>1 DEF Key, Leads, Moves
    <3>2. CASE <<h, r>> # Key(c, q)
      <4>1. inFlight'[<<h, r>>] = inFlight[<<h, r>>]
        BY <1>4, <3>0, <3>2
      <4>2. request[inFlight[<<h, r>>]].host = h /\ Leads(inFlight[<<h, r>>], r)
        BY <2>1, <4>1 DEF SlotsHaveLeaders
      <4>3. QED
        BY <1>3, <3>0, <4>1, <4>2 DEF Moves, Leads
    <3>3. QED
      BY <3>1, <3>2
  <2>2. ASSUME NEW d \in Callers, NEW r \in QTypes, Leads(d, r)'
        PROVE  inFlight'[Key(d, r)] = d
    <3>1. CASE d = c /\ r = q
      BY <1>4, <3>1
    <3>2. CASE d # c \/ r # q
      <4>1. Leads(d, r)
        BY <1>3, <2>2, <3>2 DEF Moves, Leads
      <4>2. inFlight[Key(d, r)] = d /\ d # NoCaller
        BY <4>1 DEF SlotsHaveLeaders
      <4>3. QED
        BY <1>1, <1>4, <4>2, Facts
    <3>3. QED
      BY <3>1, <3>2
  <2>3. QED
    BY <1>1, <2>1, <2>2 DEF SlotsHaveLeaders, Key, Leads
<1>8. LeaderAnswerIsNew' /\ ChannelsCarryAnswers' /\ WaitersInTime' /\ AnswersAreFresh'
  BY <1>1, <1>2, <1>3, MoveNew, MoveChannels, MoveWaiters, MoveFresh
<1>9. BeganInPast' /\ EntriesExpire'
  BY <1>1 DEF BeganInPast, EntriesExpire, Ttl
<1>10. QED
  BY <1>6, <1>7, <1>8, <1>9

\* A task finds a slot and waits on its channel.
LEMMA BecomeWaiterInv ==
    ASSUME Inv, NEW c \in Callers, NEW q \in QTypes, BecomeWaiter(c, q)
    PROVE  Inv'
<1> DEFINE leader == inFlight[Key(c, q)]
<1> USE DEF Inv
<1>1. /\ task[c][q].pc = "dedup"
      /\ now' = now /\ request' = request /\ cache' = cache
      /\ inFlight' = inFlight /\ published' = published
      /\ leader # NoCaller
  BY DEF BecomeWaiter, AtDedup
<1>2. leader \in Callers
  BY <1>1, Facts
<1>3. Moves(c, q, "wait", leader, task[c][q].answer)
  BY <1>2, MovesPcLeader DEF BecomeWaiter, Pcs, AwaitPcs
<1>4. task[c][q].answer = NoAnswer /\ published[c][q] = NoAnswer
  BY <1>1 DEF TypeOK, ChannelsCarryAnswers
\* A leader that has published has its answer since this very instant.
<1>5. published[leader][q] = NoAnswer \/ published[leader][q].at >= request[c].began
  <2>1. SUFFICES ASSUME published[leader][q] # NoAnswer
                 PROVE  published[leader][q].at >= request[c].began
    OBVIOUS
  <2>2. Leads(leader, q)
    BY <1>1, Facts DEF SlotsHaveLeaders, Key
  <2>3. task[leader][q].pc = "remove" /\ published[leader][q] = task[leader][q].answer
    BY <1>2, <2>1, <2>2 DEF ChannelsCarryAnswers, Leads
  <2>4. published[leader][q].at = now
    BY <1>2, <2>3 DEF LeaderAnswerIsNew
  <2>5. QED
    BY <2>4, Facts DEF BeganInPast
<1>6. TypeOK'
  <2>1. /\ cache' \in [Keys -> Entries] /\ inFlight' \in [Keys -> Callers \cup {NoCaller}]
        /\ published' \in [Callers -> [QTypes -> MaybeAnswer]]
    BY <1>1 DEF TypeOK
  <2>2. QED
    BY <1>1, <1>3, <1>4, <2>1, MoveType
<1>7. SlotsHaveLeaders'
  BY <1>1, <1>3, MoveSlots DEF Leads
<1>8. LeaderAnswerIsNew' /\ ChannelsCarryAnswers' /\ WaitersInTime' /\ AnswersAreFresh'
  BY <1>1, <1>3, <1>4, <1>5, MoveNew, MoveChannels, MoveWaiters, MoveFresh
<1>9. BeganInPast' /\ EntriesExpire'
  BY <1>1 DEF BeganInPast, EntriesExpire, Ttl
<1>10. QED
  BY <1>6, <1>7, <1>8, <1>9

\* store_cache keeps every entry within the time to live of its answer.
LEMMA StoreCacheEntries ==
    ASSUME TypeOK, EntriesExpire, NEW k \in Keys, NEW answer \in Answers, answer.at = now,
           StoreCache(k, answer)
    PROVE  cache' \in [Keys -> Entries] /\ EntriesExpire'
<1> DEFINE entry == [answer |-> answer, expires |-> now + Ttl(answer)]
<1>1. now \in Nat /\ cache \in [Keys -> Entries]
  BY DEF TypeOK
<1>2. now + Ttl(answer) \in Nat
  BY <1>1 DEF Ttl
<1>3. /\ entry \in Entries
      /\ entry.answer = answer
      /\ entry.expires = now + Ttl(answer)
  BY <1>2 DEF Entries
<1>4. PICK victims \in SUBSET Cached :
         cache' = [x \in Keys |-> IF x = k THEN entry
                                  ELSE IF x \in victims THEN NoEntry ELSE cache[x]]
  BY DEF StoreCache
<1> HIDE DEF entry
<1>5. NoEntry \in Entries
  BY DEF Entries
<1>6. cache' \in [Keys -> Entries]
  BY <1>1, <1>3, <1>4, <1>5
<1>7. \A x \in Keys : cache'[x] = entry \/ cache'[x] = NoEntry \/ cache'[x] = cache[x]
  BY <1>4
<1>8. EntriesExpire'
  BY <1>3, <1>7 DEF EntriesExpire, Ttl
<1>9. QED
  BY <1>6, <1>8

\* The DNS answers a leader, which stores the answer.
LEMMA LeaderAnsweredInv ==
    ASSUME Inv, NEW c \in Callers, NEW q \in QTypes, NEW ok \in BOOLEAN,
           LeaderAnswered(c, q, ok)
    PROVE  Inv'
<1> DEFINE answer == [ok |-> ok, at |-> now]
<1> USE DEF Inv
<1>1. /\ task[c][q].pc = "query"
      /\ now' = now /\ request' = request
      /\ StoreCache(Key(c, q), answer)
      /\ inFlight' = inFlight /\ published' = published
  BY DEF LeaderAnswered
<1>2. answer \in Answers /\ answer # NoAnswer /\ answer \in MaybeAnswer /\ answer.at = now
  BY Facts DEF Answers, NoAnswer, MaybeAnswer
<1>3. Moves(c, q, "publish", task[c][q].leader, answer)
  BY <1>2, MovesPcAnswer DEF LeaderAnswered, Pcs
<1> HIDE DEF answer
<1>4. cache' \in [Keys -> Entries] /\ EntriesExpire'
  <2>1. Key(c, q) \in Keys
    BY Facts
  <2>2. QED
    BY <1>1, <1>2, <2>1, StoreCacheEntries
<1>5. published[c][q] = NoAnswer
  BY <1>1 DEF ChannelsCarryAnswers
<1>6. TypeOK'
  <2>1. /\ inFlight' \in [Keys -> Callers \cup {NoCaller}]
        /\ published' \in [Callers -> [QTypes -> MaybeAnswer]]
    BY <1>1 DEF TypeOK
  <2>2. QED
    BY <1>1, <1>2, <1>3, <1>4, <2>1, MoveType
<1>7. SlotsHaveLeaders'
  BY <1>1, <1>3, MoveSlots DEF Leads
<1>8. LeaderAnswerIsNew' /\ ChannelsCarryAnswers' /\ WaitersInTime' /\ AnswersAreFresh'
  BY <1>1, <1>2, <1>3, <1>5, MoveNew, MoveChannels, MoveWaiters, MoveFresh
<1>9. BeganInPast'
  BY <1>1 DEF BeganInPast
<1>10. QED
  BY <1>4, <1>6, <1>7, <1>8, <1>9

\* A leader sends its answer to its waiters.
LEMMA PublishInv ==
    ASSUME Inv, NEW c \in Callers, NEW q \in QTypes, Publish(c, q)
    PROVE  Inv'
<1> DEFINE answer == task[c][q].answer
<1> USE DEF Inv
<1>1. /\ task[c][q].pc = "publish"
      /\ now' = now /\ request' = request /\ cache' = cache /\ inFlight' = inFlight
      /\ published' = [published EXCEPT ![c][q] = answer]
  BY DEF Publish
<1>2. answer \in MaybeAnswer /\ answer # NoAnswer /\ answer.at = now
  BY <1>1, Facts DEF TypeOK, LeaderAnswerIsNew
<1>3. Moves(c, q, "remove", task[c][q].leader, answer)
  BY MovesPc DEF Publish, Pcs
<1> HIDE DEF answer
<1>4. /\ published' \in [Callers -> [QTypes -> MaybeAnswer]]
      /\ published'[c][q] = answer
      /\ \A d \in Callers, r \in QTypes : d # c \/ r # q => published'[d][r] = published[d][r]
  BY <1>1, <1>2 DEF TypeOK
<1>5. ChannelsCarryAnswers'
  BY <1>3, <1>4 DEF ChannelsCarryAnswers, Moves
<1>6. TypeOK'
  <2>1. cache' \in [Keys -> Entries] /\ inFlight' \in [Keys -> Callers \cup {NoCaller}]
    BY <1>1 DEF TypeOK
  <2>2. QED
    BY <1>1, <1>2, <1>3, <1>4, <2>1, MoveType
<1>7. SlotsHaveLeaders'
  BY <1>1, <1>3, MoveSlots DEF Leads
<1>8. LeaderAnswerIsNew' /\ AnswersAreFresh'
  BY <1>1, <1>2, <1>3, MoveNew, MoveFresh
<1>9. BeganInPast' /\ EntriesExpire'
  BY <1>1 DEF BeganInPast, EntriesExpire, Ttl
<1>10. WaitersInTime'
  <2> SUFFICES ASSUME NEW d \in Callers, NEW r \in QTypes, task'[d][r].pc = "wait"
               PROVE  \/ published'[task'[d][r].leader][r] = NoAnswer
                      \/ published'[task'[d][r].leader][r].at >= request[d].began
    BY <1>1 DEF WaitersInTime
  <2>1. task'[d][r] = task[d][r]
    BY <1>3 DEF Moves
  <2>2. task[d][r].leader \in Callers
    BY <2>1, Facts DEF TypeOK
  <2>3. CASE task[d][r].leader = c /\ r = q
    <3>1. published'[task'[d][r].leader][r].at = now
      BY <1>2, <1>4, <2>1, <2>3
    <3>2. QED
      BY <3>1, Facts DEF BeganInPast
  <2>4. CASE task[d][r].leader # c \/ r # q
    BY <1>4, <2>1, <2>2, <2>4 DEF WaitersInTime
  <2>5. QED
    BY <2>3, <2>4
<1>11. QED
  BY <1>5, <1>6, <1>7, <1>8, <1>9, <1>10

\* A leader removes its slot.
LEMMA RemoveSlotInv ==
    ASSUME Inv, NEW c \in Callers, NEW q \in QTypes, RemoveSlot(c, q)
    PROVE  Inv'
<1> DEFINE answer == task[c][q].answer
<1> USE DEF Inv
<1>1. /\ task[c][q].pc = "remove"
      /\ now' = now /\ request' = request /\ cache' = cache /\ published' = published
      /\ inFlight' = [inFlight EXCEPT ![Key(c, q)] = NoCaller]
  BY DEF RemoveSlot
<1>2. answer # NoAnswer /\ answer.at = now
  BY <1>1 DEF TypeOK, LeaderAnswerIsNew
<1>3. Moves(c, q, "done", task[c][q].leader, answer)
  BY MovesPc DEF RemoveSlot, Pcs
<1> HIDE DEF answer
<1>4. /\ inFlight' \in [Keys -> Callers \cup {NoCaller}]
      /\ inFlight'[Key(c, q)] = NoCaller
      /\ \A k \in Keys : k # Key(c, q) => inFlight'[k] = inFlight[k]
  BY <1>1, Facts DEF TypeOK
<1>5. inFlight[Key(c, q)] = c
  BY <1>1 DEF SlotsHaveLeaders, Leads
<1>6. TypeOK'
  <2>1. cache' \in [Keys -> Entries] /\ published' \in [Callers -> [QTypes -> MaybeAnswer]]
    BY <1>1 DEF TypeOK
  <2>2. QED
    BY <1>1, <1>2, <1>3, <1>4, <2>1, MoveType
<1>7. SlotsHaveLeaders'
  <2>1. ASSUME NEW h \in Hosts, NEW r \in QTypes, inFlight'[<<h, r>>] # NoCaller
        PROVE  /\ request[inFlight'[<<h, r>>]].host = h
               /\ task'[inFlight'[<<h, r>>]][r].pc \in {"query", "publish", "remove"}
    <3>1. <<h, r>> \in Keys /\ inFlight'[<<h, r>>] \in Callers
      BY <1>4, <2>1 DEF Keys
    <3>2. inFlight'[<<h, r>>] = inFlight[<<h, r>>] /\ <<h, r>> # Key(c, q)
      BY <1>4, <2>1, <3>1
    <3>3. /\ request[inFlight[<<h, r>>]].host = h
          /\ task[inFlight[<<h, r>>]][r].pc \in {"query", "publish", "remove"}
      BY <2>1, <3>2 DEF SlotsHaveLeaders, Leads
    <3>4. inFlight[<<h, r>>] # c \/ r # q
      BY <3>2, <3>3 DEF Key
    <3>5. QED
      BY <1>3, <3>1, <3>2, <3>3, <3>4 DEF Moves
  <2>2. ASSUME NEW d \in Callers, NEW r \in QTypes,
               task'[d][r].pc \in {"query", "publish", "remove"}
        PROVE  inFlight'[Key(d, r)] = d
    <3>1. d # c \/ r # q
      BY <1>3, <2>2 DEF Moves
    <3>2. inFlight[Key(d, r)] = d
      BY <1>3, <2>2, <3>1 DEF Moves, SlotsHaveLeaders, Leads
    <3>3. Key(d, r) # Key(c, q)
      BY <1>5, <3>1, <3>2 DEF Key
    <3>4. QED
      BY <1>4, <3>2, <3>3, Facts
  <2>3. QED
    BY <1>1, <2>1, <2>2 DEF SlotsHaveLeaders, Key, Leads
<1>8. AnswersAreFresh'
  <2>1. answer.at >= request[c].began
    BY <1>2, Facts DEF BeganInPast
  <2>2. QED
    BY <1>1, <1>3, <2>1, MoveFresh
<1>9. ChannelsCarryAnswers'
  BY <1>1, <1>3, MoveChannels DEF answer
<1>10. LeaderAnswerIsNew' /\ WaitersInTime'
  BY <1>1, <1>3, MoveNew, MoveWaiters
<1>11. BeganInPast' /\ EntriesExpire'
  BY <1>1 DEF BeganInPast, EntriesExpire, Ttl
<1>12. QED
  BY <1>6, <1>7, <1>8, <1>9, <1>10, <1>11

\* The three ways a waiting task goes on touch nothing but the task.
LEMMA WaiterInv ==
    ASSUME Inv, NEW c \in Callers, NEW q \in QTypes,
           \/ WaiterAnswered(c, q)
           \/ WaiterClosed(c, q)
           \/ \E ok \in BOOLEAN : SelfAnswered(c, q, ok)
    PROVE  Inv'
<1> USE DEF Inv
<1>1. /\ task[c][q].pc \in {"wait", "selfquery"}
      /\ now' = now /\ request' = request /\ cache' = cache
      /\ inFlight' = inFlight /\ published' = published
  BY DEF WaiterAnswered, WaiterClosed, SelfAnswered
<1>2. task[c][q].leader \in Callers /\ task[c][q].answer = NoAnswer /\ published[c][q] = NoAnswer
  BY <1>1, Facts DEF TypeOK, ChannelsCarryAnswers
<1>3. \E p \in {"done", "selfquery"}, a \in MaybeAnswer :
         /\ Moves(c, q, p, task[c][q].leader, a)
         /\ p = "done" <=> a # NoAnswer
         /\ p = "done" => a.at >= request[c].began
  <2>1. CASE WaiterAnswered(c, q)
    <3> DEFINE a == published[task[c][q].leader][q]
    <3>1. a # NoAnswer /\ a \in MaybeAnswer /\ a.at >= request[c].began
      <4>1. a \in MaybeAnswer
        BY <1>2, Facts
      <4>2. a # NoAnswer /\ task[c][q].pc = "wait"
        BY <2>1 DEF WaiterAnswered
      <4>3. QED
        BY <4>1, <4>2 DEF WaitersInTime
    <3>2. Moves(c, q, "done", task[c][q].leader, a)
      BY <2>1, <3>1, MovesPcAnswer DEF WaiterAnswered, Pcs
    <3>3. QED
      BY <3>1, <3>2
  <2>2. CASE WaiterClosed(c, q)
    <3>1. Moves(c, q, "selfquery", task[c][q].leader, task[c][q].answer)
      BY <2>2, MovesPc DEF WaiterClosed, Pcs, AwaitPcs
    <3>2. QED
      BY <1>2, <3>1, Facts
  <2>3. ASSUME NEW ok \in BOOLEAN, SelfAnswered(c, q, ok)
        PROVE  \E p \in {"done", "selfquery"}, a \in MaybeAnswer :
                  /\ Moves(c, q, p, task[c][q].leader, a)
                  /\ p = "done" <=> a # NoAnswer
                  /\ p = "done" => a.at >= request[c].began
    <3> DEFINE b == [ok |-> ok, at |-> now]
    <3>1. b # NoAnswer /\ b \in MaybeAnswer /\ b.at >= request[c].began
      BY Facts DEF BeganInPast, NoAnswer, MaybeAnswer, Answers
    <3>2. Moves(c, q, "done", task[c][q].leader, b)
      BY <2>3, <3>1, MovesPcAnswer DEF SelfAnswered, Pcs
    <3> HIDE DEF b
    <3>3. QED
      BY <3>1, <3>2
  <2>4. QED
    BY <2>1, <2>2, <2>3
<1>4. PICK p \in {"done", "selfquery"}, a \in MaybeAnswer :
         /\ Moves(c, q, p, task[c][q].leader, a)
         /\ p = "done" <=> a # NoAnswer
         /\ p = "done" => a.at >= request[c].began
  BY <1>3
<1>5. TypeOK'
  <2>1. /\ cache' \in [Keys -> Entries] /\ inFlight' \in [Keys -> Callers \cup {NoCaller}]
        /\ published' \in [Callers -> [QTypes -> MaybeAnswer]]
    BY <1>1 DEF TypeOK
  <2>2. p \in {"publish", "remove", "done"} <=> a # NoAnswer
    BY <1>4
  <2>3. QED
    BY <1>1, <1>2, <1>4, <2>1, <2>2, MoveType
<1>6. SlotsHaveLeaders'
  BY <1>1, <1>4, MoveSlots DEF Leads
<1>7. LeaderAnswerIsNew' /\ ChannelsCarryAnswers' /\ WaitersInTime' /\ AnswersAreFresh'
  BY <1>1, <1>2, <1>4, MoveNew, MoveChannels, MoveWaiters, MoveFresh
<1>8. BeganInPast' /\ EntriesExpire'
  BY <1>1 DEF BeganInPast, EntriesExpire, Ttl
<1>9. QED
  BY <1>5, <1>6, <1>7, <1>8

\* A caller begins.
LEMMA BeginInv ==
    ASSUME Inv, NEW c \in Callers, Begin(c)
    PROVE  Inv'
<1> USE DEF Inv
<1>1. /\ now' = now /\ task' = task /\ cache' = cache
      /\ inFlight' = inFlight /\ published' = published
      /\ \A q \in QTypes : task[c][q].pc = "lookup"
  BY DEF Begin
<1>2. now \in Nat /\ request \in [Callers -> [host : Hosts, began : Nat, on : BOOLEAN]]
  BY DEF TypeOK
<1>3. /\ request' \in [Callers -> [host : Hosts, began : Nat, on : BOOLEAN]]
      /\ \A d \in Callers : request'[d].host = request[d].host
      /\ \A d \in Callers : d # c => request'[d] = request[d]
      /\ request'[c].began = now
  <2> DEFINE r == [request[c] EXCEPT !.on = TRUE, !.began = now]
  <2>1. /\ r \in [host : Hosts, began : Nat, on : BOOLEAN]
        /\ r.host = request[c].host /\ r.began = now
    BY <1>2
  <2>2. request' = [request EXCEPT ![c] = r]
    BY <1>2 DEF Begin
  <2> HIDE DEF r
  <2>3. QED
    BY <1>2, <2>1, <2>2
<1>4. TypeOK'
  BY <1>1, <1>2, <1>3 DEF TypeOK
<1>5. SlotsHaveLeaders'
  <2>1. \A h \in Hosts, q \in QTypes : inFlight[<<h, q>>] \in Callers \cup {NoCaller}
    BY DEF TypeOK, Keys
  <2>2. QED
    BY <1>1, <1>3, <2>1 DEF SlotsHaveLeaders, Leads, Key
<1>6. LeaderAnswerIsNew' /\ EntriesExpire' /\ ChannelsCarryAnswers'
  BY <1>1 DEF LeaderAnswerIsNew, EntriesExpire, ChannelsCarryAnswers, Ttl
<1>7. BeganInPast'
  BY <1>1, <1>2, <1>3 DEF BeganInPast
<1>8. WaitersInTime' /\ AnswersAreFresh'
  BY <1>1, <1>3 DEF WaitersInTime, AnswersAreFresh, Ttl
<1>9. QED
  BY <1>4, <1>5, <1>6, <1>7, <1>8

\* A caller is dropped; the guard of a leader removes its slot.
LEMMA DropInv ==
    ASSUME Inv, NEW c \in Callers, Drop(c)
    PROVE  Inv'
<1> USE DEF Inv
<1>1. /\ now' = now /\ request' = request /\ cache' = cache /\ published' = published
      /\ inFlight' = [k \in Keys |-> IF inFlight[k] = c THEN NoCaller ELSE inFlight[k]]
      /\ \A q \in QTypes : task[c][q].pc \in AwaitPcs \cup {"done"}
  BY DEF Drop
<1>2. task \in [Callers -> [QTypes -> Tasks]]
  BY DEF TypeOK
<1>3. /\ task' \in [Callers -> [QTypes -> Tasks]]
      /\ \A d \in Callers, q \in QTypes : d # c => task'[d][q] = task[d][q]
      /\ \A q \in QTypes :
            \/ task[c][q].pc = "done" /\ task'[c][q] = task[c][q]
            \/ /\ task[c][q].pc \in AwaitPcs /\ task'[c][q].pc = "dropped"
               /\ task'[c][q].answer = task[c][q].answer
  <2> DEFINE f == [q \in QTypes |->
                      IF task[c][q].pc \in AwaitPcs
                      THEN [task[c][q] EXCEPT !.pc = "dropped"] ELSE task[c][q]]
  <2>1. task' = [task EXCEPT ![c] = f]
    BY DEF Drop
  <2>2. ASSUME NEW q \in QTypes
        PROVE  /\ [task[c][q] EXCEPT !.pc = "dropped"] \in Tasks
               /\ [task[c][q] EXCEPT !.pc = "dropped"].pc = "dropped"
               /\ [task[c][q] EXCEPT !.pc = "dropped"].answer = task[c][q].answer
    <3>1. task[c][q] \in Tasks /\ "dropped" \in Pcs
      BY <1>2 DEF Pcs
    <3>2. QED
      BY <3>1 DEF Tasks
  <2>3. f \in [QTypes -> Tasks]
    BY <1>2, <2>2
  <2>4. \A q \in QTypes :
            \/ task[c][q].pc = "done" /\ f[q] = task[c][q]
            \/ /\ task[c][q].pc \in AwaitPcs /\ f[q].pc = "dropped"
               /\ f[q].answer = task[c][q].answer
    BY <1>1, <2>2 DEF AwaitPcs
  <2> HIDE DEF f
  <2>5. QED
    BY <1>2, <2>1, <2>3, <2>4
<1>4. /\ inFlight' \in [Keys -> Callers \cup {NoCaller}]
      /\ \A k \in Keys : inFlight[k] = c => inFlight'[k] = NoCaller
      /\ \A k \in Keys : inFlight[k] # c => inFlight'[k] = inFlight[k]
  BY <1>1 DEF TypeOK
<1>5. TypeOK'
  <2>1. ASSUME NEW d \in Callers, NEW q \in QTypes
        PROVE  /\ task'[d][q].pc \in {"wait", "selfquery"} => task'[d][q].leader # NoCaller
               /\ task'[d][q].pc \in {"publish", "remove", "done"}
                      <=> task'[d][q].answer # NoAnswer
    <3>1. CASE task'[d][q] = task[d][q]
      BY <3>1 DEF TypeOK
    <3>2. CASE task'[d][q] # task[d][q]
      <4>1. /\ d = c /\ task[c][q].pc \in AwaitPcs /\ task'[c][q].pc = "dropped"
            /\ task'[c][q].answer = task[c][q].answer
        BY <1>3, <3>2
      <4>2. task[c][q].answer = NoAnswer
        BY <4>1 DEF TypeOK, AwaitPcs
      <4>3. QED
        BY <4>1, <4>2
    <3>3. QED
      BY <3>1, <3>2
  <2>2. QED
    BY <1>1, <1>3, <1>4, <2>1 DEF TypeOK
<1>6. SlotsHaveLeaders'
  <2>1. ASSUME NEW h \in Hosts, NEW r \in QTypes, inFlight'[<<h, r>>] # NoCaller
        PROVE  /\ request[inFlight'[<<h, r>>]].host = h
               /\ task'[inFlight'[<<h, r>>]][r].pc \in {"query", "publish", "remove"}
    <3>1. <<h, r>> \in Keys /\ inFlight'[<<h, r>>] \in Callers
      BY <1>4, <2>1 DEF Keys
    <3>2. inFlight'[<<h, r>>] = inFlight[<<h, r>>] /\ inFlight[<<h, r>>] # c
      BY <1>4, <2>1, <3>1
    <3>3. /\ request[inFlight[<<h, r>>]].host = h
          /\ task[inFlight[<<h, r>>]][r].pc \in {"query", "publish", "remove"}
      BY <2>1, <3>2 DEF SlotsHaveLeaders, Leads
    <3>4. QED
      BY <1>3, <3>1, <3>2, <3>3
  <2>2. ASSUME NEW d \in Callers, NEW r \in QTypes,
               task'[d][r].pc \in {"query", "publish", "remove"}
        PROVE  inFlight'[Key(d, r)] = d
    <3>1. d # c
      BY <1>3, <2>2
    <3>2. inFlight[Key(d, r)] = d
      BY <1>3, <2>2, <3>1 DEF SlotsHaveLeaders, Leads
    <3>3. QED
      BY <1>4, <3>1, <3>2, Facts
  <2>3. QED
    BY <1>1, <2>1, <2>2 DEF SlotsHaveLeaders, Key, Leads
<1>7. LeaderAnswerIsNew' /\ AnswersAreFresh'
  BY <1>1, <1>3 DEF LeaderAnswerIsNew, AnswersAreFresh, Ttl
<1>11. ChannelsCarryAnswers'
  <2>1. \A q \in QTypes : task[c][q].pc \in AwaitPcs => published[c][q] = NoAnswer
    BY DEF ChannelsCarryAnswers, AwaitPcs
  <2>2. QED
    BY <1>1, <1>3, <2>1 DEF ChannelsCarryAnswers
<1>8. WaitersInTime'
  BY <1>1, <1>3 DEF WaitersInTime
<1>9. BeganInPast' /\ EntriesExpire'
  BY <1>1 DEF BeganInPast, EntriesExpire, Ttl
<1>10. QED
  BY <1>5, <1>6, <1>7, <1>8, <1>9, <1>11

\* Time passes.
LEMMA TickInv == Inv /\ Tick => Inv'
<1> SUFFICES ASSUME Inv, Tick PROVE Inv'
  OBVIOUS
<1> USE DEF Inv
<1>1. /\ now \in Nat /\ now' = now + 1
      /\ request' = request /\ task' = task /\ cache' = cache
      /\ inFlight' = inFlight /\ published' = published
      /\ \A c \in Callers, q \in QTypes : task[c][q].pc \notin {"publish", "remove"}
  BY DEF Tick, TypeOK
<1>2. TypeOK' /\ SlotsHaveLeaders' /\ LeaderAnswerIsNew' /\ EntriesExpire'
      /\ ChannelsCarryAnswers' /\ WaitersInTime' /\ AnswersAreFresh'
  BY <1>1 DEF TypeOK, SlotsHaveLeaders, Leads, Key, LeaderAnswerIsNew, EntriesExpire,
     ChannelsCarryAnswers, WaitersInTime, AnswersAreFresh, Ttl
<1>3. BeganInPast'
  <2>1. \A c \in Callers : request[c].began \in Nat
    BY DEF TypeOK
  <2>2. QED
    BY <1>1, <2>1 DEF BeganInPast
<1>4. QED
  BY <1>2, <1>3

\* Every step keeps the invariant.
LEMMA NextInv == Inv /\ [Next]_vars => Inv'
<1> SUFFICES ASSUME Inv, [Next]_vars PROVE Inv'
  OBVIOUS
<1>1. CASE Tick
  BY <1>1, TickInv
<1>2. ASSUME NEW c \in Callers, Begin(c) \/ Drop(c)
      PROVE  Inv'
  BY <1>2, BeginInv, DropInv
<1>3. ASSUME NEW c \in Callers, NEW q \in QTypes, Step(c, q)
      PROVE  Inv'
  BY <1>3, LookupHitInv, LookupMissInv, BecomeLeaderInv, BecomeWaiterInv,
     LeaderAnsweredInv, PublishInv, RemoveSlotInv, WaiterInv DEF Step
<1>4. CASE UNCHANGED vars
  BY <1>4 DEF vars, Inv, TypeOK, SlotsHaveLeaders, Leads, Key, LeaderAnswerIsNew, BeganInPast,
     EntriesExpire, ChannelsCarryAnswers, WaitersInTime, AnswersAreFresh, Ttl
<1>5. QED
  BY <1>1, <1>2, <1>3, <1>4 DEF Next

\* The invariant holds of every reachable state.
LEMMA Invariance == Spec => []Inv
BY InitInv, NextInv, PTL DEF Spec

-----------------------------------------------------------------------------
\* Every state of the resolver is well-formed: a waiter has a leader, and a
\* task has an answer exactly when its query is over.
THEOREM TypeCorrect == Spec => []TypeOK
<1>1. Inv => TypeOK
  BY DEF Inv
<1>2. QED
  BY <1>1, Invariance, PTL

\* in_flight holds a slot exactly while a task leads on its key, and it is that
\* task's (query_record_dedup and its InFlightGuard).
THEOREM SlotsHaveTheirLeaders == Spec => []SlotsHaveLeaders
<1>1. Inv => SlotsHaveLeaders
  BY DEF Inv
<1>2. QED
  BY <1>1, Invariance, PTL

\* No answer is older than its time to live was when its caller began: from
\* the cache (lookup_cache), from a leader's channel or from an own query.
THEOREM AnswersStayFresh == Spec => []AnswersAreFresh
<1>1. Inv => AnswersAreFresh
  BY DEF Inv
<1>2. QED
  BY <1>1, Invariance, PTL

-----------------------------------------------------------------------------
(* The size of the cache.                                                  *)

CacheInv == IsFiniteSet(Cached) /\ CacheIsBounded

\* store_cache at the limit evicts before it inserts.
LEMMA StoreCacheBounded ==
    ASSUME TypeOK, CacheInv, NEW k \in Keys, NEW answer \in Answers, StoreCache(k, answer)
    PROVE  CacheInv'
<1> DEFINE n == Cardinality(Cached)
           entry == [answer |-> answer, expires |-> now + Ttl(answer)]
<1>1. IsFiniteSet(Cached) /\ n \in Nat /\ n <= MaxCacheEntries
  BY FS_CardinalityType DEF CacheInv, CacheIsBounded
<1>2. PICK victims \in SUBSET Cached :
         /\ IF n >= MaxCacheEntries /\ k \notin Cached
            THEN Cardinality(victims) = 1 ELSE victims = {}
         /\ cache' = [x \in Keys |-> IF x = k THEN entry
                                     ELSE IF x \in victims THEN NoEntry ELSE cache[x]]
  BY DEF StoreCache
<1>3. entry # NoEntry
  <2>1. answer # NoAnswer
    BY DEF Answers, NoAnswer
  <2>2. entry.answer # NoEntry.answer
    BY <2>1 DEF NoEntry
  <2>3. QED
    BY <2>2
<1> HIDE DEF entry
<1>4. Cached' = (Cached \ victims) \cup {k}
  BY <1>2, <1>3 DEF Cached
<1>5. CASE k \in Cached
  <2>1. Cached' = Cached
    BY <1>2, <1>4, <1>5
  <2>2. QED
    BY <1>1, <2>1 DEF CacheInv, CacheIsBounded
<1>6. CASE k \notin Cached /\ n < MaxCacheEntries
  <2>1. Cached' = Cached \cup {k}
    BY <1>1, <1>2, <1>4, <1>6
  <2>2. IsFiniteSet(Cached \cup {k}) /\ Cardinality(Cached \cup {k}) = n + 1
    BY <1>1, <1>6, FS_AddElement
  <2>3. QED
    BY <1>1, <1>6, <2>1, <2>2 DEF CacheInv, CacheIsBounded
<1>7. CASE k \notin Cached /\ n >= MaxCacheEntries
  <2>1. Cardinality(victims) = 1
    BY <1>2, <1>7
  <2>2. PICK v : victims = {v}
    BY <1>1, <2>1, FS_Singleton, FS_Subset
  <2>3. v \in Cached
    BY <2>2
  <2>4. IsFiniteSet(Cached \ {v}) /\ Cardinality(Cached \ {v}) = n - 1
    BY <1>1, <2>3, FS_RemoveElement
  <2>5. k \notin Cached \ {v}
    BY <1>7
  <2>6. /\ IsFiniteSet((Cached \ {v}) \cup {k})
        /\ Cardinality((Cached \ {v}) \cup {k}) = (n - 1) + 1
    BY <2>4, <2>5, FS_AddElement
  <2>7. QED
    BY <1>1, <1>4, <2>2, <2>6 DEF CacheInv, CacheIsBounded
<1>8. QED
  BY <1>1, <1>5, <1>6, <1>7

\* Every step keeps the cache within its limit.
LEMMA CacheStep == TypeOK /\ CacheInv /\ [Next]_vars => CacheInv'
<1> SUFFICES ASSUME TypeOK, CacheInv, [Next]_vars PROVE CacheInv'
  OBVIOUS
<1>1. CASE cache' = cache
  BY <1>1 DEF CacheInv, CacheIsBounded, Cached
<1>2. ASSUME NEW c \in Callers, NEW q \in QTypes, LookupMiss(c, q)
      PROVE  CacheInv'
  <2>1. /\ Key(c, q) \in Keys /\ cache \in [Keys -> Entries]
        /\ cache' = [cache EXCEPT ![Key(c, q)] = NoEntry]
    BY <1>2, Facts DEF LookupMiss, TypeOK
  <2>2. Cached' = Cached \ {Key(c, q)}
    BY <2>1 DEF Cached
  <2>3. IsFiniteSet(Cached) /\ Cardinality(Cached) \in Nat
    BY FS_CardinalityType DEF CacheInv
  <2>4. /\ IsFiniteSet(Cached \ {Key(c, q)})
        /\ Cardinality(Cached \ {Key(c, q)}) <= Cardinality(Cached)
    BY <2>3, FS_Subset
  <2>5. Cardinality(Cached \ {Key(c, q)}) \in Nat
    BY <2>4, FS_CardinalityType
  <2>6. QED
    BY <2>2, <2>3, <2>4, <2>5 DEF CacheInv, CacheIsBounded
<1>3. ASSUME NEW c \in Callers, NEW q \in QTypes, NEW ok \in BOOLEAN, LeaderAnswered(c, q, ok)
      PROVE  CacheInv'
  <2>1. Key(c, q) \in Keys /\ [ok |-> ok, at |-> now] \in Answers
    BY Facts DEF Answers
  <2>2. QED
    BY <1>3, <2>1, StoreCacheBounded DEF LeaderAnswered
<1>4. ASSUME NEW c \in Callers, NEW q \in QTypes, Step(c, q), ~ LookupMiss(c, q),
             \A ok \in BOOLEAN : ~ LeaderAnswered(c, q, ok)
      PROVE  cache' = cache
  BY <1>4 DEF Step, LookupHit, BecomeLeader, BecomeWaiter, SelfAnswered, Publish, RemoveSlot,
     WaiterAnswered, WaiterClosed
<1>5. ASSUME NEW c \in Callers, Begin(c) \/ Drop(c)
      PROVE  cache' = cache
  BY <1>5 DEF Begin, Drop
<1>6. Tick \/ UNCHANGED vars => cache' = cache
  BY DEF Tick, vars
<1>7. QED
  BY <1>1, <1>2, <1>3, <1>4, <1>5, <1>6 DEF Next

\* The cache never outgrows max_cache_entries, whatever the order in which the
\* leaders store their answers and entries expire (store_cache, lookup_cache).
THEOREM CacheStaysBounded == Spec => []CacheIsBounded
<1>1. Init => CacheInv
  <2> SUFFICES ASSUME Init PROVE CacheInv
    OBVIOUS
  <2>1. Cached = {}
    BY DEF Init, Cached
  <2>2. QED
    BY <2>1, FS_EmptySet DEF CacheInv, CacheIsBounded
<1>2. CacheInv => CacheIsBounded
  BY DEF CacheInv
<1>3. QED
  BY <1>1, <1>2, CacheStep, TypeCorrect, PTL DEF Spec

-----------------------------------------------------------------------------
(* The waiters.                                                            *)

\* The channel of l is going to end the wait of who reads it: its owner queries or
\* is about to publish, it carries an answer, or its owner was dropped, which closes
\* it.
Settled(l, q) ==
    \/ task[l][q].pc \in {"query", "publish", "dropped"}
    \/ published[l][q] # NoAnswer

\* A waiter waits for the channel of another caller, of the same host, that will
\* end its wait (query_record_dedup).
WaitersServed ==
    \A c \in Callers, q \in QTypes : task[c][q].pc = "wait" =>
        /\ task[c][q].leader \in Callers \ {c}
        /\ request[task[c][q].leader].host = request[c].host
        /\ Settled(task[c][q].leader, q)

\* Waits do not form chains.
LeadersDoNotWait ==
    \A c \in Callers, q \in QTypes :
        task[c][q].pc = "wait" => task[task[c][q].leader][q].pc # "wait"

\* The slot is removed after the answer was published.
RemovedIsPublished ==
    \A c \in Callers, q \in QTypes : task[c][q].pc = "remove" => published[c][q] # NoAnswer

ServedInv == WaitersServed /\ RemovedIsPublished

\* A move of one task that takes back nothing from its waiters.
LEMMA MoveServed ==
    ASSUME ServedInv, NEW c \in Callers, NEW q \in QTypes, NEW p, NEW l, NEW a,
           Moves(c, q, p, l, a), request' = request,
           \A d \in Callers, r \in QTypes : d # c \/ r # q => published'[d][r] = published[d][r],
           Settled(c, q) => p \in {"query", "publish", "dropped"} \/ published'[c][q] # NoAnswer,
           p = "remove" => published'[c][q] # NoAnswer,
           p = "wait" => /\ l \in Callers \ {c} /\ request[l].host = request[c].host
                         /\ Settled(l, q)
    PROVE  ServedInv'
<1>1. ASSUME NEW d \in Callers, NEW r \in QTypes, Settled(d, r)
      PROVE  Settled(d, r)'
  <2>1. CASE d = c /\ r = q
    BY <1>1, <2>1 DEF Settled, Moves
  <2>2. CASE d # c \/ r # q
    BY <1>1, <2>2 DEF Settled, Moves
  <2> QED BY <2>1, <2>2
<1>2. ASSUME NEW d \in Callers, NEW r \in QTypes, task'[d][r].pc = "wait"
      PROVE  /\ task'[d][r].leader \in Callers \ {d}
             /\ request'[task'[d][r].leader].host = request'[d].host
             /\ task'[task'[d][r].leader][r].pc \in {"query", "publish", "dropped"}
                   \/ published'[task'[d][r].leader][r] # NoAnswer
  <2>1. CASE d = c /\ r = q
    <3>1. p = "wait" /\ task'[d][r].leader = l
      BY <1>2, <2>1 DEF Moves
    <3>2. Settled(l, q)'
      BY <1>1, <3>1
    <3> QED BY <2>1, <3>1, <3>2 DEF Settled
  <2>2. CASE d # c \/ r # q
    <3>1. task'[d][r] = task[d][r]
      BY <2>2 DEF Moves
    <3> DEFINE k == task[d][r].leader
    <3>2. k \in Callers \ {d} /\ request[k].host = request[d].host /\ Settled(k, r)
      BY <1>2, <3>1 DEF ServedInv, WaitersServed
    <3> HIDE DEF k
    <3>3. task'[k][r].pc \in {"query", "publish", "dropped"} \/ published'[k][r] # NoAnswer
      BY <1>1, <3>2 DEF Settled
    <3> QED BY <3>1, <3>2, <3>3 DEF k
  <2> QED BY <2>1, <2>2
<1>3. WaitersServed'
  BY <1>2 DEF WaitersServed, Settled
<1>4. RemovedIsPublished'
  <2> SUFFICES ASSUME NEW d \in Callers, NEW r \in QTypes, task'[d][r].pc = "remove"
               PROVE  published'[d][r] # NoAnswer
    BY DEF RemovedIsPublished
  <2>1. CASE d = c /\ r = q
    BY <2>1 DEF Moves
  <2>2. CASE d # c \/ r # q
    BY <2>2 DEF Moves, ServedInv, RemovedIsPublished
  <2> QED BY <2>1, <2>2
<1> QED BY <1>3, <1>4 DEF ServedInv

\* A step of a task keeps every waiter served.
LEMMA StepServed ==
    ASSUME Inv, ServedInv, NEW c \in Callers, NEW q \in QTypes, Step(c, q)
    PROVE  ServedInv'
<1>0. TypeOK /\ SlotsHaveLeaders /\ ChannelsCarryAnswers
  BY DEF Inv
<1>1. CASE LookupHit(c, q)
  <2>1. /\ task[c][q].pc = "lookup" /\ request' = request /\ published' = published
        /\ cache[Key(c, q)] \in Entries /\ cache[Key(c, q)] # NoEntry
    BY <1>0, <1>1, Facts DEF LookupHit, Valid
  <2>2. cache[Key(c, q)].answer \in MaybeAnswer
    BY <2>1 DEF Entries, MaybeAnswer
  <2>3. Moves(c, q, "done", task[c][q].leader, cache[Key(c, q)].answer)
    BY <1>0, <1>1, <2>2, MovesPcAnswer DEF LookupHit, Pcs
  <2> QED BY <2>1, <2>3, MoveServed DEF Settled
<1>2. CASE LookupMiss(c, q)
  <2>1. task[c][q].pc = "lookup" /\ request' = request /\ published' = published
    BY <1>2 DEF LookupMiss
  <2>2. Moves(c, q, "dedup", task[c][q].leader, task[c][q].answer)
    BY <1>0, <1>2, MovesPc DEF LookupMiss, Pcs
  <2> QED BY <1>0, <2>1, <2>2, MoveServed DEF Settled, ChannelsCarryAnswers
<1>3. CASE BecomeLeader(c, q)
  <2>1. request' = request /\ published' = published
    BY <1>3 DEF BecomeLeader
  <2>2. Moves(c, q, "query", c, task[c][q].answer)
    BY <1>0, <1>3, MovesPcLeader DEF BecomeLeader, Pcs, AwaitPcs
  <2> QED BY <2>1, <2>2, MoveServed
<1>4. CASE BecomeWaiter(c, q)
  <2> DEFINE l == inFlight[Key(c, q)]
  <2>1. /\ task[c][q].pc = "dedup" /\ request' = request /\ published' = published
        /\ l # NoCaller
    BY <1>4 DEF BecomeWaiter, AtDedup
  <2>2. l \in Callers
    BY <1>0, <2>1, Facts
  <2>3. request[l].host = request[c].host /\ Leads(l, q)
    BY <1>0, <2>1, Facts DEF SlotsHaveLeaders, Key
  <2>4. Settled(l, q)
    BY <2>2, <2>3 DEF Leads, Settled, ServedInv, RemovedIsPublished
  <2>5. l # c
    BY <2>1, <2>3 DEF Leads
  <2>6. Moves(c, q, "wait", l, task[c][q].answer)
    BY <1>0, <1>4, <2>2, MovesPcLeader DEF BecomeWaiter, Pcs, AwaitPcs
  <2>7. ~ Settled(c, q)
    BY <1>0, <2>1 DEF Settled, ChannelsCarryAnswers
  <2> HIDE DEF l
  <2> QED BY <2>1, <2>2, <2>3, <2>4, <2>5, <2>6, <2>7, MoveServed
<1>5. ASSUME NEW ok \in BOOLEAN, LeaderAnswered(c, q, ok)
      PROVE  ServedInv'
  <2>1. request' = request /\ published' = published
        /\ [ok |-> ok, at |-> now] \in MaybeAnswer
    BY <1>0, <1>5, Facts DEF LeaderAnswered, MaybeAnswer, Answers
  <2>2. Moves(c, q, "publish", task[c][q].leader, [ok |-> ok, at |-> now])
    BY <1>0, <1>5, <2>1, MovesPcAnswer DEF LeaderAnswered, Pcs
  <2> QED BY <2>1, <2>2, MoveServed
<1>6. ASSUME NEW ok \in BOOLEAN, SelfAnswered(c, q, ok)
      PROVE  ServedInv'
  <2>1. /\ request' = request /\ published' = published /\ task[c][q].pc = "selfquery"
        /\ [ok |-> ok, at |-> now] \in MaybeAnswer
    BY <1>0, <1>6, Facts DEF SelfAnswered, MaybeAnswer, Answers
  <2>2. Moves(c, q, "done", task[c][q].leader, [ok |-> ok, at |-> now])
    BY <1>0, <1>6, <2>1, MovesPcAnswer DEF SelfAnswered, Pcs
  <2> QED BY <2>1, <2>2, MoveServed DEF Settled
<1>7. CASE Publish(c, q)
  <2>1. /\ request' = request /\ task[c][q].pc = "publish"
        /\ published' = [published EXCEPT ![c][q] = task[c][q].answer]
    BY <1>7 DEF Publish
  <2>2. task[c][q].answer # NoAnswer
    BY <1>0, <2>1 DEF TypeOK
  <2>3. /\ published'[c][q] = task[c][q].answer
        /\ \A d \in Callers, r \in QTypes :
              d # c \/ r # q => published'[d][r] = published[d][r]
    BY <1>0, <2>1 DEF TypeOK
  <2>4. Moves(c, q, "remove", task[c][q].leader, task[c][q].answer)
    BY <1>0, <1>7, MovesPc DEF Publish, Pcs
  <2> QED BY <2>1, <2>2, <2>3, <2>4, MoveServed
<1>8. CASE RemoveSlot(c, q)
  <2>1. request' = request /\ published' = published /\ task[c][q].pc = "remove"
    BY <1>8 DEF RemoveSlot
  <2>2. Moves(c, q, "done", task[c][q].leader, task[c][q].answer)
    BY <1>0, <1>8, MovesPc DEF RemoveSlot, Pcs
  <2> QED BY <2>1, <2>2, MoveServed DEF Settled
<1>9. CASE WaiterAnswered(c, q)
  <2>1. /\ request' = request /\ published' = published /\ task[c][q].pc = "wait"
        /\ task[c][q].leader \in Callers
    BY <1>9 DEF WaiterAnswered, ServedInv, WaitersServed
  <2>2. published[task[c][q].leader][q] \in MaybeAnswer
    BY <1>0, <2>1, Facts
  <2>3. Moves(c, q, "done", task[c][q].leader, published[task[c][q].leader][q])
    BY <1>0, <1>9, <2>2, MovesPcAnswer DEF WaiterAnswered, Pcs
  <2> QED BY <2>1, <2>3, MoveServed DEF Settled
<1>10. CASE WaiterClosed(c, q)
  <2>1. request' = request /\ published' = published /\ task[c][q].pc = "wait"
    BY <1>10 DEF WaiterClosed
  <2>2. Moves(c, q, "selfquery", task[c][q].leader, task[c][q].answer)
    BY <1>0, <1>10, MovesPc DEF WaiterClosed, Pcs, AwaitPcs
  <2> QED BY <1>0, <2>1, <2>2, MoveServed DEF Settled, ChannelsCarryAnswers
<1> QED
  BY <1>1, <1>2, <1>3, <1>4, <1>5, <1>6, <1>7, <1>8, <1>9, <1>10 DEF Step

\* The drop of a caller closes its channels and ends its waits.
LEMMA DropServed ==
    ASSUME Inv, ServedInv, NEW c \in Callers, Drop(c)
    PROVE  ServedInv'
<1>0. task \in [Callers -> [QTypes -> Tasks]] /\ ChannelsCarryAnswers
  BY DEF Inv, TypeOK
<1>1. request' = request /\ published' = published
  BY DEF Drop
<1>2. ASSUME NEW d \in Callers, NEW q \in QTypes
      PROVE  \/ task'[d][q] = task[d][q]
             \/ task[d][q].pc \in AwaitPcs /\ task'[d][q].pc = "dropped"
  <2> DEFINE f == [r \in QTypes |->
                      IF task[c][r].pc \in AwaitPcs
                      THEN [task[c][r] EXCEPT !.pc = "dropped"] ELSE task[c][r]]
  <2>1. task' = [task EXCEPT ![c] = f]
    BY DEF Drop
  <2>2. [task[c][q] EXCEPT !.pc = "dropped"].pc = "dropped"
    BY <1>0 DEF Tasks
  <2>3. \/ f[q] = task[c][q]
        \/ task[c][q].pc \in AwaitPcs /\ f[q].pc = "dropped"
    BY <2>2
  <2> HIDE DEF f
  <2> QED BY <1>0, <2>1, <2>3
<1>3. ASSUME NEW d \in Callers, NEW q \in QTypes, Settled(d, q)
      PROVE  Settled(d, q)'
  BY <1>1, <1>2, <1>3 DEF Settled
<1>4. ASSUME NEW d \in Callers, NEW q \in QTypes, task'[d][q].pc = "wait"
      PROVE  /\ task'[d][q].leader \in Callers \ {d}
             /\ request'[task'[d][q].leader].host = request'[d].host
             /\ task'[task'[d][q].leader][q].pc \in {"query", "publish", "dropped"}
                   \/ published'[task'[d][q].leader][q] # NoAnswer
  <2> DEFINE k == task[d][q].leader
  <2>1. task'[d][q] = task[d][q]
    BY <1>2, <1>4
  <2>2. k \in Callers \ {d} /\ request[k].host = request[d].host /\ Settled(k, q)
    BY <1>4, <2>1 DEF ServedInv, WaitersServed
  <2> HIDE DEF k
  <2>3. task'[k][q].pc \in {"query", "publish", "dropped"} \/ published'[k][q] # NoAnswer
    BY <1>3, <2>2 DEF Settled
  <2> QED BY <1>1, <2>1, <2>2, <2>3 DEF k
<1>5. WaitersServed'
  BY <1>4 DEF WaitersServed, Settled
<1>6. RemovedIsPublished'
  BY <1>1, <1>2 DEF ServedInv, RemovedIsPublished
<1> QED BY <1>5, <1>6 DEF ServedInv

\* No waiter is forgotten: at every moment it waits for a channel on which an
\* answer is there or will be sent, or which is closed, so that it can go on, and
\* never for a task that waits itself; also when leaders are dropped in mid-query
\* and the slot of their key has a new leader (query_record_dedup, InFlightGuard).
THEOREM NoWaiterIsForgotten == Spec => [](WaitersServed /\ LeadersDoNotWait)
<1>1. Init => ServedInv
  BY DEF Init, ServedInv, WaitersServed, RemovedIsPublished
<1>2. Inv /\ ServedInv /\ [Next]_vars => ServedInv'
  <2> SUFFICES ASSUME Inv, ServedInv, [Next]_vars PROVE ServedInv'
    OBVIOUS
  <2>1. CASE Tick \/ UNCHANGED vars
    BY <2>1 DEF Tick, vars, ServedInv, WaitersServed, RemovedIsPublished, Settled
  <2>2. ASSUME NEW c \in Callers, Begin(c) PROVE ServedInv'
    <3>1. /\ task' = task /\ published' = published
          /\ \A d \in Callers : request'[d].host = request[d].host
      BY <2>2 DEF Begin, Inv, TypeOK
    <3> QED BY <3>1 DEF ServedInv, WaitersServed, RemovedIsPublished, Settled
  <2> QED BY <2>1, <2>2, StepServed, DropServed DEF Next
<1>3. Inv /\ ServedInv => WaitersServed /\ LeadersDoNotWait
  BY DEF Inv, ServedInv, WaitersServed, LeadersDoNotWait, Settled, ChannelsCarryAnswers
<1> QED BY <1>1, <1>2, <1>3, Invariance, PTL DEF Spec
=============================================================================
