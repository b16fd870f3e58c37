---------------------------- MODULE DnsResolver -----------------------------
(***************************************************************************)
(* The shared DNS resolver: the positive and negative cache and the        *)
(* singleflight map of src/dns.rs (resolve_dual, lookup_cache,             *)
(* store_cache, query_record_dedup).                                       *)
(*                                                                         *)
(* A caller resolves one host: it looks up both record types in the cache  *)
(* and then resolves each missing one in a task of its own (tokio::join!). *)
(* The first task to find no slot for its key in in_flight becomes the     *)
(* leader: it puts a watch channel there and asks the DNS; tasks that find *)
(* a slot wait on that channel.  A caller can be dropped at any await; the *)
(* drop of a leader removes its slot and closes its channel.               *)
(*                                                                         *)
(* Each caller makes one request, so the channel a task publishes on is    *)
(* named by its caller.  Answers are abstracted to whether records were    *)
(* found and (history) the instant the DNS gave them.                      *)
(***************************************************************************)
EXTENDS Integers, FiniteSets

CONSTANTS
    Callers, Hosts,
    QTypes,            \* the record types a caller asks for: A and AAAA
    NoCaller,          \* no slot in in_flight
    MaxTime,           \* bound on the clock
    CacheTtl,          \* cache_ttl
    NegativeTtl,       \* negative_ttl
    MaxCacheEntries    \* max_cache_entries

ASSUME DnsAssumption ==
    /\ NoCaller \notin Callers
    /\ MaxTime \in Nat /\ CacheTtl \in Nat /\ NegativeTtl \in Nat
    /\ MaxCacheEntries \in Nat \ {0}

Keys == Hosts \X QTypes

VARIABLES
    now,
    request,    \* per caller: its host, when it began, and whether it runs
    task,       \* per caller and record type: the progress of the query
    cache,      \* per key: an entry
    inFlight,   \* per key: the leader whose channel is in the map, or NoCaller
    published   \* per caller and record type: the value of its watch channel

vars == <<now, request, task, cache, inFlight, published>>

\* An answer: Some(records) or an error, and when the DNS gave it.
Answers == [ok : BOOLEAN, at : Nat]
NoAnswer == [ok |-> FALSE, at |-> -1]
MaybeAnswer == Answers \cup {NoAnswer}

NoEntry == [answer |-> NoAnswer, expires |-> 0]
Entries == [answer : Answers, expires : Nat] \cup {NoEntry}

\* The await points of a task.
AwaitPcs == {"query", "wait", "selfquery"}

Pcs == AwaitPcs \cup {"lookup", "dedup", "publish", "remove", "done", "dropped"}

\* A task; leader names the channel it publishes on or waits for.
Tasks == [pc : Pcs, leader : Callers \cup {NoCaller}, answer : MaybeAnswer]

TypeOK ==
    /\ now \in Nat
    /\ request \in [Callers -> [host : Hosts, began : Nat, on : BOOLEAN]]
    /\ task \in [Callers -> [QTypes -> Tasks]]
    /\ \A c \in Callers, q \in QTypes :
          /\ task[c][q].pc \in {"wait", "selfquery"} => task[c][q].leader # NoCaller
          /\ task[c][q].pc \in {"publish", "remove", "done"} <=> task[c][q].answer # NoAnswer
    /\ cache \in [Keys -> Entries]
    /\ inFlight \in [Keys -> Callers \cup {NoCaller}]
    /\ published \in [Callers -> [QTypes -> MaybeAnswer]]

Init ==
    /\ now = 0
    /\ request \in [Callers -> [host : Hosts, began : {0}, on : {FALSE}]]
    /\ task = [c \in Callers |-> [q \in QTypes |->
                  [pc |-> "lookup", leader |-> NoCaller, answer |-> NoAnswer]]]
    /\ cache = [k \in Keys |-> NoEntry]
    /\ inFlight = [k \in Keys |-> NoCaller]
    /\ published = [c \in Callers |-> [q \in QTypes |-> NoAnswer]]

Key(c, q) == <<request[c].host, q>>
Ttl(answer) == IF answer.ok THEN CacheTtl ELSE NegativeTtl
Cached == {k \in Keys : cache[k] # NoEntry}
\* Mutant of Valid: the expiry of an entry is not looked at.
ValidForever(entry) == entry # NoEntry

Valid(entry) == entry # NoEntry /\ entry.expires > now

\* A caller enters resolve_dual with a host name.
Begin(c) ==
    /\ ~ request[c].on
    /\ \A q \in QTypes : task[c][q].pc = "lookup"
    /\ request' = [request EXCEPT ![c].on = TRUE, ![c].began = now]
    /\ UNCHANGED <<now, task, cache, inFlight, published>>

-----------------------------------------------------------------------------
(* The cache.                                                              *)

\* lookup_cache: an entry that is still valid ends the task.
LookupHit(c, q) ==
    /\ request[c].on /\ task[c][q].pc = "lookup"
    /\ Valid(cache[Key(c, q)])
    /\ task' = [task EXCEPT ![c][q].pc = "done", ![c][q].answer = cache[Key(c, q)].answer]
    /\ UNCHANGED <<now, request, cache, inFlight, published>>

\* No entry, or an expired one, which is removed.
LookupMiss(c, q) ==
    /\ request[c].on /\ task[c][q].pc = "lookup"
    /\ ~ Valid(cache[Key(c, q)])
    /\ cache' = [cache EXCEPT ![Key(c, q)] = NoEntry]
    /\ task' = [task EXCEPT ![c][q].pc = "dedup"]
    /\ UNCHANGED <<now, request, inFlight, published>>

\* Mutant of StoreCache: one entry too many.
StoreCacheOffByOne(k, answer) ==
    \E victims \in SUBSET Cached :
        /\ IF Cardinality(Cached) > MaxCacheEntries /\ k \notin Cached
           THEN Cardinality(victims) = 1 ELSE victims = {}
        /\ cache' = [x \in Keys |->
                        IF x = k THEN [answer |-> answer, expires |-> now + Ttl(answer)]
                        ELSE IF x \in victims THEN NoEntry ELSE cache[x]]

\* store_cache: at the limit some other entry makes room.
StoreCache(k, answer) ==
    \E victims \in SUBSET Cached :
        /\ IF Cardinality(Cached) >= MaxCacheEntries /\ k \notin Cached
           THEN Cardinality(victims) = 1 ELSE victims = {}
        /\ cache' = [x \in Keys |->
                        IF x = k THEN [answer |-> answer, expires |-> now + Ttl(answer)]
                        ELSE IF x \in victims THEN NoEntry ELSE cache[x]]

-----------------------------------------------------------------------------
(* query_record_dedup.                                                     *)

\* The role is decided under the in_flight lock, after both lookups.
AtDedup(c, q) ==
    /\ task[c][q].pc = "dedup"
    /\ \A r \in QTypes : task[c][r].pc # "lookup"

BecomeLeader(c, q) ==
    /\ AtDedup(c, q)
    /\ inFlight[Key(c, q)] = NoCaller
    /\ inFlight' = [inFlight EXCEPT ![Key(c, q)] = c]
    /\ task' = [task EXCEPT ![c][q].pc = "query", ![c][q].leader = c]
    /\ UNCHANGED <<now, request, cache, published>>

\* Mutant of BecomeWaiter: a task waits although no slot is in the map.
BecomeWaiterUnchecked(c, q) ==
    /\ AtDedup(c, q)
    /\ task' = [task EXCEPT ![c][q].pc = "wait", ![c][q].leader = inFlight[Key(c, q)]]
    /\ UNCHANGED <<now, request, cache, inFlight, published>>

BecomeWaiter(c, q) ==
    /\ AtDedup(c, q)
    /\ inFlight[Key(c, q)] # NoCaller
    /\ task' = [task EXCEPT ![c][q].pc = "wait", ![c][q].leader = inFlight[Key(c, q)]]
    /\ UNCHANGED <<now, request, cache, inFlight, published>>

\* query_record returns to the leader, which stores the answer, an error as a
\* negative entry.
LeaderAnswered(c, q, ok) ==
    LET answer == [ok |-> ok, at |-> now]
    IN  /\ task[c][q].pc = "query"
        /\ StoreCache(Key(c, q), answer)
        /\ task' = [task EXCEPT ![c][q].pc = "publish", ![c][q].answer = answer]
        /\ UNCHANGED <<now, request, inFlight, published>>

\* tx.send
Publish(c, q) ==
    /\ task[c][q].pc = "publish"
    /\ published' = [published EXCEPT ![c][q] = task[c][q].answer]
    /\ task' = [task EXCEPT ![c][q].pc = "remove"]
    /\ UNCHANGED <<now, request, cache, inFlight>>

\* Mutant of RemoveSlot: the leader leaves its slot behind.
RemoveSlotForgotten(c, q) ==
    /\ task[c][q].pc = "remove"
    /\ task' = [task EXCEPT ![c][q].pc = "done"]
    /\ UNCHANGED <<now, request, cache, inFlight, published>>

\* The InFlightGuard of the leader is dropped, then its sender.
RemoveSlot(c, q) ==
    /\ task[c][q].pc = "remove"
    /\ inFlight' = [inFlight EXCEPT ![Key(c, q)] = NoCaller]
    /\ task' = [task EXCEPT ![c][q].pc = "done"]
    /\ UNCHANGED <<now, request, cache, published>>

\* wait_for returns the published value.
WaiterAnswered(c, q) ==
    LET answer == published[task[c][q].leader][q]
    IN  /\ task[c][q].pc = "wait"
        /\ answer # NoAnswer
        /\ task' = [task EXCEPT ![c][q].pc = "done", ![c][q].answer = answer]
        /\ UNCHANGED <<now, request, cache, inFlight, published>>

\* Mutant of WaiterClosed: a closed channel is only noticed after an answer.
WaiterClosedIgnored(c, q) ==
    LET leader == task[c][q].leader
    IN  /\ task[c][q].pc = "wait"
        /\ published[leader][q] # NoAnswer
        /\ task[leader][q].pc \in {"done", "dropped"}
        /\ task' = [task EXCEPT ![c][q].pc = "selfquery"]
        /\ UNCHANGED <<now, request, cache, inFlight, published>>

\* wait_for fails: the sender is gone and nothing was published.
WaiterClosed(c, q) ==
    LET leader == task[c][q].leader
    IN  /\ task[c][q].pc = "wait"
        /\ published[leader][q] = NoAnswer
        /\ task[leader][q].pc \in {"done", "dropped"}
        /\ task' = [task EXCEPT ![c][q].pc = "selfquery"]
        /\ UNCHANGED <<now, request, cache, inFlight, published>>

\* The waiter's own query_record: neither cached nor shared.
SelfAnswered(c, q, ok) ==
    /\ task[c][q].pc = "selfquery"
    /\ task' = [task EXCEPT ![c][q].pc = "done", ![c][q].answer = [ok |-> ok, at |-> now]]
    /\ UNCHANGED <<now, request, cache, inFlight, published>>

\* Mutant of Drop: a dropped leader has no guard.
DropNoGuard(c) ==
    /\ request[c].on
    /\ \A q \in QTypes : task[c][q].pc \in AwaitPcs \cup {"done"}
    /\ \E q \in QTypes : task[c][q].pc \in AwaitPcs
    /\ task' = [task EXCEPT ![c] = [q \in QTypes |->
                   IF task[c][q].pc \in AwaitPcs
                   THEN [task[c][q] EXCEPT !.pc = "dropped"] ELSE task[c][q]]]
    /\ UNCHANGED <<now, request, cache, inFlight, published>>

\* The caller's future is dropped while each of its tasks awaits or has ended.
Drop(c) ==
    /\ request[c].on
    /\ \A q \in QTypes : task[c][q].pc \in AwaitPcs \cup {"done"}
    /\ \E q \in QTypes : task[c][q].pc \in AwaitPcs
    /\ inFlight' = [k \in Keys |-> IF inFlight[k] = c THEN NoCaller ELSE inFlight[k]]
    /\ task' = [task EXCEPT ![c] = [q \in QTypes |->
                   IF task[c][q].pc \in AwaitPcs
                   THEN [task[c][q] EXCEPT !.pc = "dropped"] ELSE task[c][q]]]
    /\ UNCHANGED <<now, request, cache, published>>

\* Time passes while every task awaits: synchronous code takes none.
Tick ==
    /\ now < MaxTime
    /\ \A c \in Callers, q \in QTypes : task[c][q].pc \notin {"publish", "remove"}
    /\ now' = now + 1
    /\ UNCHANGED <<request, task, cache, inFlight, published>>

Step(c, q) ==
    \/ LookupHit(c, q) \/ LookupMiss(c, q) \/ BecomeLeader(c, q) \/ BecomeWaiter(c, q)
    \/ \E ok \in BOOLEAN : LeaderAnswered(c, q, ok) \/ SelfAnswered(c, q, ok)
    \/ Publish(c, q) \/ RemoveSlot(c, q) \/ WaiterAnswered(c, q) \/ WaiterClosed(c, q)

Next ==
    \/ Tick
    \/ \E c \in Callers : Begin(c) \/ Drop(c) \/ \E q \in QTypes : Step(c, q)

Spec == Init /\ [][Next]_vars

\* Tasks are polled, and a DNS query ends (it has a timeout).
FairSpec == Spec /\ \A c \in Callers, q \in QTypes : WF_vars(Step(c, q))

-----------------------------------------------------------------------------
(* Properties.                                                             *)

\* A task that holds the slot of its key.
Leads(c, q) == task[c][q].pc \in {"query", "publish", "remove"}

\* in_flight holds a slot exactly while a task leads on its key, and it is that
\* task's: a slot never outlives its leader, also when the leader is dropped
\* during its query, and no guard removes the slot of a later leader.
SlotsHaveLeaders ==
    /\ \A h \in Hosts, q \in QTypes :
          inFlight[<<h, q>>] # NoCaller =>
              /\ request[inFlight[<<h, q>>]].host = h
              /\ Leads(inFlight[<<h, q>>], q)
    /\ \A c \in Callers, q \in QTypes : Leads(c, q) => inFlight[Key(c, q)] = c

\* No answer is older than its time to live was when the caller began, on any
\* path: from the cache, from a leader's channel or from an own query.
AnswersAreFresh ==
    \A c \in Callers, q \in QTypes :
        task[c][q].pc = "done" =>
            \/ task[c][q].answer.at >= request[c].began
            \/ task[c][q].answer.at + Ttl(task[c][q].answer) > request[c].began

\* The cache never outgrows its limit, whatever the order of the stores.
CacheIsBounded == Cardinality(Cached) <= MaxCacheEntries

\* Every lookup ends: no waiter misses its leader's answer or waits for a
\* leader that was dropped.
EveryTaskEnds ==
    \A c \in Callers, q \in QTypes : request[c].on ~> task[c][q].pc \in {"done", "dropped"}
=============================================================================
