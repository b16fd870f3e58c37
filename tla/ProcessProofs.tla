---------------------------- MODULE ProcessProofs ----------------------------
(***************************************************************************)
(* Proofs about Process: the permits of serve and handle, the end of the   *)
(* process, and that staggered_dial implements Race.                       *)
(***************************************************************************)
EXTENDS Process, ListProofs, TLAPS, FiniteSetTheorems

-----------------------------------------------------------------------------
(* The state of one connection.                                            *)

ConnRecs == [phase : Phases, record : {"none", "ok", "failed"}]

DialRecs == [n : 0 .. MaxCandidates, started : 0 .. MaxCandidates,
             att : UNION {[1 .. k -> AttemptStates] : k \in 0 .. MaxCandidates},
             launch : 0 .. Delay, deadline : 0 .. ConnectTimeout, age : 0 .. Delay,
             winner : 0 .. MaxCandidates]

\* The attempts of a dial that runs: those made are the first ones, some but not
\* too many are in flight, and the launch timer counts what is left of the delay.
Dialling(d) ==
    /\ d.started \in 1 .. d.n
    /\ \A i \in 1 .. d.n : d.att[i] = "none" <=> i > d.started
    /\ InFlight(d) # {} /\ Cardinality(InFlight(d)) <= MaxParallel
    /\ d.launch + d.age = Delay

\* k is the connection's entry in conn, d its entry in dial.
Good(k, d) ==
    /\ k \in ConnRecs /\ d \in DialRecs
    /\ d.started \in 0 .. d.n
    /\ d.att \in [1 .. d.n -> AttemptStates]
    /\ k.phase = "dial" => Dialling(d)
    /\ k.phase = "relay" => d.winner \in 1 .. MaxCandidates

\* The records of one family in an answer are a sequence.
LEMMA RecordsAreSeq ==
  ASSUME NEW S, NEW v \in RecordSets(S)
  PROVE  v \in Seq(S)
<1>1. PICK m \in 0 .. MaxRecords : v \in [1 .. m -> S]
  BY DEF RecordSets
<1>2. m \in Nat
  BY SocksAssumption
<1> QED BY <1>1, <1>2

\* The merged answer is a sequence of addresses.
LEMMA MergeDualType ==
  ASSUME NEW v6 \in Seq(V6), NEW v4 \in Seq(V4)
  PROVE  /\ MergeDual(v6, v4) \in Seq(Addrs)
         /\ Len(MergeDual(v6, v4)) = Len(v6) + Len(v4)
<1> DEFINE both == IF Len(v6) < Len(v4) THEN Len(v6) ELSE Len(v4)
           E(k) == IF k > 2 * both THEN (IF Len(v6) > both THEN v6 ELSE v4)[k - both]
                   ELSE IF k % 2 = 1 THEN v6[(k + 1) \div 2] ELSE v4[k \div 2]
<1>1. Len(v6) \in Nat /\ Len(v4) \in Nat
  OBVIOUS
<1>2. ASSUME NEW k \in 1 .. Len(v6) + Len(v4) PROVE E(k) \in Addrs
  <2>1. CASE k > 2 * both
    <3>1. CASE Len(v6) > both
      <4>1. k - both \in 1 .. Len(v6)
        BY <1>1, <2>1, <3>1
      <4>2. v6[k - both] \in V6
        BY <4>1
      <4> QED BY <2>1, <3>1, <4>2 DEF Addrs
    <3>2. CASE ~ (Len(v6) > both)
      <4>1. k - both \in 1 .. Len(v4)
        BY <1>1, <2>1, <3>2
      <4>2. v4[k - both] \in V4
        BY <4>1
      <4> QED BY <2>1, <3>2, <4>2 DEF Addrs
    <3> QED BY <3>1, <3>2
  <2>2. CASE ~ (k > 2 * both) /\ k % 2 = 1
    <3>1. (k + 1) \div 2 \in 1 .. Len(v6)
      BY <1>1, <2>2
    <3>2. v6[(k + 1) \div 2] \in V6
      BY <3>1
    <3> QED BY <2>2, <3>2 DEF Addrs
  <2>3. CASE ~ (k > 2 * both) /\ k % 2 # 1
    <3>1. k \div 2 \in 1 .. Len(v4)
      BY <1>1, <2>3
    <3>2. v4[k \div 2] \in V4
      BY <3>1
    <3> QED BY <2>3, <3>2 DEF Addrs
  <2> QED BY <2>1, <2>2, <2>3
<1>3. MergeDual(v6, v4) = [k \in 1 .. Len(v6) + Len(v4) |-> E(k)]
  BY DEF MergeDual
<1> HIDE DEF E
<1>4. MergeDual(v6, v4) \in [1 .. Len(v6) + Len(v4) -> Addrs]
  BY <1>2, <1>3
<1> QED BY <1>1, <1>4

\* A list of candidates is a sequence of addresses, never longer than
\* max_dial_candidates.
LEMMA UsableType ==
  ASSUME NEW answer \in Seq(Addrs), NEW hasV6 \in BOOLEAN
  PROVE  LET list == Clean(answer, hasV6)
             n    == IF Len(list) < MaxCandidates THEN Len(list) ELSE MaxCandidates
         IN  /\ n \in 0 .. MaxCandidates /\ n <= Len(list)
             /\ Usable(answer, hasV6) \in Seq(Addrs) /\ Len(Usable(answer, hasV6)) = n
             /\ \A k \in 1 .. n : Usable(answer, hasV6)[k] = list[k]
<1> DEFINE list == Clean(answer, hasV6)
           n == IF Len(list) < MaxCandidates THEN Len(list) ELSE MaxCandidates
           keep == {i \in FirstPlaces(answer) : hasV6 \/ answer[i] \in V4}
<1>1. list \in Seq(Addrs)
  <2>1. keep \in SUBSET DOMAIN answer
    BY DEF FirstPlaces
  <2>2. list = Kept(answer, keep)
    BY DEF Clean
  <2> HIDE DEF keep, list
  <2> QED BY <2>1, <2>2, KeptElements
<1>2. n \in 0 .. MaxCandidates /\ n <= Len(list)
  BY <1>1, SocksAssumption
<1>3. Usable(answer, hasV6) = SubSeq(list, 1, n)
  BY DEF Usable, Cut
<1> HIDE DEF list, n
<1> QED BY <1>1, <1>2, <1>3 DEF list, n

\* The numbers of candidates are bounded.
LEMMA CountsBounded == CandidateCounts \subseteq 0 .. MaxCandidates
<1> SUFFICES ASSUME NEW v6 \in RecordSets(V6), NEW v4 \in RecordSets(V4),
                    NEW hasV6 \in BOOLEAN
             PROVE  Len(Usable(MergeDual(v6, v4), hasV6)) \in 0 .. MaxCandidates
  BY DEF CandidateCounts, CandidateLists
<1>1. MergeDual(v6, v4) \in Seq(Addrs)
  BY RecordsAreSeq, MergeDualType
<1> QED BY <1>1, UsableType

\* The state of a connection without a dial.
LEMMA NoDialGood ==
  ASSUME NEW k \in ConnRecs, k.phase \notin {"dial", "relay"}
  PROVE  Good(k, NoDial)
<1>1. <<>> \in [1 .. 0 -> AttemptStates]
  OBVIOUS
<1>2. NoDial \in DialRecs
  BY <1>1, SocksAssumption DEF NoDial, DialRecs
<1> QED BY <1>1, <1>2 DEF Good, NoDial

\* The attempts in flight are finitely many.
LEMMA InFlightFinite ==
  ASSUME NEW d, NEW n \in Nat, d.att \in [1 .. n -> AttemptStates]
  PROVE  /\ InFlight(d) \subseteq 1 .. n /\ IsFiniteSet(InFlight(d))
         /\ Cardinality(InFlight(d)) \in Nat
<1>1. InFlight(d) \subseteq 1 .. n
  BY DEF InFlight
<1>2. IsFiniteSet(1 .. n)
  <2>1. 1 \in Int /\ n \in Int
    OBVIOUS
  <2> QED BY <2>1, FS_Interval
<1>3. IsFiniteSet(InFlight(d))
  BY <1>1, <1>2, FS_Subset
<1> QED BY <1>1, <1>3, FS_CardinalityType

\* A record with the right fields is one of DialRecs.
LEMMA IsDialRec ==
  ASSUME NEW e, NEW n \in 0 .. MaxCandidates, NEW started \in 0 .. MaxCandidates,
         NEW att \in [1 .. n -> AttemptStates], NEW launch \in 0 .. Delay,
         NEW deadline \in 0 .. ConnectTimeout, NEW age \in 0 .. Delay,
         NEW winner \in 0 .. MaxCandidates,
         e = [n |-> n, started |-> started, att |-> att, launch |-> launch,
              deadline |-> deadline, age |-> age, winner |-> winner]
  PROVE  e \in DialRecs
<1>1. att \in UNION {[1 .. k -> AttemptStates] : k \in 0 .. MaxCandidates}
  OBVIOUS
<1> QED BY <1>1 DEF DialRecs

\* One attempt changes its state, nothing else does.
LEMMA SetAttempt ==
  ASSUME NEW d \in DialRecs, d.att \in [1 .. d.n -> AttemptStates],
         NEW i \in 1 .. d.n, NEW s \in AttemptStates, NEW e, e = [d EXCEPT !.att[i] = s]
  PROVE  /\ e \in DialRecs
         /\ e.n = d.n /\ e.started = d.started /\ e.launch = d.launch /\ e.age = d.age
         /\ e.att = [d.att EXCEPT ![i] = s] /\ e.att \in [1 .. d.n -> AttemptStates]
         /\ e.winner = d.winner
<1>1. /\ e.n = d.n /\ e.started = d.started /\ e.launch = d.launch /\ e.age = d.age
      /\ e.deadline = d.deadline /\ e.winner = d.winner
      /\ e.att = [d.att EXCEPT ![i] = s]
      /\ e = [n |-> e.n, started |-> e.started, att |-> e.att, launch |-> e.launch,
              deadline |-> e.deadline, age |-> e.age, winner |-> e.winner]
  BY DEF DialRecs
<1>2. /\ d.n \in 0 .. MaxCandidates /\ d.started \in 0 .. MaxCandidates
      /\ d.launch \in 0 .. Delay /\ d.deadline \in 0 .. ConnectTimeout
      /\ d.age \in 0 .. Delay /\ d.winner \in 0 .. MaxCandidates
  BY DEF DialRecs
<1>3. e.att \in [1 .. d.n -> AttemptStates]
  BY <1>1
<1>4. e \in DialRecs
  BY <1>1, <1>2, <1>3, IsDialRec
<1> QED BY <1>1, <1>3, <1>4

\* The next attempt begins.
LEMMA StartNextSets ==
  ASSUME NEW d \in DialRecs, d.att \in [1 .. d.n -> AttemptStates], d.started < d.n
  PROVE  /\ StartNext(d) \in DialRecs
         /\ StartNext(d).n = d.n /\ StartNext(d).started = d.started + 1
         /\ StartNext(d).launch = Delay /\ StartNext(d).age = 0
         /\ StartNext(d).att = [d.att EXCEPT ![d.started + 1] = "running"]
         /\ StartNext(d).att \in [1 .. d.n -> AttemptStates]
         /\ StartNext(d).winner = d.winner
<1> DEFINE e == StartNext(d)
           next == [d.att EXCEPT ![d.started + 1] = "running"]
<1>0. e = [n |-> d.n, started |-> d.started + 1, att |-> next, launch |-> Delay,
           deadline |-> d.deadline, age |-> 0, winner |-> d.winner]
  <2>1. d = [n |-> d.n, started |-> d.started, att |-> d.att, launch |-> d.launch,
             deadline |-> d.deadline, age |-> d.age, winner |-> d.winner]
    BY DEF DialRecs
  <2>2. e = [d EXCEPT !.started = d.started + 1, !.att = next, !.launch = Delay, !.age = 0]
    BY DEF StartNext
  <2> HIDE DEF e, next
  <2> QED BY <2>1, <2>2
<1>1. /\ e.n = d.n /\ e.started = d.started + 1 /\ e.launch = Delay /\ e.age = 0
      /\ e.deadline = d.deadline /\ e.winner = d.winner
      /\ e.att = [d.att EXCEPT ![d.started + 1] = "running"]
      /\ e = [n |-> e.n, started |-> e.started, att |-> e.att, launch |-> e.launch,
              deadline |-> e.deadline, age |-> e.age, winner |-> e.winner]
  <2> HIDE DEF e
  <2> QED BY <1>0
<1>2. /\ d.n \in 0 .. MaxCandidates /\ d.started \in 0 .. MaxCandidates
      /\ d.deadline \in 0 .. ConnectTimeout /\ d.winner \in 0 .. MaxCandidates
  BY DEF DialRecs
<1> HIDE DEF e
<1>3. e.att \in [1 .. d.n -> AttemptStates]
  BY <1>1, <1>2 DEF AttemptStates
<1>4. e.started \in 0 .. MaxCandidates /\ Delay \in 0 .. Delay /\ 0 \in 0 .. Delay
  BY <1>1, <1>2, SocksAssumption
<1>5. e \in DialRecs
  BY <1>1, <1>2, <1>3, <1>4, IsDialRec
<1> QED BY <1>1, <1>3, <1>5 DEF e

\* It joins the others in flight.
LEMMA StartNextInFlight ==
  ASSUME NEW d \in DialRecs, d.att \in [1 .. d.n -> AttemptStates], d.started < d.n,
         d.att[d.started + 1] = "none"
  PROVE  /\ InFlight(StartNext(d)) = InFlight(d) \cup {d.started + 1}
         /\ Cardinality(InFlight(StartNext(d))) = Cardinality(InFlight(d)) + 1
<1>1. d.n \in Nat /\ d.started \in Nat /\ d.started + 1 \in 1 .. d.n
  BY SocksAssumption DEF DialRecs
<1>2. InFlight(StartNext(d)) = InFlight(d) \cup {d.started + 1}
  <2> DEFINE e == StartNext(d)
  <2>1. /\ DOMAIN e.att = 1 .. d.n /\ DOMAIN d.att = 1 .. d.n
        /\ \A i \in 1 .. d.n : e.att[i] = IF i = d.started + 1 THEN "running" ELSE d.att[i]
    BY <1>1, StartNextSets
  <2> HIDE DEF e
  <2>2. InFlight(e) = InFlight(d) \cup {d.started + 1}
    BY <1>1, <2>1 DEF InFlight
  <2> QED BY <2>2 DEF e
<1>3. d.started + 1 \notin InFlight(d)
  BY DEF InFlight, Ended
<1>4. IsFiniteSet(InFlight(d))
  BY <1>1, InFlightFinite
<1> QED BY <1>2, <1>3, <1>4, FS_AddElement

-----------------------------------------------------------------------------
(* What one connection does, seen as a step of Race.                       *)

Lost == {"failed", "refused"}

\* The dial of one connection, from (k, d) to (k2, d2): its state stays good, it
\* is a step of the race or none, and an attempt is begun next to others only
\* after the delay.
Moved(k, d, k2, d2) ==
    /\ Good(k2, d2)
    /\ \/ DialRaceOf(k2, d2) = DialRaceOf(k, d)
       \/ DialRaceSpec!Step(DialRaceOf(k, d), DialRaceOf(k2, d2))
    /\ k.phase = "dial" /\ d2.started > d.started
          => Cardinality(InFlight(d2)) = 1 \/ d.age = Delay

\* Race counts with the same operator.
LEMMA RaceCardinality == \A S : DialRaceSpec!Cardinality(S) = Cardinality(S)
BY DEF DialRaceSpec!Cardinality, Cardinality

\* A dial that runs is a race.
LEMMA RacingOf ==
  ASSUME NEW k, NEW d, Good(k, d), k.phase = "dial"
  PROVE  /\ DialRaceOf(k, d) =
              [phase |-> "racing", cands |-> 1 .. d.n, started |-> 1 .. d.started,
               failed |-> {i \in 1 .. d.n : d.att[i] \in Lost},
               connected |-> {i \in 1 .. d.n : d.att[i] = "ok"},
               open |-> InFlight(d)]
         /\ DialRaceSpec!Racing(DialRaceOf(k, d))
<1>1. /\ d.n \in 0 .. MaxCandidates /\ d.started \in 1 .. d.n
      /\ DOMAIN d.att = 1 .. d.n
      /\ \A i \in 1 .. d.n : d.att[i] \in AttemptStates
      /\ \A i \in 1 .. d.n : d.att[i] = "none" <=> i > d.started
      /\ Cardinality(InFlight(d)) <= MaxParallel
  BY DEF Good, Dialling, DialRecs
<1>2. DialRaceOf(k, d) =
          [phase |-> "racing", cands |-> 1 .. d.n, started |-> 1 .. d.started,
           failed |-> {i \in 1 .. d.n : d.att[i] \in Lost},
           connected |-> {i \in 1 .. d.n : d.att[i] = "ok"},
           open |-> InFlight(d)]
  BY <1>1 DEF DialRaceOf, Lost
<1>3. 1 .. d.started \subseteq 1 .. d.n
  BY <1>1, SocksAssumption
<1>4. InFlight(d) = (1 .. d.started) \ {i \in 1 .. d.n : d.att[i] \in Lost}
  <2>1. \A i \in 1 .. d.n : i \in 1 .. d.started <=> d.att[i] # "none"
    BY <1>1, SocksAssumption
  <2> QED BY <1>1, <1>3, <2>1 DEF InFlight, Lost, AttemptStates, Ended
<1>5. {i \in 1 .. d.n : d.att[i] = "ok"} \subseteq InFlight(d)
  BY <1>1 DEF InFlight, Ended
<1> DEFINE r == DialRaceOf(k, d)
           lost == {i \in 1 .. d.n : d.att[i] \in Lost}
           ok == {i \in 1 .. d.n : d.att[i] = "ok"}
<1>6. /\ r.phase = "racing" /\ r.cands = 1 .. d.n /\ r.started = 1 .. d.started
      /\ r.failed = lost /\ r.connected = ok /\ r.open = InFlight(d)
  <2> HIDE DEF r, lost, ok
  <2> QED BY <1>2 DEF r, lost, ok
<1>7. DialRaceSpec!Racing(r)
  <2>1. InFlight(d) = (1 .. d.started) \ lost /\ ok \subseteq InFlight(d)
    BY <1>4, <1>5
  <2> HIDE DEF r, lost, ok
  <2>2. Cardinality(r.open) <= MaxParallel
    BY <1>1, <1>6
  <2>3. /\ r.started \subseteq r.cands /\ r.open = r.started \ r.failed
        /\ r.connected \subseteq r.open
    BY <1>3, <1>6, <2>1
  <2> QED BY <1>6, <2>2, <2>3, RaceCardinality DEF DialRaceSpec!Racing
<1> QED BY <1>2, <1>7

\* A race goes on: what was made, has failed or is connected stays so, and what
\* is new among the failed and the connected had been made before.
LEMMA AdvanceOf ==
  ASSUME NEW k, NEW d, NEW k2, NEW e, Good(k, d), Good(k2, e),
         k.phase = "dial", k2.phase = "dial",
         e.n = d.n, d.started <= e.started,
         \A i \in 1 .. d.n :
            /\ d.att[i] \in Lost => e.att[i] \in Lost
            /\ d.att[i] = "ok" => e.att[i] = "ok"
            /\ e.att[i] \in Lost \cup {"ok"} => i <= d.started
  PROVE  DialRaceSpec!Step(DialRaceOf(k, d), DialRaceOf(k2, e))
<1>1. d.n \in Nat /\ d.started \in Nat /\ e.started \in Nat
  BY SocksAssumption DEF Good, DialRecs
<1>2. /\ 1 .. d.started \subseteq 1 .. e.started
      /\ {i \in 1 .. d.n : d.att[i] \in Lost} \subseteq {i \in 1 .. d.n : e.att[i] \in Lost}
      /\ {i \in 1 .. d.n : e.att[i] \in Lost} \subseteq 1 .. d.started
      /\ {i \in 1 .. d.n : d.att[i] = "ok"} \subseteq {i \in 1 .. d.n : e.att[i] = "ok"}
      /\ {i \in 1 .. d.n : e.att[i] = "ok"} \subseteq 1 .. d.started
  BY <1>1
<1>3. DialRaceSpec!Racing(DialRaceOf(k2, e))
  BY RacingOf
<1>4. /\ DialRaceOf(k, d) =
              [phase |-> "racing", cands |-> 1 .. d.n, started |-> 1 .. d.started,
               failed |-> {i \in 1 .. d.n : d.att[i] \in Lost},
               connected |-> {i \in 1 .. d.n : d.att[i] = "ok"},
               open |-> InFlight(d)]
      /\ DialRaceOf(k2, e) =
              [phase |-> "racing", cands |-> 1 .. d.n, started |-> 1 .. e.started,
               failed |-> {i \in 1 .. d.n : e.att[i] \in Lost},
               connected |-> {i \in 1 .. d.n : e.att[i] = "ok"},
               open |-> InFlight(e)]
  BY RacingOf
<1>5. DialRaceSpec!Advance(DialRaceOf(k, d), DialRaceOf(k2, e))
  BY <1>2, <1>3, <1>4 DEF DialRaceSpec!Advance
<1> QED BY <1>5 DEF DialRaceSpec!Step

\* A handler that neither dials, relays nor replies an error has no race.
LEMMA IdleOf ==
  ASSUME NEW k, NEW d, NEW k2, NEW d2, Good(k2, d2),
         k2.phase \notin {"dial", "relay", "replyErr"}
  PROVE  DialRaceSpec!Step(DialRaceOf(k, d), DialRaceOf(k2, d2))
<1>1. DialRaceOf(k2, d2) = DialRaceSpec!At("idle", {})
  BY DEF DialRaceOf, DialRaceSpec!At
<1> QED BY <1>1 DEF DialRaceSpec!Step, DialRaceSpec!Leave

\* A dial fails, before it has begun or while nothing is connected.
LEMMA LoseOf ==
  ASSUME NEW k, NEW d, NEW k2, NEW d2, Good(k, d), Good(k2, d2), k2.phase = "replyErr",
         \/ k.phase = "resolve"
         \/ k.phase = "dial" /\ \A i \in 1 .. d.n : d.att[i] # "ok"
  PROVE  DialRaceSpec!Step(DialRaceOf(k, d), DialRaceOf(k2, d2))
<1>1. DialRaceOf(k2, d2) = DialRaceSpec!At("lost", {})
  BY DEF DialRaceOf, DialRaceSpec!At
<1>2. CASE k.phase = "resolve"
  <2>1. DialRaceOf(k, d).phase = "idle"
    BY <1>2 DEF DialRaceOf
  <2> QED BY <1>1, <2>1 DEF DialRaceSpec!Step, DialRaceSpec!Lose
<1>3. CASE k.phase = "dial" /\ \A i \in 1 .. d.n : d.att[i] # "ok"
  <2>1. DialRaceOf(k, d).phase = "racing" /\ DialRaceOf(k, d).connected = {}
    BY <1>3, RacingOf
  <2> QED BY <1>1, <2>1 DEF DialRaceSpec!Step, DialRaceSpec!Lose
<1> QED BY <1>2, <1>3

\* An attempt ends or is joined: only its own state changes.
LEMMA AttemptGood ==
  ASSUME NEW k, NEW d, Good(k, d), k.phase = "dial", NEW i \in 1 .. d.n,
         d.att[i] \in {"running"} \cup Ended, NEW s \in AttemptStates, s # "none",
         NEW e, e = [d EXCEPT !.att[i] = s], InFlight(e) # {}
  PROVE  Good(k, e)
<1>1. /\ d \in DialRecs /\ d.att \in [1 .. d.n -> AttemptStates] /\ d.n \in Nat
      /\ Dialling(d) /\ k \in ConnRecs /\ d.started \in 0 .. d.n
  BY SocksAssumption DEF Good, DialRecs
<1>2. /\ e \in DialRecs
      /\ e.n = d.n /\ e.started = d.started /\ e.launch = d.launch /\ e.age = d.age
      /\ e.att = [d.att EXCEPT ![i] = s] /\ e.att \in [1 .. d.n -> AttemptStates]
  BY <1>1, SetAttempt
<1>3. \A j \in 1 .. d.n : e.att[j] = IF j = i THEN s ELSE d.att[j]
  BY <1>1, <1>2
<1>4. \A j \in 1 .. d.n : e.att[j] = "none" <=> d.att[j] = "none"
  BY <1>3 DEF Ended
<1>5. Cardinality(InFlight(e)) <= MaxParallel
  <2>1. InFlight(e) \subseteq InFlight(d)
    <3>1. DOMAIN e.att = 1 .. d.n /\ DOMAIN d.att = 1 .. d.n
      BY <1>1, <1>2
    <3> QED BY <1>3, <3>1 DEF InFlight
  <2>2. IsFiniteSet(InFlight(d)) /\ Cardinality(InFlight(d)) \in Nat
        /\ Cardinality(InFlight(e)) \in Nat
    BY <1>1, <1>2, InFlightFinite
  <2>3. Cardinality(InFlight(e)) <= Cardinality(InFlight(d))
    BY <2>1, <2>2, FS_Subset
  <2>4. Cardinality(InFlight(d)) <= MaxParallel
    BY <1>1 DEF Dialling
  <2> QED BY <2>2, <2>3, <2>4, SocksAssumption
<1>6. Dialling(e)
  BY <1>1, <1>2, <1>4, <1>5 DEF Dialling
<1> QED BY <1>1, <1>2, <1>6 DEF Good

\* The next attempt begins while there is room for it.
LEMMA StartNextGood ==
  ASSUME NEW k \in ConnRecs, NEW d \in DialRecs, k.phase = "dial",
         d.started \in 1 .. d.n - 1, d.att \in [1 .. d.n -> AttemptStates],
         \A i \in 1 .. d.n : d.att[i] = "none" <=> i > d.started,
         Cardinality(InFlight(d)) < MaxParallel
  PROVE  /\ Good(k, StartNext(d))
         /\ Cardinality(InFlight(StartNext(d))) = Cardinality(InFlight(d)) + 1
<1> DEFINE e == StartNext(d)
<1>1. d.n \in Nat /\ d.started \in Nat /\ d.started < d.n /\ d.started + 1 \in 1 .. d.n
  BY SocksAssumption DEF DialRecs
<1>2. d.att[d.started + 1] = "none"
  BY <1>1
<1>3. /\ InFlight(e) = InFlight(d) \cup {d.started + 1}
      /\ Cardinality(InFlight(e)) = Cardinality(InFlight(d)) + 1
  BY <1>1, <1>2, StartNextInFlight
<1>4. /\ e \in DialRecs
      /\ e.n = d.n /\ e.started = d.started + 1 /\ e.launch = Delay /\ e.age = 0
      /\ e.att = [d.att EXCEPT ![d.started + 1] = "running"]
      /\ e.att \in [1 .. d.n -> AttemptStates]
  BY <1>1, StartNextSets
<1> HIDE DEF e
<1>5. \A i \in 1 .. d.n : e.att[i] = IF i = d.started + 1 THEN "running" ELSE d.att[i]
  BY <1>1, <1>4
<1>6. ASSUME NEW i \in 1 .. d.n PROVE e.att[i] = "none" <=> i > d.started + 1
  <2>1. CASE i = d.started + 1
    BY <1>1, <1>5, <2>1
  <2>2. CASE i # d.started + 1
    <3>1. i > d.started <=> i > d.started + 1
      BY <1>1, <2>2
    <3> QED BY <1>5, <2>2, <3>1
  <2> QED BY <2>1, <2>2
<1>7. Cardinality(InFlight(e)) <= MaxParallel /\ InFlight(e) # {}
  <2>1. Cardinality(InFlight(d)) \in Nat
    BY <1>1, InFlightFinite
  <2> QED BY <1>3, <2>1, SocksAssumption
<1>8. e.started \in 1 .. e.n /\ e.launch + e.age = Delay
  BY <1>1, <1>4, SocksAssumption
<1>9. Dialling(e)
  BY <1>4, <1>6, <1>7, <1>8 DEF Dialling
<1>10. e.started \in 0 .. e.n
  BY <1>1, <1>4
<1>11. Good(k, e)
  BY <1>4, <1>9, <1>10 DEF Good
<1> QED BY <1>3, <1>11 DEF e

-----------------------------------------------------------------------------
(* The actions of one connection.                                          *)

DialInv ==
    /\ conn \in [Conns -> ConnRecs] /\ dial \in [Conns -> DialRecs]
    /\ \A c \in Conns : Good(conn[c], dial[c])

\* Only c moves, and as it should.
OneMoves(c) ==
    /\ conn' = [conn EXCEPT ![c] = conn'[c]]
    /\ dial' = [dial EXCEPT ![c] = dial'[c]]
    /\ Moved(conn[c], dial[c], conn'[c], dial'[c])

\* The handler goes on or away and there is no race any more, or none yet.
LEMMA MoveIdle ==
  ASSUME DialInv, NEW c \in Conns, NEW k \in ConnRecs,
         k.phase \notin {"dial", "relay", "replyErr"},
         NEW d \in {dial[c], NoDial},
         conn' = [conn EXCEPT ![c] = k], dial' = [dial EXCEPT ![c] = d]
  PROVE  OneMoves(c)
<1>1. conn'[c] = k /\ dial'[c] = d
  BY DEF DialInv
<1>2. Good(k, d)
  <2>1. CASE d = NoDial
    BY <2>1, NoDialGood
  <2>2. CASE d = dial[c]
    BY <2>2 DEF DialInv, Good
  <2> QED BY <2>1, <2>2
<1>3. d.started = 0 \/ d.started = dial[c].started
  BY DEF NoDial
<1>4. ~ d.started > dial[c].started
  <2>1. dial[c].started \in Nat
    BY SocksAssumption DEF DialInv, DialRecs
  <2> QED BY <1>3, <2>1
<1>5. DialRaceSpec!Step(DialRaceOf(conn[c], dial[c]), DialRaceOf(k, d))
  BY <1>2, IdleOf
<1> QED BY <1>1, <1>2, <1>4, <1>5 DEF OneMoves, Moved

\* A dial ends without a connection.
LEMMA MoveLost ==
  ASSUME DialInv, NEW c \in Conns, NEW k \in ConnRecs, k.phase = "replyErr",
         NEW d \in {dial[c], NoDial},
         conn' = [conn EXCEPT ![c] = k], dial' = [dial EXCEPT ![c] = d],
         \/ conn[c].phase = "resolve"
         \/ conn[c].phase = "dial" /\ \A i \in 1 .. dial[c].n : dial[c].att[i] # "ok"
  PROVE  OneMoves(c)
<1>1. conn'[c] = k /\ dial'[c] = d
  BY DEF DialInv
<1>2. Good(k, d)
  <2>1. CASE d = NoDial
    BY <2>1, NoDialGood
  <2>2. CASE d = dial[c]
    BY <2>2 DEF DialInv, Good
  <2> QED BY <2>1, <2>2
<1>3. d.started = 0 \/ d.started = dial[c].started
  BY DEF NoDial
<1>4. ~ d.started > dial[c].started
  <2>1. dial[c].started \in Nat
    BY SocksAssumption DEF DialInv, DialRecs
  <2> QED BY <1>3, <2>1
<1>5. Good(conn[c], dial[c])
  BY DEF DialInv
<1>6. DialRaceSpec!Step(DialRaceOf(conn[c], dial[c]), DialRaceOf(k, d))
  BY <1>2, <1>5, LoseOf
<1> QED BY <1>1, <1>2, <1>4, <1>6 DEF OneMoves, Moved

\* The first attempt begins.
LEMMA MoveBegins ==
  ASSUME DialInv, NEW c \in Conns, NEW n \in CandidateCounts, BeginDial(c, n)
  PROVE  OneMoves(c)
<1> DEFINE att == [i \in 1 .. n |-> IF i = 1 THEN "running" ELSE "none"]
           d == [n |-> n, started |-> 1, att |-> att, launch |-> Delay,
                 deadline |-> ConnectTimeout, age |-> 0, winner |-> 0]
           k == [conn[c] EXCEPT !.phase = "dial"]
<1>1. n \in 1 .. MaxCandidates /\ n \in Nat
  BY CountsBounded, SocksAssumption DEF BeginDial
<1>2. /\ conn' = [conn EXCEPT ![c] = k] /\ dial' = [dial EXCEPT ![c] = d]
      /\ conn[c].phase = "resolve"
  BY DEF BeginDial
<1>3. k \in ConnRecs /\ k.phase = "dial"
  BY DEF DialInv, ConnRecs, Phases
<1>4. att \in [1 .. n -> AttemptStates] /\ \A i \in 1 .. n : att[i] = "none" <=> i > 1
  BY <1>1 DEF AttemptStates
<1>5. /\ d.n = n /\ d.started = 1 /\ d.att = att /\ d.launch = Delay /\ d.age = 0
  OBVIOUS
<1>6. d \in DialRecs
  <2>1. /\ n \in 0 .. MaxCandidates /\ 1 \in 0 .. MaxCandidates /\ Delay \in 0 .. Delay
        /\ ConnectTimeout \in 0 .. ConnectTimeout /\ 0 \in 0 .. Delay
        /\ 0 \in 0 .. MaxCandidates
    BY <1>1, SocksAssumption
  <2> HIDE DEF att
  <2> QED BY <1>4, <2>1, IsDialRec
<1>7. InFlight(d) = {1}
  <2>1. DOMAIN d.att = 1 .. n /\ \A i \in 1 .. n : d.att[i] = IF i = 1 THEN "running" ELSE "none"
    BY <1>5
  <2> HIDE DEF d
  <2> QED BY <1>1, <2>1 DEF InFlight, Ended
<1> HIDE DEF d, att, k
<1>8. Good(k, d)
  <2>1. InFlight(d) # {} /\ Cardinality(InFlight(d)) <= MaxParallel
    <3>1. Cardinality({1}) = 1
      BY FS_Singleton
    <3> QED BY <1>7, <3>1, SocksAssumption
  <2>2. d.started \in 1 .. d.n /\ d.launch + d.age = Delay /\ d.started \in 0 .. d.n
    BY <1>1, <1>5, SocksAssumption
  <2>3. Dialling(d)
    BY <1>4, <1>5, <2>1, <2>2 DEF Dialling
  <2> QED BY <1>3, <1>4, <1>5, <1>6, <2>2, <2>3 DEF Good
<1>9. DialRaceSpec!Step(DialRaceOf(conn[c], dial[c]), DialRaceOf(k, d))
  <2>1. DialRaceOf(conn[c], dial[c]).phase = "idle"
    BY <1>2 DEF DialRaceOf
  <2> DEFINE t == DialRaceOf(k, d)
  <2>2. DialRaceSpec!Racing(t)
    BY <1>3, <1>8, RacingOf
  <2>3. /\ t.started = 1 .. d.started
        /\ t.failed = {i \in 1 .. d.n : d.att[i] \in Lost}
        /\ t.connected = {i \in 1 .. d.n : d.att[i] = "ok"}
    BY <1>3, <1>8, RacingOf
  <2> HIDE DEF t
  <2>4. t.started # {} /\ t.failed = {} /\ t.connected = {}
    <3>1. \A i \in 1 .. n : d.att[i] \in {"running", "none"}
      BY <1>5 DEF att
    <3> QED BY <1>5, <2>3, <3>1 DEF Lost
  <2> QED BY <2>1, <2>2, <2>4 DEF t, DialRaceSpec!Step, DialRaceSpec!Begin
<1>10. conn'[c] = k /\ dial'[c] = d /\ conn[c].phase # "dial"
  BY <1>2 DEF DialInv
<1> QED BY <1>2, <1>8, <1>9, <1>10 DEF OneMoves, Moved

\* An attempt returns.
LEMMA MoveAttempt ==
  ASSUME DialInv, NEW c \in Conns, NEW i \in DOMAIN dial[c].att, AttemptEnds(c, i)
  PROVE  OneMoves(c)
<1> DEFINE d == dial[c]
<1>1. PICK s \in {"ok"} \cup Errors : dial' = [dial EXCEPT ![c].att[i] = s]
  BY DEF AttemptEnds
<1> DEFINE e == [d EXCEPT !.att[i] = s]
<1>2. Good(conn[c], d) /\ d.att[i] = "running" /\ conn[c].phase = "dial" /\ conn' = conn
  BY DEF AttemptEnds, DialInv
<1>3. dial' = [dial EXCEPT ![c] = e]
  BY <1>1
<1>4. i \in 1 .. d.n /\ d \in DialRecs /\ d.att \in [1 .. d.n -> AttemptStates]
  BY <1>2 DEF Good
<1>5. s \in Ended /\ s \in AttemptStates /\ s # "none" /\ s \notin Lost
  BY SocksAssumption DEF Ended, AttemptStates, Lost
<1>6. e.n = d.n /\ e.started = d.started /\ e.att = [d.att EXCEPT ![i] = s]
  BY <1>4, <1>5, SetAttempt
<1>7. \A j \in 1 .. d.n : e.att[j] = IF j = i THEN s ELSE d.att[j]
  <2> HIDE DEF e, d
  <2> QED BY <1>4, <1>6
<1>8. InFlight(e) # {}
  <2>1. i \in DOMAIN e.att /\ e.att[i] = s
    <3> HIDE DEF e, d
    <3> QED BY <1>4, <1>6
  <2> HIDE DEF e
  <2> QED BY <1>5, <2>1 DEF InFlight
<1>9. Good(conn[c], e)
  BY <1>2, <1>4, <1>5, <1>8, AttemptGood
<1>10. dial'[c] = e
  BY <1>3 DEF DialInv
<1>11. d.started \in Nat /\ \A j \in 1 .. d.n : d.att[j] # "none" => j <= d.started
  <2>1. Dialling(d) /\ d.started \in Nat /\ d.n \in Nat
    BY <1>2, SocksAssumption DEF Good, DialRecs
  <2> HIDE DEF d
  <2> QED BY <2>1 DEF Dialling
<1> HIDE DEF e, d
<1>12. DialRaceSpec!Step(DialRaceOf(conn[c], d), DialRaceOf(conn[c], e))
  <2>1. ASSUME NEW j \in 1 .. d.n
        PROVE  /\ d.att[j] \in Lost => e.att[j] \in Lost
               /\ d.att[j] = "ok" => e.att[j] = "ok"
               /\ e.att[j] \in Lost \cup {"ok"} => j <= d.started
    BY <1>2, <1>5, <1>7, <1>11 DEF Lost
  <2>2. d.started <= e.started
    BY <1>6, <1>11
  <2> QED BY <1>2, <1>6, <1>9, <2>1, <2>2, AdvanceOf
<1>13. ~ e.started > d.started
  BY <1>6, <1>11
<1>14. conn' = [conn EXCEPT ![c] = conn'[c]]
  BY <1>2 DEF DialInv
<1> QED BY <1>2, <1>3, <1>9, <1>10, <1>12, <1>13, <1>14 DEF OneMoves, Moved, d

\* An attempt wins.
LEMMA MoveWins ==
  ASSUME DialInv, NEW c \in Conns, NEW i \in DOMAIN dial[c].att, JoinOk(c, i)
  PROVE  OneMoves(c)
<1> DEFINE d == dial[c]
           k == [phase |-> "relay", record |-> "ok"]
           e == [NoDial EXCEPT !.winner = i]
<1>1. /\ conn[c].phase = "dial" /\ d.att[i] = "ok"
      /\ conn' = [conn EXCEPT ![c] = k] /\ dial' = [dial EXCEPT ![c] = e]
  BY DEF JoinOk
<1>2. Good(conn[c], d)
  BY DEF DialInv
<1>3. i \in 1 .. d.n /\ d.n \in 0 .. MaxCandidates /\ d.started \in Nat
  BY <1>2, SocksAssumption DEF Good, DialRecs
<1>4. i \in 1 .. MaxCandidates
  BY <1>3, SocksAssumption
<1>5. e = [n |-> 0, started |-> 0, att |-> <<>>, launch |-> 0, deadline |-> 0, age |-> 0,
           winner |-> i]
  BY DEF NoDial
<1>6. Good(k, e)
  <2>1. <<>> \in [1 .. 0 -> AttemptStates]
    OBVIOUS
  <2>2. /\ 0 \in 0 .. MaxCandidates /\ 0 \in 0 .. Delay /\ 0 \in 0 .. ConnectTimeout
        /\ i \in 0 .. MaxCandidates
    BY <1>4, SocksAssumption
  <2> HIDE DEF e
  <2>3. e \in DialRecs
    BY <1>5, <2>1, <2>2, IsDialRec
  <2>4. e.n = 0 /\ e.started = 0 /\ e.att = <<>> /\ e.winner = i
    BY <1>5
  <2>5. k \in ConnRecs /\ k.phase = "relay"
    BY DEF ConnRecs, Phases
  <2> HIDE DEF k
  <2> QED BY <1>4, <2>1, <2>3, <2>4, <2>5 DEF Good
<1>7. e.started = 0 /\ e.winner = i
  <2> HIDE DEF e
  <2> QED BY <1>5
<1>8. DialRaceSpec!Step(DialRaceOf(conn[c], d), DialRaceOf(k, e))
  <2>1. DialRaceOf(k, e) = DialRaceSpec!At("won", {i})
    <3> HIDE DEF e
    <3> QED BY <1>7 DEF DialRaceOf, DialRaceSpec!At
  <2>2. /\ DialRaceOf(conn[c], d).phase = "racing"
        /\ DialRaceOf(conn[c], d).connected = {j \in 1 .. d.n : d.att[j] = "ok"}
    BY <1>1, <1>2, RacingOf
  <2>3. i \in DialRaceOf(conn[c], d).connected
    BY <1>1, <1>3, <2>2
  <2> QED BY <2>1, <2>2, <2>3 DEF DialRaceSpec!Step, DialRaceSpec!Win
<1>9. conn'[c] = k /\ dial'[c] = e
  BY <1>1 DEF DialInv
<1>10. ~ e.started > d.started
  BY <1>3, <1>7
<1> HIDE DEF e, k
<1> QED BY <1>1, <1>6, <1>8, <1>9, <1>10 DEF OneMoves, Moved

\* The launch timer fires.
LEMMA MoveLaunches ==
  ASSUME DialInv, NEW c \in Conns, Launch(c)
  PROVE  OneMoves(c)
<1> DEFINE d == dial[c]
           e == StartNext(d)
<1>1. /\ conn[c].phase = "dial" /\ conn' = conn
      /\ dial' = [dial EXCEPT ![c] = e]
      /\ d.launch = 0 /\ d.started < d.n /\ Cardinality(InFlight(d)) < MaxParallel
  BY DEF Launch, MayLaunch
<1>2. Good(conn[c], d)
  BY DEF DialInv
<1> HIDE DEF d
<1>3. /\ d \in DialRecs /\ d.att \in [1 .. d.n -> AttemptStates] /\ Dialling(d)
      /\ conn[c] \in ConnRecs /\ d.n \in Nat /\ d.started \in Nat
  BY <1>1, <1>2, SocksAssumption DEF Good, DialRecs
<1>4. d.started \in 1 .. d.n - 1 /\ \A j \in 1 .. d.n : d.att[j] = "none" <=> j > d.started
  BY <1>1, <1>3 DEF Dialling
<1>5. Good(conn[c], e)
  BY <1>1, <1>3, <1>4, StartNextGood
<1>6. /\ e.n = d.n /\ e.started = d.started + 1
      /\ e.att = [d.att EXCEPT ![d.started + 1] = "running"]
  BY <1>1, <1>3, StartNextSets
<1>7. d.age = Delay
  <2>1. d.launch + d.age = Delay /\ d.age \in Nat
    BY <1>3, SocksAssumption DEF Dialling, DialRecs
  <2> QED BY <1>1, <2>1
<1> HIDE DEF e
<1>8. DialRaceSpec!Step(DialRaceOf(conn[c], d), DialRaceOf(conn[c], e))
  <2>1. \A j \in 1 .. d.n : e.att[j] = IF j = d.started + 1 THEN "running" ELSE d.att[j]
    BY <1>3, <1>4, <1>6
  <2>2. d.started + 1 \in 1 .. d.n /\ d.att[d.started + 1] = "none"
    BY <1>3, <1>4
  <2>3. ASSUME NEW j \in 1 .. d.n
        PROVE  /\ d.att[j] \in Lost => e.att[j] \in Lost
               /\ d.att[j] = "ok" => e.att[j] = "ok"
               /\ e.att[j] \in Lost \cup {"ok"} => j <= d.started
    <3>1. CASE j = d.started + 1
      BY <2>1, <2>2, <3>1 DEF Lost
    <3>2. CASE j # d.started + 1
      BY <1>3, <1>4, <2>1, <3>2 DEF Lost
    <3> QED BY <3>1, <3>2
  <2>4. d.started <= e.started
    BY <1>3, <1>6
  <2> QED BY <1>1, <1>2, <1>5, <1>6, <2>3, <2>4, AdvanceOf
<1>9. conn' = [conn EXCEPT ![c] = conn'[c]] /\ dial'[c] = e
  BY <1>1 DEF DialInv
<1> QED BY <1>1, <1>5, <1>7, <1>8, <1>9 DEF OneMoves, Moved, d

\* An attempt has failed, and the dial goes on.
LEMMA MoveJoins ==
  ASSUME DialInv, NEW c \in Conns, NEW i \in DOMAIN dial[c].att, JoinFailed(c, i)
  PROVE  OneMoves(c)
<1> DEFINE d == dial[c]
           s == IF d.att[i] = "error" THEN "failed" ELSE "refused"
           j == [d EXCEPT !.att[i] = s]
           e == IF InFlight(j) = {} THEN StartNext(j) ELSE j
<1>1. /\ conn[c].phase = "dial" /\ conn' = conn /\ d.att[i] \in {"error", "notReady"}
      /\ InFlight(j) # {} \/ j.started < j.n
      /\ dial' = [dial EXCEPT ![c] = e]
  BY DEF JoinFailed
<1>2. Good(conn[c], d) /\ i \in DOMAIN d.att
  BY DEF DialInv
<1> HIDE DEF d
<1>3. /\ d \in DialRecs /\ d.att \in [1 .. d.n -> AttemptStates] /\ Dialling(d)
      /\ conn[c] \in ConnRecs /\ d.n \in Nat /\ d.started \in 1 .. d.n /\ i \in 1 .. d.n
  <2>1. /\ d \in DialRecs /\ d.att \in [1 .. d.n -> AttemptStates] /\ Dialling(d)
        /\ conn[c] \in ConnRecs
    BY <1>1, <1>2 DEF Good
  <2>2. d.n \in Nat
    BY <2>1, SocksAssumption DEF DialRecs
  <2> QED BY <1>2, <2>1, <2>2 DEF Dialling
<1>4. s \in Lost /\ s \in AttemptStates /\ s # "none" /\ s # "ok"
  BY DEF Lost, AttemptStates
<1> HIDE DEF s
<1>5. /\ j \in DialRecs /\ j.n = d.n /\ j.started = d.started
      /\ j.att = [d.att EXCEPT ![i] = s] /\ j.att \in [1 .. d.n -> AttemptStates]
  BY <1>3, <1>4, SetAttempt
<1>6. Good(conn[c], j) \/ InFlight(j) = {}
  BY <1>1, <1>2, <1>3, <1>4, AttemptGood DEF Ended
<1> HIDE DEF j
<1>7. \A x \in 1 .. d.n : j.att[x] = IF x = i THEN s ELSE d.att[x]
  BY <1>3, <1>5
<1>8. \A x \in 1 .. d.n : d.att[x] = "none" <=> x > d.started
  BY <1>3 DEF Dialling
<1>9. \A x \in 1 .. d.n : j.att[x] = "none" <=> x > d.started
  BY <1>1, <1>4, <1>7, <1>8
<1>10. ASSUME NEW x \in 1 .. d.n
       PROVE  /\ d.att[x] \in Lost => j.att[x] \in Lost
              /\ d.att[x] = "ok" => j.att[x] = "ok"
              /\ j.att[x] \in Lost \cup {"ok"} => x <= d.started
  <2>1. j.att[x] # "none" => x <= d.started
    BY <1>3, <1>9
  <2> QED BY <1>1, <1>4, <1>7, <2>1 DEF Lost
<1>11. CASE InFlight(j) # {}
  <2>1. e = j /\ Good(conn[c], j)
    BY <1>6, <1>11
  <2>2. d.started <= j.started /\ ~ j.started > d.started
    BY <1>3, <1>5
  <2>3. DialRaceSpec!Step(DialRaceOf(conn[c], d), DialRaceOf(conn[c], j))
    BY <1>1, <1>2, <1>5, <1>10, <2>1, <2>2, AdvanceOf
  <2>4. conn' = [conn EXCEPT ![c] = conn'[c]] /\ dial'[c] = j
    BY <1>1, <2>1 DEF DialInv
  <2> QED BY <1>1, <2>1, <2>2, <2>3, <2>4 DEF OneMoves, Moved, d
<1>12. CASE InFlight(j) = {}
  <2>1. e = StartNext(j) /\ d.started < d.n
    BY <1>1, <1>5, <1>12
  <2> HIDE DEF e
  <2>2. Cardinality(InFlight(j)) = 0
    BY <1>12, FS_EmptySet
  <2>3. Good(conn[c], e) /\ Cardinality(InFlight(e)) = 1
    <3>1. j.started \in 1 .. j.n - 1 /\ Cardinality(InFlight(j)) < MaxParallel
      BY <1>3, <1>5, <2>1, <2>2, SocksAssumption
    <3>2. /\ j.att \in [1 .. j.n -> AttemptStates]
          /\ \A x \in 1 .. j.n : j.att[x] = "none" <=> x > j.started
      BY <1>5, <1>9
    <3>3. Good(conn[c], e) /\ Cardinality(InFlight(e)) = Cardinality(InFlight(j)) + 1
      BY <1>1, <1>3, <1>5, <2>1, <3>1, <3>2, StartNextGood
    <3> QED BY <2>2, <3>3
  <2>4. /\ e.n = d.n /\ e.started = d.started + 1
        /\ e.att = [j.att EXCEPT ![d.started + 1] = "running"]
    BY <1>5, <2>1, StartNextSets
  <2>5. d.started + 1 \in 1 .. d.n
    BY <1>3, <2>1
  <2>6. \A x \in 1 .. d.n : e.att[x] = IF x = d.started + 1 THEN "running" ELSE j.att[x]
    BY <1>5, <2>4, <2>5
  <2>7. ASSUME NEW x \in 1 .. d.n
        PROVE  /\ d.att[x] \in Lost => e.att[x] \in Lost
               /\ d.att[x] = "ok" => e.att[x] = "ok"
               /\ e.att[x] \in Lost \cup {"ok"} => x <= d.started
    <3>1. CASE x = d.started + 1
      <4>1. d.att[x] = "none" /\ e.att[x] = "running"
        BY <1>3, <1>8, <2>6, <3>1
      <4> QED BY <4>1 DEF Lost
    <3>2. CASE x # d.started + 1
      BY <1>10, <2>6, <3>2
    <3> QED BY <3>1, <3>2
  <2>8. d.started <= e.started
    BY <1>3, <2>4
  <2>9. DialRaceSpec!Step(DialRaceOf(conn[c], d), DialRaceOf(conn[c], e))
    BY <1>1, <1>2, <2>3, <2>4, <2>7, <2>8, AdvanceOf
  <2>10. conn' = [conn EXCEPT ![c] = conn'[c]] /\ dial'[c] = e
    BY <1>1 DEF DialInv
  <2> QED BY <1>1, <2>3, <2>9, <2>10 DEF OneMoves, Moved, d
<1> QED BY <1>11, <1>12

\* Every step of a handler, its attempts or its relay moves one connection.
LEMMA HandlerMoves ==
  ASSUME DialInv, NEW c \in Conns,
         \/ Accept(c) \/ Handler(c) \/ RelayEnds(c) \/ TasksDropped(c)
         \/ \E i \in 1 .. MaxCandidates : i \in DOMAIN dial[c].att /\ AttemptEnds(c, i)
  PROVE  OneMoves(c)
<1>0. /\ conn[c] \in ConnRecs /\ Good(conn[c], dial[c])
      /\ DOMAIN dial[c].att = 1 .. dial[c].n
      /\ dial = [dial EXCEPT ![c] = dial[c]]
  BY DEF DialInv, Good
<1>1. ASSUME NEW p \in Phases, p \notin {"dial", "relay", "replyErr"},
             conn' = [conn EXCEPT ![c].phase = p], UNCHANGED dial
      PROVE  OneMoves(c)
  <2> DEFINE k == [conn[c] EXCEPT !.phase = p]
  <2>1. k \in ConnRecs /\ k.phase = p
    BY <1>0 DEF ConnRecs
  <2>2. conn' = [conn EXCEPT ![c] = k] /\ dial' = [dial EXCEPT ![c] = dial[c]]
    BY <1>0, <1>1
  <2> HIDE DEF k
  <2> QED BY <1>1, <2>1, <2>2, MoveIdle
<1>2. CASE Accept(c)
  BY <1>1, <1>2 DEF Accept, Phases
<1>3. ASSUME NEW p \in {"free", "aborted"}, HandlerEnds(c, p) PROVE OneMoves(c)
  <2> DEFINE k == [phase |-> p, record |-> "none"]
  <2>1. k \in ConnRecs /\ k.phase \in {"free", "aborted"}
    BY DEF ConnRecs, Phases
  <2>2. conn' = [conn EXCEPT ![c] = k] /\ dial' = [dial EXCEPT ![c] = NoDial]
    BY <1>3 DEF HandlerEnds
  <2> HIDE DEF k
  <2> QED BY <2>1, <2>2, MoveIdle
<1>4. CASE NoDialNeeded(c)
  BY <1>1, <1>4 DEF NoDialNeeded, Phases
<1>5. CASE TakeDialPermit(c)
  BY <1>1, <1>5 DEF TakeDialPermit, Phases
<1>6. CASE ResolveFails(c)
  <2> DEFINE k == [conn[c] EXCEPT !.phase = "replyErr"]
  <2>1. k \in ConnRecs /\ k.phase = "replyErr"
    BY <1>0 DEF ConnRecs, Phases
  <2>2. conn' = [conn EXCEPT ![c] = k] /\ dial' = [dial EXCEPT ![c] = dial[c]]
        /\ conn[c].phase = "resolve"
    BY <1>0, <1>6 DEF ResolveFails
  <2> HIDE DEF k
  <2> QED BY <2>1, <2>2, MoveLost
<1> DEFINE lost == [phase |-> "replyErr", record |-> "failed"]
<1>7. lost \in ConnRecs /\ lost.phase = "replyErr"
  BY DEF ConnRecs, Phases
<1> HIDE DEF lost
<1>8. ASSUME NEW n, NoCandidate(c, n) PROVE OneMoves(c)
  <2>1. conn' = [conn EXCEPT ![c] = lost] /\ dial' = [dial EXCEPT ![c] = dial[c]]
        /\ conn[c].phase = "resolve"
    BY <1>0, <1>8 DEF NoCandidate, lost
  <2> QED BY <1>7, <2>1, MoveLost
<1>9. ASSUME NEW i \in DOMAIN dial[c].att, JoinLast(c, i) PROVE OneMoves(c)
  <2>1. conn' = [conn EXCEPT ![c] = lost] /\ dial' = [dial EXCEPT ![c] = NoDial]
        /\ conn[c].phase = "dial" /\ dial[c].att[i] # "ok" /\ InFlight(dial[c]) = {i}
    BY <1>9 DEF JoinLast, lost
  <2>2. \A x \in 1 .. dial[c].n : dial[c].att[x] # "ok"
    BY <1>0, <2>1 DEF InFlight, Ended
  <2> QED BY <1>7, <2>1, <2>2, MoveLost
<1>10. CASE DialDeadline(c)
  <2>1. conn' = [conn EXCEPT ![c] = lost] /\ dial' = [dial EXCEPT ![c] = NoDial]
        /\ conn[c].phase = "dial" /\ NothingToJoin(dial[c])
    BY <1>10 DEF DialDeadline, lost
  <2>2. \A x \in 1 .. dial[c].n : dial[c].att[x] # "ok"
    BY <1>0, <2>1 DEF NothingToJoin, Ended
  <2> QED BY <1>7, <2>1, <2>2, MoveLost
<1>11. CASE TasksDropped(c)
  BY <1>1, <1>11 DEF TasksDropped, Phases
<1> QED
  BY <1>2, <1>3, <1>4, <1>5, <1>6, <1>8, <1>9, <1>10, <1>11, MoveBegins, MoveAttempt, MoveWins,
     MoveJoins, MoveLaunches
  DEF Handler, HandshakeFails, ReplyEnds, RelayEnds, HandlerAborted

-----------------------------------------------------------------------------
(* The steps of the process.                                               *)

\* A step moves one connection, lets time pass for all dials, or touches none.
LEMMA StepCases ==
  ASSUME DialInv, [Next]_vars
  PROVE  \/ \E c \in Conns : OneMoves(c)
         \/ DialTick /\ UNCHANGED conn
         \/ UNCHANGED <<conn, dial>>
<1>1. CASE SocksNext
  <2>1. CASE StopServing \/ ServeReturns
    BY <2>1 DEF StopServing, ServeReturns
  <2> QED BY <1>1, <2>1, HandlerMoves DEF SocksNext
<1>2. CASE Tick
  BY <1>2 DEF Tick
<1>3. CASE Main
  BY <1>3 DEF Main, StartFails, StartConnect, ConnectFails, StartServices, BeginShutdown,
     DrainJoin, Drained, DrainExpires, socksVars
<1>4. CASE UNCHANGED socksVars \/ UNCHANGED vars
  BY <1>4 DEF socksVars, vars
<1> QED
  BY <1>1, <1>2, <1>3, <1>4 DEF Next, Signal, SupervisorWorks, SupervisorFails, ServiceStops

\* A tick changes the timers of a dial only.
LEMMA TickGood ==
  ASSUME DialInv, DialTick, UNCHANGED conn, NEW c \in Conns
  PROVE  /\ Good(conn[c], dial'[c])
         /\ dial'[c].started = dial[c].started /\ dial'[c].att = dial[c].att
         /\ dial'[c].winner = dial[c].winner
<1> DEFINE d == dial[c]
           e == dial'[c]
           age == IF conn[c].phase = "dial" /\ d.age < Delay THEN d.age + 1 ELSE d.age
<1>1. Good(conn[c], d)
  BY DEF DialInv
<1>2. e = [d EXCEPT !.launch = Down(d.launch), !.deadline = Down(d.deadline), !.age = age]
  BY DEF DialTick
<1> HIDE DEF d, e, age
<1>3. /\ d = [n |-> d.n, started |-> d.started, att |-> d.att, launch |-> d.launch,
              deadline |-> d.deadline, age |-> d.age, winner |-> d.winner]
      /\ d.n \in 0 .. MaxCandidates /\ d.started \in 0 .. MaxCandidates
      /\ d.launch \in 0 .. Delay /\ d.deadline \in 0 .. ConnectTimeout
      /\ d.age \in 0 .. Delay /\ d.winner \in 0 .. MaxCandidates
  BY <1>1 DEF Good, DialRecs
<1>4. e = [n |-> d.n, started |-> d.started, att |-> d.att, launch |-> Down(d.launch),
           deadline |-> Down(d.deadline), age |-> age, winner |-> d.winner]
  BY <1>2, <1>3
<1>5. d.att \in [1 .. d.n -> AttemptStates] /\ conn[c] \in ConnRecs /\ d.started \in 0 .. d.n
  BY <1>1 DEF Good
<1>6. /\ Down(d.launch) \in 0 .. Delay /\ Down(d.deadline) \in 0 .. ConnectTimeout
      /\ age \in 0 .. Delay
  BY <1>3, SocksAssumption DEF Down, age
<1>7. e \in DialRecs
  BY <1>3, <1>4, <1>5, <1>6, IsDialRec
<1>8. /\ e.n = d.n /\ e.started = d.started /\ e.att = d.att /\ e.winner = d.winner
      /\ e.launch = Down(d.launch) /\ e.age = age
  BY <1>4
<1>9. conn[c].phase = "dial" => Dialling(e)
  <2> SUFFICES ASSUME conn[c].phase = "dial" PROVE Dialling(e)
    OBVIOUS
  <2>1. Dialling(d)
    BY <1>1 DEF Good
  <2>2. InFlight(e) = InFlight(d)
    BY <1>8 DEF InFlight
  <2>3. d.launch + d.age = Delay
    BY <2>1 DEF Dialling
  <2>4. Down(d.launch) + age = Delay
    BY <1>3, <2>3, SocksAssumption DEF Down, age
  <2> QED BY <1>8, <2>1, <2>2, <2>4 DEF Dialling
<1>10. Good(conn[c], e)
  BY <1>1, <1>5, <1>7, <1>8, <1>9 DEF Good
<1> QED BY <1>8, <1>10 DEF d, e

\* The connections stay good.
LEMMA DialStep ==
  ASSUME DialInv, [Next]_vars
  PROVE  DialInv'
<1>1. ASSUME NEW c \in Conns, OneMoves(c) PROVE DialInv'
  <2>1. Good(conn'[c], dial'[c])
    BY <1>1 DEF OneMoves, Moved
  <2>2. conn'[c] \in ConnRecs /\ dial'[c] \in DialRecs
    BY <2>1 DEF Good
  <2>3. conn' \in [Conns -> ConnRecs] /\ dial' \in [Conns -> DialRecs]
    BY <1>1, <2>2 DEF OneMoves, DialInv
  <2>4. \A x \in Conns : x # c => conn'[x] = conn[x] /\ dial'[x] = dial[x]
    BY <1>1 DEF OneMoves, DialInv
  <2> QED BY <2>1, <2>3, <2>4 DEF DialInv
<1>2. CASE DialTick /\ UNCHANGED conn
  <2>1. \A c \in Conns : Good(conn[c], dial'[c])
    BY <1>2, TickGood
  <2>2. \A c \in Conns : dial'[c] \in DialRecs
    BY <2>1 DEF Good
  <2>3. dial' = [c \in Conns |-> dial'[c]]
    BY <1>2 DEF DialTick
  <2> QED BY <1>2, <2>1, <2>2, <2>3 DEF DialInv
<1>3. CASE UNCHANGED <<conn, dial>>
  BY <1>3 DEF DialInv
<1> QED BY <1>1, <1>2, <1>3, StepCases

-----------------------------------------------------------------------------
(* The permits.                                                            *)

ConnHolders == {c \in Conns : HoldsConn(conn[c].phase)}
DialHolders == {c \in Conns : HoldsDial(conn[c].phase)}

PermitInv ==
    /\ connFree \in Nat /\ dialFree \in Nat
    /\ PermitsConserved

\* A subset of the connections, when one of them joins or leaves it.
LEMMA SubsetSizes ==
  ASSUME NEW S \in SUBSET Conns, NEW c \in Conns
  PROVE  /\ Cardinality(S) \in Nat
         /\ c \notin S => Cardinality(S \cup {c}) = Cardinality(S) + 1
         /\ c \in S => Cardinality(S \ {c}) = Cardinality(S) - 1
<1>1. IsFiniteSet(S)
  BY SocksAssumption, FS_Subset
<1> QED BY <1>1, FS_CardinalityType, FS_AddElement, FS_RemoveElement

\* What the move of one connection does to the numbers of holders.
LEMMA HolderCounts ==
  ASSUME conn \in [Conns -> ConnRecs], NEW c \in Conns, NEW k,
         conn' = [conn EXCEPT ![c] = k]
  PROVE  /\ Cardinality(ConnHolders') =
              Cardinality(ConnHolders) + (IF HoldsConn(k.phase) THEN 1 ELSE 0)
                                       - (IF HoldsConn(conn[c].phase) THEN 1 ELSE 0)
         /\ Cardinality(DialHolders') =
              Cardinality(DialHolders) + (IF HoldsDial(k.phase) THEN 1 ELSE 0)
                                       - (IF HoldsDial(conn[c].phase) THEN 1 ELSE 0)
<1>1. ConnHolders' = IF HoldsConn(k.phase) THEN ConnHolders \cup {c} ELSE ConnHolders \ {c}
  BY DEF ConnHolders, HoldsConn
<1>2. DialHolders' = IF HoldsDial(k.phase) THEN DialHolders \cup {c} ELSE DialHolders \ {c}
  BY DEF DialHolders, HoldsDial
<1>3. /\ ConnHolders \in SUBSET Conns /\ DialHolders \in SUBSET Conns
      /\ c \in ConnHolders <=> HoldsConn(conn[c].phase)
      /\ c \in DialHolders <=> HoldsDial(conn[c].phase)
  BY DEF ConnHolders, DialHolders
<1>4. ASSUME NEW S \in SUBSET Conns, NEW T, NEW in \in BOOLEAN,
             T = IF in THEN S \cup {c} ELSE S \ {c}
      PROVE  Cardinality(T) = Cardinality(S) + (IF in THEN 1 ELSE 0)
                                             - (IF c \in S THEN 1 ELSE 0)
  <2> DEFINE size == Cardinality(S)
  <2>1. size \in Nat
    BY SubsetSizes
  <2>2. CASE c \in S /\ in
    <3>1. T = S
      BY <1>4, <2>2
    <3> HIDE DEF size
    <3> QED BY <2>1, <2>2, <3>1 DEF size
  <2>3. CASE c \in S /\ ~ in
    <3>1. T = S \ {c}
      BY <1>4, <2>3
    <3>2. Cardinality(T) = size - 1
      BY <2>3, <3>1, SubsetSizes
    <3> QED BY <2>1, <2>3, <3>2
  <2>4. CASE c \notin S /\ in
    <3>1. T = S \cup {c}
      BY <1>4, <2>4
    <3>2. Cardinality(T) = size + 1
      BY <2>4, <3>1, SubsetSizes
    <3> QED BY <2>1, <2>4, <3>2
  <2>5. CASE c \notin S /\ ~ in
    <3>1. T = S
      BY <1>4, <2>5
    <3> QED BY <2>1, <2>5, <3>1
  <2> QED BY <2>2, <2>3, <2>4, <2>5
<1>5. HoldsConn(k.phase) \in BOOLEAN /\ HoldsDial(k.phase) \in BOOLEAN
  BY DEF HoldsConn, HoldsDial
<1>6. Cardinality(ConnHolders') =
        Cardinality(ConnHolders) + (IF HoldsConn(k.phase) THEN 1 ELSE 0)
                                 - (IF c \in ConnHolders THEN 1 ELSE 0)
  BY <1>1, <1>3, <1>4, <1>5
<1>7. Cardinality(DialHolders') =
        Cardinality(DialHolders) + (IF HoldsDial(k.phase) THEN 1 ELSE 0)
                                 - (IF c \in DialHolders THEN 1 ELSE 0)
  BY <1>2, <1>3, <1>4, <1>5
<1> QED BY <1>3, <1>6, <1>7

\* The permits after a move that gives back what it stops to hold.
LEMMA PermitMove ==
  ASSUME DialInv, PermitInv, NEW c \in Conns, NEW k,
         conn' = [conn EXCEPT ![c] = k], connFree' \in Nat, dialFree' \in Nat,
         connFree' = connFree + (IF HoldsConn(conn[c].phase) THEN 1 ELSE 0)
                              - (IF HoldsConn(k.phase) THEN 1 ELSE 0),
         dialFree' = dialFree + (IF HoldsDial(conn[c].phase) THEN 1 ELSE 0)
                              - (IF HoldsDial(k.phase) THEN 1 ELSE 0)
  PROVE  PermitInv'
<1>1. /\ connFree \in Nat /\ dialFree \in Nat
      /\ connFree + Cardinality(ConnHolders) = MaxConnections
      /\ dialFree + Cardinality(DialHolders) = MaxDials
  BY DEF PermitInv, PermitsConserved, ConnHolders, DialHolders
<1>2. Cardinality(ConnHolders) \in Nat /\ Cardinality(DialHolders) \in Nat
  <2>1. ConnHolders \in SUBSET Conns /\ DialHolders \in SUBSET Conns
    BY DEF ConnHolders, DialHolders
  <2> QED BY <2>1, SubsetSizes
<1>3. conn \in [Conns -> ConnRecs]
  BY DEF DialInv
<1>4. /\ connFree' + Cardinality(ConnHolders') = MaxConnections
      /\ dialFree' + Cardinality(DialHolders') = MaxDials
  <2> DEFINE oldC == IF HoldsConn(conn[c].phase) THEN 1 ELSE 0
             newC == IF HoldsConn(k.phase) THEN 1 ELSE 0
             oldD == IF HoldsDial(conn[c].phase) THEN 1 ELSE 0
             newD == IF HoldsDial(k.phase) THEN 1 ELSE 0
  <2>1. oldC \in Int /\ newC \in Int /\ oldD \in Int /\ newD \in Int
    OBVIOUS
  <2>2. /\ Cardinality(ConnHolders') = Cardinality(ConnHolders) + newC - oldC
        /\ Cardinality(DialHolders') = Cardinality(DialHolders) + newD - oldD
    BY <1>3, HolderCounts
  <2>3. connFree' = connFree + oldC - newC /\ dialFree' = dialFree + oldD - newD
    OBVIOUS
  <2> HIDE DEF oldC, newC, oldD, newD
  <2> QED BY <1>1, <1>2, <2>1, <2>2, <2>3
<1> QED BY <1>4 DEF PermitInv, PermitsConserved, ConnHolders, DialHolders

\* A move that changes no permits and does not change what is held.
LEMMA PermitKept ==
  ASSUME DialInv, PermitInv, NEW c \in Conns, NEW k, conn' = [conn EXCEPT ![c] = k],
         UNCHANGED <<connFree, dialFree>>,
         HoldsConn(k.phase) <=> HoldsConn(conn[c].phase),
         HoldsDial(k.phase) <=> HoldsDial(conn[c].phase)
  PROVE  PermitInv'
<1>1. connFree \in Nat /\ dialFree \in Nat
  BY DEF PermitInv
<1>2. connFree' = connFree + (IF HoldsConn(conn[c].phase) THEN 1 ELSE 0)
                           - (IF HoldsConn(k.phase) THEN 1 ELSE 0)
  BY <1>1
<1>3. dialFree' = dialFree + (IF HoldsDial(conn[c].phase) THEN 1 ELSE 0)
                           - (IF HoldsDial(k.phase) THEN 1 ELSE 0)
  BY <1>1
<1>4. connFree' \in Nat /\ dialFree' \in Nat
  BY <1>1
<1> QED BY <1>2, <1>3, <1>4, PermitMove

\* A handler ends: all its permits come back.
LEMMA PermitHandlerEnds ==
  ASSUME DialInv, PermitInv, NEW c \in Conns, NEW p \in {"free", "aborted"},
         HandlerEnds(c, p), HoldsConn(conn[c].phase)
  PROVE  PermitInv'
<1> DEFINE k == [phase |-> p, record |-> "none"]
<1>1. /\ conn' = [conn EXCEPT ![c] = k] /\ connFree' = connFree + 1
      /\ dialFree' = IF HoldsDial(conn[c].phase) THEN dialFree + 1 ELSE dialFree
  BY DEF HandlerEnds
<1>2. ~ HoldsConn(k.phase) /\ ~ HoldsDial(k.phase)
  BY DEF HoldsConn, HoldsDial
<1>3. connFree \in Nat /\ dialFree \in Nat
  BY DEF PermitInv
<1> HIDE DEF k
<1>4. connFree' \in Nat /\ dialFree' \in Nat
  BY <1>1, <1>3
<1>5. connFree' = connFree + (IF HoldsConn(conn[c].phase) THEN 1 ELSE 0)
                           - (IF HoldsConn(k.phase) THEN 1 ELSE 0)
  BY <1>1, <1>2, <1>3
<1>6. dialFree' = dialFree + (IF HoldsDial(conn[c].phase) THEN 1 ELSE 0)
                           - (IF HoldsDial(k.phase) THEN 1 ELSE 0)
  BY <1>1, <1>2, <1>3
<1> QED BY <1>1, <1>4, <1>5, <1>6, PermitMove

\* Every step of a connection keeps the account of the permits.
LEMMA PermitHandler ==
  ASSUME DialInv, PermitInv, NEW c \in Conns,
         \/ Accept(c) \/ Handler(c) \/ RelayEnds(c) \/ TasksDropped(c)
         \/ \E i \in 1 .. MaxCandidates : i \in DOMAIN dial[c].att /\ AttemptEnds(c, i)
  PROVE  PermitInv'
<1>0. connFree \in Nat /\ dialFree \in Nat /\ conn[c] \in ConnRecs
  BY DEF PermitInv, DialInv
<1>1. CASE UNCHANGED <<conn, connFree, dialFree>>
  BY <1>1 DEF PermitInv, PermitsConserved
<1>2. CASE Accept(c)
  <2> DEFINE k == [conn[c] EXCEPT !.phase = "handshake"]
  <2>1. /\ conn' = [conn EXCEPT ![c] = k] /\ connFree' = connFree - 1 /\ connFree > 0
        /\ dialFree' = dialFree /\ conn[c].phase = "free" /\ k.phase = "handshake"
    BY <1>0, <1>2 DEF Accept, ConnRecs
  <2> HIDE DEF k
  <2>2. HoldsConn(k.phase) /\ ~ HoldsConn(conn[c].phase)
        /\ ~ HoldsDial(k.phase) /\ ~ HoldsDial(conn[c].phase)
    BY <2>1 DEF HoldsConn, HoldsDial
  <2>3. connFree' \in Nat /\ dialFree' \in Nat
    BY <1>0, <2>1
  <2>4. connFree' = connFree + (IF HoldsConn(conn[c].phase) THEN 1 ELSE 0)
                             - (IF HoldsConn(k.phase) THEN 1 ELSE 0)
    BY <1>0, <2>1, <2>2
  <2>5. dialFree' = dialFree + (IF HoldsDial(conn[c].phase) THEN 1 ELSE 0)
                             - (IF HoldsDial(k.phase) THEN 1 ELSE 0)
    BY <1>0, <2>1, <2>2
  <2> QED BY <2>1, <2>3, <2>4, <2>5, PermitMove
<1>3. CASE TakeDialPermit(c)
  <2> DEFINE k == [conn[c] EXCEPT !.phase = "resolve"]
  <2>1. /\ conn' = [conn EXCEPT ![c] = k] /\ dialFree' = dialFree - 1 /\ dialFree > 0
        /\ connFree' = connFree /\ conn[c].phase = "handshake" /\ k.phase = "resolve"
    BY <1>0, <1>3 DEF TakeDialPermit, ConnRecs
  <2> HIDE DEF k
  <2>2. HoldsConn(k.phase) /\ HoldsConn(conn[c].phase)
        /\ HoldsDial(k.phase) /\ ~ HoldsDial(conn[c].phase)
    BY <2>1 DEF HoldsConn, HoldsDial
  <2>3. connFree' \in Nat /\ dialFree' \in Nat
    BY <1>0, <2>1
  <2>4. connFree' = connFree + (IF HoldsConn(conn[c].phase) THEN 1 ELSE 0)
                             - (IF HoldsConn(k.phase) THEN 1 ELSE 0)
    BY <1>0, <2>1, <2>2
  <2>5. dialFree' = dialFree + (IF HoldsDial(conn[c].phase) THEN 1 ELSE 0)
                             - (IF HoldsDial(k.phase) THEN 1 ELSE 0)
    BY <1>0, <2>1, <2>2
  <2> QED BY <2>1, <2>3, <2>4, <2>5, PermitMove
<1>4. ASSUME NEW i, JoinOk(c, i) PROVE PermitInv'
  <2> DEFINE k == [phase |-> "relay", record |-> "ok"]
  <2>1. /\ conn' = [conn EXCEPT ![c] = k] /\ dialFree' = dialFree + 1
        /\ connFree' = connFree /\ conn[c].phase = "dial" /\ k.phase = "relay"
    BY <1>4 DEF JoinOk
  <2> HIDE DEF k
  <2>2. HoldsConn(k.phase) /\ HoldsConn(conn[c].phase)
        /\ ~ HoldsDial(k.phase) /\ HoldsDial(conn[c].phase)
    BY <2>1 DEF HoldsConn, HoldsDial
  <2>3. connFree' \in Nat /\ dialFree' \in Nat
    BY <1>0, <2>1
  <2>4. connFree' = connFree + (IF HoldsConn(conn[c].phase) THEN 1 ELSE 0)
                             - (IF HoldsConn(k.phase) THEN 1 ELSE 0)
    BY <1>0, <2>1, <2>2
  <2>5. dialFree' = dialFree + (IF HoldsDial(conn[c].phase) THEN 1 ELSE 0)
                             - (IF HoldsDial(k.phase) THEN 1 ELSE 0)
    BY <1>0, <2>1, <2>2
  <2> QED BY <2>1, <2>3, <2>4, <2>5, PermitMove
<1>5. ASSUME NEW p \in Phases, conn' = [conn EXCEPT ![c].phase = p],
             UNCHANGED <<connFree, dialFree>>,
             HoldsConn(p) <=> HoldsConn(conn[c].phase),
             HoldsDial(p) <=> HoldsDial(conn[c].phase)
      PROVE  PermitInv'
  <2> DEFINE k == [conn[c] EXCEPT !.phase = p]
  <2>1. conn' = [conn EXCEPT ![c] = k] /\ k.phase = p
    BY <1>0, <1>5 DEF ConnRecs
  <2> HIDE DEF k
  <2> QED BY <1>5, <2>1, PermitKept
<1>6. CASE NoDialNeeded(c)
  BY <1>5, <1>6 DEF NoDialNeeded, HoldsConn, HoldsDial, Phases
<1>7. CASE ResolveFails(c)
  BY <1>5, <1>7 DEF ResolveFails, HoldsConn, HoldsDial, Phases
<1>8. ASSUME NEW n, BeginDial(c, n) PROVE PermitInv'
  BY <1>5, <1>8 DEF BeginDial, HoldsConn, HoldsDial, Phases
<1>9. ASSUME conn' = [conn EXCEPT ![c] = [phase |-> "replyErr", record |-> "failed"]],
             UNCHANGED <<connFree, dialFree>>, conn[c].phase \in {"resolve", "dial"}
      PROVE  PermitInv'
  <2> DEFINE k == [phase |-> "replyErr", record |-> "failed"]
  <2>1. k.phase = "replyErr" /\ conn' = [conn EXCEPT ![c] = k]
    BY <1>9
  <2> HIDE DEF k
  <2>2. /\ HoldsConn(k.phase) <=> HoldsConn(conn[c].phase)
        /\ HoldsDial(k.phase) <=> HoldsDial(conn[c].phase)
    BY <1>9, <2>1 DEF HoldsConn, HoldsDial
  <2> QED BY <1>9, <2>1, <2>2, PermitKept
<1>10. ASSUME NEW i, NEW n, NoCandidate(c, n) \/ JoinLast(c, i) \/ DialDeadline(c)
       PROVE  PermitInv'
  BY <1>9, <1>10 DEF NoCandidate, JoinLast, DialDeadline
<1>11. ASSUME NEW i, JoinFailed(c, i) \/ Launch(c) \/ AttemptEnds(c, i)
       PROVE  PermitInv'
  BY <1>1, <1>11 DEF JoinFailed, Launch, AttemptEnds
<1>12. CASE HandshakeFails(c) \/ ReplyEnds(c) \/ RelayEnds(c) \/ HandlerAborted(c)
  BY <1>12, PermitHandlerEnds
  DEF HandshakeFails, ReplyEnds, RelayEnds, HandlerAborted, HoldsConn
<1>13. CASE TasksDropped(c)
  BY <1>5, <1>13 DEF TasksDropped, HoldsConn, HoldsDial, Phases
<1> QED
  BY <1>2, <1>3, <1>4, <1>6, <1>7, <1>8, <1>10, <1>11, <1>12, <1>13 DEF Handler

\* So does every step of the process.
LEMMA PermitStep ==
  ASSUME DialInv, PermitInv, [Next]_vars
  PROVE  PermitInv'
<1>1. CASE UNCHANGED <<conn, connFree, dialFree>>
  BY <1>1 DEF PermitInv, PermitsConserved
<1>2. CASE SocksNext
  <2>1. CASE StopServing \/ ServeReturns
    BY <1>1, <2>1 DEF StopServing, ServeReturns
  <2> QED BY <1>2, <2>1, PermitHandler DEF SocksNext
<1>3. CASE Tick
  BY <1>1, <1>3 DEF Tick
<1>4. CASE Main
  BY <1>1, <1>4 DEF Main, StartFails, StartConnect, ConnectFails, StartServices,
     BeginShutdown, DrainJoin, Drained, DrainExpires, socksVars
<1>5. CASE UNCHANGED socksVars \/ UNCHANGED vars
  BY <1>1, <1>5 DEF socksVars, vars
<1> QED
  BY <1>2, <1>3, <1>4, <1>5 DEF Next, Signal, SupervisorWorks, SupervisorFails, ServiceStops

-----------------------------------------------------------------------------
(* The end of the process.                                                 *)

TaskStates == {"off", "run", "busy", "ended", "joined"}

ServerTypes ==
    /\ cancel \in BOOLEAN
    /\ server \in {"off", "listening", "stopping", "returned"}
    /\ task \in [Services -> TaskStates]

\* As long as the grace period has not expired: serve is over before its task is,
\* its handlers before it, and everything before the tunnel.
StopInv ==
    ~ killed =>
        /\ task["socks"] \in {"ended", "joined"} => server = "returned"
        /\ server = "returned" => \A c \in Conns : ~ HoldsConn(conn[c].phase)
        /\ tunnel = "cleared" => \A s \in Services : task[s] = "joined"

\* A connection does not stop the server.
LEMMA ServerChanges ==
  ASSUME SocksNext
  PROVE  /\ cancel' = cancel
         /\ server' = server \/ StopServing \/ ServeReturns
<1>1. CASE StopServing \/ ServeReturns
  BY <1>1 DEF StopServing, ServeReturns
<1>2. ASSUME NEW c \in Conns,
             \/ HandshakeFails(c) \/ ReplyEnds(c) \/ RelayEnds(c) \/ HandlerAborted(c)
      PROVE  cancel' = cancel /\ server' = server
  BY <1>2 DEF HandshakeFails, ReplyEnds, RelayEnds, HandlerAborted, HandlerEnds
<1>3. ASSUME NEW c \in Conns, NEW i,
             JoinOk(c, i) \/ JoinFailed(c, i) \/ JoinLast(c, i) \/ AttemptEnds(c, i)
      PROVE  cancel' = cancel /\ server' = server
  BY <1>3 DEF JoinOk, JoinFailed, JoinLast, AttemptEnds
<1>4. ASSUME NEW c \in Conns, NEW n, NoCandidate(c, n) \/ BeginDial(c, n)
      PROVE  cancel' = cancel /\ server' = server
  BY <1>4 DEF NoCandidate, BeginDial
<1>5. ASSUME NEW c \in Conns,
             \/ Accept(c) \/ NoDialNeeded(c) \/ TakeDialPermit(c) \/ ResolveFails(c)
             \/ Launch(c) \/ DialDeadline(c) \/ TasksDropped(c)
      PROVE  cancel' = cancel /\ server' = server
  BY <1>5 DEF Accept, NoDialNeeded, TakeDialPermit, ResolveFails, Launch, DialDeadline,
     TasksDropped
<1> QED BY <1>1, <1>2, <1>3, <1>4, <1>5 DEF SocksNext, Handler

\* The types of the server.
LEMMA ServerTypeStep ==
  ASSUME ServerTypes, [Next]_vars
  PROVE  ServerTypes'
<1>1. CASE SocksNext /\ UNCHANGED mainVars
  <2>1. cancel' = cancel /\ task' = task
    BY <1>1, ServerChanges DEF mainVars
  <2>2. server' \in {"off", "listening", "stopping", "returned"}
    BY <1>1, ServerChanges DEF ServerTypes, StopServing, ServeReturns
  <2> QED BY <2>1, <2>2 DEF ServerTypes
<1>2. CASE Main
  <2>1. cancel' \in BOOLEAN
    BY <1>2 DEF ServerTypes, Main, StartFails, StartConnect, ConnectFails, StartServices,
       BeginShutdown, DrainJoin, Drained, DrainExpires
  <2>2. server' \in {"off", "listening", "stopping", "returned"}
    BY <1>2 DEF ServerTypes, Main, StartFails, StartConnect, ConnectFails, StartServices,
       BeginShutdown, DrainJoin, Drained, DrainExpires, socksVars
  <2>3. task' \in [Services -> TaskStates]
    BY <1>2 DEF ServerTypes, Main, StartFails, StartConnect, ConnectFails, StartServices,
       BeginShutdown, DrainJoin, Drained, DrainExpires, TaskStates, Services
  <2> QED BY <2>1, <2>2, <2>3 DEF ServerTypes
<1>3. CASE Signal
  BY <1>3 DEF ServerTypes, Signal, socksVars
<1>4. CASE SupervisorWorks \/ SupervisorFails \/ \E s \in Services : ServiceStops(s)
  BY <1>4 DEF ServerTypes, SupervisorWorks, SupervisorFails, ServiceStops, socksVars,
     TaskStates, Services
<1>5. CASE Tick
  BY <1>5 DEF ServerTypes, Tick
<1>6. CASE UNCHANGED <<cancel, socksVars, mainVars>> \/ UNCHANGED vars
  BY <1>6 DEF ServerTypes, socksVars, mainVars, vars
<1> QED BY <1>1, <1>2, <1>3, <1>4, <1>5, <1>6 DEF Next

\* Once serve has returned no handler begins, and until then its task is not over.
LEMMA StopStep ==
  ASSUME DialInv, ServerTypes, StopInv, [Next]_vars
  PROVE  StopInv'
<1> SUFFICES ASSUME ~ killed'
             PROVE  StopInv'
  BY DEF StopInv
<1>1. ~ killed
  BY DEF Next, Main, StartFails, StartConnect, ConnectFails, StartServices, BeginShutdown,
     DrainJoin, Drained, DrainExpires, Signal, SupervisorWorks, SupervisorFails, ServiceStops,
     mainVars, Tick, vars
<1>2. /\ task["socks"] \in {"ended", "joined"} => server = "returned"
      /\ server = "returned" => \A c \in Conns : ~ HoldsConn(conn[c].phase)
      /\ tunnel = "cleared" => \A s \in Services : task[s] = "joined"
  BY <1>1 DEF StopInv
<1>3. CASE UNCHANGED <<server, conn, task, tunnel, killed>>
  BY <1>3 DEF StopInv
<1>4. CASE SocksNext /\ UNCHANGED mainVars
  <2>1. task' = task /\ tunnel' = tunnel
    BY <1>4 DEF mainVars
  <2>2. CASE UNCHANGED server
    <3>1. ASSUME server = "returned", NEW c \in Conns PROVE ~ HoldsConn(conn'[c].phase)
      <4>1. \A x \in Conns : conn[x].phase \in {"free", "aborted"}
        BY <1>2, <3>1 DEF HoldsConn
      <4>2. UNCHANGED conn \/ \E x \in Conns : conn' = [conn EXCEPT ![x].phase = "free"]
        BY <1>4, <3>1, <4>1 DEF SocksNext, Accept, Handler, HandshakeFails, NoDialNeeded,
           TakeDialPermit, ResolveFails, NoCandidate, BeginDial, AttemptEnds, JoinOk, JoinFailed,
           JoinLast, Launch, DialDeadline, ReplyEnds, RelayEnds, HandlerAborted, HoldsConn,
           StopServing, ServeReturns, TasksDropped
      <4>3. CASE UNCHANGED conn
        BY <4>1, <4>3 DEF HoldsConn
      <4>4. ASSUME NEW x \in Conns, conn' = [conn EXCEPT ![x].phase = "free"]
            PROVE  conn'[c].phase \in {"free", "aborted"}
        BY <4>1, <4>4 DEF DialInv, ConnRecs
      <4> QED BY <4>2, <4>3, <4>4 DEF HoldsConn
    <3> QED BY <1>2, <2>1, <2>2, <3>1 DEF StopInv
  <2>3. CASE StopServing
    BY <1>2, <2>1, <2>3 DEF StopServing, StopInv
  <2>4. CASE ServeReturns
    BY <1>2, <2>1, <2>4 DEF ServeReturns, StopInv
  <2>5. ~ StopServing /\ ~ ServeReturns => UNCHANGED server
    BY <1>4, ServerChanges
  <2> QED BY <2>2, <2>3, <2>4, <2>5
<1>5. CASE StartServices
  <2>1. task'["socks"] = "run" /\ server' = "listening" /\ tunnel' = "up"
    BY <1>5 DEF StartServices, Services
  <2> QED BY <2>1 DEF StopInv
<1>6. ASSUME NEW s \in Services, BeginShutdown(s) \/ DrainJoin(s) \/ ServiceStops(s)
      PROVE  StopInv'
  <2>1. UNCHANGED <<server, conn, tunnel>>
    BY <1>6 DEF BeginShutdown, DrainJoin, ServiceStops, socksVars
  <2>2. task'["socks"] \in {"ended", "joined"} => server = "returned"
    BY <1>2, <1>6 DEF BeginShutdown, DrainJoin, ServiceStops, ServerTypes, Services, TaskStates
  <2>3. \A t \in Services : task[t] = "joined" => task'[t] = "joined"
    BY <1>6 DEF BeginShutdown, DrainJoin, ServiceStops, ServerTypes
  <2> QED BY <1>2, <2>1, <2>2, <2>3 DEF StopInv
<1>7. CASE Drained
  BY <1>2, <1>7 DEF Drained, Finish, StopInv, socksVars
<1>8. CASE DrainExpires
  BY <1>8 DEF DrainExpires
<1>9. CASE SupervisorWorks \/ SupervisorFails
  <2>1. UNCHANGED <<server, conn, tunnel>> /\ task'["socks"] = task["socks"]
    BY <1>9 DEF SupervisorWorks, SupervisorFails, socksVars, ServerTypes, Services
  <2>2. "supervisor" \in Services /\ task["supervisor"] # "joined"
    BY <1>9 DEF SupervisorWorks, SupervisorFails, Services
  <2> QED BY <1>2, <2>1, <2>2 DEF StopInv
<1>10. CASE StartFails \/ StartConnect \/ ConnectFails \/ Signal
  BY <1>3, <1>10 DEF StartFails, StartConnect, ConnectFails, Signal, socksVars
<1>11. CASE Tick
  BY <1>3, <1>11 DEF Tick
<1>12. CASE UNCHANGED <<cancel, socksVars, mainVars>> \/ UNCHANGED vars
  BY <1>3, <1>12 DEF socksVars, mainVars, vars
<1> QED
  BY <1>4, <1>5, <1>6, <1>7, <1>8, <1>9, <1>10, <1>11, <1>12 DEF Next, Main

-----------------------------------------------------------------------------
(* Theorems.                                                               *)

Inv == DialInv /\ PermitInv /\ ServerTypes /\ StopInv

\* The invariant holds initially.
LEMMA InvInit == Init => Inv
<1> SUFFICES ASSUME Init PROVE Inv
  OBVIOUS
<1> DEFINE k == [phase |-> "free", record |-> "none"]
<1>1. k \in ConnRecs /\ k.phase = "free"
  BY DEF ConnRecs, Phases
<1>2. conn = [c \in Conns |-> k] /\ dial = [c \in Conns |-> NoDial]
  BY DEF Init, SocksInit
<1> HIDE DEF k
<1>3. Good(k, NoDial)
  BY <1>1, NoDialGood
<1>4. DialInv
  BY <1>1, <1>2, <1>3 DEF DialInv, Good
<1>5. PermitInv
  <2>1. ConnHolders = {} /\ DialHolders = {}
    BY <1>1, <1>2 DEF ConnHolders, DialHolders, HoldsConn, HoldsDial
  <2>2. Cardinality({}) = 0
    BY FS_EmptySet
  <2>3. connFree = MaxConnections /\ dialFree = MaxDials
    BY DEF Init, SocksInit
  <2>4. /\ connFree \in Nat /\ dialFree \in Nat
        /\ connFree + Cardinality(ConnHolders) = MaxConnections
        /\ dialFree + Cardinality(DialHolders) = MaxDials
    BY <2>1, <2>2, <2>3, SocksAssumption
  <2> QED BY <2>4 DEF PermitInv, PermitsConserved, ConnHolders, DialHolders
<1>6. ServerTypes
  <2>1. task = [s \in Services |-> "off"]
    BY DEF Init
  <2>2. task \in [Services -> TaskStates]
    BY <2>1 DEF TaskStates
  <2> QED BY <2>2 DEF Init, SocksInit, ServerTypes
<1>7. StopInv
  BY DEF Init, SocksInit, StopInv, Services
<1> QED BY <1>4, <1>5, <1>6, <1>7 DEF Inv

\* Every step preserves it.
LEMMA InvStep == Inv /\ [Next]_vars => Inv'
BY DialStep, PermitStep, ServerTypeStep, StopStep DEF Inv

\* The types of serve, handle and staggered_dial hold for any number of
\* connections and candidates; no permit counter leaves its range.
THEOREM SocksTypeCorrect == Spec => []SocksTypeOK
<1>1. Inv => SocksTypeOK
  <2> SUFFICES ASSUME Inv PROVE SocksTypeOK
    OBVIOUS
  <2>1. connFree \in 0 .. MaxConnections /\ dialFree \in 0 .. MaxDials
    <3>1. ConnHolders \in SUBSET Conns /\ DialHolders \in SUBSET Conns
      BY DEF ConnHolders, DialHolders
    <3>2. Cardinality(ConnHolders) \in Nat /\ Cardinality(DialHolders) \in Nat
      <4>1. IsFiniteSet(ConnHolders) /\ IsFiniteSet(DialHolders)
        BY <3>1, SocksAssumption, FS_Subset
      <4> QED BY <4>1, FS_CardinalityType
    <3>3. /\ connFree \in Nat /\ dialFree \in Nat
          /\ connFree + Cardinality(ConnHolders) = MaxConnections
          /\ dialFree + Cardinality(DialHolders) = MaxDials
      BY DEF Inv, PermitInv, PermitsConserved, ConnHolders, DialHolders
    <3> QED BY <3>2, <3>3, SocksAssumption
  <2>2. cancel \in BOOLEAN /\ server \in {"off", "listening", "stopping", "returned"}
    BY DEF Inv, ServerTypes
  <2>3. conn \in [Conns -> [phase : Phases, record : {"none", "ok", "failed"}]]
    BY DEF Inv, DialInv, ConnRecs
  <2>4. ASSUME NEW c \in Conns
        PROVE  /\ dial[c].n \in 0 .. MaxCandidates
               /\ dial[c].started \in 0 .. dial[c].n
               /\ dial[c].att \in [1 .. dial[c].n -> AttemptStates]
               /\ dial[c].launch \in 0 .. Delay
               /\ dial[c].deadline \in 0 .. ConnectTimeout
               /\ dial[c].age \in 0 .. Delay
               /\ dial[c].winner \in 0 .. MaxCandidates
    <3>1. Good(conn[c], dial[c])
      BY DEF Inv, DialInv
    <3> QED BY <3>1 DEF Good, DialRecs
  <2> QED BY <2>1, <2>2, <2>3, <2>4 DEF SocksTypeOK
<1> QED BY <1>1, InvInit, InvStep, PTL DEF Spec

\* Both semaphores of serve and handle account for the handlers, for any limits
\* and any number of connections.
THEOREM PermitsAreConserved == Spec => []PermitsConserved
<1>1. Inv => PermitsConserved
  BY DEF Inv, PermitInv
<1> QED BY <1>1, InvInit, InvStep, PTL DEF Spec

\* run clears the tunnel when every handler task and every service has been
\* joined, or after the grace period; for any limits and number of connections.
THEOREM TunnelOutlivesItsUsers == Spec => []TunnelOutlivesUsers
<1>1. Inv => TunnelOutlivesUsers
  <2> SUFFICES ASSUME Inv, tunnel = "cleared", ~ killed
               PROVE  /\ \A c \in Conns : ~ HoldsConn(conn[c].phase)
                      /\ \A s \in Services : task[s] = "joined"
    BY DEF TunnelOutlivesUsers
  <2>1. \A s \in Services : task[s] = "joined"
    BY DEF Inv, StopInv
  <2>2. task["socks"] = "joined"
    BY <2>1 DEF Services
  <2> QED BY <2>1, <2>2 DEF Inv, StopInv
<1> QED BY <1>1, InvInit, InvStep, PTL DEF Spec

\* staggered_dial begins attempts happy_eyeballs_delay apart, or one at a time.
THEOREM AttemptsAreStaggered == Spec => AttemptsStaggered
<1> DEFINE A == \A c \in Conns :
                  conn[c].phase = "dial" /\ dial'[c].started > dial[c].started
                      => Cardinality(InFlight(dial'[c])) = 1 \/ dial[c].age = Delay
<1>1. Inv /\ [Next]_vars => [A]_<<conn, dial>>
  <2> SUFFICES ASSUME Inv, [Next]_vars, NEW c \in Conns, conn[c].phase = "dial",
                      dial'[c].started > dial[c].started, ~ UNCHANGED <<conn, dial>>
               PROVE  Cardinality(InFlight(dial'[c])) = 1 \/ dial[c].age = Delay
    OBVIOUS
  <2>1. DialInv
    BY DEF Inv
  <2>2. dial'[c].started # dial[c].started
    <3>1. dial[c].started \in Nat
      BY <2>1, SocksAssumption DEF DialInv, DialRecs
    <3> QED BY <3>1
  <2>3. ~ (DialTick /\ UNCHANGED conn)
    BY <2>1, <2>2, TickGood
  <2>4. PICK x \in Conns : OneMoves(x)
    BY <2>1, <2>3, StepCases
  <2>5. x = c
    BY <2>1, <2>2, <2>4 DEF OneMoves, DialInv
  <2> QED BY <2>4, <2>5 DEF OneMoves, Moved
<1> QED BY <1>1, InvInit, InvStep, PTL DEF Spec, AttemptsStaggered

\* The race of a good dial has the type of Race.
LEMMA RaceTyped ==
  ASSUME NEW k, NEW d, Good(k, d)
  PROVE  DialRaceOf(k, d) \in DialRaceSpec!RaceStates
<1>1. CASE k.phase = "dial"
  <2>1. d.n \in 0 .. MaxCandidates /\ d.started \in 0 .. d.n
        /\ d.att \in [1 .. d.n -> AttemptStates]
    BY DEF Good, DialRecs
  <2>2. 1 .. d.n \subseteq 1 .. MaxCandidates /\ 1 .. d.started \subseteq 1 .. MaxCandidates
    BY <2>1, SocksAssumption
  <2>3. InFlight(d) \subseteq 1 .. d.n
    BY <2>1 DEF InFlight
  <2>4. DialRaceOf(k, d) =
          [phase |-> "racing", cands |-> 1 .. d.n, started |-> 1 .. d.started,
           failed |-> {i \in 1 .. d.n : d.att[i] \in Lost},
           connected |-> {i \in 1 .. d.n : d.att[i] = "ok"},
           open |-> InFlight(d)]
    BY <1>1, RacingOf
  <2> QED BY <2>2, <2>3, <2>4 DEF DialRaceSpec!RaceStates
<1>2. CASE k.phase = "relay"
  <2>1. d.winner \in 1 .. MaxCandidates
    BY <1>2 DEF Good
  <2>2. DialRaceOf(k, d) = [phase |-> "won", cands |-> {}, started |-> {}, failed |-> {},
                            connected |-> {d.winner}, open |-> {d.winner}]
    BY <1>2 DEF DialRaceOf
  <2> QED BY <2>1, <2>2 DEF DialRaceSpec!RaceStates
<1>3. CASE k.phase \notin {"dial", "relay"}
  <2>1. PICK p \in {"lost", "idle"} :
          DialRaceOf(k, d) = [phase |-> p, cands |-> {}, started |-> {}, failed |-> {},
                              connected |-> {}, open |-> {}]
    BY <1>3 DEF DialRaceOf
  <2> QED BY <2>1 DEF DialRaceSpec!RaceStates
<1> QED BY <1>1, <1>2, <1>3

\* Every step of the process is one of the abstract race, or none.
LEMMA RaceStep == Inv /\ [Next]_vars => [DialRaceSpec!Next]_DialRace
<1> SUFFICES ASSUME Inv, [Next]_vars PROVE [DialRaceSpec!Next]_DialRace
  OBVIOUS
<1>1. DialInv /\ DialInv'
  BY DialStep DEF Inv
<1>2. CASE UNCHANGED <<conn, dial>>
  BY <1>2 DEF DialRace
<1>3. CASE DialTick /\ UNCHANGED conn
  <2>1. ASSUME NEW c \in Conns
        PROVE  DialRaceOf(conn'[c], dial'[c]) = DialRaceOf(conn[c], dial[c])
    <3>1. /\ dial'[c].started = dial[c].started /\ dial'[c].att = dial[c].att
          /\ dial'[c].winner = dial[c].winner /\ conn'[c] = conn[c]
      BY <1>1, <1>3, TickGood
    <3> QED BY <3>1 DEF DialRaceOf, InFlight
  <2> QED BY <2>1 DEF DialRace
<1>4. ASSUME NEW c \in Conns, OneMoves(c) PROVE [DialRaceSpec!Next]_DialRace
  <2>1. \A x \in Conns : x # c => conn'[x] = conn[x] /\ dial'[x] = dial[x]
    BY <1>1, <1>4 DEF OneMoves, DialInv
  <2>2. DialRace' = [DialRace EXCEPT ![c] = DialRace'[c]]
    BY <2>1 DEF DialRace
  <2>3. DialRace[c] = DialRaceOf(conn[c], dial[c])
        /\ DialRace'[c] = DialRaceOf(conn'[c], dial'[c])
    BY DEF DialRace
  <2>4. DialRace'[c] \in DialRaceSpec!RaceStates
    BY <1>1, <2>3, RaceTyped DEF DialInv
  <2>5. DialRace'[c] = DialRace[c] \/ DialRaceSpec!Step(DialRace[c], DialRace'[c])
    BY <1>4, <2>3 DEF OneMoves, Moved
  <2>6. CASE DialRace'[c] = DialRace[c]
    BY <2>2, <2>6 DEF DialRace
  <2>7. CASE DialRaceSpec!Step(DialRace[c], DialRace'[c])
    BY <2>2, <2>4, <2>7 DEF DialRaceSpec!Next
  <2> QED BY <2>5, <2>6, <2>7
<1> QED BY <1>1, <1>2, <1>3, <1>4, StepCases

\* staggered_dial implements Race, for any number of connections and candidates
\* and any number of parallel dials.
THEOREM DialImplementsRace == Spec => DialIsRace
<1>1. Init => DialRaceSpec!Init
  <2> SUFFICES ASSUME Init PROVE DialRaceSpec!Init
    OBVIOUS
  <2>1. ASSUME NEW c \in Conns
        PROVE  DialRaceOf(conn[c], dial[c]) = DialRaceSpec!At("idle", {})
    <3>1. conn[c].phase = "free"
      BY DEF Init, SocksInit
    <3> QED BY <3>1 DEF DialRaceOf, DialRaceSpec!At
  <2> QED BY <2>1 DEF DialRace, DialRaceSpec!Init
<1> QED BY <1>1, InvInit, InvStep, RaceStep, PTL DEF Spec, DialIsRace, DialRaceSpec!Spec

=============================================================================
