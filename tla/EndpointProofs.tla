--------------------------- MODULE EndpointProofs ---------------------------
(***************************************************************************)
(* Proofs about the lists of addresses and the race between endpoints: the *)
(* order endpoint_attempts and happy_eyeballs_dial promise, the types of   *)
(* the whole process, and that connect_candidate implements Race.          *)
(***************************************************************************)
EXTENDS ProcessProofs

-----------------------------------------------------------------------------
(* The list of endpoint_attempts.                                          *)

\* The ports of a base: its own first, then the fallback ports that differ.
LEMMA PortsElements ==
  ASSUME NEW original \in Nat
  PROVE  /\ EndpointPorts(original) \in Seq(Nat)
         /\ ToSet(EndpointPorts(original)) = {original} \cup ToSet(FallbackPorts)
<1> DEFINE ports == <<original>> \o FallbackPorts
           keep == {i \in DOMAIN ports : i = 1 \/ ports[i] # original}
           n == Cardinality(keep)
           list == Kept(ports, keep)
<1>1. FallbackPorts \in Seq(Nat)
  BY EndpointAssumption
<1>2. /\ ports \in Seq(Nat) /\ DOMAIN ports = 1 .. Len(FallbackPorts) + 1
      /\ ports[1] = original
      /\ \A x \in 2 .. Len(FallbackPorts) + 1 : ports[x] = FallbackPorts[x - 1]
      /\ Len(FallbackPorts) \in Nat /\ DOMAIN FallbackPorts = 1 .. Len(FallbackPorts)
  BY <1>1
<1> HIDE DEF ports
<1>3. keep \in SUBSET DOMAIN ports
  OBVIOUS
<1>4. 1 \in keep
  BY <1>2
<1>5. \A x \in DOMAIN ports : x \in keep \/ ports[x] = original
  OBVIOUS
<1> HIDE DEF keep
<1>6. n \in Nat /\ list \in Seq(Nat) /\ Len(list) = n
  BY <1>2, <1>3, KeptElements
<1>7. PICK pos : IsPlaceList(keep, pos) /\ \A k \in 1 .. n : list[k] = ports[pos[k]]
  <2>1. ports \in Seq(Nat) /\ keep \in SUBSET DOMAIN ports
    BY <1>2, <1>3
  <2>2. \E pos : IsPlaceList(keep, pos) /\ \A k \in 1 .. n : list[k] = ports[pos[k]]
    BY <2>1, KeptElements, Zenon
  <2> QED BY <2>2, Zenon
<1> HIDE DEF list
<1>8. DOMAIN list = 1 .. n
  BY <1>6
<1>9. \A k \in 1 .. n : list[k] \in {original} \cup ToSet(FallbackPorts)
  <2> TAKE k \in 1 .. n
  <2>1. pos[k] \in DOMAIN ports
    BY <1>3, <1>7 DEF IsPlaceList
  <2>2. CASE pos[k] = 1
    BY <1>2, <1>7, <2>2
  <2>3. CASE pos[k] # 1
    <3>1. pos[k] - 1 \in DOMAIN FallbackPorts /\ ports[pos[k]] = FallbackPorts[pos[k] - 1]
      BY <1>2, <2>1, <2>3
    <3> QED BY <1>7, <3>1 DEF ToSet
  <2> QED BY <2>2, <2>3
<1>10. \A x \in DOMAIN ports : \E k \in 1 .. n : list[k] = ports[x]
  <2> TAKE x \in DOMAIN ports
  <2>1. PICK y \in keep : ports[y] = ports[x]
    BY <1>2, <1>4, <1>5
  <2>2. PICK k \in 1 .. n : pos[k] = y
    BY <1>7, <2>1 DEF IsPlaceList
  <2> QED BY <1>7, <2>1, <2>2
<1>11. original \in ToSet(list)
  <2>1. 1 \in DOMAIN ports
    BY <1>2
  <2> QED BY <1>2, <1>8, <1>10, <2>1 DEF ToSet
<1>12. \A p \in ToSet(FallbackPorts) : p \in ToSet(list)
  <2> TAKE p \in ToSet(FallbackPorts)
  <2>1. PICK x \in 1 .. Len(FallbackPorts) : FallbackPorts[x] = p
    BY <1>2 DEF ToSet
  <2>2. x + 1 \in DOMAIN ports /\ ports[x + 1] = p
    BY <1>2, <2>1
  <2> QED BY <1>8, <1>10, <2>2 DEF ToSet
<1>13. ToSet(list) \subseteq {original} \cup ToSet(FallbackPorts)
  BY <1>8, <1>9 DEF ToSet
<1>14. ToSet(list) = {original} \cup ToSet(FallbackPorts)
  BY <1>11, <1>12, <1>13
<1>15. EndpointPorts(original) = list
  BY DEF EndpointPorts, list, keep, ports
<1> QED BY <1>6, <1>14, <1>15

\* The bases: the configured endpoint, then the candidates, none twice.
LEMMA BasesElements ==
  ASSUME NEW cfg \in Configs
  PROVE  /\ Bases(cfg) \in Seq(Endpoints)
         /\ 1 \in DOMAIN Bases(cfg) /\ Bases(cfg)[1] = cfg.endpoint
         /\ ToSet(Bases(cfg)) = {cfg.endpoint} \cup ToSet(cfg.candidates)
<1> DEFINE seq == <<cfg.endpoint>> \o cfg.candidates
           n == Cardinality(FirstPlaces(seq))
           list == FirstOccurrences(seq)
<1>1. cfg.endpoint \in Endpoints /\ cfg.candidates \in Seq(Endpoints)
  BY EndpointAssumption
<1>2. /\ seq \in Seq(Endpoints) /\ Len(seq) = Len(cfg.candidates) + 1
      /\ DOMAIN seq = 1 .. Len(cfg.candidates) + 1
      /\ seq[1] = cfg.endpoint
      /\ \A x \in 2 .. Len(cfg.candidates) + 1 : seq[x] = cfg.candidates[x - 1]
      /\ Len(cfg.candidates) \in Nat /\ DOMAIN cfg.candidates = 1 .. Len(cfg.candidates)
  BY <1>1
<1> HIDE DEF seq
<1>3. Len(seq) > 0
  BY <1>2
<1>4. 1 \in DOMAIN list /\ list[1] = seq[1]
  BY <1>2, <1>3, FirstOfFirstOccurrences
<1>5. /\ list \in Seq(Endpoints) /\ n \in Nat /\ Len(list) = n
      /\ \A i \in DOMAIN seq : \E k \in 1 .. n : list[k] = seq[i]
      /\ \A k \in 1 .. n : \E i \in DOMAIN seq : list[k] = seq[i]
  BY <1>2, FirstOccurrencesElements
<1> HIDE DEF list
<1>6. DOMAIN list = 1 .. n
  BY <1>5
<1>7. ToSet(list) = ToSet(seq)
  BY <1>5, <1>6 DEF ToSet
<1>8. ToSet(seq) = {cfg.endpoint} \cup ToSet(cfg.candidates)
  <2>1. \A x \in DOMAIN seq : seq[x] \in {cfg.endpoint} \cup ToSet(cfg.candidates)
    <3> TAKE x \in DOMAIN seq
    <3>1. CASE x = 1
      BY <1>2, <3>1
    <3>2. CASE x # 1
      <4>1. x - 1 \in DOMAIN cfg.candidates /\ seq[x] = cfg.candidates[x - 1]
        BY <1>2, <3>2
      <4> QED BY <4>1 DEF ToSet
    <3> QED BY <3>1, <3>2
  <2>2. cfg.endpoint \in ToSet(seq)
    <3>1. 1 \in DOMAIN seq
      BY <1>2
    <3> QED BY <1>2, <3>1 DEF ToSet
  <2>3. \A b \in ToSet(cfg.candidates) : b \in ToSet(seq)
    <3> TAKE b \in ToSet(cfg.candidates)
    <3>1. PICK x \in 1 .. Len(cfg.candidates) : cfg.candidates[x] = b
      BY <1>2 DEF ToSet
    <3>2. x + 1 \in DOMAIN seq /\ seq[x + 1] = b
      BY <1>2, <3>1
    <3> QED BY <3>2 DEF ToSet
  <2>4. ToSet(seq) \subseteq {cfg.endpoint} \cup ToSet(cfg.candidates)
    BY <2>1 DEF ToSet
  <2> QED BY <2>2, <2>3, <2>4
<1>9. Bases(cfg) = list
  BY DEF Bases, list, seq
<1> QED BY <1>2, <1>4, <1>5, <1>7, <1>8, <1>9

\* Every pair of a base's address with one of its ports.
PairsOf(b) == {[ip |-> b.ip, port |-> p] : p \in {b.port} \cup ToSet(FallbackPorts)}

\* A base at its ports.
LEMMA AtPortsElements ==
  ASSUME NEW b \in Endpoints
  PROVE  AtPorts(b) \in Seq(Endpoints) /\ ToSet(AtPorts(b)) = PairsOf(b) /\ b \in PairsOf(b)
<1> DEFINE ports == EndpointPorts(b.port)
           row == [k \in DOMAIN ports |-> [ip |-> b.ip, port |-> ports[k]]]
<1>1. b.ip \in Ips /\ b.port \in Nat /\ b = [ip |-> b.ip, port |-> b.port]
  BY DEF Endpoints
<1>2. ports \in Seq(Nat) /\ ToSet(ports) = {b.port} \cup ToSet(FallbackPorts)
  BY <1>1, PortsElements
<1>3. AtPorts(b) = row
  BY DEF AtPorts
<1> HIDE DEF ports
<1>4. DOMAIN ports = 1 .. Len(ports) /\ Len(ports) \in Nat
      /\ \A k \in DOMAIN ports : ports[k] \in Nat
  BY <1>2
<1>5. \A k \in DOMAIN ports : [ip |-> b.ip, port |-> ports[k]] \in Endpoints
  BY <1>1, <1>4 DEF Endpoints
<1>6. row \in [1 .. Len(ports) -> Endpoints]
  BY <1>4, <1>5
<1>7. row \in Seq(Endpoints)
  BY <1>4, <1>6
<1>8. ToSet(row) = {[ip |-> b.ip, port |-> p] : p \in ToSet(ports)}
  BY DEF ToSet
<1> HIDE DEF row
<1>9. b \in PairsOf(b)
  BY <1>1 DEF PairsOf
<1> QED BY <1>2, <1>3, <1>7, <1>8, <1>9 DEF PairsOf

\* The bases at all their ports.
LEMMA AllPortsElements ==
  ASSUME NEW bases \in Seq(Endpoints)
  PROVE  /\ AllPorts(bases) \in Seq(Endpoints)
         /\ ToSet(AllPorts(bases)) = UNION {PairsOf(b) : b \in ToSet(bases)}
<1> DEFINE rows == [b \in DOMAIN bases |-> AtPorts(bases[b])]
           list == Concat(rows)
           n == Cardinality(Places(rows))
<1>1. DOMAIN bases = 1 .. Len(bases) /\ Len(bases) \in Nat
      /\ \A b \in DOMAIN bases : bases[b] \in Endpoints
  OBVIOUS
<1>2. \A b \in DOMAIN bases : /\ AtPorts(bases[b]) \in Seq(Endpoints)
                              /\ ToSet(AtPorts(bases[b])) = PairsOf(bases[b])
  BY <1>1, AtPortsElements
<1>3. rows \in [1 .. Len(bases) -> Seq(Endpoints)]
  BY <1>1, <1>2
<1>4. rows \in Seq(Seq(Endpoints))
  BY <1>1, <1>3
<1>5. DOMAIN rows = DOMAIN bases /\ \A b \in DOMAIN bases : ToSet(rows[b]) = PairsOf(bases[b])
  BY <1>2
<1> HIDE DEF rows
<1>6. /\ list \in Seq(Endpoints) /\ n \in Nat /\ Len(list) = n
      /\ \A b \in DOMAIN rows : \A i \in DOMAIN rows[b] : \E k \in 1 .. n : list[k] = rows[b][i]
      /\ \A k \in 1 .. n : \E b \in DOMAIN rows : \E i \in DOMAIN rows[b] :
            list[k] = rows[b][i]
  BY <1>4, ConcatElements
<1> HIDE DEF list
<1>7. DOMAIN list = 1 .. n
  BY <1>6
<1>8. ToSet(list) = UNION {ToSet(rows[b]) : b \in DOMAIN rows}
  <2>1. ToSet(list) \subseteq UNION {ToSet(rows[b]) : b \in DOMAIN rows}
    BY <1>6, <1>7 DEF ToSet
  <2>2. ASSUME NEW b \in DOMAIN rows PROVE ToSet(rows[b]) \subseteq ToSet(list)
    BY <1>6, <1>7 DEF ToSet
  <2> QED BY <2>1, <2>2
<1>9. UNION {ToSet(rows[b]) : b \in DOMAIN rows} = UNION {PairsOf(b) : b \in ToSet(bases)}
  <2>1. {ToSet(rows[b]) : b \in DOMAIN rows} = {PairsOf(bases[b]) : b \in DOMAIN bases}
    BY <1>5
  <2>2. {PairsOf(b) : b \in ToSet(bases)} = {PairsOf(bases[b]) : b \in DOMAIN bases}
    BY DEF ToSet
  <2> QED BY <2>1, <2>2
<1>10. AllPorts(bases) = list
  BY DEF AllPorts, list, rows
<1> QED BY <1>6, <1>8, <1>9, <1>10

\* The list of endpoint_attempts for any configuration.
LEMMA AttemptsElements ==
  ASSUME NEW cfg \in Configs
  PROVE  LET list  == EndpointAttempts(cfg)
             bases == {cfg.endpoint} \cup ToSet(cfg.candidates)
         IN  /\ list \in Seq(Endpoints) /\ 1 \in DOMAIN list
             /\ list[1] = cfg.endpoint
             /\ \A i, j \in DOMAIN list : list[i] \in bases /\ list[j] \notin bases => i < j
             /\ ToSet(list) = UNION {PairsOf(b) : b \in bases}
             /\ Cardinality(ToSet(list)) = Len(list)
<1> DEFINE bases == {cfg.endpoint} \cup ToSet(cfg.candidates)
           A == Bases(cfg)
           B == AllPorts(A)
           seq == A \o B
           n == Cardinality(FirstPlaces(seq))
           list == FirstOccurrences(seq)
<1>1. /\ A \in Seq(Endpoints) /\ 1 \in DOMAIN A /\ A[1] = cfg.endpoint
      /\ ToSet(A) = bases
  BY BasesElements
<1> HIDE DEF A
<1>2. B \in Seq(Endpoints) /\ ToSet(B) = UNION {PairsOf(b) : b \in bases}
  BY <1>1, AllPortsElements
<1> HIDE DEF B
<1>3. /\ seq \in Seq(Endpoints) /\ Len(seq) = Len(A) + Len(B) /\ Len(seq) > 0
      /\ seq[1] = A[1]
  BY <1>1, <1>2
<1>4. ToSet(seq) = ToSet(A) \cup ToSet(B)
  <2>1. /\ DOMAIN A = 1 .. Len(A) /\ DOMAIN B = 1 .. Len(B) /\ Len(A) \in Nat /\ Len(B) \in Nat
        /\ DOMAIN seq = 1 .. Len(A) + Len(B)
        /\ \A x \in 1 .. Len(A) : seq[x] = A[x]
        /\ \A x \in Len(A) + 1 .. Len(A) + Len(B) : seq[x] = B[x - Len(A)]
    BY <1>1, <1>2, <1>3
  <2> HIDE DEF seq
  <2>2. \A x \in DOMAIN seq : seq[x] \in ToSet(A) \cup ToSet(B)
    <3> TAKE x \in DOMAIN seq
    <3>1. CASE x <= Len(A)
      BY <2>1, <3>1 DEF ToSet
    <3>2. CASE ~ (x <= Len(A))
      <4>1. x - Len(A) \in DOMAIN B /\ seq[x] = B[x - Len(A)]
        BY <2>1, <3>2
      <4> QED BY <4>1 DEF ToSet
    <3> QED BY <3>1, <3>2
  <2>3. \A x \in DOMAIN A : A[x] \in ToSet(seq)
    <3> TAKE x \in DOMAIN A
    <3>1. x \in DOMAIN seq /\ seq[x] = A[x]
      BY <2>1
    <3> QED BY <3>1 DEF ToSet
  <2>4. \A x \in DOMAIN B : B[x] \in ToSet(seq)
    <3> TAKE x \in DOMAIN B
    <3>1. x + Len(A) \in DOMAIN seq /\ seq[x + Len(A)] = B[x]
      BY <2>1
    <3> QED BY <3>1 DEF ToSet
  <2>5. ToSet(seq) \subseteq ToSet(A) \cup ToSet(B)
    BY <2>2 DEF ToSet
  <2>6. ToSet(A) \subseteq ToSet(seq)
    BY <2>3 DEF ToSet
  <2>7. ToSet(B) \subseteq ToSet(seq)
    BY <2>4 DEF ToSet
  <2> QED BY <2>5, <2>6, <2>7
<1>5. bases \subseteq UNION {PairsOf(b) : b \in bases}
  <2> SUFFICES ASSUME NEW b \in bases PROVE b \in PairsOf(b)
    OBVIOUS
  <2>1. b \in Endpoints
    <3>1. PICK x \in DOMAIN A : A[x] = b
      BY <1>1 DEF ToSet
    <3> QED BY <1>1, <3>1
  <2> QED BY <2>1, AtPortsElements
<1>6. ToSet(seq) = UNION {PairsOf(b) : b \in bases}
  BY <1>1, <1>2, <1>4, <1>5
<1>7. /\ list \in Seq(Endpoints) /\ n \in Nat /\ Len(list) = n
      /\ \A k, l \in 1 .. n : list[k] = list[l] => k = l
      /\ \A i \in DOMAIN seq : \E k \in 1 .. n : list[k] = seq[i]
      /\ \A k \in 1 .. n : \E i \in DOMAIN seq : list[k] = seq[i]
  <2> HIDE DEF seq
  <2> QED BY <1>3, FirstOccurrencesElements
<1>8. 1 \in DOMAIN list /\ list[1] = seq[1]
  <2> HIDE DEF seq
  <2> QED BY <1>3, FirstOfFirstOccurrences
<1>9. \A i, j \in DOMAIN list : list[i] \in bases /\ list[j] \notin bases => i < j
  <2>1. {A[x] : x \in DOMAIN A} = bases
    BY <1>1 DEF ToSet
  <2> QED BY <1>1, <1>2, <2>1, FirstLoopFirst
<1> HIDE DEF seq, list, n
<1>10. DOMAIN list = 1 .. n
  BY <1>7
<1>11. ToSet(list) = ToSet(seq)
  BY <1>7, <1>10 DEF ToSet
<1>12. Cardinality(ToSet(list)) = Len(list)
  BY <1>7, DistinctElements DEF ToSet
<1>13. EndpointAttempts(cfg) = list
  BY DEF EndpointAttempts, list, seq, A, B
<1> HIDE DEF bases
<1> QED BY <1>1, <1>3, <1>6, <1>7, <1>8, <1>9, <1>11, <1>12, <1>13 DEF bases

-----------------------------------------------------------------------------
(* The candidates of happy_eyeballs_dial.                                  *)

\* The elements of v stand in m at the places P, in order, and nothing else of
\* the family F stands in m.
IsSpread(m, v, F, P) ==
    /\ P \in [1 .. Len(v) -> 1 .. Len(m)]
    /\ \A i \in 1 .. Len(v) : m[P[i]] = v[i]
    /\ \A i, j \in 1 .. Len(v) : i < j => P[i] < P[j]
    /\ \A x \in 1 .. Len(m) : m[x] \in F => \E i \in 1 .. Len(v) : P[i] = x

\* The odd numbers.
LEMMA OddNumbers ==
  /\ \A i \in Nat : (2 * i - 1) % 2 = 1 /\ (2 * i - 1 + 1) \div 2 = i
  /\ \A x \in Nat : x % 2 = 1 => (x + 1) \div 2 \in Nat /\ 2 * ((x + 1) \div 2) - 1 = x
<1>1. ASSUME NEW i \in Nat PROVE (2 * i - 1) % 2 = 1
  OBVIOUS
<1>2. ASSUME NEW i \in Nat PROVE (2 * i - 1 + 1) \div 2 = i
  <2>1. 2 * i - 1 + 1 = 2 * i
    OBVIOUS
  <2> QED BY <2>1
<1>3. ASSUME NEW x \in Nat, x % 2 = 1 PROVE (x + 1) \div 2 \in Nat /\ 2 * ((x + 1) \div 2) - 1 = x
  BY <1>3
<1> QED BY <1>1, <1>2, <1>3

\* merge_dual spreads both families over its result.
LEMMA MergeSpreads ==
  ASSUME NEW v6 \in Seq(V6), NEW v4 \in Seq(V4)
  PROVE  LET m    == MergeDual(v6, v4)
             both == IF Len(v6) < Len(v4) THEN Len(v6) ELSE Len(v4)
             P6   == [i \in 1 .. Len(v6) |-> IF i <= both THEN 2 * i - 1 ELSE i + both]
             P4   == [i \in 1 .. Len(v4) |-> IF i <= both THEN 2 * i ELSE i + both]
         IN  IsSpread(m, v6, V6, P6) /\ IsSpread(m, v4, V4, P4)
<1> DEFINE m == MergeDual(v6, v4)
           n6 == Len(v6)
           n4 == Len(v4)
           both == IF Len(v6) < Len(v4) THEN Len(v6) ELSE Len(v4)
           P6 == [i \in 1 .. Len(v6) |-> IF i <= both THEN 2 * i - 1 ELSE i + both]
           P4 == [i \in 1 .. Len(v4) |-> IF i <= both THEN 2 * i ELSE i + both]
<1>1. n6 \in Nat /\ n4 \in Nat
  OBVIOUS
<1>2. both \in Nat /\ both <= n6 /\ both <= n4 /\ (both = n6 \/ both = n4)
  BY <1>1
<1>3. Len(m) = n6 + n4
  BY MergeDualType
<1>4. \A k \in 1 .. n6 + n4 :
         m[k] = IF k > 2 * both THEN (IF n6 > both THEN v6 ELSE v4)[k - both]
                ELSE IF k % 2 = 1 THEN v6[(k + 1) \div 2] ELSE v4[k \div 2]
  BY DEF MergeDual
<1>5. (\A i \in 1 .. n6 : v6[i] \in V6) /\ (\A i \in 1 .. n4 : v4[i] \in V4)
  OBVIOUS
<1>6. /\ \A i \in 1 .. n6 : P6[i] = IF i <= both THEN 2 * i - 1 ELSE i + both
      /\ \A i \in 1 .. n4 : P4[i] = IF i <= both THEN 2 * i ELSE i + both
      /\ DOMAIN P6 = 1 .. n6 /\ DOMAIN P4 = 1 .. n4
      /\ P6 = [i \in 1 .. n6 |-> P6[i]] /\ P4 = [i \in 1 .. n4 |-> P4[i]]
  OBVIOUS
<1> HIDE DEF m, both, P6, P4, n6, n4
<1>7. P6 \in [1 .. n6 -> 1 .. n6 + n4]
  <2>1. \A i \in 1 .. n6 : P6[i] \in 1 .. n6 + n4
    BY <1>1, <1>2, <1>6
  <2> QED BY <1>6, <2>1
<1>8. P4 \in [1 .. n4 -> 1 .. n6 + n4]
  <2>1. \A i \in 1 .. n4 : P4[i] \in 1 .. n6 + n4
    BY <1>1, <1>2, <1>6
  <2> QED BY <1>6, <2>1
<1>9. \A i \in 1 .. n6 : m[P6[i]] = v6[i]
  <2> TAKE i \in 1 .. n6
  <2>1. CASE i <= both
    <3>1. /\ P6[i] = 2 * i - 1 /\ P6[i] \in 1 .. n6 + n4 /\ ~ (P6[i] > 2 * both)
          /\ P6[i] % 2 = 1 /\ (P6[i] + 1) \div 2 = i
      <4>1. P6[i] = 2 * i - 1
        BY <1>6, <2>1
      <4>2. 2 * i - 1 \in 1 .. n6 + n4 /\ ~ (2 * i - 1 > 2 * both)
        BY <1>1, <1>2, <2>1
      <4> QED BY <4>1, <4>2, OddNumbers
    <3> QED BY <1>4, <3>1
  <2>2. CASE ~ (i <= both)
    <3>1. P6[i] = i + both /\ P6[i] \in 1 .. n6 + n4 /\ P6[i] > 2 * both
          /\ P6[i] - both = i /\ n6 > both
      BY <1>1, <1>2, <1>6, <2>2
    <3> QED BY <1>4, <3>1
  <2> QED BY <2>1, <2>2
<1>10. \A i \in 1 .. n4 : m[P4[i]] = v4[i]
  <2> TAKE i \in 1 .. n4
  <2>1. CASE i <= both
    <3>1. /\ P4[i] = 2 * i /\ P4[i] \in 1 .. n6 + n4 /\ ~ (P4[i] > 2 * both)
          /\ P4[i] % 2 # 1 /\ P4[i] \div 2 = i
      BY <1>1, <1>2, <1>6, <2>1
    <3> QED BY <1>4, <3>1
  <2>2. CASE ~ (i <= both)
    <3>1. P4[i] = i + both /\ P4[i] \in 1 .. n6 + n4 /\ P4[i] > 2 * both
          /\ P4[i] - both = i /\ ~ (n6 > both)
      BY <1>1, <1>2, <1>6, <2>2
    <3> QED BY <1>4, <3>1
  <2> QED BY <2>1, <2>2
<1>11. \A i, j \in 1 .. n6 : i < j => P6[i] < P6[j]
  BY <1>1, <1>2, <1>6
<1>12. \A i, j \in 1 .. n4 : i < j => P4[i] < P4[j]
  BY <1>1, <1>2, <1>6
<1>13. \A x \in 1 .. n6 + n4 :
          (\E i \in 1 .. n6 : P6[i] = x) \/ (\E i \in 1 .. n4 : P4[i] = x)
  <2> TAKE x \in 1 .. n6 + n4
  <2>1. CASE x > 2 * both /\ n6 > both
    <3>1. x - both \in 1 .. n6 /\ P6[x - both] = x
      BY <1>1, <1>2, <1>6, <2>1
    <3> QED BY <3>1
  <2>2. CASE x > 2 * both /\ ~ (n6 > both)
    <3>1. x - both \in 1 .. n4 /\ P4[x - both] = x
      BY <1>1, <1>2, <1>6, <2>2
    <3> QED BY <3>1
  <2>3. CASE ~ (x > 2 * both) /\ x % 2 = 1
    <3> DEFINE q == (x + 1) \div 2
    <3>1. q \in Nat /\ 2 * q - 1 = x
      BY <1>1, <2>3, OddNumbers
    <3> HIDE DEF q
    <3>2. q \in 1 .. n6 /\ q <= both
      BY <1>1, <1>2, <2>3, <3>1
    <3>3. P6[q] = x
      BY <1>6, <3>1, <3>2
    <3> QED BY <3>2, <3>3
  <2>4. CASE ~ (x > 2 * both) /\ x % 2 # 1
    <3>1. x \div 2 \in 1 .. n4 /\ P4[x \div 2] = x
      BY <1>1, <1>2, <1>6, <2>4
    <3> QED BY <3>1
  <2> QED BY <2>1, <2>2, <2>3, <2>4
<1>14. \A x \in 1 .. n6 + n4 :
          /\ m[x] \in V6 => \E i \in 1 .. n6 : P6[i] = x
          /\ m[x] \in V4 => \E i \in 1 .. n4 : P4[i] = x
  <2> TAKE x \in 1 .. n6 + n4
  <2>1. CASE \E i \in 1 .. n6 : P6[i] = x
    <3>1. m[x] \in V6 /\ m[x] \notin V4
      BY <1>5, <1>9, <2>1, SocksAssumption
    <3> QED BY <2>1, <3>1
  <2>2. CASE \E i \in 1 .. n4 : P4[i] = x
    <3>1. m[x] \in V4 /\ m[x] \notin V6
      BY <1>5, <1>10, <2>2, SocksAssumption
    <3> QED BY <2>2, <3>1
  <2> QED BY <1>13, <2>1, <2>2
<1>15. IsSpread(m, v6, V6, P6)
  BY <1>3, <1>7, <1>9, <1>11, <1>14 DEF IsSpread, n6
<1>16. IsSpread(m, v4, V4, P4)
  BY <1>3, <1>8, <1>10, <1>12, <1>14 DEF IsSpread, n4
<1> QED BY <1>15, <1>16 DEF m, P6, P4, both

\* The first places of the merged answer are in the order of the family's own.
LEMMA SpreadKeepsOrder ==
  ASSUME NEW T, NEW m \in Seq(T), NEW F, NEW v \in Seq(F), NEW P, IsSpread(m, v, F, P),
         NEW x \in FirstPlaces(m), NEW y \in FirstPlaces(m), x < y, m[x] \in F, m[y] \in F
  PROVE  FirstIn(v, m[x]) < FirstIn(v, m[y])
<1>1. /\ DOMAIN m = 1 .. Len(m) /\ Len(m) \in Nat /\ DOMAIN v = 1 .. Len(v) /\ Len(v) \in Nat
      /\ \A i \in 1 .. Len(v) : P[i] \in 1 .. Len(m) /\ m[P[i]] = v[i]
  BY DEF IsSpread
<1>2. ASSUME NEW z \in FirstPlaces(m), m[z] \in F
      PROVE  LET f == FirstIn(v, m[z]) IN f \in 1 .. Len(v) /\ P[f] = z
  <2> DEFINE f == FirstIn(v, m[z])
  <2>1. z \in 1 .. Len(m) /\ \A j \in 1 .. z - 1 : m[j] # m[z]
    BY <1>1 DEF FirstPlaces
  <2>2. PICK i \in 1 .. Len(v) : P[i] = z
    BY <1>2, <2>1 DEF IsSpread
  <2>3. PICK g \in FirstPlaces(v) : v[g] = v[i]
    BY <1>1, HasFirstPlace
  <2>4. v[g] = m[z] /\ g \in DOMAIN v /\ \A j \in 1 .. g - 1 : v[j] # m[z]
    BY <1>1, <2>2, <2>3 DEF FirstPlaces
  <2>5. f \in DOMAIN v /\ v[f] = m[z] /\ \A j \in 1 .. f - 1 : v[j] # m[z]
    BY <2>4 DEF FirstIn
  <2> HIDE DEF f
  <2>6. f <= i
    <3>1. v[i] = m[z]
      BY <1>1, <2>2
    <3>2. i \notin 1 .. f - 1
      BY <2>5, <3>1
    <3> QED BY <1>1, <2>5, <3>2
  <2>7. ~ (f < i)
    <3> SUFFICES ASSUME f < i PROVE FALSE
      OBVIOUS
    <3>1. P[f] < z
      BY <1>1, <2>2, <2>5 DEF IsSpread
    <3>2. P[f] \in 1 .. z - 1
      BY <1>1, <2>1, <2>5, <3>1
    <3>3. m[P[f]] = m[z]
      BY <1>1, <2>5
    <3> QED BY <2>1, <3>2, <3>3
  <2>8. f = i
    BY <1>1, <2>5, <2>6, <2>7
  <2> QED BY <2>2, <2>8 DEF f
<1> DEFINE f == FirstIn(v, m[x])
           g == FirstIn(v, m[y])
<1>3. f \in 1 .. Len(v) /\ P[f] = x /\ g \in 1 .. Len(v) /\ P[g] = y
  BY <1>2
<1>4. x \in 1 .. Len(m) /\ y \in 1 .. Len(m)
  BY <1>1 DEF FirstPlaces
<1> HIDE DEF f, g
<1>5. f < g
  <2> SUFFICES ASSUME ~ (f < g) PROVE FALSE
    OBVIOUS
  <2>1. f # g
    BY <1>3, <1>4
  <2>2. g < f
    BY <1>1, <1>3, <2>1
  <2>3. P[g] < P[f]
    BY <1>3, <2>2 DEF IsSpread
  <2> QED BY <1>3, <1>4, <2>3
<1> QED BY <1>5 DEF f, g

\* The list made of any answer is right.
LEMMA ListOrdered ==
  ASSUME NEW v6 \in Seq(V6), NEW v4 \in Seq(V4), NEW hasV6 \in BOOLEAN
  PROVE  IsOrderedList(Usable(MergeDual(v6, v4), hasV6), v6, v4, hasV6)
<1> DEFINE m == MergeDual(v6, v4)
           both == IF Len(v6) < Len(v4) THEN Len(v6) ELSE Len(v4)
           P6 == [i \in 1 .. Len(v6) |-> IF i <= both THEN 2 * i - 1 ELSE i + both]
           P4 == [i \in 1 .. Len(v4) |-> IF i <= both THEN 2 * i ELSE i + both]
           keep == {i \in FirstPlaces(m) : hasV6 \/ m[i] \in V4}
           list == Clean(m, hasV6)
           n == Cardinality(keep)
           len == IF Len(list) < MaxCandidates THEN Len(list) ELSE MaxCandidates
           used == Usable(m, hasV6)
           wanted == {v4[i] : i \in DOMAIN v4}
                        \cup (IF hasV6 THEN {v6[i] : i \in DOMAIN v6} ELSE {})
           tried == {used[k] : k \in DOMAIN used}
<1>1. m \in Seq(Addrs) /\ Len(m) = Len(v6) + Len(v4)
  BY MergeDualType
<1>2. IsSpread(m, v6, V6, P6) /\ IsSpread(m, v4, V4, P4)
  BY MergeSpreads
<1>3. Len(v6) > 0 => (Len(v4) > 0 => P6[1] = 1 /\ P4[1] = 2)
  <2> SUFFICES ASSUME Len(v6) > 0, Len(v4) > 0 PROVE P6[1] = 1 /\ P4[1] = 2
    OBVIOUS
  <2>1. 1 \in 1 .. Len(v6) /\ 1 \in 1 .. Len(v4) /\ 1 <= both
    OBVIOUS
  <2> QED BY <2>1
<1> HIDE DEF m, P6, P4
<1>4. /\ DOMAIN m = 1 .. Len(m) /\ Len(m) \in Nat
      /\ DOMAIN v6 = 1 .. Len(v6) /\ Len(v6) \in Nat
      /\ DOMAIN v4 = 1 .. Len(v4) /\ Len(v4) \in Nat
      /\ (\A i \in 1 .. Len(v6) : v6[i] \in V6) /\ (\A i \in 1 .. Len(v4) : v4[i] \in V4)
      /\ (\A x \in 1 .. Len(m) : m[x] \in V4 \cup V6)
  BY <1>1 DEF Addrs
<1>5. keep \in SUBSET DOMAIN m /\ keep \in SUBSET FirstPlaces(m)
  BY DEF FirstPlaces
<1>6. \A x \in FirstPlaces(m) : hasV6 \/ m[x] \in V4 => x \in keep
  OBVIOUS
<1>7. \A x \in keep : hasV6 \/ m[x] \in V4
  OBVIOUS
<1>8. list = Kept(m, keep)
  BY DEF Clean
<1> HIDE DEF keep
<1>9. n \in Nat /\ list \in Seq(Addrs) /\ Len(list) = n
  <2> HIDE DEF list
  <2> QED BY <1>1, <1>5, <1>8, KeptElements
<1>10. PICK pos : IsPlaceList(keep, pos) /\ \A k \in 1 .. n : list[k] = m[pos[k]]
  <2>1. \E pos : /\ IsPlaceList(keep, pos)
                 /\ \A k \in 1 .. Cardinality(keep) : Kept(m, keep)[k] = m[pos[k]]
    BY <1>1, <1>5, KeptElements
  <2> QED BY <1>8, <2>1
<1>11. /\ len \in 0 .. MaxCandidates /\ len <= n
       /\ used \in Seq(Addrs) /\ Len(used) = len
       /\ \A k \in 1 .. len : used[k] = list[k]
  BY <1>1, <1>9, UsableType
<1>12. len = n \/ len = MaxCandidates
  BY <1>9
<1>13. MaxCandidates > 1 /\ n > 1 => len > 1
  BY <1>9, SocksAssumption
<1> HIDE DEF list, len, used, n
<1>14. DOMAIN used = 1 .. len /\ len \in Nat
  BY <1>11, SocksAssumption
<1>15. \A k \in 1 .. len : /\ k \in 1 .. n /\ used[k] = m[pos[k]]
                           /\ pos[k] \in keep /\ pos[k] \in FirstPlaces(m)
                           /\ pos[k] \in 1 .. Len(m)
  <2> TAKE k \in 1 .. len
  <2>1. k \in 1 .. n
    BY <1>9, <1>11, <1>14
  <2>2. pos[k] \in keep
    BY <1>10, <2>1 DEF IsPlaceList, n
  <2> QED BY <1>4, <1>5, <1>10, <1>11, <2>1, <2>2
<1>16. \A j, k \in 1 .. len : j < k => pos[j] < pos[k]
  BY <1>10, <1>15 DEF IsPlaceList, n
<1>17. \A x \in 1 .. Len(m) :
          /\ m[x] \in V4 => \E i \in DOMAIN v4 : v4[i] = m[x]
          /\ m[x] \in V6 => \E i \in DOMAIN v6 : v6[i] = m[x]
  <2> TAKE x \in 1 .. Len(m)
  <2>1. ASSUME m[x] \in V4 PROVE \E i \in DOMAIN v4 : v4[i] = m[x]
    <3>1. PICK i \in 1 .. Len(v4) : P4[i] = x /\ m[P4[i]] = v4[i]
      BY <1>2, <2>1 DEF IsSpread
    <3> QED BY <1>4, <3>1
  <2>2. ASSUME m[x] \in V6 PROVE \E i \in DOMAIN v6 : v6[i] = m[x]
    <3>1. PICK i \in 1 .. Len(v6) : P6[i] = x /\ m[P6[i]] = v6[i]
      BY <1>2, <2>2 DEF IsSpread
    <3> QED BY <1>4, <3>1
  <2> QED BY <2>1, <2>2
<1>18. tried \subseteq wanted
  <2> SUFFICES ASSUME NEW k \in 1 .. len PROVE used[k] \in wanted
    BY <1>14
  <2>1. used[k] = m[pos[k]] /\ pos[k] \in 1 .. Len(m) /\ (hasV6 \/ m[pos[k]] \in V4)
    BY <1>7, <1>15
  <2>2. CASE m[pos[k]] \in V4
    BY <1>17, <2>1, <2>2
  <2>3. CASE m[pos[k]] \notin V4
    <3>1. hasV6 /\ m[pos[k]] \in V6
      BY <1>4, <2>1, <2>3
    <3> QED BY <1>17, <2>1, <3>1
  <2> QED BY <2>2, <2>3
<1>19. Cardinality(tried) = Len(used)
  <2>1. ASSUME NEW j \in 1 .. len, NEW k \in 1 .. len, j < k PROVE used[j] # used[k]
    <3>1. pos[j] \in 1 .. pos[k] - 1
      BY <1>4, <1>15, <1>16, <2>1
    <3>2. m[pos[j]] # m[pos[k]]
      BY <1>15, <3>1 DEF FirstPlaces
    <3> QED BY <1>15, <3>2
  <2>2. \A j, k \in 1 .. Len(used) : used[j] = used[k] => j = k
    BY <1>11, <1>14, <2>1
  <2> QED BY <1>11, <2>2, DistinctElements
<1>20. tried = wanted \/ Len(used) = MaxCandidates
  <2> SUFFICES ASSUME len = n PROVE wanted \subseteq tried
    BY <1>11, <1>12, <1>18
  <2>1. ASSUME NEW x \in 1 .. Len(m), hasV6 \/ m[x] \in V4 PROVE m[x] \in tried
    <3>1. PICK f \in FirstPlaces(m) : m[f] = m[x]
      BY <1>1, <1>4, HasFirstPlace
    <3>2. f \in keep
      BY <1>6, <2>1, <3>1
    <3>3. PICK k \in 1 .. n : pos[k] = f
      BY <1>10, <3>2 DEF IsPlaceList, n
    <3>4. k \in DOMAIN used /\ used[k] = m[x]
      BY <1>14, <1>15, <3>1, <3>3
    <3> QED BY <3>4
  <2>2. ASSUME NEW i \in DOMAIN v4 PROVE v4[i] \in tried
    <3>1. P4[i] \in 1 .. Len(m) /\ m[P4[i]] = v4[i] /\ v4[i] \in V4
      BY <1>2, <1>4 DEF IsSpread
    <3> QED BY <2>1, <3>1
  <2>3. ASSUME NEW i \in DOMAIN v6, hasV6 PROVE v6[i] \in tried
    <3>1. P6[i] \in 1 .. Len(m) /\ m[P6[i]] = v6[i]
      BY <1>2, <1>4 DEF IsSpread
    <3> QED BY <2>1, <2>3, <3>1
  <2> HIDE DEF tried
  <2> QED BY <2>2, <2>3
<1>21. ASSUME wanted \cap V4 # {}, wanted \cap V6 # {}, MaxCandidates > 1
       PROVE  used[1] \in V6 /\ used[2] \in V4
  <2>1. Len(v4) > 0 /\ Len(v6) > 0 /\ hasV6
    <3>1. PICK a \in wanted : a \in V6
      BY <1>21
    <3>2. PICK b \in wanted : b \in V4
      BY <1>21
    <3>3. \A i \in DOMAIN v4 : v4[i] \in V4 /\ v4[i] \notin V6
      BY <1>4, SocksAssumption
    <3>4. \A i \in DOMAIN v6 : v6[i] \in V6 /\ v6[i] \notin V4
      BY <1>4, SocksAssumption
    <3>5. hasV6 /\ DOMAIN v6 # {}
      BY <3>1, <3>3
    <3>6. DOMAIN v4 # {}
      BY <3>2, <3>4
    <3> QED BY <1>4, <3>5, <3>6
  <2>2. m[1] = v6[1] /\ m[2] = v4[1] /\ v6[1] \in V6 /\ v4[1] \in V4
    <3>1. 1 \in 1 .. Len(v6) /\ 1 \in 1 .. Len(v4)
      BY <1>4, <2>1
    <3> QED BY <1>2, <1>3, <1>4, <2>1, <3>1 DEF IsSpread
  <2>3. m[1] # m[2]
    BY <2>2, SocksAssumption
  <2>4. 1 \in DOMAIN m /\ 2 \in DOMAIN m
    BY <1>1, <1>4, <2>1
  <2>5. 1 \in FirstPlaces(m)
    BY <2>4 DEF FirstPlaces
  <2>6. 2 \in FirstPlaces(m)
    <3>1. \A j \in 1 .. 2 - 1 : m[j] # m[2]
      BY <2>3
    <3> QED BY <2>4, <3>1 DEF FirstPlaces
  <2>7. PICK k1 \in 1 .. n : pos[k1] = 1
    BY <1>6, <1>10, <2>1, <2>5 DEF IsPlaceList, n
  <2>8. PICK k2 \in 1 .. n : pos[k2] = 2
    BY <1>6, <1>10, <2>1, <2>6 DEF IsPlaceList, n
  <2>9. \A j, k \in 1 .. n : j < k <=> pos[j] < pos[k]
    BY <1>10 DEF IsPlaceList, n
  <2>10. \A k \in 1 .. n : pos[k] \in 1 .. Len(m)
    BY <1>4, <1>5, <1>10 DEF IsPlaceList, n
  <2>11. k1 < k2
    BY <2>7, <2>8, <2>9
  <2>12. 1 \in 1 .. n /\ 2 \in 1 .. n /\ n > 1
    BY <1>9, <2>11
  <2>13. k1 = 1
    <3> SUFFICES ASSUME 1 < k1 PROVE FALSE
      BY <1>9
    <3>1. pos[1] < 1
      BY <2>7, <2>9, <2>12
    <3> QED BY <1>4, <2>10, <2>12, <3>1
  <2>14. k2 = 2
    <3> SUFFICES ASSUME 2 < k2 PROVE FALSE
      BY <1>9, <2>11, <2>13
    <3>1. pos[2] < 2
      BY <2>8, <2>9, <2>12
    <3>2. 1 < 2 /\ pos[1] = 1
      BY <2>7, <2>13
    <3>3. 1 < pos[2]
      BY <2>9, <2>12, <3>2
    <3> QED BY <1>4, <2>10, <2>12, <3>1, <3>3
  <2>15. 1 \in 1 .. len /\ 2 \in 1 .. len
    BY <1>13, <1>14, <1>21, <2>12
  <2>16. used[1] = m[1] /\ used[2] = m[2]
    BY <1>15, <2>7, <2>8, <2>13, <2>14, <2>15
  <2> QED BY <2>2, <2>16
<1>22. ASSUME NEW j \in DOMAIN used, NEW k \in DOMAIN used, j < k
       PROVE  /\ used[j] \in V4 /\ used[k] \in V4 => FirstIn(v4, used[j]) < FirstIn(v4, used[k])
              /\ used[j] \in V6 /\ used[k] \in V6 => FirstIn(v6, used[j]) < FirstIn(v6, used[k])
  <2>1. /\ used[j] = m[pos[j]] /\ used[k] = m[pos[k]] /\ pos[j] < pos[k]
        /\ pos[j] \in FirstPlaces(m) /\ pos[k] \in FirstPlaces(m)
    BY <1>14, <1>15, <1>16, <1>22
  <2>2. used[j] \in V4 /\ used[k] \in V4 => FirstIn(v4, used[j]) < FirstIn(v4, used[k])
    BY <1>1, <1>2, <2>1, SpreadKeepsOrder
  <2>3. used[j] \in V6 /\ used[k] \in V6 => FirstIn(v6, used[j]) < FirstIn(v6, used[k])
    BY <1>1, <1>2, <2>1, SpreadKeepsOrder
  <2> QED BY <2>2, <2>3
<1>23. IsOrderedList(used, v6, v4, hasV6)
  BY <1>18, <1>19, <1>20, <1>21, <1>22 DEF IsOrderedList
<1> QED BY <1>23 DEF used, m

\* happy_eyeballs_dial dials its candidates in the right order and leaves none
\* out, whatever the resolver answers, for any families and any limit.
THEOREM CandidatesOrdered == Spec => []CandidateOrder
<1>1. AllListsOrdered
  BY ListOrdered, RecordsAreSeq DEF AllListsOrdered
<1>2. CandidateOrder
  BY <1>1 DEF CandidateOrder
<1> QED BY <1>2, PTL

-----------------------------------------------------------------------------
(* connect_candidate, seen as a race.                                      *)

\* The future while it races: its list is that of its configuration, the probes
\* made are the first ones, and not too many are alive.
Probing(e) ==
    /\ e = [pc |-> "racing", cfg |-> e.cfg, list |-> e.list, started |-> e.started,
            att |-> e.att, winner |-> 0]
    /\ e.cfg \in Configs /\ e.list = EndpointAttempts(e.cfg)
    /\ e.started \in 1 .. Len(e.list)
    /\ e.att \in [1 .. Len(e.list) -> ProbeStates]
    /\ \A i \in 1 .. Len(e.list) : e.att[i] = "none" <=> i > e.started
    /\ Cardinality(Alive(e.att)) <= MaxProbes

\* The future while it shuts the other probes down: the winner is connected, and
\* besides it not too many are alive.
Closing(e) ==
    /\ e = [pc |-> "closing", cfg |-> e.cfg, list |-> e.list, started |-> e.started,
            att |-> e.att, winner |-> e.winner]
    /\ e.cfg \in Configs /\ e.list = EndpointAttempts(e.cfg)
    /\ e.started \in 1 .. Len(e.list) /\ e.winner \in 1 .. Len(e.list)
    /\ e.att \in [1 .. Len(e.list) -> ProbeStates]
    /\ e.att[e.winner] = "ok"
    /\ \A i \in 1 .. Len(e.list) : e.att[i] = "none" <=> i > e.started
    /\ Cardinality(Alive(e.att) \ {e.winner}) <= MaxProbes

EndpointGood(e) ==
    \/ \E p \in {"idle", "lost", "over"} : e = NotConnecting(p, 0)
    \/ \E w \in Nat : e = NotConnecting("won", w)
    \/ Probing(e)
    \/ Closing(e)

\* A step of connect_candidate from e to f: the future stays good, and it is a
\* step of the race or none.
EndpointMoved(e, f) ==
    /\ EndpointGood(f)
    /\ \/ EndpointRaceOf(f) = EndpointRaceOf(e)
       \/ EndpointRaceSpec!Step(EndpointRaceOf(e), EndpointRaceOf(f))

\* Race counts with the same operator.
LEMMA EndpointCardinality == \A S : EndpointRaceSpec!Cardinality(S) = Cardinality(S)
BY DEF EndpointRaceSpec!Cardinality, Cardinality

\* The probes of a list are finitely many.
LEMMA AliveFinite ==
  ASSUME NEW n \in Nat, NEW att \in [1 .. n -> ProbeStates]
  PROVE  /\ Alive(att) \subseteq 1 .. n /\ IsFiniteSet(Alive(att))
         /\ Cardinality(Alive(att)) \in Nat
<1>1. Alive(att) \subseteq 1 .. n
  BY DEF Alive
<1>2. IsFiniteSet(1 .. n)
  BY FS_Interval
<1>3. IsFiniteSet(Alive(att))
  BY <1>1, <1>2, FS_Subset
<1> QED BY <1>1, <1>3, FS_CardinalityType

\* A future that races is a race.
LEMMA ProbingOf ==
  ASSUME NEW e, Probing(e)
  PROVE  /\ Len(e.list) \in Nat
         /\ EndpointRaceOf(e) =
              [phase |-> "racing", cands |-> 1 .. Len(e.list), started |-> 1 .. e.started,
               failed |-> {i \in 1 .. Len(e.list) : e.att[i] = "failed"},
               connected |-> {i \in 1 .. Len(e.list) : e.att[i] = "ok"},
               open |-> Alive(e.att)]
         /\ EndpointRaceSpec!Racing(EndpointRaceOf(e))
         /\ EndpointRaceOf(e) \in EndpointRaceSpec!RaceStates
<1> DEFINE n == Len(e.list)
           lost == {i \in 1 .. n : e.att[i] = "failed"}
           ok == {i \in 1 .. n : e.att[i] = "ok"}
           r == EndpointRaceOf(e)
<1>1. n \in Nat
  BY AttemptsElements DEF Probing
<1>2. /\ e.pc = "racing" /\ e.started \in 1 .. n /\ DOMAIN e.att = 1 .. n
      /\ \A i \in 1 .. n : e.att[i] \in ProbeStates
      /\ \A i \in 1 .. n : e.att[i] = "none" <=> i > e.started
      /\ Cardinality(Alive(e.att)) <= MaxProbes
  BY DEF Probing
<1>3. r = [phase |-> "racing", cands |-> 1 .. n, started |-> 1 .. e.started,
           failed |-> lost, connected |-> ok, open |-> Alive(e.att)]
  BY <1>2 DEF EndpointRaceOf
<1>4. 1 .. e.started \subseteq 1 .. n
  BY <1>1, <1>2
<1>5. Alive(e.att) = (1 .. e.started) \ lost
  <2>1. \A i \in 1 .. n : i \in 1 .. e.started <=> e.att[i] # "none"
    BY <1>1, <1>2
  <2> QED BY <1>2, <1>4, <2>1 DEF Alive, ProbeStates
<1>6. ok \subseteq Alive(e.att) /\ lost \subseteq 1 .. n /\ ok \subseteq 1 .. n
  BY <1>2 DEF Alive
<1>7. 1 .. n \subseteq Nat
  BY <1>1
<1> HIDE DEF n, lost, ok, r
<1>8. EndpointRaceSpec!Racing(r)
  BY <1>2, <1>3, <1>4, <1>5, <1>6, EndpointCardinality DEF EndpointRaceSpec!Racing
<1>9. r \in EndpointRaceSpec!RaceStates
  BY <1>3, <1>4, <1>5, <1>6, <1>7 DEF EndpointRaceSpec!RaceStates
<1> QED BY <1>1, <1>3, <1>8, <1>9 DEF n, lost, ok, r

\* A future that shuts probes down is a race that is closing.
LEMMA ClosingOf ==
  ASSUME NEW e, Closing(e)
  PROVE  /\ Len(e.list) \in Nat
         /\ EndpointRaceOf(e) =
              [phase |-> "closing", cands |-> 1 .. Len(e.list), started |-> 1 .. e.started,
               failed |-> {i \in 1 .. Len(e.list) : e.att[i] = "failed"},
               connected |-> {e.winner}, open |-> Alive(e.att)]
         /\ EndpointRaceSpec!Closing(EndpointRaceOf(e))
         /\ EndpointRaceOf(e) \in EndpointRaceSpec!RaceStates
<1> DEFINE n == Len(e.list)
           lost == {i \in 1 .. n : e.att[i] = "failed"}
           w == e.winner
           r == EndpointRaceOf(e)
<1>1. n \in Nat
  BY AttemptsElements DEF Closing
<1>2. /\ e.pc = "closing" /\ e.started \in 1 .. n /\ DOMAIN e.att = 1 .. n
      /\ \A i \in 1 .. n : e.att[i] \in ProbeStates
      /\ \A i \in 1 .. n : e.att[i] = "none" <=> i > e.started
      /\ w \in 1 .. n /\ e.att[w] = "ok"
      /\ Cardinality(Alive(e.att) \ {w}) <= MaxProbes
  BY DEF Closing
<1>3. r = [phase |-> "closing", cands |-> 1 .. n, started |-> 1 .. e.started,
           failed |-> lost, connected |-> {w}, open |-> Alive(e.att)]
  BY <1>2 DEF EndpointRaceOf
<1>4. 1 .. e.started \subseteq 1 .. n
  BY <1>1, <1>2
<1>5. Alive(e.att) = (1 .. e.started) \ lost
  <2>1. \A i \in 1 .. n : i \in 1 .. e.started <=> e.att[i] # "none"
    BY <1>1, <1>2
  <2> QED BY <1>2, <1>4, <2>1 DEF Alive, ProbeStates
<1>6. w \in Alive(e.att) /\ lost \subseteq 1 .. n
  BY <1>2 DEF Alive
<1>7. 1 .. n \subseteq Nat
  BY <1>1
<1> HIDE DEF n, lost, w, r
<1>8. EndpointRaceSpec!Closing(r)
  <2>1. /\ r.phase = "closing" /\ r.started = 1 .. e.started /\ r.cands = 1 .. n
        /\ r.failed = lost /\ r.connected = {w} /\ r.open = Alive(e.att)
    BY <1>3
  <2>2. EndpointRaceSpec!Cardinality(r.open \ {w}) <= MaxProbes
    BY <1>2, <2>1, EndpointCardinality
  <2> QED BY <1>4, <1>5, <1>6, <2>1, <2>2 DEF EndpointRaceSpec!Closing
<1>9. r \in EndpointRaceSpec!RaceStates
  BY <1>2, <1>3, <1>4, <1>5, <1>6, <1>7 DEF EndpointRaceSpec!RaceStates
<1> QED BY <1>1, <1>3, <1>8, <1>9 DEF n, lost, w, r

\* The race of a good future has the type of Race.
LEMMA EndpointRaceTyped ==
  ASSUME NEW e, EndpointGood(e)
  PROVE  EndpointRaceOf(e) \in EndpointRaceSpec!RaceStates
<1>1. ASSUME NEW p \in {"idle", "lost", "over"}, e = NotConnecting(p, 0)
      PROVE  EndpointRaceOf(e) \in EndpointRaceSpec!RaceStates
  <2>1. PICK q \in {"idle", "lost"} :
          EndpointRaceOf(e) = [phase |-> q, cands |-> {}, started |-> {}, failed |-> {},
                               connected |-> {}, open |-> {}]
    BY <1>1 DEF EndpointRaceOf, NotConnecting
  <2> QED BY <2>1 DEF EndpointRaceSpec!RaceStates
<1>2. ASSUME NEW w \in Nat, e = NotConnecting("won", w)
      PROVE  EndpointRaceOf(e) \in EndpointRaceSpec!RaceStates
  <2>1. EndpointRaceOf(e) = [phase |-> "won", cands |-> {}, started |-> {}, failed |-> {},
                             connected |-> {w}, open |-> {w}]
    BY <1>2 DEF EndpointRaceOf, NotConnecting
  <2> QED BY <2>1 DEF EndpointRaceSpec!RaceStates
<1> QED BY <1>1, <1>2, ProbingOf, ClosingOf DEF EndpointGood

\* The list is expanded and the first probes begin.
LEMMA ConnectMoves ==
  ASSUME NEW cfg \in Configs, Connect(cfg), EndpointGood(ep)
  PROVE  EndpointMoved(ep, ep')
<1> DEFINE list == EndpointAttempts(cfg)
           n == Len(list)
           first == IF n < MaxProbes THEN n ELSE MaxProbes
           att == [i \in 1 .. n |-> IF i <= first THEN "running" ELSE "none"]
<1>1. n \in Nat /\ n > 0
  <2>1. list \in Seq(Endpoints) /\ 1 \in DOMAIN list
    BY AttemptsElements
  <2> HIDE DEF list
  <2> QED BY <2>1
<1>2. first \in 1 .. n /\ first <= MaxProbes
  BY <1>1, EndpointAssumption
<1>3. ep' = [pc |-> "racing", cfg |-> cfg, list |-> list, started |-> first,
             att |-> att, winner |-> 0]
  BY DEF Connect
<1>4. att \in [1 .. n -> ProbeStates]
      /\ \A i \in 1 .. n : att[i] = (IF i <= first THEN "running" ELSE "none")
  BY DEF ProbeStates
<1>5. ep.pc = "idle"
  BY DEF Connect
<1> HIDE DEF list, n, first, att
<1>6. \A i \in 1 .. n : att[i] = "none" <=> i > first
  BY <1>1, <1>2, <1>4
<1>7. Alive(att) = 1 .. first
  BY <1>1, <1>2, <1>4 DEF Alive
<1>8. Cardinality(1 .. first) = first
  BY <1>1, <1>2, FS_Interval
<1>9. Probing(ep')
  BY <1>2, <1>3, <1>4, <1>6, <1>7, <1>8 DEF Probing, list, n
<1>10. EndpointRaceSpec!Begin(EndpointRaceOf(ep), EndpointRaceOf(ep'))
  <2>1. EndpointRaceOf(ep).phase = "idle"
    BY <1>5 DEF EndpointRaceOf
  <2>2. EndpointRaceSpec!Racing(EndpointRaceOf(ep'))
    BY <1>9, ProbingOf
  <2>3. EndpointRaceOf(ep') =
          [phase |-> "racing", cands |-> 1 .. n, started |-> 1 .. first,
           failed |-> {i \in 1 .. n : att[i] = "failed"},
           connected |-> {i \in 1 .. n : att[i] = "ok"}, open |-> Alive(att)]
    <3>1. ep'.list = list /\ ep'.started = first /\ ep'.att = att /\ Len(list) = n
      BY <1>3 DEF n
    <3>2. EndpointRaceOf(ep') =
            [phase |-> "racing", cands |-> 1 .. Len(ep'.list), started |-> 1 .. ep'.started,
             failed |-> {i \in 1 .. Len(ep'.list) : ep'.att[i] = "failed"},
             connected |-> {i \in 1 .. Len(ep'.list) : ep'.att[i] = "ok"},
             open |-> Alive(ep'.att)]
      BY <1>9, ProbingOf
    <3> QED BY <3>1, <3>2
  <2>4. 1 \in 1 .. first
    BY <1>1, <1>2
  <2>5. ASSUME NEW i \in 1 .. n PROVE att[i] # "failed" /\ att[i] # "ok"
    <3>1. att[i] \in {"running", "none"}
      BY <1>4
    <3> QED BY <3>1
  <2> QED BY <2>1, <2>2, <2>3, <2>4, <2>5 DEF EndpointRaceSpec!Begin
<1> QED BY <1>9, <1>10 DEF EndpointMoved, EndpointGood, EndpointRaceSpec!Step

\* A race that goes on.
LEMMA ProbingAdvances ==
  ASSUME NEW e, NEW f, Probing(e), Probing(f), f.list = e.list, e.started <= f.started,
         \A i \in 1 .. Len(e.list) :
            /\ e.att[i] = "failed" => f.att[i] = "failed"
            /\ e.att[i] = "ok" => f.att[i] = "ok"
            /\ f.att[i] \in {"failed", "ok"} => i <= e.started
  PROVE  EndpointMoved(e, f)
<1> DEFINE n == Len(e.list)
<1>1. n \in Nat
  BY ProbingOf
<1>2. e.started \in 1 .. n /\ f.started \in 1 .. n
  BY DEF Probing
<1>3. /\ EndpointRaceOf(e) =
           [phase |-> "racing", cands |-> 1 .. n, started |-> 1 .. e.started,
            failed |-> {i \in 1 .. n : e.att[i] = "failed"},
            connected |-> {i \in 1 .. n : e.att[i] = "ok"}, open |-> Alive(e.att)]
      /\ EndpointRaceOf(f) =
           [phase |-> "racing", cands |-> 1 .. n, started |-> 1 .. f.started,
            failed |-> {i \in 1 .. n : f.att[i] = "failed"},
            connected |-> {i \in 1 .. n : f.att[i] = "ok"}, open |-> Alive(f.att)]
      /\ EndpointRaceSpec!Racing(EndpointRaceOf(f))
  BY ProbingOf
<1>4. /\ 1 .. e.started \subseteq 1 .. f.started
      /\ {i \in 1 .. n : e.att[i] = "failed"} \subseteq {i \in 1 .. n : f.att[i] = "failed"}
      /\ {i \in 1 .. n : f.att[i] = "failed"} \subseteq 1 .. e.started
      /\ {i \in 1 .. n : e.att[i] = "ok"} \subseteq {i \in 1 .. n : f.att[i] = "ok"}
      /\ {i \in 1 .. n : f.att[i] = "ok"} \subseteq 1 .. e.started
  BY <1>1, <1>2
<1>5. EndpointRaceSpec!Advance(EndpointRaceOf(e), EndpointRaceOf(f))
  BY <1>3, <1>4 DEF EndpointRaceSpec!Advance
<1> QED BY <1>5 DEF EndpointMoved, EndpointGood, EndpointRaceSpec!Step

\* A probe ends.
LEMMA ProbeEndsMoves ==
  ASSUME EndpointGood(ep), NEW i \in 1 .. Len(ep.list), ProbeEnds(i)
  PROVE  EndpointMoved(ep, ep')
<1>1. Probing(ep)
  BY DEF EndpointGood, ProbeEnds, NotConnecting, Closing
<1>2. PICK v \in {"ok", "error"} : ep' = [ep EXCEPT !.att[i] = v]
  BY DEF ProbeEnds
<1>3. ep.att[i] = "running"
  BY DEF ProbeEnds
<1> DEFINE n == Len(ep.list)
           att == [ep.att EXCEPT ![i] = v]
<1>4. /\ n \in Nat /\ ep.started \in 1 .. n /\ ep.att \in [1 .. n -> ProbeStates]
      /\ \A j \in 1 .. n : ep.att[j] = "none" <=> j > ep.started
      /\ Cardinality(Alive(ep.att)) <= MaxProbes
  BY <1>1, ProbingOf DEF Probing
<1>5. ep' = [pc |-> "racing", cfg |-> ep.cfg, list |-> ep.list, started |-> ep.started,
             att |-> att, winner |-> 0]
  <2>1. ep = [pc |-> "racing", cfg |-> ep.cfg, list |-> ep.list, started |-> ep.started,
              att |-> ep.att, winner |-> 0]
    BY <1>1 DEF Probing
  <2>2. ep' = [ep EXCEPT !.att = att]
    BY <1>2
  <2> HIDE DEF att
  <2> QED BY <2>1, <2>2
<1>6. att \in [1 .. n -> ProbeStates] /\ att[i] = v
      /\ \A j \in 1 .. n : j # i => att[j] = ep.att[j]
  BY <1>4 DEF ProbeStates
<1> HIDE DEF att
<1>7. Alive(att) = Alive(ep.att)
  BY <1>3, <1>4, <1>6 DEF Alive
<1>8. \A j \in 1 .. n : att[j] = "none" <=> j > ep.started
  BY <1>3, <1>4, <1>6
<1>9. ep'.list = ep.list /\ ep'.started = ep.started /\ ep'.att = att
  BY <1>5
<1>10. Probing(ep')
  BY <1>1, <1>4, <1>5, <1>6, <1>7, <1>8 DEF Probing
<1>11. \A j \in 1 .. n :
          /\ ep.att[j] = "failed" => att[j] = "failed"
          /\ ep.att[j] = "ok" => att[j] = "ok"
          /\ att[j] \in {"failed", "ok"} => j <= ep.started
  <2> TAKE j \in 1 .. n
  <2>1. att[j] # "none" => j <= ep.started
    BY <1>4, <1>8
  <2> QED BY <1>3, <1>6, <2>1
<1>12. ep.started <= ep'.started
  BY <1>4, <1>9
<1> QED BY <1>1, <1>9, <1>10, <1>11, <1>12, ProbingAdvances

\* Two fields of the future change.
LEMMA NextProbe ==
  ASSUME NEW e, NEW s, NEW a,
         e = [pc |-> "racing", cfg |-> e.cfg, list |-> e.list, started |-> e.started,
              att |-> e.att, winner |-> 0]
  PROVE  [e EXCEPT !.started = s, !.att = a]
         = [pc |-> "racing", cfg |-> e.cfg, list |-> e.list, started |-> s, att |-> a,
            winner |-> 0]
<1> DEFINE f == [e EXCEPT !.started = s, !.att = a]
           g == [pc |-> "racing", cfg |-> e.cfg, list |-> e.list, started |-> s, att |-> a,
                 winner |-> 0]
<1>1. f = [x \in {"pc", "cfg", "list", "started", "att", "winner"} |-> f[x]]
  OBVIOUS
<1>2. g = [x \in {"pc", "cfg", "list", "started", "att", "winner"} |-> g[x]]
  OBVIOUS
<1>3. /\ f["pc"] = g["pc"] /\ f["cfg"] = g["cfg"] /\ f["list"] = g["list"]
      /\ f["started"] = g["started"] /\ f["att"] = g["att"] /\ f["winner"] = g["winner"]
  OBVIOUS
<1> HIDE DEF f, g
<1>4. f = g
  BY <1>1, <1>2, <1>3
<1> QED BY <1>4 DEF f, g

\* spawn_next: the next probe is made, if there is one.
LEMMA SpawnNextMakes ==
  ASSUME NEW e, Probing(e)
  PROVE  LET f == SpawnNext(e)
         IN  \/ e.started < Len(e.list)
                /\ f = [pc |-> "racing", cfg |-> e.cfg, list |-> e.list,
                        started |-> e.started + 1,
                        att |-> [e.att EXCEPT ![e.started + 1] = "running"], winner |-> 0]
             \/ e.started = Len(e.list) /\ f = e
<1>1. Len(e.list) \in Nat /\ e.started \in 1 .. Len(e.list)
  BY ProbingOf DEF Probing
<1>2. CASE e.started < Len(e.list)
  <2> DEFINE att == [e.att EXCEPT ![e.started + 1] = "running"]
             s == e.started + 1
  <2>1. e = [pc |-> "racing", cfg |-> e.cfg, list |-> e.list, started |-> e.started,
             att |-> e.att, winner |-> 0]
    BY DEF Probing
  <2>2. SpawnNext(e) = [e EXCEPT !.started = s, !.att = att]
    BY <1>2 DEF SpawnNext
  <2>3. SpawnNext(e) = [pc |-> "racing", cfg |-> e.cfg, list |-> e.list, started |-> s,
                        att |-> att, winner |-> 0]
    <3> HIDE DEF att, s
    <3> QED BY <2>1, <2>2, NextProbe
  <2> QED BY <1>2, <2>3
<1>3. CASE ~ (e.started < Len(e.list))
  BY <1>1, <1>3 DEF SpawnNext
<1> QED BY <1>2, <1>3

\* Two other fields of the future change.
LEMMA PickedProbe ==
  ASSUME NEW e, NEW w,
         e = [pc |-> "racing", cfg |-> e.cfg, list |-> e.list, started |-> e.started,
              att |-> e.att, winner |-> 0]
  PROVE  [e EXCEPT !.pc = "closing", !.winner = w]
         = [pc |-> "closing", cfg |-> e.cfg, list |-> e.list, started |-> e.started,
            att |-> e.att, winner |-> w]
<1> DEFINE f == [e EXCEPT !.pc = "closing", !.winner = w]
           g == [pc |-> "closing", cfg |-> e.cfg, list |-> e.list, started |-> e.started,
                 att |-> e.att, winner |-> w]
<1>1. f = [x \in {"pc", "cfg", "list", "started", "att", "winner"} |-> f[x]]
  OBVIOUS
<1>2. g = [x \in {"pc", "cfg", "list", "started", "att", "winner"} |-> g[x]]
  OBVIOUS
<1>3. /\ f["pc"] = g["pc"] /\ f["cfg"] = g["cfg"] /\ f["list"] = g["list"]
      /\ f["started"] = g["started"] /\ f["att"] = g["att"] /\ f["winner"] = g["winner"]
  OBVIOUS
<1> HIDE DEF f, g
<1>4. f = g
  BY <1>1, <1>2, <1>3
<1> QED BY <1>4 DEF f, g

\* A handshake is joined: the next probe has been spawned, which makes up for the
\* winner in the number of probes, and the others are to be shut down.
LEMMA PickMoves ==
  ASSUME Probing(ep), NEW i \in 1 .. Len(ep.list), ep.att[i] = "ok",
         ep' = [SpawnNext(ep) EXCEPT !.pc = "closing", !.winner = i]
  PROVE  EndpointMoved(ep, ep')
<1> DEFINE n == Len(ep.list)
           s == IF ep.started < n THEN ep.started + 1 ELSE ep.started
           att == [j \in 1 .. n |-> IF ep.started < j /\ j = s THEN "running" ELSE ep.att[j]]
<1>1. /\ n \in Nat /\ ep.started \in 1 .. n /\ ep.att \in [1 .. n -> ProbeStates]
      /\ \A j \in 1 .. n : ep.att[j] = "none" <=> j > ep.started
      /\ Cardinality(Alive(ep.att)) <= MaxProbes
      /\ ep.cfg \in Configs /\ ep.list = EndpointAttempts(ep.cfg)
  BY ProbingOf DEF Probing
<1>2. ep' = [pc |-> "closing", cfg |-> ep.cfg, list |-> ep.list, started |-> s,
             att |-> att, winner |-> i]
  <2> DEFINE f == SpawnNext(ep)
  <2>1. f = [pc |-> "racing", cfg |-> ep.cfg, list |-> ep.list, started |-> s,
             att |-> att, winner |-> 0]
    <3>1. CASE ep.started < n
      <4>1. att = [ep.att EXCEPT ![ep.started + 1] = "running"]
        BY <1>1, <3>1
      <4>2. f = [pc |-> "racing", cfg |-> ep.cfg, list |-> ep.list,
                 started |-> ep.started + 1,
                 att |-> [ep.att EXCEPT ![ep.started + 1] = "running"], winner |-> 0]
        BY <1>1, <3>1, SpawnNextMakes
      <4> QED BY <3>1, <4>1, <4>2
    <3>2. CASE ~ (ep.started < n)
      <4>1. att = ep.att
        BY <1>1, <3>2
      <4>2. f = ep
        BY <3>2 DEF SpawnNext
      <4>3. s = ep.started
        BY <3>2
      <4> QED BY <4>1, <4>2, <4>3 DEF Probing
    <3> QED BY <3>1, <3>2
  <2> HIDE DEF f, s, att
  <2>2. f = [pc |-> "racing", cfg |-> f.cfg, list |-> f.list, started |-> f.started,
             att |-> f.att, winner |-> 0]
        /\ f.cfg = ep.cfg /\ f.list = ep.list /\ f.started = s /\ f.att = att
    BY <2>1
  <2>3. ep' = [f EXCEPT !.pc = "closing", !.winner = i]
    BY DEF f
  <2> QED BY <2>2, <2>3, PickedProbe
<1>3. s \in 1 .. n /\ ep.started <= s /\ s <= ep.started + 1
  BY <1>1
<1>4. att \in [1 .. n -> ProbeStates]
  BY <1>1 DEF ProbeStates
<1>5. \A j \in 1 .. n : att[j] = "none" <=> j > s
  BY <1>1
<1>6. \A j \in 1 .. n : att[j] # ep.att[j] => ep.att[j] = "none" /\ att[j] = "running" /\ j = s
  BY <1>1
<1> HIDE DEF s, att
<1>7. att[i] = "ok" /\ i \in Alive(ep.att)
  BY <1>1, <1>6 DEF Alive
<1>8. Cardinality(Alive(att) \ {i}) <= MaxProbes
  <2> DEFINE A == Alive(ep.att)
  <2>1. IsFiniteSet(A) /\ Cardinality(A) \in Nat /\ Cardinality(A) <= MaxProbes
    BY <1>1, AliveFinite
  <2>2. IsFiniteSet(A \ {i}) /\ Cardinality(A \ {i}) = Cardinality(A) - 1
    BY <1>7, <2>1, FS_RemoveElement
  <2>3. Alive(att) \ {i} \subseteq (A \ {i}) \cup {s}
    BY <1>1, <1>4, <1>6 DEF Alive
  <2> HIDE DEF A
  <2>4. IsFiniteSet((A \ {i}) \cup {s}) /\ Cardinality((A \ {i}) \cup {s}) <= Cardinality(A)
    <3> DEFINE B == A \ {i}
               m == Cardinality(B \cup {s})
    <3>1. IsFiniteSet(B) /\ Cardinality(B) = Cardinality(A) - 1
      BY <2>2
    <3> HIDE DEF B
    <3>2. IsFiniteSet(B \cup {s}) /\ (m = Cardinality(B) \/ m = Cardinality(B) + 1)
      BY <3>1, FS_AddElement
    <3> HIDE DEF m
    <3>3. m <= Cardinality(A)
      BY <2>1, <3>1, <3>2
    <3> QED BY <3>2, <3>3 DEF B, m
  <2>5. /\ IsFiniteSet(Alive(att) \ {i})
        /\ Cardinality(Alive(att) \ {i}) <= Cardinality((A \ {i}) \cup {s})
    BY <2>3, <2>4, FS_Subset
  <2> QED BY <2>1, <2>4, <2>5, FS_CardinalityType, EndpointAssumption
<1>9. /\ ep'.cfg = ep.cfg /\ ep'.list = ep.list /\ ep'.started = s
      /\ ep'.att = att /\ ep'.winner = i
  <2> DEFINE f == ep'
  <2>1. f = [pc |-> "closing", cfg |-> ep.cfg, list |-> ep.list, started |-> s,
             att |-> att, winner |-> i]
    BY <1>2
  <2> HIDE DEF f
  <2>2. f.cfg = ep.cfg /\ f.list = ep.list /\ f.started = s /\ f.att = att /\ f.winner = i
    BY <2>1
  <2> QED BY <2>2 DEF f
<1>10. Closing(ep')
  BY <1>1, <1>2, <1>3, <1>4, <1>5, <1>7, <1>8, <1>9 DEF Closing
<1>11. /\ EndpointRaceOf(ep) =
            [phase |-> "racing", cands |-> 1 .. n, started |-> 1 .. ep.started,
             failed |-> {j \in 1 .. n : ep.att[j] = "failed"},
             connected |-> {j \in 1 .. n : ep.att[j] = "ok"}, open |-> Alive(ep.att)]
       /\ EndpointRaceOf(ep') =
            [phase |-> "closing", cands |-> 1 .. n, started |-> 1 .. s,
             failed |-> {j \in 1 .. n : att[j] = "failed"},
             connected |-> {i}, open |-> Alive(att)]
       /\ EndpointRaceSpec!Closing(EndpointRaceOf(ep'))
  BY <1>9, <1>10, ProbingOf, ClosingOf
<1>12. /\ 1 .. ep.started \subseteq 1 .. s
       /\ {j \in 1 .. n : att[j] = "failed"} = {j \in 1 .. n : ep.att[j] = "failed"}
       /\ {i} \subseteq {j \in 1 .. n : ep.att[j] = "ok"}
  BY <1>1, <1>3, <1>6
<1>13. EndpointRaceSpec!Pick(EndpointRaceOf(ep), EndpointRaceOf(ep'))
  <2> DEFINE x == EndpointRaceOf(ep)
             y == EndpointRaceOf(ep')
  <2>1. /\ x.phase = "racing" /\ x.cands = 1 .. n /\ x.started = 1 .. ep.started
        /\ x.failed = {j \in 1 .. n : ep.att[j] = "failed"}
        /\ x.connected = {j \in 1 .. n : ep.att[j] = "ok"}
    BY <1>11
  <2>2. /\ y.cands = 1 .. n /\ y.started = 1 .. s
        /\ y.failed = {j \in 1 .. n : att[j] = "failed"} /\ y.connected = {i}
    BY <1>11
  <2>3. EndpointRaceSpec!Closing(y)
    BY <1>11
  <2> HIDE DEF x, y
  <2>4. EndpointRaceSpec!Pick(x, y)
    BY <1>12, <2>1, <2>2, <2>3 DEF EndpointRaceSpec!Pick
  <2> QED BY <2>4 DEF x, y
<1> QED BY <1>10, <1>13 DEF EndpointMoved, EndpointGood, EndpointRaceSpec!Step

\* A probe is shut down.
LEMMA ProbeClosedMoves ==
  ASSUME EndpointGood(ep), NEW i \in 1 .. Len(ep.list), ProbeClosed(i)
  PROVE  EndpointMoved(ep, ep')
<1>1. Closing(ep)
  BY DEF EndpointGood, ProbeClosed, NotConnecting, Probing
<1> DEFINE n == Len(ep.list)
           w == ep.winner
           att == [ep.att EXCEPT ![i] = "failed"]
<1>2. /\ n \in Nat /\ ep.started \in 1 .. n /\ w \in 1 .. n
      /\ ep.att \in [1 .. n -> ProbeStates] /\ ep.att[w] = "ok"
      /\ \A j \in 1 .. n : ep.att[j] = "none" <=> j > ep.started
      /\ Cardinality(Alive(ep.att) \ {w}) <= MaxProbes
      /\ ep.cfg \in Configs /\ ep.list = EndpointAttempts(ep.cfg)
  BY <1>1, ClosingOf DEF Closing
<1>3. i \in Alive(ep.att) /\ i # w /\ ep.att[i] \in {"running", "ok", "error"}
  BY DEF ProbeClosed, Alive
<1>4. ep' = [pc |-> "closing", cfg |-> ep.cfg, list |-> ep.list, started |-> ep.started,
             att |-> att, winner |-> w]
  <2>1. ep = [pc |-> "closing", cfg |-> ep.cfg, list |-> ep.list, started |-> ep.started,
              att |-> ep.att, winner |-> w]
    BY <1>1 DEF Closing
  <2>2. ep' = [ep EXCEPT !.att = att]
    BY DEF ProbeClosed
  <2> HIDE DEF att, w
  <2> QED BY <2>1, <2>2
<1>5. att \in [1 .. n -> ProbeStates] /\ att[i] = "failed"
      /\ \A j \in 1 .. n : j # i => att[j] = ep.att[j]
  BY <1>2 DEF ProbeStates
<1> HIDE DEF att
<1>6. Alive(att) \ {w} \subseteq Alive(ep.att) \ {w}
  BY <1>2, <1>5 DEF Alive
<1>7. Cardinality(Alive(att) \ {w}) <= MaxProbes
  <2>1. IsFiniteSet(Alive(ep.att))
    BY <1>2, AliveFinite
  <2>2. IsFiniteSet(Alive(ep.att) \ {w})
    BY <2>1, FS_Subset
  <2>3. /\ IsFiniteSet(Alive(att) \ {w})
        /\ Cardinality(Alive(att) \ {w}) <= Cardinality(Alive(ep.att) \ {w})
    BY <1>6, <2>2, FS_Subset
  <2> QED BY <1>2, <2>2, <2>3, FS_CardinalityType, EndpointAssumption
<1>8. \A j \in 1 .. n : att[j] = "none" <=> j > ep.started
  BY <1>2, <1>3, <1>5
<1>9. /\ ep'.cfg = ep.cfg /\ ep'.list = ep.list /\ ep'.started = ep.started
      /\ ep'.att = att /\ ep'.winner = w
  BY <1>4
<1>10. Closing(ep')
  BY <1>2, <1>3, <1>4, <1>5, <1>7, <1>8, <1>9 DEF Closing
<1>11. /\ EndpointRaceOf(ep) =
            [phase |-> "closing", cands |-> 1 .. n, started |-> 1 .. ep.started,
             failed |-> {j \in 1 .. n : ep.att[j] = "failed"},
             connected |-> {w}, open |-> Alive(ep.att)]
       /\ EndpointRaceOf(ep') =
            [phase |-> "closing", cands |-> 1 .. n, started |-> 1 .. ep.started,
             failed |-> {j \in 1 .. n : att[j] = "failed"},
             connected |-> {w}, open |-> Alive(att)]
       /\ EndpointRaceSpec!Closing(EndpointRaceOf(ep'))
  BY <1>1, <1>9, <1>10, ClosingOf
<1>12. {j \in 1 .. n : ep.att[j] = "failed"} \subseteq {j \in 1 .. n : att[j] = "failed"}
  BY <1>5
<1>13. EndpointRaceSpec!Close(EndpointRaceOf(ep), EndpointRaceOf(ep'))
  BY <1>11, <1>12 DEF EndpointRaceSpec!Close
<1> QED BY <1>10, <1>13 DEF EndpointMoved, EndpointGood, EndpointRaceSpec!Step

\* The winner is returned.
LEMMA ShutdownReturnsMoves ==
  ASSUME EndpointGood(ep), ShutdownReturns
  PROVE  EndpointMoved(ep, ep')
<1>1. Closing(ep)
  BY DEF EndpointGood, ShutdownReturns, NotConnecting, Probing
<1>2. ep' = NotConnecting("won", ep.winner) /\ Alive(ep.att) = {ep.winner}
  BY DEF ShutdownReturns
<1>3. ep.winner \in Nat
  BY <1>1, ClosingOf DEF Closing
<1>4. EndpointGood(ep')
  BY <1>2, <1>3 DEF EndpointGood
<1>5. EndpointRaceOf(ep') = EndpointRaceSpec!At("won", {ep.winner})
  BY <1>2 DEF EndpointRaceOf, NotConnecting, EndpointRaceSpec!At
<1>6. /\ EndpointRaceOf(ep).phase = "closing" /\ EndpointRaceOf(ep).open = {ep.winner}
      /\ EndpointRaceOf(ep).connected = {ep.winner}
  BY <1>1, <1>2, ClosingOf
<1>7. EndpointRaceSpec!Win(EndpointRaceOf(ep), EndpointRaceOf(ep'))
  BY <1>5, <1>6 DEF EndpointRaceSpec!Win
<1> QED BY <1>4, <1>7 DEF EndpointMoved, EndpointRaceSpec!Step

\* A probe is joined.
LEMMA JoinProbeMoves ==
  ASSUME EndpointGood(ep), NEW i \in 1 .. Len(ep.list), JoinProbe(i)
  PROVE  EndpointMoved(ep, ep')
<1> DEFINE n == Len(ep.list)
           refilled == SpawnNext(ep)
<1>1. Probing(ep)
  BY DEF EndpointGood, JoinProbe, NotConnecting, Closing
<1>2. /\ n \in Nat /\ ep.started \in 1 .. n /\ ep.att \in [1 .. n -> ProbeStates]
      /\ \A j \in 1 .. n : ep.att[j] = "none" <=> j > ep.started
      /\ Cardinality(Alive(ep.att)) <= MaxProbes
  BY <1>1, ProbingOf DEF Probing
<1>3. EndpointRaceOf(ep) =
         [phase |-> "racing", cands |-> 1 .. n, started |-> 1 .. ep.started,
          failed |-> {j \in 1 .. n : ep.att[j] = "failed"},
          connected |-> {j \in 1 .. n : ep.att[j] = "ok"}, open |-> Alive(ep.att)]
  BY <1>1, ProbingOf
<1>4. CASE ep.att[i] = "ok" /\ ep' = [refilled EXCEPT !.pc = "closing", !.winner = i]
  BY <1>1, <1>4, PickMoves
<1>5. CASE ep.att[i] = "error" /\ Alive(refilled.att) = {i} /\ ep' = NotConnecting("lost", 0)
  <2>1. EndpointGood(ep')
    BY <1>5 DEF EndpointGood
  <2>2. EndpointRaceOf(ep') = EndpointRaceSpec!At("lost", {})
    BY <1>5 DEF EndpointRaceOf, NotConnecting, EndpointRaceSpec!At
  <2>3. ep.started = n /\ refilled = ep
    <3> SUFFICES ASSUME ep.started < n,
                        refilled.att = [ep.att EXCEPT ![ep.started + 1] = "running"]
                 PROVE  FALSE
      BY <1>1, SpawnNextMakes
    <3>1. ep.started + 1 \in 1 .. n /\ ep.started + 1 > ep.started
      BY <1>2
    <3>2. refilled.att[ep.started + 1] = "running" /\ DOMAIN refilled.att = 1 .. n
      BY <1>2, <3>1
    <3>3. ep.started + 1 \in Alive(refilled.att)
      BY <3>1, <3>2 DEF Alive
    <3>4. ep.att[ep.started + 1] = "none"
      BY <1>2, <3>1
    <3>5. ep.started + 1 # i
      BY <1>5, <3>4
    <3> QED BY <1>5, <3>3, <3>5
  <2>4. Alive(ep.att) = {i}
    BY <1>5, <2>3
  <2>5. {j \in 1 .. n : ep.att[j] = "ok"} = {}
    <3> SUFFICES ASSUME NEW j \in 1 .. n, ep.att[j] = "ok" PROVE FALSE
      OBVIOUS
    <3>1. j \in Alive(ep.att)
      BY <1>2 DEF Alive
    <3> QED BY <1>5, <2>4, <3>1
  <2>6. Cardinality({i}) = 1
    BY FS_Singleton
  <2>7. EndpointRaceSpec!Lose(EndpointRaceOf(ep), EndpointRaceOf(ep'))
    BY <1>3, <2>2, <2>3, <2>4, <2>5, <2>6, EndpointCardinality DEF EndpointRaceSpec!Lose
  <2> QED BY <2>1, <2>7 DEF EndpointMoved, EndpointRaceSpec!Step
<1>6. CASE ep.att[i] = "error" /\ ep' = [refilled EXCEPT !.att[i] = "failed"]
  <2>1. i <= ep.started
    BY <1>2, <1>6
  <2>2. i \in Alive(ep.att) /\ IsFiniteSet(Alive(ep.att)) /\ Cardinality(Alive(ep.att)) \in Nat
    BY <1>2, <1>6, AliveFinite DEF Alive
  <2>3. Cardinality(Alive(ep.att) \ {i}) = Cardinality(Alive(ep.att)) - 1
        /\ IsFiniteSet(Alive(ep.att) \ {i})
    BY <2>2, FS_RemoveElement
  <2>4. CASE ep.started = n /\ refilled = ep
    <3> DEFINE att == [ep.att EXCEPT ![i] = "failed"]
    <3>1. ep' = [pc |-> "racing", cfg |-> ep.cfg, list |-> ep.list, started |-> ep.started,
                 att |-> att, winner |-> 0]
      BY <1>1, <1>6, <2>4 DEF Probing
    <3>2. att \in [1 .. n -> ProbeStates] /\ att[i] = "failed"
          /\ \A j \in 1 .. n : j # i => att[j] = ep.att[j]
      BY <1>2 DEF ProbeStates
    <3> HIDE DEF att
    <3>3. Alive(att) = Alive(ep.att) \ {i}
      BY <1>2, <3>2 DEF Alive
    <3>4. Cardinality(Alive(att)) <= MaxProbes
      BY <1>2, <2>2, <2>3, <3>3, EndpointAssumption
    <3>5. \A j \in 1 .. n : att[j] = "none" <=> j > ep.started
      BY <1>2, <1>6, <3>2
    <3>6. ep'.list = ep.list /\ ep'.started = ep.started /\ ep'.att = att
      BY <3>1
    <3>7. Probing(ep')
      BY <1>1, <1>2, <3>1, <3>2, <3>4, <3>5 DEF Probing
    <3>8. \A j \in 1 .. n :
            /\ ep.att[j] = "failed" => att[j] = "failed"
            /\ ep.att[j] = "ok" => att[j] = "ok"
            /\ att[j] \in {"failed", "ok"} => j <= ep.started
      <4> TAKE j \in 1 .. n
      <4>1. j <= ep.started
        BY <1>2, <2>4
      <4> QED BY <1>6, <3>2, <4>1
    <3>9. ep.started <= ep'.started
      BY <1>2, <3>6
    <3> QED BY <1>1, <3>6, <3>7, <3>8, <3>9, ProbingAdvances
  <2>5. CASE /\ ep.started < n
             /\ refilled = [pc |-> "racing", cfg |-> ep.cfg, list |-> ep.list,
                            started |-> ep.started + 1,
                            att |-> [ep.att EXCEPT ![ep.started + 1] = "running"], winner |-> 0]
    <3> DEFINE s == ep.started + 1
               one == [ep.att EXCEPT ![s] = "running"]
               att == [one EXCEPT ![i] = "failed"]
    <3>1. ep' = [pc |-> "racing", cfg |-> ep.cfg, list |-> ep.list, started |-> s,
                 att |-> att, winner |-> 0]
      <4>1. refilled = [pc |-> "racing", cfg |-> ep.cfg, list |-> ep.list, started |-> s,
                        att |-> one, winner |-> 0]
        BY <2>5
      <4> HIDE DEF refilled, s, one
      <4> QED BY <1>6, <4>1
    <3>2. s \in 1 .. n /\ s # i /\ s > ep.started
      BY <1>2, <2>1, <2>5
    <3> HIDE DEF s
    <3>3. one \in [1 .. n -> ProbeStates] /\ one[s] = "running"
          /\ \A j \in 1 .. n : j # s => one[j] = ep.att[j]
      BY <1>2, <3>2 DEF ProbeStates
    <3> HIDE DEF one
    <3>4. att \in [1 .. n -> ProbeStates] /\ att[i] = "failed" /\ att[s] = "running"
          /\ \A j \in 1 .. n : j # s /\ j # i => att[j] = ep.att[j]
      BY <3>2, <3>3 DEF ProbeStates
    <3> HIDE DEF att
    <3>5. s \notin Alive(ep.att)
      <4>1. ep.att[s] = "none"
        BY <1>2, <3>2
      <4> QED BY <4>1 DEF Alive
    <3>6. Alive(att) = (Alive(ep.att) \ {i}) \cup {s}
      BY <1>2, <3>2, <3>4 DEF Alive
    <3>7. Cardinality(Alive(att)) = Cardinality(Alive(ep.att) \ {i}) + 1
      BY <2>3, <3>5, <3>6, FS_AddElement
    <3>8. Cardinality(Alive(att)) <= MaxProbes
      BY <1>2, <2>2, <2>3, <3>7, EndpointAssumption
    <3>9. \A j \in 1 .. n : att[j] = "none" <=> j > s
      <4> TAKE j \in 1 .. n
      <4>1. CASE j = s
        BY <3>2, <3>4, <4>1
      <4>2. CASE j = i
        BY <1>2, <2>1, <3>2, <3>4, <4>2
      <4>3. CASE j # s /\ j # i
        <5>1. j > s <=> j > ep.started
          BY <1>2, <4>3 DEF s
        <5> QED BY <1>2, <3>4, <4>3, <5>1
      <4> QED BY <4>1, <4>2, <4>3
    <3>10. ep'.list = ep.list /\ ep'.started = s /\ ep'.att = att
      BY <3>1
    <3>11. Probing(ep')
      BY <1>1, <1>2, <3>1, <3>2, <3>4, <3>8, <3>9 DEF Probing
    <3>12. \A j \in 1 .. n :
            /\ ep.att[j] = "failed" => att[j] = "failed"
            /\ ep.att[j] = "ok" => att[j] = "ok"
            /\ att[j] \in {"failed", "ok"} => j <= ep.started
      <4> TAKE j \in 1 .. n
      <4>1. CASE j = s
        <5>1. ep.att[j] = "none"
          BY <1>2, <3>2, <4>1
        <5> QED BY <3>4, <4>1, <5>1
      <4>2. CASE j = i
        BY <1>6, <2>1, <3>4, <4>2
      <4>3. CASE j # s /\ j # i
        <5>1. ep.att[j] # "none" => j <= ep.started
          BY <1>2
        <5> QED BY <3>4, <4>3, <5>1
      <4> QED BY <4>1, <4>2, <4>3
    <3>13. ep.started <= ep'.started
      BY <1>2, <3>2, <3>10
    <3> QED BY <1>1, <3>10, <3>11, <3>12, <3>13, ProbingAdvances
  <2> QED BY <1>1, <2>4, <2>5, SpawnNextMakes
<1> QED BY <1>4, <1>5, <1>6 DEF JoinProbe

-----------------------------------------------------------------------------
(* The steps of the process.                                               *)

\* What becomes of connect_candidate in a step of the process.
LEMMA EndpointStep ==
  ASSUME EndpointGood(ep), [Next]_vars
  PROVE  ep' = ep \/ EndpointMoved(ep, ep')
<1>1. CASE StartConnect
  BY <1>1, ConnectMoves DEF StartConnect
<1>2. CASE ep' = NotConnecting("over", 0)
  <2>1. EndpointRaceOf(ep') = EndpointRaceSpec!At("idle", {})
    BY <1>2 DEF EndpointRaceOf, NotConnecting, EndpointRaceSpec!At
  <2>2. EndpointRaceSpec!Step(EndpointRaceOf(ep), EndpointRaceOf(ep'))
    BY <2>1 DEF EndpointRaceSpec!Step, EndpointRaceSpec!Leave
  <2> QED BY <1>2, <2>2 DEF EndpointMoved, EndpointGood
<1>3. CASE EndpointNext
  BY <1>3, ProbeEndsMoves, JoinProbeMoves, ProbeClosedMoves, ShutdownReturnsMoves
  DEF EndpointNext
<1>4. CASE Main
  BY <1>1, <1>2, <1>4 DEF Main, StartFails, ConnectFails, StartServices, BeginShutdown,
     DrainJoin, Drained, DrainExpires
<1>5. CASE \/ Signal \/ SupervisorWorks \/ SupervisorFails
           \/ \E s \in Services : ServiceStops(s)
           \/ UNCHANGED ep \/ Tick \/ UNCHANGED vars
  BY <1>5 DEF Signal, SupervisorWorks, SupervisorFails, ServiceStops, Tick, vars
<1> QED BY <1>3, <1>4, <1>5 DEF Next

\* Nothing is connecting at the start.
LEMMA EndpointInvInit == Init => EndpointGood(ep)
BY DEF Init, EndpointInit, EndpointGood

\* connect_candidate stays good: its list is that of its configuration.
LEMMA EndpointInvStep == EndpointGood(ep) /\ [Next]_vars => EndpointGood(ep)'
<1> SUFFICES ASSUME EndpointGood(ep), [Next]_vars PROVE EndpointGood(ep')
  BY DEF EndpointGood, Probing, Closing, NotConnecting
<1> QED BY EndpointStep DEF EndpointMoved

\* endpoint_attempts puts the endpoints in the promised order, for any addresses,
\* candidates and fallback ports.
THEOREM EndpointsOrdered == Spec => []EndpointOrder
<1>1. EndpointGood(ep) => EndpointOrder
  <2> SUFFICES ASSUME EndpointGood(ep), ep.pc = "racing" PROVE EndpointOrder
    BY DEF EndpointOrder
  <2>1. ep.cfg \in Configs /\ ep.list = EndpointAttempts(ep.cfg)
    BY DEF EndpointGood, Probing, Closing, NotConnecting
  <2> QED BY <2>1, AttemptsElements DEF EndpointOrder, PairsOf
<1> QED BY <1>1, EndpointInvInit, EndpointInvStep, PTL DEF Spec

\* connect_candidate implements Race, for any list of endpoints and any number
\* of parallel probes: the winner included, one probe more than that number may
\* be alive while the others are shut down, and only the winner when it returns.
THEOREM ConnectImplementsRace == Spec => ConnectIsRace
<1>1. Init => EndpointRaceSpec!Init
  <2> SUFFICES ASSUME Init PROVE EndpointRaceSpec!Init
    OBVIOUS
  <2>1. EndpointRaceOf(ep) = EndpointRaceSpec!At("idle", {})
    BY DEF Init, EndpointInit, EndpointRaceOf, NotConnecting, EndpointRaceSpec!At
  <2> QED BY <2>1 DEF EndpointRace, EndpointRaceSpec!Init
<1>2. EndpointGood(ep) /\ [Next]_vars => [EndpointRaceSpec!Next]_EndpointRace
  <2> SUFFICES ASSUME EndpointGood(ep), [Next]_vars, EndpointRace' # EndpointRace
               PROVE  EndpointRaceSpec!Next
    OBVIOUS
  <2>1. /\ EndpointRace = [r \in {"connect"} |-> EndpointRaceOf(ep)]
        /\ EndpointRace' = [r \in {"connect"} |-> EndpointRaceOf(ep')]
    BY DEF EndpointRace, EndpointRaceOf, Alive
  <2>2. EndpointMoved(ep, ep') /\ EndpointRaceOf(ep') # EndpointRaceOf(ep)
    BY <2>1, EndpointStep
  <2>3. EndpointRaceSpec!Step(EndpointRaceOf(ep), EndpointRaceOf(ep'))
    BY <2>2 DEF EndpointMoved
  <2>4. EndpointRaceOf(ep') \in EndpointRaceSpec!RaceStates
    BY <2>2, EndpointRaceTyped DEF EndpointMoved
  <2>5. /\ EndpointRace["connect"] = EndpointRaceOf(ep)
        /\ EndpointRace'["connect"] = EndpointRaceOf(ep')
        /\ EndpointRace' = [EndpointRace EXCEPT !["connect"] = EndpointRace'["connect"]]
    BY <2>1
  <2> QED BY <2>3, <2>4, <2>5 DEF EndpointRaceSpec!Next
<1> QED BY <1>1, <1>2, EndpointInvInit, EndpointInvStep, PTL
       DEF Spec, ConnectIsRace, EndpointRaceSpec!Spec

-----------------------------------------------------------------------------
(* Types.                                                                  *)

MainTypes ==
    /\ main \in {"start", "connect", "run", "drain", "stopped"}
    /\ drain \in 0 .. DrainGrace
    /\ tunnel \in {"none", "up", "cleared"}
    /\ exit \in {"none", "ok", "failure"}
    /\ killed \in BOOLEAN

\* The types of the main task.
LEMMA MainTypeStep ==
  ASSUME MainTypes, [Next]_vars
  PROVE  MainTypes'
<1>1. CASE Main
  <2>1. CASE StartFails \/ StartConnect \/ ConnectFails \/ StartServices
    BY <2>1 DEF MainTypes, StartFails, StartConnect, ConnectFails, StartServices
  <2>2. ASSUME NEW s \in Services, BeginShutdown(s) PROVE MainTypes'
    BY <2>2, ProcessAssumption DEF MainTypes, BeginShutdown
  <2>3. ASSUME NEW s \in Services, DrainJoin(s) PROVE MainTypes'
    BY <2>3 DEF MainTypes, DrainJoin
  <2>4. CASE Drained
    BY <2>4 DEF MainTypes, Drained, Finish
  <2>5. CASE DrainExpires
    BY <2>5 DEF MainTypes, DrainExpires, Finish
  <2> QED BY <1>1, <2>1, <2>2, <2>3, <2>4, <2>5 DEF Main
<1>2. CASE Tick
  BY <1>2, ProcessAssumption DEF MainTypes, Tick, Down
<1>3. CASE \/ Signal \/ SupervisorWorks \/ SupervisorFails
           \/ \E s \in Services : ServiceStops(s)
           \/ UNCHANGED mainVars \/ UNCHANGED vars
  BY <1>3 DEF MainTypes, Signal, SupervisorWorks, SupervisorFails, ServiceStops, mainVars, vars
<1> QED BY <1>1, <1>2, <1>3 DEF Next

\* The types of the whole process hold for any configuration and any limits.
THEOREM ProcessTypeCorrect == Spec => []TypeOK
<1>1. EndpointGood(ep) => EndpointTypeOK
  <2>1. ASSUME NEW p \in {"idle", "lost", "over", "won"}, NEW w \in Nat,
               ep = NotConnecting(p, w)
        PROVE  EndpointTypeOK
    <3>1. /\ ep.pc = p /\ ep.winner = w /\ ep.list = <<>> /\ ep.att = <<>>
          /\ ep.started = 0
      BY <2>1 DEF NotConnecting
    <3>2. Len(<<>>) = 0 /\ <<>> \in [1 .. 0 -> ProbeStates]
      OBVIOUS
    <3> QED BY <3>1, <3>2 DEF EndpointTypeOK
  <2>2. ASSUME Probing(ep) PROVE EndpointTypeOK
    <3>1. Len(ep.list) \in Nat
      BY <2>2, ProbingOf
    <3>2. ep.pc = "racing" /\ ep.winner = 0
      BY <2>2 DEF Probing
    <3>3. ep.started \in 0 .. Len(ep.list) /\ ep.att \in [1 .. Len(ep.list) -> ProbeStates]
      BY <2>2, <3>1 DEF Probing
    <3> QED BY <3>2, <3>3 DEF EndpointTypeOK
  <2>3. ASSUME Closing(ep) PROVE EndpointTypeOK
    <3>1. Len(ep.list) \in Nat
      BY <2>3, ClosingOf
    <3>2. ep.pc = "closing"
      BY <2>3 DEF Closing
    <3>3. ep.started \in 0 .. Len(ep.list) /\ ep.att \in [1 .. Len(ep.list) -> ProbeStates]
          /\ ep.winner \in Nat
      BY <2>3, <3>1 DEF Closing
    <3> QED BY <3>2, <3>3 DEF EndpointTypeOK
  <2> QED BY <2>1, <2>2, <2>3 DEF EndpointGood
<1>2. Init => MainTypes
  <2> SUFFICES ASSUME Init PROVE MainTypes
    OBVIOUS
  <2>1. drain \in 0 .. DrainGrace
    BY ProcessAssumption DEF Init
  <2> QED BY <2>1 DEF Init, MainTypes
<1>3. MainTypes /\ [Next]_vars => MainTypes'
  BY MainTypeStep
<1>4. EndpointTypeOK /\ SocksTypeOK /\ MainTypes /\ ServerTypes => TypeOK
  BY DEF TypeOK, MainTypes, ServerTypes, TaskStates
<1>5. Inv => ServerTypes
  BY DEF Inv
<1> QED BY <1>1, <1>2, <1>3, <1>4, <1>5, EndpointInvInit, EndpointInvStep, InvInit, InvStep,
       SocksTypeCorrect, PTL DEF Spec
=============================================================================
