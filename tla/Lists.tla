------------------------------- MODULE Lists --------------------------------
(***************************************************************************)
(* The loops that build lists of addresses (src/tunnel.rs and              *)
(* src/proxy/tcp.rs), as operators on sequences.  An element of a result   *)
(* is found by its rank among the places that are kept, without recursion, *)
(* so that the proofs can reason about it.                                 *)
(***************************************************************************)
EXTENDS Integers, Sequences, FiniteSets

\* The places in keep up to i: their number is the rank of i.
UpTo(keep, i) == {j \in keep : j <= i}

\* The elements of seq at the places in keep, in their order.
Kept(seq, keep) ==
    [k \in 1 .. Cardinality(keep) |->
        seq[CHOOSE i \in keep : Cardinality(UpTo(keep, i)) = k]]

\* The places at which something stands for the first time.
FirstPlaces(seq) == {i \in DOMAIN seq : \A j \in 1 .. i - 1 : seq[j] # seq[i]}

\* A loop over seq that pushes what the result does not contain yet.
FirstOccurrences(seq) == Kept(seq, FirstPlaces(seq))

\* Two nested loops over the rows of a table.
Places(rows) == UNION {{b} \X DOMAIN rows[b] : b \in DOMAIN rows}

RowsUpTo(rows, p) ==
    {q \in Places(rows) : q[1] < p[1] \/ (q[1] = p[1] /\ q[2] <= p[2])}

Concat(rows) ==
    [k \in 1 .. Cardinality(Places(rows)) |->
        LET p == CHOOSE p \in Places(rows) : Cardinality(RowsUpTo(rows, p)) = k
        IN  rows[p[1]][p[2]]]
=============================================================================
