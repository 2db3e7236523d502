-------------------------------- MODULE Sorting --------------------------------
(***************************************************************************)
(* A stable sort (sort.SliceStable): which position comes where, given the *)
(* key of each position.  Of the values alone, sort.Slice leaves the same  *)
(* behind.                                                                 *)
(***************************************************************************)
EXTENDS Integers, FiniteSets

\* Mutant: equal keys come out in reverse.
Unstable(key, i, j) == key[i] < key[j] \/ (key[i] = key[j] /\ i > j)
GoesBefore(key, i, j) == key[i] < key[j] \/ (key[i] = key[j] /\ i < j)

Earlier(key, S, i) == { j \in S : GoesBefore(key, j, i) }

\* The positions in S, sorted: at k the one that k - 1 others go before.
Sorted(key, S) ==
    [k \in 1..Cardinality(S) |->
        CHOOSE i \in S : Cardinality(Earlier(key, S, i)) = k - 1]
===============================================================================
