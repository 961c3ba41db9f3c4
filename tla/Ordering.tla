------------------------------ MODULE Ordering ------------------------------
(***************************************************************************)
(* The members of a finite set of numbers as a sequence, each at the place *)
(* its rank gives it.  (The library's SortSeq and SelectSeq are defined by *)
(* recursion or leave the order of equals open; these are ranks only.)     *)
(***************************************************************************)
EXTENDS Integers, FiniteSets

(* By key; those of one key by their number                                *)
Sorted(I, key) ==
    [k \in 1..Cardinality(I) |->
        CHOOSE i \in I : Cardinality({j \in I : key[j] < key[i] \/ (key[j] = key[i] /\ j < i)})
                            = k - 1]

Ascending(I) == Sorted(I, [i \in I |-> i])
=============================================================================
