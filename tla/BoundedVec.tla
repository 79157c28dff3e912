------------------------------ MODULE BoundedVec ------------------------------
(***************************************************************************)
(* The bounded vectors in which the rent pallet keeps its lists.  They are *)
(* FRAME's BoundedVec: a sequence with a capacity, whose try_push and      *)
(* try_append fail (and leave the vector alone) when there is no room, and *)
(* whose retain drops elements and keeps the order of the others.          *)
(*                                                                         *)
(* Retain is written with positions rather than with SelectSeq so that the *)
(* facts of RentProofs can be proved for sequences of every length.        *)
(***************************************************************************)
EXTENDS Integers, Sequences, FiniteSets, Functions

BoundedVec(S, capacity) == {v \in Seq(S) : Len(v) <= capacity}

HasRoom(v, capacity) == Len(v) < capacity

\* Mutant of Kept: the test of the closure is turned round.
KeptInverted(v, drop) == {i \in DOMAIN v : v[i] \in drop}

\* Mutant of Kept: only the first element of drop is left out.
KeptAllButFirst(v, drop) ==
    {i \in DOMAIN v : v[i] \notin drop \/ \E j \in 1 .. i - 1 : v[j] \in drop}

\* The positions of v that hold an element outside drop.
Kept(v, drop) == {i \in DOMAIN v : v[i] \notin drop}

\* The j-th smallest element of P, a set of positions.
Nth(P, j) == CHOOSE i \in P : Cardinality({k \in P : k <= i}) = j

\* v without the elements of drop, in their order.
Retain(v, drop) ==
    [j \in 1..Cardinality(Kept(v, drop)) |-> v[Nth(Kept(v, drop), j)]]

===============================================================================
