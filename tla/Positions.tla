----------------------------- MODULE Positions -----------------------------
(***************************************************************************)
(* Elements of a sequence, or of a function on numbers, at chosen places.  *)
(***************************************************************************)
EXTENDS Naturals, FiniteSets

\* The elements of seq at the given positions, in their order.
At(seq, positions) ==
  [i \in 1..Cardinality(positions) |->
     seq[CHOOSE p \in positions : Cardinality({q \in positions : q < p}) = i - 1]]
=============================================================================
