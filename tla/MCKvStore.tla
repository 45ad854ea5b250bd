----------------------------- MODULE MCKvStore -----------------------------
(* KvStore on small instances.                                              *)
EXTENDS KvStore, TLC

Symmetry == Permutations(Client) \cup Permutations(Key) \cup Permutations(Value)

(* Nothing is claimed of a run past a recorded hazard.                      *)
Untainted == taint = {}
=============================================================================
