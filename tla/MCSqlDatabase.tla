--------------------------- MODULE MCSqlDatabase ---------------------------
(***************************************************************************)
(* SqlDatabase with a small executor: one table holding one integer.  ADD  *)
(* and WIDEN do not commute, so two histories with the same statements in  *)
(* another order end in different contents; both are refused when the      *)
(* result does not fit.  FOLD is a text whose folded form is ADD: as it    *)
(* stands it does the same on the first contents, and on others divides by *)
(* zero (INSERT ... VALUES (NULL / 0)).  PLUS is one that means ADD on all *)
(* contents.                                                               *)
(***************************************************************************)
EXTENDS SqlDatabase, TLC

CONSTANT MaxContent

MCContent == 1..MaxContent
MCStmt == {"add", "widen", "fold"}
ExactStmt == {"add", "widen", "plus"}
MCDdl == {"widen"}

MCOptimize(st) ==
    IF st \in {"fold", "plus"} THEN "add" ELSE st

MCExec(c, st) ==
    LET r == CASE st \in {"add", "plus"} -> c + 2
               [] st = "widen" -> 3 * c
               [] st = "fold" -> IF c = 1 THEN 3 ELSE 0
    IN IF r \in MCContent THEN r ELSE ExecError

NoLegacyWal == <<>>
OneLegacyLine == <<"add">>

SessionSymmetry == Permutations(Session)

(* Nothing is claimed of a run past a recorded hazard.                      *)
Untainted == taint = {}
=============================================================================
