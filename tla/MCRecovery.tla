----------------------------- MODULE MCRecovery -----------------------------
(* The points that restores are asked for, and the commits of each engine. *)
EXTENDS Recovery

Point(sql, kv) == [e \in Engines |-> IF e = "sql" THEN sql ELSE kv]

MCCommits == Point(2, 1)
MCPoints == {Point(2, 1)}
=============================================================================
