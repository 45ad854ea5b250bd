\* One upsert whose two assignments evaluate different subqueries.
SPECIFICATION Spec
CONSTANTS
  Conns = {"c1", "c2"}
  Parse <- MCUpsert
  Scripts <- MCUpsertScripts
  Threads = {t1, t2}
  Addresses = {a1, a2}
  PlanCapacity = 2
  IdLimit = 3
CHECK_DEADLOCK FALSE
INVARIANT SubqueryIsOwn
