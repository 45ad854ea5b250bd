\* Two connections, a plan cache of two entries and two statement ids.
SPECIFICATION Spec
CONSTANTS
  Conns = {"c1", "c2"}
  Parse <- MCParse
  Scripts <- MCScripts
  Threads = {t1, t2}
  Addresses = {a1, a2}
  PlanCapacity = 2
  IdLimit = 3
CHECK_DEADLOCK FALSE
INVARIANTS TypeOK TransactionFlagIsTrue StatementIdsResolve LongDataIsFresh SubqueryIsOwn
PROPERTY CommandsEnd
