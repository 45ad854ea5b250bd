\* Statements in any order on a parent and a child table.
SPECIFICATION Spec
CONSTANTS
  Rounding <- MCRounding
  TableNames = {"p", "c"}
  TableDefs <- MCTableDefs
  IndexDefs <- MCIndexDefs
  AlterLists <- MCAlterLists
  Inserts <- MCInserts
  Updates <- MCUpdates
  Selections <- MCSelections
  MaxRows = 2
  MaxRowId = 3
  MaxChanges = 2
INVARIANTS
  TypeOK
  RowIdsIncrease
  KeysAreUnique
  ForeignKeysLead
  SchemaIsClosed
  IndexFindsWhatScanFinds
  RestartChangesNothing
