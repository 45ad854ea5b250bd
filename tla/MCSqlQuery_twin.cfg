\* An index on t.a and a condition on x.a, another table's column.
SPECIFICATION Spec
CONSTANTS
  Schemas <- TwinSchemas
  Contents <- TwinContents
  Indexable <- MCIndexable
  Queries <- TwinQueries
  Spelling <- MCSpelling
  Rounding <- MCRounding
  MaxTotalRows = 2
INVARIANT IndexedSelectIsScan
