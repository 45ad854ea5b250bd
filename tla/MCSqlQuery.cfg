\* Every query over every small content of the tables, with and without an index.
SPECIFICATION Spec
CONSTANTS
  Schemas <- MCSchemas
  Contents <- MCContents
  Indexable <- MCIndexable
  Queries <- MCQueries
  Spelling <- MCSpelling
  Rounding <- MCRounding
  MaxTotalRows = 3
INVARIANTS
  ThreeWayPartition
  JoinIsRelational
  GroupingPartitions
  TopNKeepsTheLeast
  InSubqueryIsInList
  IndexedSelectIsScan
  
  LikeIsWildcardMatch
