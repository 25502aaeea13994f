SPECIFICATION BoundedSpec
CONSTANTS
  MaxBlocks = 3
  MaxChoice = 2
  Constants <- MCConstants
  Asserta <- MCAsserta
  Assertz = 2
  Files <- MCFiles
  IdSpan = 8
  MaxInt = 15
  MaxId = 1
CONSTRAINT NeverAstray
INVARIANTS TypeOK ChainLinked NoneSkipped InOrder NoFreedClause
