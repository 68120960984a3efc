SPECIFICATION FairSpec
CONSTANTS
  BLOCK_COUNT = 5
  MAX_BLOCKS = 6
  LOOKAHEAD = 2
  GrowsAnytime = FALSE
INVARIANT Inv
PROPERTIES AllocFresh NospcHonest AllocReturns
