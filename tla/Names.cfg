SPECIFICATION FairSpec
CONSTANTS
  NULL = NULL
  catalogue = catalogue
  prefix = prefix
  v1 = v1
  v2 = v2
  Values <- TwoValues
  Lfns <- SomeLfns
  Rules <- BothRules
  lfn2pfn <- Rule
  MaxPath = 11
  MaxDepth = 8
PROPERTIES
  AnswersOwnFileOnce
  CloseReturns
