SPECIFICATION Spec
CONSTANTS
  NULL = NULL
  catalogue = catalogue
  prefix = prefix
  v1 = v1
  v2 = v2
  Values <- TwoValues
  Lfns <- TwoLfns
  Rules <- PrefixOnly
  lfn2pfn <- Rule
  MaxPath = 11
  MaxDepth = 8
PROPERTY
  AnswersOwnFile
