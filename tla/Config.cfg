SPECIFICATION Spec
CONSTANTS
  NULL = NULL
  l1 = l1
  bad = bad
  p1 = p1
  Libs <- TwoLibs
  BadLibs <- BadLib
  Parms <- OneParms
  MaxLines = 2
PROPERTIES
  UpMeansTranslated
  TranslationStable
