SPECIFICATION FairSpec
CONSTANTS
  Scripts <- MCScripts
INVARIANTS
  NeutralBetweenWords
  WordsIndependent
  WellTyped
  ConvertedOnce
PROPERTY
  WordsTranslated
