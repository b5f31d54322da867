SPECIFICATION FairSpec
CONSTANTS
  CommandLines <- MCCommandLines
  Texts <- MCTextsAndAnother
  Flags <- MCFlags
  Valued <- MCValued
  OutputOf <- MCOutputOf
  Unwritable <- MCUnwritable
  None = None
INVARIANTS
  TranslatedAsAlone
  FatalLosesOneOutput
PROPERTY
  EveryScriptTranslated
CHECK_DEADLOCK FALSE
