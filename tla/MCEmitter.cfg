SPECIFICATION FairSpec
CONSTANTS
  NoCommand = NoCommand
  Programs <- MCPrograms
  Commands <- MCCommands
INVARIANTS NothingLeaks ConnectionsMatch PlainScriptsHaveLayout HereDocumentsPrinted StatementsWellPlaced
PROPERTY TranslationEnds
