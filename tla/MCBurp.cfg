SPECIFICATION FairSpec
CONSTANTS
  out = out
  save = save
  x = x
  NL = NL
  SP = SP
  NUL = NUL
  Junk = Junk
  Burps = {out}
  Char <- MCChar
  Texts <- MCTexts
  FirstAlloc = 3
  Slack = 1
  IndentUnit = 2
  MaxLth = 4
  MaxIndent = 1
INVARIANT MemorySafe
PROPERTIES ImplementsTextBuffer CallsReturn
