SPECIFICATION Spec
CONSTANTS
  out = out
  save = save
  x = x
  NL = NL
  SP = SP
  NUL = NUL
  Junk = Junk
  Burps = {out, save}
  Char <- MCChar
  Texts <- MCShortTexts
  FirstAlloc = 3
  Slack = 1
  IndentUnit = 1
  MaxLth = 2
  MaxIndent = 1
PROPERTY ImplementsTextBuffer
