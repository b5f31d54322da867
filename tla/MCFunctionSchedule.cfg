SPECIFICATION FairSpec
CONSTANTS
  f = f
  NoDef = NoDef
  g = g
  h = h
  x = x
  y = y
  Name = {f, g, h}
  Var = {x, y}
  Def <- MCDef
  NameOf <- MCNameOf
  Programs <- MCPrograms
INVARIANTS QueueSound NamesResolved OutputIsFlattened
PROPERTIES PrintsInOrder SaveHasOneUser Terminates
