SPECIFICATION Spec
CONSTANTS
  Constructs <- AllSites
  MaxConstructs = 2
INVARIANTS PassesSettle DefinitionsClosed
