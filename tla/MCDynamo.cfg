SPECIFICATION Spec
CONSTANT Sections <- TheSections
INVARIANT PoolsSuffice
PROPERTY PrintedAsMeant
