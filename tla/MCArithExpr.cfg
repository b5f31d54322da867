SPECIFICATION Spec
CONSTANTS
  Inputs <- MCInputs
  AllowArray = TRUE
INVARIANTS ReadAsInBash OperandsConverted PythonReadsTheRest
