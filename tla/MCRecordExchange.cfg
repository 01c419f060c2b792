\* Two faults tell apart every pair of rules that one fault alone does not reach.
SPECIFICATION RecordSpec
CONSTANTS
  MaxChanges = 2
  Kinds <- KindsButEnvironment
INVARIANTS Lossless Understood
\* The last answer of an exchange has none.
CHECK_DEADLOCK FALSE
