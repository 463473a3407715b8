\* The documented rule of resolution.
SPECIFICATION Spec
CONSTANTS
  x1 = x1
  x2 = x2
  Tests = {x1, x2}
  Words = {"PASSED", "FAILED", "SKIPPED"}
  MaxLines = 2
SYMMETRY TestSymmetry
CHECK_DEADLOCK FALSE
INVARIANT
  ResolvedAsDocumented
