\* Two tests, reports of up to two lines, and every pair of exit codes.
SPECIFICATION Spec
CONSTANTS
  x1 = x1
  x2 = x2
  Tests = {x1, x2}
  Words = {"PASSED", "FAILED", "SKIPPED"}
  MaxLines = 2
SYMMETRY TestSymmetry
CHECK_DEADLOCK FALSE
INVARIANTS
  ParseFaithful
  ResolvedIsClean
  MorePassesNeverHurt
  OneListEach
