CONSTANTS
  Writers = {w1, w2, w3}
  Size = 2
  Old = Old
  Absent = Absent
SPECIFICATION Spec
SYMMETRY Symmetry
INVARIANTS FinalIsWhole ReturnedIsDurable FailureLeavesNoTrace
