CONSTANTS
  Inputs <- MCInputs
  ByteMax = 3
  BlockSize = 2
  RivalFiles <- MCRivalFiles
  ReportSize = 2
  Absent = Absent
  NoPath = NoPath
SPECIFICATION Spec
INVARIANTS ExitCodeHonest ReportTrue ReporterContained
PROPERTY ProgramEnds
