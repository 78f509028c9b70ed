SPECIFICATION Spec
CONSTANTS
  MAX_LINE = 5
  CardSpace = 2
  HostLines <- MCHostLines
  Names = {1, 2}
  InitialCard <- MCInitialCard
INVARIANTS TypeOK LinesIndependent UploadOwnsFile AtMostOneStray StatusIsTrue
