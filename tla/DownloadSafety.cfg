SPECIFICATION Spec
CONSTANTS
  j1 = j1
  j2 = j2
  p1 = p1
  p2 = p2
  Jobs = {j1, j2}
  Type <- OneFtpOneFile
  Paths = {p1, p2}
  DestPath <- OwnPaths
  FileSize = 2
  MAX_FAILED_ATTEMPTS = 1
  Aging = {j2}
  MaxNaps = 1
  MaxCrashes = 1
  NoFile = NoFile
  Torn = Torn
INVARIANTS
  IndexNamesItsRow
  SuccessHasFile
  PartialIsPrefix
  ProgressIsTmpSize
  AnsweredIsKept
PROPERTIES
  FinishedStaysFinished
