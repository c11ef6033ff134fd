SPECIFICATION Spec
CONSTANTS
  j1 = j1
  j2 = j2
  p1 = p1
  p2 = p2
  Jobs = {j1, j2}
  Type <- OneFtpOneFile
  Paths = {p1, p2}
  DestPath <- OwnPaths
  FileSize = 1
  MAX_FAILED_ATTEMPTS = 2
  Aging = {}
  MaxNaps = 1
  MaxCrashes = 0
  NoFile = NoFile
  Torn = Torn
PROPERTIES
  DequeOnlyChangedByThread
