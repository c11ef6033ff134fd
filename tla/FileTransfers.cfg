SPECIFICATION Spec
CONSTANTS
  Protocols = {"sftp", "smb", "nfs"}
  FileSize = 3
  MaxCalls = 3
INVARIANT NothingLeftOpen
PROPERTY ImplementsRemoteClient
CHECK_DEADLOCK FALSE
