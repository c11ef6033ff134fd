SPECIFICATION Spec
CONSTANTS
  site = site
  Handlers = {h1}
  Downloader = Downloader
  Main = Main
  Addrs = {a1, a2, a3, a4}
  Logins = {site}
  Hosts <- FourHosts
  CLIENT_POOL_MAX_IDLE = 1
  SessionTimeout = 0
  HttpTimeout = 0
  MaxTime = 1
  NoClient = NoClient
  NoHost = NoHost
  NoKey = NoKey
  Freed = Freed
INVARIANTS
  ExclusiveHandOut
  LiveIffReachable
  CallbackNotInherited
  MapsAgree
  HandedOutFits
  OrphansNeverPooled
PROPERTIES
  PoolNeverBlocks
  ShutdownCompletes
