SPECIFICATION FairSpec
CONSTANTS
  Pids = {1, 2}
  Root = 1
  Fds = {3}
  HighBit = 4
  TableGrows = FALSE
  Dests <- Far
  MaxCalls = 3
  SockKinds = {"tcp"}
  SockErrs <- NoErrs
  CloneOpts <- AllClones
  Signals = {"plain", "stop", "trap"}
  AppRetries = FALSE
  Killable = TRUE
  PidReuse = FALSE
  FifoCap = 1
  LOCAL_ADDR = "127.0.0.1"
  LocalIp = "127.0.0.1"
  LOCAL_PORT = 2233
  NULL = NULL
  BlackFile = NULL
  WhiteFile = NULL
  IgnoreLocal = TRUE
  LocalMayDie = FALSE
  ClockMaySet = FALSE
  SigPipeIgnored = FALSE
PROPERTY
  StopsEnd
