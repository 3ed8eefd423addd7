SPECIFICATION Spec
CONSTANTS
  Pids = {1}
  Root = 1
  Fds = {3, 5}
  HighBit = 4
  TableGrows = FALSE
  Dests <- Far
  MaxCalls = 4
  SockKinds = {"tcp"}
  SockErrs <- NoErrs
  CloneOpts <- Fork
  Signals = {}
  AppRetries = FALSE
  Killable = FALSE
  PidReuse = FALSE
  FifoCap = 1
  LOCAL_ADDR = "127.0.0.1"
  LocalIp = "127.0.0.1"
  LOCAL_PORT = 2233
  NULL = NULL
  BlackFile = NULL
  WhiteFile = NULL
  IgnoreLocal = TRUE
  LocalMayDie = FALSE
  ClockMaySet = FALSE
  SigPipeIgnored = FALSE
INVARIANT
  Intercepted
