SPECIFICATION Spec
CONSTANTS
  Pids = {1, 2}
  Root = 1
  Fds = {3, 4}
  HighBit = 4
  TableGrows = FALSE
  Dests <- FarAndNear
  MaxCalls = 5
  SockKinds = {"tcp"}
  SockErrs <- NoErrs
  CloneOpts <- Fork
  Signals = {"plain"}
  AppRetries = FALSE
  Killable = FALSE
  PidReuse = FALSE
  FifoCap = 1
  LOCAL_ADDR = "127.0.0.1"
  LocalIp = "127.0.0.1"
  LOCAL_PORT = 2233
  NULL = NULL
  BlackFile = NULL
  WhiteFile = NULL
  IgnoreLocal = TRUE
  LocalMayDie = FALSE
  ClockMaySet = FALSE
  SigPipeIgnored = FALSE
INVARIANTS
  Intercepted
  CloseDelayed
  TracedToTheEnd
