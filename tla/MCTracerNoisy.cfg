SPECIFICATION Spec
CONSTANTS
  Pids = {1, 2}
  Root = 1
  Fds = {3, 4}
  HighBit = 4
  TableGrows = TRUE
  Dests <- Far6
  MaxCalls = 3
  SockKinds = {"tcp", "udp", "raw", "unix"}
  SockErrs <- Errs
  CloneOpts <- AllClones
  Signals = {"plain", "sigstop", "stop", "trap"}
  AppRetries = FALSE
  Killable = TRUE
  PidReuse = TRUE
  FifoCap = 1
  LOCAL_ADDR = "127.0.0.1"
  LocalIp = "127.0.0.1"
  LOCAL_PORT = 2233
  NULL = NULL
  BlackFile = {"8.8.8.8"}
  WhiteFile = NULL
  IgnoreLocal = TRUE
  LocalMayDie = TRUE
  ClockMaySet = TRUE
  SigPipeIgnored = FALSE
INVARIANTS
  TypeOK
  RedirectAnnounced
