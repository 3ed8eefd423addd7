------------------------------- MODULE Tracer -------------------------------
(***************************************************************************)
(* graftcp, the tracer (main.c, util.c): one single-threaded process that  *)
(* waits for its ptrace'd tracees, looks at their socket, connect, close   *)
(* and clone system calls, points connect(2) at graftcp-local and          *)
(* announces the original destination on the FIFO.                         *)
(*                                                                         *)
(* The tracer takes two steps per stop: Wait (wait(2) returns and the      *)
(* proc_info is found or made) and one of the Handle actions (the rest of  *)
(* the loop body), because a tracee can be killed between the two.         *)
(***************************************************************************)
EXTENDS Ptrace, SocketTable, Filter

CONSTANTS
  FifoCap,        \* BOUND: records the FIFO holds before write(2) blocks
  LocalIp,        \* the address LOCAL_ADDR denotes, in numbers-and-dots form
  LOCAL_PORT,     \* -p
  LocalMayDie,    \* may graftcp-local close its end of the FIFO?
  ClockMaySet,    \* may the system's clock be set?
  SigPipeIgnored  \* was graftcp started with SIGPIPE ignored?

VARIABLES
  pc,       \* "wait": in wait(2); "handle": after it; "exited"
  cur,      \* pid wait(2) returned
  status,   \* status wait(2) returned
  pinfo,    \* PROC_INFO_TAB
  tab,      \* SOCKET_INFO_TAB
  fifo,     \* records written and not yet read by graftcp-local
  reader,   \* does graftcp-local hold the FIFO open?
  young     \* history: <<group, fd>> redirected less than MIN_CLOSE_MSEC ago

tracerVars == <<pc, cur, status, pinfo, tab, fifo, reader, young>>
vars == <<traceeVars, tracerVars>>

ASSUME TracerAssumption ==
  /\ Pids \subseteq 1 .. (HighBit - 1)
  /\ FifoCap \in Nat \ {0}
  /\ IgnoreLocal \in BOOLEAN

-----------------------------------------------------------------------------
(* Addresses; which of them are left alone is in Filter *)

PROXY_SA == [fam |-> "inet", ip |-> LocalIp, port |-> LOCAL_PORT]
PROXY_SA6 == [fam |-> "inet6", ip |-> "::1", port |-> LOCAL_PORT]
ProxySa(fam) == IF fam = "inet" THEN PROXY_SA ELSE PROXY_SA6
Addrs == Dests \cup {NoAddr, PROXY_SA, PROXY_SA6}

-----------------------------------------------------------------------------

\* a proc_info without flags; PROC_INFO_TAB is as if every thread had one from
\* the start, since find_proc_info's failure is always followed by this
alloc_proc_info == [startup |-> FALSE, insyscall |-> FALSE, csn |-> "none"]

\* init() has forked the child, allocated its proc_info and set FLAG_STARTUP
Init ==
  /\ TraceeInit
  /\ pc = "wait" /\ cur = Root /\ status = "none"
  /\ pinfo = [p \in Pids |-> [alloc_proc_info EXCEPT !.startup = (p = Root)]]
  /\ tab = EmptyTable
  /\ fifo = <<>> /\ reader = TRUE
  /\ young = {}

\* wait(2) returns; the proc_info is found, or made by alloc_proc_info.  The
\* first report of the root gets the ptrace options set, which fails with
\* ESRCH, and ends the tracer, if the root is already dead.
Wait(p) ==
  /\ pc = "wait" /\ Waitable(p)
  /\ cur' = p /\ status' = ts[p]
  /\ ts' = [ts EXCEPT ![p] = IF @ = "zombie" THEN "absent" ELSE @]
  /\ pinfo' = [pinfo EXCEPT ![p].startup = FALSE]
  /\ pc' = IF pinfo[p].startup /\ ts[p] = "zombie" THEN "exited" ELSE "handle"
  /\ UNCHANGED <<grp, fdt, regs, rax, buf, calls, used, want, noted, outcome,
                 tab, fifo, reader, young>>

\* wait(2) fails: no child is left
WaitNoChild ==
  /\ pc = "wait" /\ \A p \in Pids : ts[p] \in {"absent", "escaped"}
  /\ pc' = "exited"
  /\ UNCHANGED <<traceeVars, cur, status, pinfo, tab, fifo, reader, young>>

\* the tracee of the current report has been killed since wait(2) returned
Dead == ts[cur] # status

\* back to wait(2)
Loop == pc' = "wait" /\ cur' = Root /\ status' = "none"

\* PTRACE_SYSCALL; ESRCH is ignored
Resume == ts' = IF Dead THEN ts ELSE [ts EXCEPT ![cur] = Resumed[status]]

\* left alone by Loop, by Resume and by every handler
loopVars == <<grp, fdt, rax, calls, used, want, outcome, reader>>

-----------------------------------------------------------------------------
(* System call handlers; each defines the next value of handlerVars *)

handlerVars == <<regs, buf, noted, tab, fifo, young>>

\* PTRACE_PEEKUSER, PTRACE_PEEKDATA, PTRACE_POKEDATA: the argument registers, the
\* result, and the sockaddr that the second argument of connect(2) points to
get_syscall_arg(p) == regs[p]
get_retval(p) == rax[p]
getdata(p) == buf[p]

\* mutant: an IPv6 sockaddr is written with the size of an IPv4 one
putdata_Short(p, sa) ==
  [buf EXCEPT ![p] = IF sa.fam = "inet6" THEN [sa EXCEPT !.ip = "mixed"] ELSE sa]

putdata(p, sa) == [buf EXCEPT ![p] = sa]

\* the SOCK_* number each kind of socket is opened with
SockType == [tcp |-> 1, udp |-> 2, raw |-> 3, unix |-> 1]

\* (type & SOCK_STREAM) >= 1 and the domain is AF_INET or AF_INET6
IsTcpSocket(kind) == SockType[kind] % 2 = 1 /\ kind # "unix"

socket_pre_handle(p) ==
  /\ tab' \in IF IsTcpSocket(get_syscall_arg(p).kind)
              THEN add_socket_info(tab, Key(MAGIC_FD, p), [fd |-> -1, fresh |-> FALSE])
              ELSE {tab}
  /\ UNCHANGED <<regs, buf, noted, fifo, young>>

\* mutant: the FIFO is written without blocking
connect_pre_handle_NonBlocking(p) ==
  LET k == Key(get_syscall_arg(p).fd, p)
      sa == getdata(p)
      written == reader /\ Len(fifo) < FifoCap
  IN
  IF ~HasSocketInfo(tab, k) \/ sa.fam \notin {"inet", "inet6"} \/ is_ignore(sa.ip)
  THEN UNCHANGED handlerVars
  ELSE /\ buf' = putdata(p, ProxySa(sa.fam))
       /\ tab' = set_socket_info(tab, k, [fd |-> find_socket_info(tab, k).fd, fresh |-> TRUE])
       /\ fifo' = IF written THEN Append(fifo, [addr |-> sa, pid |-> p]) ELSE fifo
       /\ noted' = [noted EXCEPT ![p] = IF written THEN sa ELSE NoAddr]
       /\ young' = young \cup {<<grp[p], get_syscall_arg(p).fd>>}
       /\ UNCHANGED regs

\* write(2) blocks on a full FIFO; without a reader it raises SIGPIPE, or fails
\* and is reported when that is ignored
connect_pre_handle(p) ==
  LET k == Key(get_syscall_arg(p).fd, p)
      sa == getdata(p)
  IN
  IF \/ ~HasSocketInfo(tab, k)
     \/ sa.fam \notin {"inet", "inet6"}
     \/ is_ignore(sa.ip)
  THEN UNCHANGED handlerVars
  ELSE /\ reader => Len(fifo) < FifoCap
       /\ buf' = putdata(p, ProxySa(sa.fam))
       /\ tab' = set_socket_info(tab, k, [fd |-> find_socket_info(tab, k).fd, fresh |-> TRUE])
       /\ fifo' = IF reader THEN Append(fifo, [addr |-> sa, pid |-> p]) ELSE fifo
       /\ noted' = [noted EXCEPT ![p] = IF reader THEN sa ELSE NoAddr]
       /\ young' = young \cup {<<grp[p], get_syscall_arg(p).fd>>}
       /\ UNCHANGED regs

\* mutant: close(2) is not delayed
close_pre_handle_NoSleep(p) ==
  LET k == Key(get_syscall_arg(p).fd, p) IN
  /\ tab' = IF HasSocketInfo(tab, k) THEN del_socket_info(tab, k) ELSE tab
  /\ UNCHANGED <<regs, buf, noted, fifo, young>>

\* the tracer sleeps in here until the socket it found is MIN_CLOSE_MSEC old
close_pre_handle(p) ==
  LET k == Key(get_syscall_arg(p).fd, p) IN
  /\ HasSocketInfo(tab, k) => ~find_socket_info(tab, k).fresh
  /\ tab' = IF HasSocketInfo(tab, k) THEN del_socket_info(tab, k) ELSE tab
  /\ UNCHANGED <<regs, buf, noted, fifo, young>>

\* mutant: the flags are left as they are
clone_pre_handle_KeepFlags(p) == UNCHANGED handlerVars

clone_pre_handle(p) ==
  /\ regs' = [regs EXCEPT ![p].opts = @ \ {"untraced"}]
  /\ UNCHANGED <<buf, noted, tab, fifo, young>>

\* mutant: the entry is not moved from the placeholder's key to the socket's
socket_exiting_handle_KeepKey(p, fd) ==
  LET k == Key(MAGIC_FD, p) IN
  /\ tab' = IF HasSocketInfo(tab, k)
            THEN set_socket_info(tab, k, [fd |-> fd, fresh |-> find_socket_info(tab, k).fresh])
            ELSE tab
  /\ UNCHANGED <<regs, buf, noted, fifo, young>>

socket_exiting_handle(p, fd) ==
  LET k == Key(MAGIC_FD, p) IN
  /\ tab' \in IF HasSocketInfo(tab, k)
              THEN add_socket_info(del_socket_info(tab, k), Key(fd, p),
                                   [fd |-> fd, fresh |-> find_socket_info(tab, k).fresh])
              ELSE {tab}
  /\ UNCHANGED <<regs, buf, noted, fifo, young>>

-----------------------------------------------------------------------------
(* The loop body after wait(2) *)

exiting(p) == pinfo[p].insyscall

\* get_syscall_number: orig_rax, or -1 from a dead tracee (NDEBUG is defined)
get_syscall_number(p) == IF Dead THEN "none" ELSE regs[p].op

\* the stops that are taken for system call stops: SIGTRAP of any origin,
\* group-stop, where PTRACE_GETSIGINFO fails, and any signal of a dead tracee
IsSyscallStop ==
  \/ status \in {"entry", "exit", "trap", "group"}
  \/ status \in {"plain", "stop"} /\ Dead

\* SIGPIPE kills the tracer in connect_pre_handle's write(2)
BrokenPipe(p) ==
  /\ get_syscall_number(p) = "connect" /\ ~reader /\ ~SigPipeIgnored
  /\ HasSocketInfo(tab, Key(get_syscall_arg(p).fd, p))
  /\ getdata(p).fam \in {"inet", "inet6"} /\ ~is_ignore(getdata(p).ip)

trace_syscall_entering(p) ==
  LET csn == get_syscall_number(p) IN
  /\ ~BrokenPipe(p)
  /\ \/ csn = "socket" /\ socket_pre_handle(p)
     \/ csn = "connect" /\ connect_pre_handle(p)
     \/ csn = "close" /\ close_pre_handle(p)
     \/ csn = "clone" /\ clone_pre_handle(p)
     \/ csn \notin {"socket", "connect", "close", "clone"} /\ UNCHANGED handlerVars
  /\ pinfo' = [pinfo EXCEPT ![p] = [startup |-> @.startup, insyscall |-> TRUE, csn |-> csn]]

\* mutant: FLAG_INSYSCALL stays set after socket(2), as if the switch returned
trace_syscall_exiting_SocketReturns(p) ==
  \/ /\ pinfo[p].csn = "socket" /\ ~Dead /\ socket_exiting_handle(p, get_retval(p))
     /\ UNCHANGED pinfo
  \/ /\ pinfo[p].csn # "socket" /\ UNCHANGED handlerVars
     /\ pinfo' = [pinfo EXCEPT ![p].insyscall = FALSE]

trace_syscall_exiting(p) ==
  /\ \/ pinfo[p].csn = "socket" /\ ~Dead /\ socket_exiting_handle(p, get_retval(p))
     \/ pinfo[p].csn # "socket" /\ UNCHANGED handlerVars
  /\ pinfo' = [pinfo EXCEPT ![p].insyscall = FALSE]

\* mutant: the tracer ends with the first tracee that ends
HandleDeath_Exit ==
  /\ pc = "handle" /\ status = "zombie"
  /\ pc' = "exited"
  /\ UNCHANGED <<ts, loopVars, handlerVars, cur, status, pinfo>>

\* a tracee has exited or was killed; its proc_info is kept
HandleDeath ==
  /\ pc = "handle" /\ status = "zombie"
  /\ Loop
  /\ UNCHANGED <<ts, loopVars, handlerVars, pinfo>>

\* mutant: a tracee that reports an event is not resumed
HandleSignal_ForgetEvent ==
  /\ pc = "handle" /\ status \in {"event", "sigstop", "plain", "stop"} /\ ~IsSyscallStop
  /\ IF status = "event" /\ ~Dead THEN ts' = [ts EXCEPT ![cur] = "held"] ELSE Resume
  /\ Loop
  /\ UNCHANGED <<loopVars, handlerVars, pinfo>>

\* an event, SIGSTOP (dropped) or a signal to be injected
HandleSignal ==
  /\ pc = "handle" /\ status \in {"event", "sigstop", "plain", "stop"} /\ ~IsSyscallStop
  /\ Resume /\ Loop
  /\ UNCHANGED <<loopVars, handlerVars, pinfo>>

HandleEntering ==
  /\ pc = "handle" /\ IsSyscallStop /\ ~exiting(cur)
  /\ trace_syscall_entering(cur)
  /\ Resume /\ Loop
  /\ UNCHANGED loopVars

\* the tracee is not resumed when the call it is taken to leave is an exit
HandleExiting ==
  /\ pc = "handle" /\ IsSyscallStop /\ exiting(cur)
  /\ trace_syscall_exiting(cur)
  /\ IF IsExit(pinfo[cur].csn)
     THEN ts' = IF Dead THEN ts
                ELSE [ts EXCEPT ![cur] = IF status = "entry" THEN "heldentry" ELSE "held"]
     ELSE Resume
  /\ Loop
  /\ UNCHANGED loopVars

\* exit(0): get_retval finds no process to read the result of socket(2) from
HandleNoSuchProcess ==
  /\ pc = "handle" /\ IsSyscallStop /\ exiting(cur)
  /\ pinfo[cur].csn = "socket" /\ Dead
  /\ pc' = "exited"
  /\ UNCHANGED <<ts, loopVars, handlerVars, cur, status, pinfo>>

\* connect_pre_handle up to the write(2) that does not return: the sockaddr has
\* been overwritten already
HandleBrokenPipe ==
  /\ pc = "handle" /\ IsSyscallStop /\ ~exiting(cur) /\ BrokenPipe(cur)
  /\ pc' = "exited"
  /\ buf' = putdata(cur, ProxySa(getdata(cur).fam))
  /\ UNCHANGED <<ts, loopVars, regs, noted, tab, fifo, young, cur, status, pinfo>>

TracerStep ==
  \/ \E p \in Pids : Wait(p)
  \/ WaitNoChild \/ HandleDeath \/ HandleSignal \/ HandleEntering
  \/ HandleExiting \/ HandleNoSuchProcess \/ HandleBrokenPipe

-----------------------------------------------------------------------------
(* The tracer's environment, which outlives the tracer *)

\* the tracer takes no connection for younger than MIN_CLOSE_MSEC
Aged(t) ==
  [k \in Keys |-> [i \in DOMAIN t[k] |-> [t[k][i] EXCEPT !.fresh = FALSE]]]

\* MIN_CLOSE_MSEC pass
Elapse ==
  /\ young # {} \/ tab # Aged(tab)
  /\ tab' = Aged(tab) /\ young' = {}
  /\ UNCHANGED <<traceeVars, pc, cur, status, pinfo, fifo, reader>>

\* the clock is set: forward, or back, where delta_ms, being unsigned, becomes a
\* large number; either way the connections look old
ClockSet ==
  /\ pc # "exited" /\ ClockMaySet /\ tab # Aged(tab)
  /\ tab' = Aged(tab)
  /\ UNCHANGED <<traceeVars, pc, cur, status, pinfo, fifo, reader, young>>

\* graftcp-local reads a line
FifoRead ==
  /\ reader /\ fifo # <<>>
  /\ fifo' = Tail(fifo)
  /\ UNCHANGED <<traceeVars, pc, cur, status, pinfo, tab, reader, young>>

\* graftcp-local dies or is started again; what is in the FIFO stays there,
\* because the tracer holds it open (who reads it later is of no account here)
LocalUpDown ==
  /\ pc # "exited" /\ LocalMayDie
  /\ reader' = ~reader
  /\ UNCHANGED <<traceeVars, pc, cur, status, pinfo, tab, fifo, young>>

\* tracees go on when the tracer has ended, on their own
Tracee(p) ==
  /\ TraceeStep(p) \/ (pc = "exited" /\ Detach(p))
  /\ UNCHANGED tracerVars

Terminated == pc = "exited" /\ UNCHANGED vars

Next ==
  \/ TracerStep
  \/ \E p \in Pids : Tracee(p)
  \/ Elapse \/ ClockSet \/ FifoRead \/ LocalUpDown
  \/ Terminated

Spec == Init /\ [][Next]_vars

-----------------------------------------------------------------------------
(* Fairness: the tracer runs, system calls of live tracees end, time passes *)
(* and graftcp-local keeps reading.  Nothing is assumed of the application. *)

InKernel(p) == (Kernel(p) \/ Finish(p)) /\ UNCHANGED tracerVars

Fairness ==
  /\ WF_vars(TracerStep) /\ WF_vars(Elapse) /\ WF_vars(FifoRead)
  /\ \A p \in Pids : WF_vars(InKernel(p))

FairSpec == Spec /\ Fairness

-----------------------------------------------------------------------------
(* Properties *)

RegsType == [op : Ops, fd : Fds \cup {0}, kind : AllSockKinds,
             opts : SUBSET AllCloneOpts]
Outcomes == [kind : AllSockKinds \cup {"none"}, want : Addrs, to : Addrs, noted : Addrs]
FifoRecord == [addr : Addrs, pid : Pids]
ProcInfo == [startup : BOOLEAN, insyscall : BOOLEAN, csn : Ops]

TraceeTypeOK ==
  /\ ts \in [Pids -> TraceeState]
  /\ grp \in [Pids -> Pids]
  /\ fdt \in [Pids -> [Fds -> AllSockKinds \cup {"closed"}]]
  /\ regs \in [Pids -> RegsType]
  /\ rax \in [Pids -> Int]
  /\ buf \in [Pids -> Addrs]
  /\ calls \in 0 .. MaxCalls
  /\ used \subseteq Pids
  /\ want \in [Pids -> Addrs]
  /\ noted \in [Pids -> Addrs]
  /\ outcome \in [Pids -> Outcomes]

TracerTypeOK ==
  /\ pc \in {"wait", "handle", "exited"}
  /\ cur \in Pids
  /\ status \in Stops \cup {"none", "zombie"}
  /\ pinfo \in [Pids -> ProcInfo]
  /\ tab \in [Keys -> Seq(SocketInfo)]
  /\ fifo \in Seq(FifoRecord)
  /\ reader \in BOOLEAN
  /\ young \subseteq Pids \X (Fds \cup {0})

\* The variables of the tracees and of the tracer (main.c, util.c) keep their
\* types: every key of SOCKET_INFO_TAB fits 32 bits, and nothing but a
\* destination of the application or graftcp-local's address gets into a sockaddr.
TypeOK == TraceeTypeOK /\ TracerTypeOK

\* FLAG_INSYSCALL, which trace_syscall toggles at every stop it takes for a
\* system call stop, agrees with the kernel's view of every live tracee for as
\* long as the tracer runs: entries are never handled as exits, nor exits as entries.
PhaseInSync ==
  pc # "exited" => \A p \in Pids : ts[p] \in Running =>
    (pinfo[p].insyscall <=> ts[p] \in {"kernel", "finish", "event", "exit"})

\* No process created by a tracee runs untraced while the tracer does, although
\* clone(2) may be called with CLONE_UNTRACED (clone_pre_handle).
NoEscape == pc # "exited" => \A p \in Pids : ts[p] # "escaped"

\* The tracer ends (main.c: exit, return from do_trace) only when none of its
\* tracees is left.
TracedToTheEnd == pc = "exited" => \A p \in Pids : ts[p] \notin Running

IsInet(sa) == sa.fam \in {"inet", "inet6"}

\* Every connect(2) of a TCP socket to an address that is not to be ignored
\* reaches the kernel with graftcp-local's address in its place, and the
\* destination the application asked for has been written to the FIFO.
Intercepted ==
  \A p \in Pids : LET o == outcome[p] IN
    o.kind = "tcp" /\ IsInet(o.want) /\ ~is_ignore(o.want.ip)
      => o.to = ProxySa(o.want.fam) /\ o.noted = o.want

\* connect(2) of a socket that is not a TCP socket is left alone
\* (socket_pre_handle: "If not TCP socket, ignore").
OnlyTcpRedirected ==
  \A p \in Pids : outcome[p].kind # "tcp" => outcome[p].to = outcome[p].want

\* the tracer has ended in a handler for p, with nobody to read the FIFO
Abandoned(p) == pc = "exited" /\ cur = p /\ ~reader

\* A connect(2) is redirected only to graftcp-local, and only after the destination
\* the application asked for has been announced, so that graftcp-local has a record
\* to find: the one exception is the connect(2) whose announcement killed the tracer
\* (connect_pre_handle: putdata comes before write).
RedirectAnnounced ==
  \A p \in Pids : LET o == outcome[p] IN
    o.to # o.want => /\ o.to = ProxySa(o.want.fam)
                     /\ o.noted = o.want \/ Abandoned(p)

\* close(2) of a redirected connection does not reach the kernel before the
\* connection is MIN_CLOSE_MSEC old, so graftcp-local can still find its inode
\* (close_pre_handle), as long as nobody sets the clock.
CloseDelayed ==
  \A p \in Pids : ts[p] = "kernel" /\ regs[p].op = "close"
                   => <<grp[p], regs[p].fd>> \notin young

\* Every tracee that is stopped is set going again, or dies, unless the tracer
\* has ended: no stop is forgotten by do_trace, and no tracee waits for ever
\* behind a full FIFO or a delayed close(2).
StopsEnd ==
  \A p \in Pids : ts[p] \in Stops \cup HeldStops
                     ~> (ts[p] \notin Stops \cup HeldStops \/ pc = "exited")

=============================================================================
