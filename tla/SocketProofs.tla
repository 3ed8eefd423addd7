---------------------------- MODULE SocketProofs ----------------------------
(***************************************************************************)
(* What graftcp is for: under the conditions in which SOCKET_INFO_TAB can  *)
(* be trusted, every connect(2) of a TCP socket is redirected, close(2) of *)
(* a young connection is delayed, and the tracer stays until its last      *)
(* tracee is gone.                                                         *)
(***************************************************************************)
EXTENDS TracerProofs

-----------------------------------------------------------------------------
(* The end of the tracer *)

\* no process has a second thread
SingleThreaded == \A opts \in CloneOpts : "thread" \notin opts

\* nobody dies but by its own exit_group(2), and write(2) to the FIFO does not
\* kill the tracer
Undisturbed == SingleThreaded /\ ~Killable /\ (~LocalMayDie \/ SigPipeIgnored)

\* a process is its only thread
OwnGroup ==
  \A p \in Pids : grp[p] = p /\ "thread" \notin regs[p].opts

\* between Wait and the handler the tracee stays in its stop
CurThere ==
  pc = "handle" => /\ ~pinfo[cur].startup
                   /\ status # "zombie" => status \in Stops /\ ts[cur] = status

\* the root waits for the tracer until it is seen for the first time
RootWaits == \A p \in Pids : pinfo[p].startup => ts[p] = "sigstop"

EndInv ==
  /\ OwnGroup /\ CurThere /\ RootWaits
  /\ reader \/ SigPipeIgnored
  /\ TracedToTheEnd

\* The tracer has just forked the root.
LEMMA EndInit == Init => EndInv
<1>. SUFFICES ASSUME Init PROVE EndInv OBVIOUS
<1>1. OwnGroup BY DEF Init, TraceeInit, OwnGroup, NoCall, Call
<1>2. RootWaits BY DEF Init, TraceeInit, RootWaits, alloc_proc_info
<1>3. CurThere /\ TracedToTheEnd BY DEF Init, CurThere, TracedToTheEnd
<1>. QED BY <1>1, <1>2, <1>3 DEF EndInv, Init

\* Nothing is left to happen when the tracer has ended after its last tracee.
LEMMA NobodyLeft ==
  ASSUME TracedToTheEnd, pc = "exited", NEW p \in Pids
  PROVE  ~Tracee(p)
<1>1. ts[p] \notin Running BY DEF TracedToTheEnd
<1>. QED
  BY <1>1 DEF Tracee, TraceeStep, Syscall, Signal, SigKill, Kernel, Finish, Detach, Running

\* A process that is not stopped changes nothing for one that is: without kills
\* and threads, a tracee leaves a stop only when the tracer lets it.
LEMMA StopsStay ==
  ASSUME Undisturbed, TypeOK, OwnGroup, pc # "exited", NEW p \in Pids, Tracee(p)
  PROVE  /\ \A q \in Pids : ts[q] \in Stops => ts'[q] = ts[q]
         /\ OwnGroup'
<1>t. /\ ts \in [Pids -> TraceeState] /\ regs \in [Pids -> RegsType]
      /\ grp \in [Pids -> Pids]
  BY DEF TypeOK, TraceeTypeOK
<1>m. ASSUME ts[p] \in {"user", "kernel", "finish"}, UNCHANGED grp,
             \A q \in Pids : q # p => ts'[q] = ts[q],
             \A q \in Pids : regs'[q].opts = regs[q].opts \/ "thread" \notin regs'[q].opts
      PROVE  /\ \A q \in Pids : ts[q] \in Stops => ts'[q] = ts[q]
             /\ OwnGroup'
  BY <1>m DEF Stops, OwnGroup
<1>1. ASSUME NEW c \in Calls, Syscall(p, c)
      PROVE  (\A q \in Pids : ts[q] \in Stops => ts'[q] = ts[q]) /\ OwnGroup'
  <2>1. "thread" \notin c.opts BY DEF Calls, Call, Undisturbed, SingleThreaded
  <2>. QED BY <1>1, <1>m, <1>t, <2>1 DEF Syscall
<1>2. ASSUME NEW s \in Signals, Signal(p, s)
      PROVE  (\A q \in Pids : ts[q] \in Stops => ts'[q] = ts[q]) /\ OwnGroup'
  <2>1. \A q \in Pids : regs'[q].opts = regs[q].opts BY <1>2, <1>t DEF Signal, RegsType
  <2>. QED BY <1>2, <1>m, <1>t, <2>1 DEF Signal
<1>3. CASE SigKill(p) BY <1>3 DEF SigKill, Undisturbed
<1>4. CASE Kernel(p)
  <2>. USE <1>4, <1>t DEF Kernel, Return, memVars
  <2>1. CASE KernelSocket(p) BY <2>1, <1>m DEF KernelSocket
  <2>2. CASE KernelConnect(p) BY <2>2, <1>m DEF KernelConnect
  <2>3. CASE KernelClose(p) BY <2>3, <1>m DEF KernelClose
  <2>4. CASE KernelClone(p)
    <3>1. CASE FreePids = {} BY <2>4, <3>1, <1>m DEF KernelClone
    <3>2. CASE FreePids # {}
      <4>0. "thread" \notin regs[p].opts BY DEF OwnGroup
      <4>1. PICK q \in FreePids :
              /\ \A r \in Pids : r \notin {p, q} => ts'[r] = ts[r]
              /\ regs' = [regs EXCEPT ![q] = regs[p]]
              /\ grp' = [grp EXCEPT ![q] = q]
        BY <2>4, <3>2, <4>0 DEF KernelClone, FreePids
      <4>. QED BY <4>0, <4>1 DEF FreePids, Stops, OwnGroup
    <3>. QED BY <3>1, <3>2
  <2>5. CASE KernelExec(p)
    BY <2>5, <1>m DEF KernelExec, OwnGroup
  <2>6. CASE KernelExit(p)
    BY <2>6, <1>m DEF KernelExit, Die, Threads, OwnGroup
  <2>7. CASE KernelOther(p) BY <2>7, <1>m DEF KernelOther
  <2>. QED BY <2>1, <2>2, <2>3, <2>4, <2>5, <2>6, <2>7
<1>5. CASE Finish(p) BY <1>5, <1>m, <1>t DEF Finish, Return
<1>. QED BY <1>1, <1>2, <1>3, <1>4, <1>5 DEF Tracee, TraceeStep

\* The tracer's own steps end it only when nobody is left.
LEMMA EndTracer ==
  ASSUME Undisturbed, TypeOK, EndInv, TracerStep
  PROVE  EndInv'
<1>t. /\ ts \in [Pids -> TraceeState] /\ regs \in [Pids -> RegsType]
      /\ pinfo \in [Pids -> ProcInfo] /\ cur \in Pids
  BY DEF TypeOK, TraceeTypeOK, TracerTypeOK
<1>r. Root \in Pids BY PtraceAssumption
\* back to wait(2), having done nothing to anyone but cur
<1>l. ASSUME pc = "handle", Loop, UNCHANGED <<grp, reader>>,
             \A q \in Pids : regs'[q].opts \subseteq regs[q].opts,
             \A q \in Pids : pinfo'[q].startup = pinfo[q].startup,
             \A q \in Pids : q # cur => ts'[q] = ts[q]
      PROVE  EndInv'
  BY <1>l DEF EndInv, OwnGroup, CurThere, RootWaits, TracedToTheEnd, Loop
<1>1. ASSUME NEW p \in Pids, Wait(p) PROVE EndInv'
  <2>1. /\ cur' = p /\ status' = ts[p] /\ ts[p] \in Stops \cup {"zombie"}
        /\ ts' = [ts EXCEPT ![p] = IF @ = "zombie" THEN "absent" ELSE @]
        /\ pc' = IF pinfo[p].startup /\ ts[p] = "zombie" THEN "exited" ELSE "handle"
        /\ UNCHANGED <<grp, regs, reader>>
    BY <1>1 DEF Wait, Waitable
  <2>2. ~pinfo'[p].startup /\ \A q \in Pids : q # p => pinfo'[q] = pinfo[q]
    BY <1>1, <1>t DEF Wait, ProcInfo
  <2>3. pc' = "handle" BY <2>1 DEF EndInv, RootWaits
  <2>. QED BY <1>t, <2>1, <2>2, <2>3
           DEF EndInv, OwnGroup, CurThere, RootWaits, TracedToTheEnd
<1>2. CASE WaitNoChild
  BY <1>2 DEF WaitNoChild, traceeVars, EndInv, OwnGroup, CurThere, RootWaits,
              TracedToTheEnd, Running, Stops, HeldStops
<1>3. CASE HandleDeath BY <1>3, <1>l DEF HandleDeath, loopVars, handlerVars
<1>4. CASE HandleSignal
  <2>1. \A q \in Pids : q # cur => ts'[q] = ts[q] BY <1>4, <1>t DEF HandleSignal, Resume
  <2>. QED BY <1>4, <2>1, <1>l DEF HandleSignal, loopVars, handlerVars
<1>5. CASE HandleEntering
  <2>1. \A q \in Pids : q # cur => ts'[q] = ts[q] BY <1>5, <1>t DEF HandleEntering, Resume
  <2>2. \A q \in Pids : pinfo'[q].startup = pinfo[q].startup
    BY <1>5, <1>t DEF HandleEntering, trace_syscall_entering, ProcInfo
  <2>3. \A q \in Pids : regs'[q].opts \subseteq regs[q].opts
    BY <1>5, <1>t
       DEF HandleEntering, trace_syscall_entering, handlerVars, socket_pre_handle,
           connect_pre_handle, close_pre_handle, clone_pre_handle, RegsType
  <2>. QED BY <1>5, <2>1, <2>2, <2>3, <1>l DEF HandleEntering, loopVars
<1>6. CASE HandleExiting
  <2>1. \A q \in Pids : q # cur => ts'[q] = ts[q] BY <1>6, <1>t DEF HandleExiting, Resume
  <2>2. \A q \in Pids : pinfo'[q].startup = pinfo[q].startup
    BY <1>6, <1>t DEF HandleExiting, trace_syscall_exiting, ProcInfo
  <2>3. UNCHANGED regs
    BY <1>6 DEF HandleExiting, trace_syscall_exiting, handlerVars, socket_exiting_handle
  <2>. QED BY <1>6, <2>1, <2>2, <2>3, <1>l DEF HandleExiting, loopVars
<1>7. CASE HandleNoSuchProcess
  <2>1. status # "zombie" BY <1>7 DEF HandleNoSuchProcess, IsSyscallStop
  <2>. QED BY <1>7, <2>1 DEF HandleNoSuchProcess, Dead, EndInv, CurThere
<1>8. CASE HandleBrokenPipe BY <1>8 DEF HandleBrokenPipe, BrokenPipe, EndInv
<1>. QED BY <1>1, <1>2, <1>3, <1>4, <1>5, <1>6, <1>7, <1>8 DEF TracerStep

\* Every step of the system keeps the invariant.
LEMMA EndNext ==
  ASSUME Undisturbed, TypeOK, EndInv, [Next]_vars
  PROVE  EndInv'
<1>1. CASE TracerStep BY <1>1, EndTracer
<1>2. ASSUME NEW p \in Pids, Tracee(p) PROVE EndInv'
  <2>1. UNCHANGED <<pc, cur, status, pinfo, reader>> /\ pc # "exited"
    BY <1>2, NobodyLeft DEF Tracee, tracerVars, EndInv
  <2>2. cur \in Pids BY DEF TypeOK, TracerTypeOK
  <2>3. (\A q \in Pids : ts[q] \in Stops => ts'[q] = ts[q]) /\ OwnGroup'
    BY <1>2, <2>1, StopsStay DEF EndInv
  <2>. QED BY <2>1, <2>2, <2>3 DEF EndInv, CurThere, RootWaits, TracedToTheEnd, Stops
<1>3. CASE UNCHANGED <<traceeVars, pc, cur, status, pinfo>> /\ (reader' \/ UNCHANGED reader)
  BY <1>3 DEF traceeVars, EndInv, OwnGroup, CurThere, RootWaits, TracedToTheEnd
<1>4. CASE LocalUpDown
  BY <1>4 DEF LocalUpDown, Undisturbed, traceeVars, EndInv, OwnGroup, CurThere, RootWaits,
              TracedToTheEnd
<1>. QED BY <1>1, <1>2, <1>3, <1>4
         DEF Next, Elapse, ClockSet, FifoRead, Terminated, vars, tracerVars

\* TracedToTheEnd for any number of processes: when the tracees are single-threaded
\* and end by themselves, graftcp does not leave before the last of them, whatever
\* signals they get.
THEOREM StaysToTheEnd ==
  ASSUME Undisturbed
  PROVE  Spec => []TracedToTheEnd
<1>1. Init => TypeOK /\ EndInv BY InitType, EndInit
<1>2. TypeOK /\ EndInv /\ [Next]_vars => (TypeOK /\ EndInv)' BY NextType, EndNext
<1>3. EndInv => TracedToTheEnd BY DEF EndInv
<1>. QED BY <1>1, <1>2, <1>3, PTL DEF Spec

-----------------------------------------------------------------------------
(* SOCKET_INFO_TAB follows the descriptor tables *)

\* every process has a descriptor table of its own, which starts empty
OwnTables == \A opts \in CloneOpts : opts \cap {"thread", "inherit"} = {}

\* socket_pre_handle takes every socket of the application for a TCP socket
AllTcp == \A kind \in SockKinds : IsTcpSocket(kind)

\* no two descriptors of a process are filed under one key
Separate == \A f, g \in Fds : f % 2 = g % 2 => f = g

Trusted == Quiet /\ OwnTables /\ AllTcp /\ Separate

\* processes share nothing
OwnFds == \A p \in Pids : grp[p] = p /\ regs[p].opts \cap {"thread", "inherit"} = {}

\* the registers hold a call of the application
CallArgs == \A p \in Pids : regs[p].op \in {"connect", "close"} => regs[p].fd \in Fds

\* the tracer remembers the call a tracee is in; events are not socket(2)'s
CsnKept ==
  \A p \in Pids :
    /\ ts[p] \in {"kernel", "exit", "event", "finish"} => pinfo[p].csn = regs[p].op
    /\ ts[p] \in {"event", "finish"} => regs[p].op # "socket"
    /\ regs[p].op = "socket" => IsTcpSocket(regs[p].kind)

OwnInv == OwnFds /\ CallArgs /\ CsnKept

\* socket_pre_handle has run, socket_exiting_handle has not
InSocket(p) == ts[p] \in {"kernel", "exit"} /\ regs[p].op = "socket"

\* open, except between a handler and the kernel's part of the same call
Held(p, fd) ==
  /\ ts[p] \in Running /\ fdt[p][fd] # "closed"
  /\ ~(ts[p] = "kernel" /\ regs[p].op = "close" /\ regs[p].fd = fd)
  /\ ~(ts[p] = "exit" /\ regs[p].op = "socket" /\ rax[p] = fd)

\* The application issues the calls in Calls, and only those.
LEMMA CallsGiven ==
  ASSUME Trusted, NEW c \in Calls
  PROVE  /\ c.opts \cap {"thread", "inherit"} = {}
         /\ c.op \in {"connect", "close"} => c.fd \in Fds
         /\ c.op = "socket" => IsTcpSocket(c.kind)
BY DEF Calls, Call, Trusted, OwnTables, AllTcp

\* The first state: the root has called nothing yet.
LEMMA OwnInit == Init => OwnInv
BY DEF Init, TraceeInit, OwnInv, OwnFds, CallArgs, CsnKept, NoCall, Call

\* The tracees' own steps keep OwnInv, the proc_infos being the tracer's.
LEMMA OwnTracee ==
  ASSUME Trusted, TypeOK, PhaseInv, OwnInv, pc # "exited", NEW p \in Pids, Tracee(p)
  PROVE  OwnInv'
<1>t. /\ ts \in [Pids -> TraceeState] /\ regs \in [Pids -> RegsType]
      /\ grp \in [Pids -> Pids]
  BY DEF TypeOK, TraceeTypeOK
<1>0. UNCHANGED pinfo BY DEF Tracee, tracerVars
\* nobody gets into a system call
<1>m. ASSUME UNCHANGED <<grp, regs>>,
             \A q \in Pids :
               /\ ts'[q] \in {"kernel", "exit", "event", "finish"} =>
                    ts[q] \in {"kernel", "finish"} \/ ts'[q] = ts[q]
               /\ ts'[q] \in {"event", "finish"} => regs[q].op # "socket"
      PROVE  OwnInv'
  BY <1>0, <1>m DEF OwnInv, OwnFds, CallArgs, CsnKept, IsTcpSocket
<1>1. ASSUME NEW c \in Calls, Syscall(p, c) PROVE OwnInv'
  <2>1. /\ ts' = [ts EXCEPT ![p] = "entry"] /\ regs' = [regs EXCEPT ![p] = c]
        /\ UNCHANGED grp
    BY <1>1 DEF Syscall
  <2>. QED BY <1>0, <1>t, <2>1, CallsGiven
           DEF OwnInv, OwnFds, CallArgs, CsnKept, IsTcpSocket
<1>2. ASSUME NEW s \in Signals, Signal(p, s) PROVE OwnInv'
  <2>1. /\ s \in AllSignals /\ ts' = [ts EXCEPT ![p] = s] /\ UNCHANGED grp
        /\ regs' \in {regs, [regs EXCEPT ![p].op = "none"]}
    BY <1>2, PtraceAssumption DEF Signal
  <2>2. /\ \A q \in Pids : q # p => regs'[q] = regs[q]
        /\ regs'[p].opts = regs[p].opts /\ regs'[p].fd = regs[p].fd
        /\ regs'[p].kind = regs[p].kind /\ regs'[p].op \in {regs[p].op, "none"}
    BY <1>t, <2>1 DEF RegsType
  <2>. QED BY <1>0, <1>t, <2>1, <2>2
           DEF OwnInv, OwnFds, CallArgs, CsnKept, IsTcpSocket, AllSignals
<1>3. CASE SigKill(p) BY <1>3, <1>m, <1>t DEF SigKill, Die, Threads, OwnInv, CsnKept
<1>4. CASE Kernel(p)
  <2>. USE <1>4, <1>t DEF Kernel, Return, memVars
  <2>1. CASE KernelSocket(p) BY <2>1, <1>m DEF KernelSocket, OwnInv, CsnKept
  <2>2. CASE KernelConnect(p) BY <2>2, <1>m DEF KernelConnect, OwnInv, CsnKept
  <2>3. CASE KernelClose(p) BY <2>3, <1>m DEF KernelClose, OwnInv, CsnKept
  <2>4. CASE KernelClone(p)
    <3>1. CASE FreePids = {} BY <2>4, <3>1, <1>m DEF KernelClone, OwnInv, CsnKept
    <3>2. CASE FreePids # {}
      <4>0. /\ "thread" \notin regs[p].opts /\ "untraced" \notin regs[p].opts
            /\ regs[p].op = "clone"
        BY <2>4 DEF KernelClone, OwnInv, OwnFds, PhaseInv, CloneTraced
      <4>1. PICK q \in FreePids :
              /\ ts' = [ts EXCEPT ![p] = "event", ![q] = "sigstop"]
              /\ regs' = [regs EXCEPT ![q] = regs[p]]
              /\ grp' = [grp EXCEPT ![q] = q]
        BY <2>4, <3>2, <4>0 DEF KernelClone
      <4>2. q \in Pids /\ q # p BY DEF FreePids
      <4>. QED BY <1>0, <4>0, <4>1, <4>2 DEF OwnInv, OwnFds, CallArgs, CsnKept, IsTcpSocket
    <3>. QED BY <3>1, <3>2
  <2>5. CASE KernelExec(p) BY <2>5, <1>m DEF KernelExec, OwnInv, CsnKept
  <2>6. CASE KernelExit(p) BY <2>6, <1>m DEF KernelExit, Die, Threads, OwnInv, CsnKept
  <2>7. CASE KernelOther(p) BY <2>7, <1>m DEF KernelOther, OwnInv, CsnKept
  <2>. QED BY <2>1, <2>2, <2>3, <2>4, <2>5, <2>6, <2>7
<1>5. CASE Finish(p) BY <1>5, <1>m, <1>t DEF Finish, Return, OwnInv, CsnKept
<1>. QED BY <1>1, <1>2, <1>3, <1>4, <1>5 DEF Tracee, TraceeStep

\* do_trace takes a live tracee's stop for what it is: the exit from the system
\* call it is in, or the entry to one.
LEMMA AtStop ==
  ASSUME TypeOK, PhaseInv, pc = "handle", IsSyscallStop
  PROVE  /\ ~Dead => ts[cur] = status /\ status = IF exiting(cur) THEN "exit" ELSE "entry"
         /\ Dead => ts[cur] = "zombie"
<1>1. cur \in Pids /\ status \in {"entry", "exit", "plain"}
  BY DEF TypeOK, TracerTypeOK, IsSyscallStop, PhaseInv, NoOddStops
<1>2. Dead => ts[cur] = "zombie" BY <1>1 DEF Dead, PhaseInv, CurStops
<1>3. ASSUME ~Dead PROVE ts[cur] = status /\ status = IF exiting(cur) THEN "exit" ELSE "entry"
  <2>1. ts[cur] = status /\ status \in {"entry", "exit"} BY <1>1, <1>3 DEF IsSyscallStop, Dead
  <2>. QED BY <1>1, <2>1 DEF PhaseInv, PhaseInSync, Running, Stops, HeldStops, exiting
<1>. QED BY <1>2, <1>3

\* What trace_syscall does to a tracee at the entry to a system call, the tables
\* apart.
LEMMA AtEntering ==
  ASSUME TypeOK, PhaseInv, HandleEntering, ~Dead
  PROVE  /\ ts[cur] = "entry" /\ ts' = [ts EXCEPT ![cur] = "kernel"]
         /\ \A q \in Pids : /\ q # cur => regs'[q] = regs[q] /\ pinfo'[q] = pinfo[q]
                            /\ regs'[q].op = regs[q].op /\ regs'[q].fd = regs[q].fd
                            /\ regs'[q].kind = regs[q].kind
                            /\ regs'[q].opts \subseteq regs[q].opts
         /\ pinfo'[cur].csn = regs[cur].op
         /\ UNCHANGED <<grp, fdt, rax, used, want, outcome>>
<1>t. /\ ts \in [Pids -> TraceeState] /\ regs \in [Pids -> RegsType]
      /\ pinfo \in [Pids -> ProcInfo] /\ cur \in Pids
  BY DEF TypeOK, TraceeTypeOK, TracerTypeOK
<1>1. ts[cur] = "entry" /\ status = "entry" BY AtStop DEF HandleEntering
<1>2. ts' = [ts EXCEPT ![cur] = "kernel"] BY <1>1 DEF HandleEntering, Resume, Resumed
<1>3. regs' = regs \/ regs' = [regs EXCEPT ![cur].opts = @ \ {"untraced"}]
  BY DEF HandleEntering, trace_syscall_entering, handlerVars, socket_pre_handle,
         connect_pre_handle, close_pre_handle, clone_pre_handle
<1>4. pinfo'[cur].csn = regs[cur].op /\ \A q \in Pids : q # cur => pinfo'[q] = pinfo[q]
  BY <1>t DEF HandleEntering, trace_syscall_entering, get_syscall_number, ProcInfo
<1>. QED BY <1>t, <1>1, <1>2, <1>3, <1>4 DEF HandleEntering, loopVars, RegsType

\* What it does at the exit from one.
LEMMA AtExiting ==
  ASSUME TypeOK, PhaseInv, HandleExiting, ~Dead
  PROVE  /\ ts[cur] = "exit"
         /\ ts' = [ts EXCEPT ![cur] = IF IsExit(pinfo[cur].csn) THEN "held" ELSE "user"]
         /\ \A q \in Pids : pinfo'[q].csn = pinfo[q].csn
         /\ UNCHANGED <<grp, fdt, regs, rax, buf, noted, young, used, want, outcome>>
<1>t. /\ pinfo \in [Pids -> ProcInfo] /\ cur \in Pids
  BY DEF TypeOK, TraceeTypeOK, TracerTypeOK
<1>1. ts[cur] = "exit" /\ status = "exit" BY AtStop DEF HandleExiting
<1>2. ts' = [ts EXCEPT ![cur] = IF IsExit(pinfo[cur].csn) THEN "held" ELSE "user"]
  BY <1>1 DEF HandleExiting, Resume, Resumed
<1>3. \A q \in Pids : pinfo'[q].csn = pinfo[q].csn
  BY <1>t DEF HandleExiting, trace_syscall_exiting, ProcInfo
<1>4. UNCHANGED <<grp, fdt, regs, rax, buf, noted, young, used, want, outcome>>
  BY DEF HandleExiting, trace_syscall_exiting, handlerVars, socket_exiting_handle, loopVars
<1>. QED BY <1>1, <1>2, <1>3, <1>4

\* The steps of the tracer that leave SOCKET_INFO_TAB, the registers and the
\* history alone; they move no tracee into or out of a system call, and only the
\* last one of all may touch a sockaddr.
LEMMA Elsewhere ==
  ASSUME TypeOK, PhaseInv, TracerStep
  PROVE  \/ HandleEntering /\ ~Dead
         \/ HandleExiting /\ ~Dead
         \/ /\ \A q \in Pids :
                 \/ ts'[q] = ts[q]
                 \/ ts[q] = "zombie" /\ ts'[q] = "absent"
                 \/ ts[q] = "event" /\ ts'[q] = "finish"
                 \/ ts[q] \in {"sigstop", "plain"} /\ ts'[q] = "user"
            /\ \A q \in Pids : ts[q] \in Running => pinfo'[q].csn = pinfo[q].csn
            /\ UNCHANGED <<tab, young, regs, noted, grp, fdt, rax, used, want, outcome>>
            /\ pc' # "exited" => UNCHANGED buf
<1>. DEFINE Away == /\ \A q \in Pids :
                         \/ ts'[q] = ts[q]
                         \/ ts[q] = "zombie" /\ ts'[q] = "absent"
                         \/ ts[q] = "event" /\ ts'[q] = "finish"
                         \/ ts[q] \in {"sigstop", "plain"} /\ ts'[q] = "user"
                    /\ \A q \in Pids : ts[q] \in Running => pinfo'[q].csn = pinfo[q].csn
                    /\ UNCHANGED <<tab, young, regs, noted, grp, fdt, rax, used, want, outcome>>
                    /\ pc' # "exited" => UNCHANGED buf
<1>t. /\ ts \in [Pids -> TraceeState] /\ pinfo \in [Pids -> ProcInfo] /\ cur \in Pids
  BY DEF TypeOK, TraceeTypeOK, TracerTypeOK
<1>1. ASSUME NEW p \in Pids, Wait(p) PROVE Away
  <2>1. /\ ts' = [ts EXCEPT ![p] = IF @ = "zombie" THEN "absent" ELSE @]
        /\ pinfo' = [pinfo EXCEPT ![p].startup = FALSE]
        /\ UNCHANGED <<tab, young, regs, buf, noted, grp, fdt, rax, used, want, outcome>>
    BY <1>1 DEF Wait
  <2>. QED BY <1>t, <2>1 DEF ProcInfo
<1>2. CASE WaitNoChild BY <1>2 DEF WaitNoChild, traceeVars
<1>3. CASE HandleDeath BY <1>3 DEF HandleDeath, loopVars, handlerVars
<1>4. CASE HandleSignal
  <2>1. status \in {"event", "sigstop", "plain"}
    BY <1>4 DEF HandleSignal, PhaseInv, NoOddStops
  <2>2. ts' = ts \/ (ts[cur] = status /\ ts' = [ts EXCEPT ![cur] = Resumed[status]])
    BY <1>4 DEF HandleSignal, Resume, Dead
  <2>3. Resumed[status] = IF status = "event" THEN "finish" ELSE "user" BY <2>1 DEF Resumed
  <2>4. UNCHANGED <<tab, young, regs, buf, noted, grp, fdt, rax, used, want, outcome, pinfo>>
    BY <1>4 DEF HandleSignal, loopVars, handlerVars
  <2>. QED BY <1>t, <2>1, <2>2, <2>3, <2>4
<1>5. CASE HandleEntering /\ Dead
  <2>1. ts' = ts /\ UNCHANGED handlerVars /\ UNCHANGED loopVars
    BY <1>5 DEF HandleEntering, Resume, trace_syscall_entering, get_syscall_number
  <2>2. ts[cur] = "zombie" BY <1>5, AtStop DEF HandleEntering
  <2>3. \A q \in Pids : q # cur => pinfo'[q] = pinfo[q]
    BY <1>5, <1>t DEF HandleEntering, trace_syscall_entering
  <2>. QED BY <2>1, <2>2, <2>3 DEF handlerVars, loopVars, Running, Stops, HeldStops
<1>6. CASE HandleExiting /\ Dead
  <2>1. ts' = ts /\ UNCHANGED handlerVars /\ UNCHANGED loopVars
    BY <1>6 DEF HandleExiting, Resume, trace_syscall_exiting
  <2>2. \A q \in Pids : pinfo'[q].csn = pinfo[q].csn
    BY <1>6, <1>t DEF HandleExiting, trace_syscall_exiting, ProcInfo
  <2>. QED BY <2>1, <2>2 DEF handlerVars, loopVars
<1>7. CASE HandleNoSuchProcess BY <1>7 DEF HandleNoSuchProcess, loopVars, handlerVars
<1>8. CASE HandleBrokenPipe BY <1>8 DEF HandleBrokenPipe, loopVars, handlerVars
<1>. QED BY <1>1, <1>2, <1>3, <1>4, <1>5, <1>6, <1>7, <1>8 DEF TracerStep

\* The tracer's own steps keep OwnInv.
LEMMA OwnTracer ==
  ASSUME TypeOK, PhaseInv, OwnInv, TracerStep
  PROVE  OwnInv'
<1>t. ts \in [Pids -> TraceeState] /\ cur \in Pids
  BY DEF TypeOK, TraceeTypeOK, TracerTypeOK
<1>1. CASE HandleEntering /\ ~Dead
  BY <1>1, <1>t, AtEntering DEF OwnInv, OwnFds, CallArgs, CsnKept, IsTcpSocket
<1>2. CASE HandleExiting /\ ~Dead
  BY <1>2, <1>t, AtExiting DEF OwnInv, OwnFds, CallArgs, CsnKept, IsTcpSocket
<1>3. CASE ~(HandleEntering /\ ~Dead) /\ ~(HandleExiting /\ ~Dead)
  BY <1>3, Elsewhere DEF OwnInv, OwnFds, CallArgs, CsnKept, IsTcpSocket, Running, Stops, HeldStops
<1>. QED BY <1>1, <1>2, <1>3

\* The kernel's part of a call changes nothing that the tables are about: the
\* handler at the entry has taken a close(2) into account, the one at the exit
\* will do so for a socket(2).
LEMMA HeldTracee ==
  ASSUME Trusted, TypeOK, PhaseInv, OwnInv, pc # "exited", NEW p \in Pids, Tracee(p),
         NEW q \in Pids, ts'[q] \in Running
  PROVE  \/ /\ ts[q] \in Running /\ (InSocket(q)' <=> InSocket(q))
            /\ \A fd \in Fds : (Held(q, fd)' <=> Held(q, fd))
         \/ q \in FreePids /\ ~InSocket(q)' /\ \A fd \in Fds : ~Held(q, fd)'
<1>t. /\ ts \in [Pids -> TraceeState] /\ regs \in [Pids -> RegsType]
      /\ fdt \in [Pids -> [Fds -> AllSockKinds \cup {"closed"}]] /\ rax \in [Pids -> Int]
  BY DEF TypeOK, TraceeTypeOK
<1>o. grp[p] = p BY DEF OwnInv, OwnFds
<1>f. Fds \subseteq Nat BY PtraceAssumption
\* another tracee
<1>s. ASSUME ts'[q] = ts[q], regs'[q] = regs[q], fdt'[q] = fdt[q], rax'[q] = rax[q]
      PROVE  /\ ts[q] \in Running /\ (InSocket(q)' <=> InSocket(q))
             /\ \A fd \in Fds : (Held(q, fd)' <=> Held(q, fd))
  BY <1>s DEF InSocket, Held
\* in and out of a call that is neither socket(2) nor close(2)
<1>m. ASSUME ts[q] \in Running, fdt'[q] = fdt[q],
             ts[q] \in {"kernel", "exit"} => regs[q].op \notin {"socket", "close"},
             ts'[q] \in {"kernel", "exit"} => regs'[q].op \notin {"socket", "close"}
      PROVE  /\ ts[q] \in Running /\ (InSocket(q)' <=> InSocket(q))
             /\ \A fd \in Fds : (Held(q, fd)' <=> Held(q, fd))
  BY <1>m DEF InSocket, Held
<1>1. ASSUME NEW c \in Calls, Syscall(p, c)
      PROVE  /\ ts[q] \in Running /\ (InSocket(q)' <=> InSocket(q))
             /\ \A fd \in Fds : (Held(q, fd)' <=> Held(q, fd))
  <2>1. /\ ts' = [ts EXCEPT ![p] = "entry"] /\ regs' = [regs EXCEPT ![p] = c]
        /\ rax' = [rax EXCEPT ![p] = -ENOSYS] /\ UNCHANGED fdt /\ ts[p] = "user"
    BY <1>1 DEF Syscall
  <2>2. CASE q = p BY <1>t, <1>m, <2>1, <2>2 DEF Running
  <2>3. CASE q # p BY <1>s, <2>1, <2>3
  <2>. QED BY <2>2, <2>3
<1>2. ASSUME NEW s \in Signals, Signal(p, s)
      PROVE  /\ ts[q] \in Running /\ (InSocket(q)' <=> InSocket(q))
             /\ \A fd \in Fds : (Held(q, fd)' <=> Held(q, fd))
  <2>1. /\ s \in AllSignals /\ ts' = [ts EXCEPT ![p] = s] /\ ts[p] = "user"
        /\ regs' \in {regs, [regs EXCEPT ![p].op = "none"]}
        /\ UNCHANGED fdt /\ UNCHANGED rax
    BY <1>2, PtraceAssumption DEF Signal
  <2>2. CASE q = p BY <1>t, <1>m, <2>1, <2>2 DEF Running, AllSignals
  <2>3. CASE q # p BY <1>t, <1>s, <2>1, <2>3
  <2>. QED BY <2>2, <2>3
<1>3. CASE SigKill(p)
  <2>1. ts'[q] = ts[q] BY <1>3, <1>t DEF SigKill, Die, Threads, Running, Stops, HeldStops
  <2>. QED BY <1>3, <1>s, <2>1 DEF SigKill
<1>4. CASE Kernel(p)
  <2>0. ts[p] = "kernel" /\ "kernel" \in Running BY <1>4 DEF Kernel, Running
  <2>. USE <1>t, <1>o DEF Return, memVars
  <2>1. CASE KernelSocket(p)
    <3>0. regs[p].op = "socket" /\ UNCHANGED regs BY <2>1 DEF KernelSocket
    <3>1. PICK r \in Int :
            /\ ts' = [ts EXCEPT ![p] = "exit"] /\ rax' = [rax EXCEPT ![p] = r]
            /\ \/ /\ r \in Fds /\ fdt[p][r] = "closed"
                  /\ fdt' = [fdt EXCEPT ![p][r] = regs[p].kind]
               \/ r < 0 /\ UNCHANGED fdt
      <4>1. CASE \E fd \in FreeFds(p) :
                    /\ fdt' = [fdt EXCEPT ![grp[p]][fd] = regs[p].kind]
                    /\ Return(p, fd)
        <5>1. PICK fd \in FreeFds(p) :
                /\ fdt' = [fdt EXCEPT ![grp[p]][fd] = regs[p].kind]
                /\ Return(p, fd)
          BY <4>1
        <5>2. fd \in Fds /\ fd \in Int /\ fdt[p][fd] = "closed"
          BY <1>f, <1>o, <5>1 DEF FreeFds, OpenFds
        <5>. QED BY <5>1, <5>2
      <4>2. CASE /\ \E e \in SockErrs \cup (IF FreeFds(p) = {} THEN {-EMFILE} ELSE {}) :
                      Return(p, e)
                 /\ UNCHANGED fdt
        <5>1. PICK e \in SockErrs \cup {-EMFILE} : Return(p, e) BY <4>2
        <5>2. e \in Int /\ e < 0 BY PtraceAssumption DEF EMFILE
        <5>. QED BY <4>2, <5>1, <5>2
      <4>. QED BY <2>1, <4>1, <4>2 DEF KernelSocket
    <3>2. CASE q # p BY <1>s, <3>0, <3>1, <3>2
    <3>3. CASE q = p
      <4>1. InSocket(q)' <=> InSocket(q) BY <2>0, <3>0, <3>1, <3>3 DEF InSocket
      <4>2. ASSUME NEW fd \in Fds PROVE Held(q, fd)' <=> Held(q, fd)
        <5>1. Held(q, fd) <=> fdt[q][fd] # "closed" BY <2>0, <3>0, <3>3 DEF Held
        <5>2. Held(q, fd)' <=> fdt'[q][fd] # "closed" /\ r # fd
          BY <3>0, <3>1, <3>3 DEF Held, Running, Stops, HeldStops
        <5>3. r # fd => fdt'[q][fd] = fdt[q][fd] BY <3>1, <3>3
        <5>4. r = fd => fdt[q][fd] = "closed" BY <1>f, <3>1, <3>3
        <5>. QED BY <5>1, <5>2, <5>3, <5>4
      <4>. QED BY <2>0, <3>3, <4>1, <4>2
    <3>. QED BY <3>2, <3>3
  <2>2. CASE KernelConnect(p) BY <2>0, <2>2, <1>s, <1>m DEF KernelConnect
  <2>3. CASE KernelClose(p)
    <3>1. /\ ts' = [ts EXCEPT ![p] = "exit"] /\ rax' = [rax EXCEPT ![p] = 0]
          /\ fdt' = [fdt EXCEPT ![p][regs[p].fd] = "closed"] /\ UNCHANGED regs
          /\ regs[p].op = "close" /\ regs[p].fd \in Fds
      BY <2>3 DEF KernelClose, OwnInv, CallArgs
    <3>2. CASE q # p BY <1>s, <3>1, <3>2
    <3>3. CASE q = p
      <4>1. InSocket(q)' <=> InSocket(q) BY <3>1, <3>3 DEF InSocket
      <4>2. ASSUME NEW fd \in Fds PROVE Held(q, fd)' <=> Held(q, fd)
        <5>1. Held(q, fd) <=> fdt[q][fd] # "closed" /\ fd # regs[q].fd
          BY <2>0, <3>1, <3>3 DEF Held
        <5>2. Held(q, fd)' <=> fdt'[q][fd] # "closed"
          BY <3>1, <3>3 DEF Held, Running, Stops, HeldStops
        <5>. QED BY <3>1, <3>3, <5>1, <5>2
      <4>. QED BY <2>0, <3>3, <4>1, <4>2
    <3>. QED BY <3>2, <3>3
  <2>4. CASE KernelClone(p)
    <3>1. CASE FreePids = {} BY <2>0, <2>4, <3>1, <1>s, <1>m DEF KernelClone
    <3>2. CASE FreePids # {}
      <4>0. /\ "thread" \notin regs[p].opts /\ "untraced" \notin regs[p].opts
            /\ "inherit" \notin regs[p].opts /\ regs[p].op = "clone"
        BY <2>0, <2>4 DEF KernelClone, OwnInv, OwnFds, PhaseInv, CloneTraced
      <4>1. PICK r \in FreePids :
              /\ ts' = [ts EXCEPT ![p] = "event", ![r] = "sigstop"]
              /\ regs' = [regs EXCEPT ![r] = regs[p]]
              /\ fdt' = [fdt EXCEPT ![r] = NoFds]
              /\ rax' = [rax EXCEPT ![p] = 0, ![r] = 0]
        BY <2>4, <3>2, <4>0 DEF KernelClone
      <4>2. r \in Pids /\ r # p BY <2>0 DEF FreePids
      <4>3. CASE q = r
        <5>1. ts'[q] = "sigstop" /\ fdt'[q] = NoFds BY <4>1, <4>2, <4>3
        <5>. QED BY <4>3, <5>1 DEF InSocket, Held, NoFds
      <4>4. CASE q = p BY <2>0, <4>0, <4>1, <4>2, <4>4, <1>m
      <4>5. CASE q \notin {p, r} BY <4>1, <4>5, <1>s
      <4>. QED BY <4>3, <4>4, <4>5
    <3>. QED BY <3>1, <3>2
  <2>5. CASE KernelExec(p)
    <3>1. /\ ts'[p] = "event" /\ regs[p].op = "exec" /\ UNCHANGED <<regs, fdt, rax>>
          /\ q # p => ts'[q] = ts[q]
      BY <2>5 DEF KernelExec, OwnInv, OwnFds
    <3>. QED BY <2>0, <3>1, <1>s, <1>m
  <2>6. CASE KernelExit(p)
    <3>1. ts'[q] = ts[q] BY <2>6 DEF KernelExit, Die, Threads, Running, Stops, HeldStops
    <3>. QED BY <2>6, <3>1, <1>s DEF KernelExit
  <2>7. CASE KernelOther(p) BY <2>0, <2>7, <1>s, <1>m DEF KernelOther
  <2>. QED BY <1>4, <2>1, <2>2, <2>3, <2>4, <2>5, <2>6, <2>7 DEF Kernel
<1>5. CASE Finish(p)
  <2>1. /\ ts' = [ts EXCEPT ![p] = "exit"] /\ rax' = [rax EXCEPT ![p] = 0]
        /\ UNCHANGED <<fdt, regs>> /\ ts[p] = "finish" /\ regs[p].op # "socket"
    BY <1>5 DEF Finish, Return, OwnInv, CsnKept
  <2>2. CASE q = p
    <3>1. InSocket(q)' <=> InSocket(q) BY <1>t, <2>1, <2>2 DEF InSocket
    <3>2. \A fd \in Fds : (Held(q, fd)' <=> Held(q, fd))
      BY <1>t, <2>1, <2>2 DEF Held, Running, Stops, HeldStops
    <3>. QED BY <2>1, <2>2, <3>1, <3>2 DEF Running
  <2>3. CASE q # p BY <1>t, <1>s, <2>1, <2>3
  <2>. QED BY <2>2, <2>3
<1>. QED BY <1>1, <1>2, <1>3, <1>4, <1>5 DEF Tracee, TraceeStep

\* The same for the tracer at the entry to a system call: close_pre_handle is what
\* takes a descriptor out of the table.
LEMMA HeldEntering ==
  ASSUME TypeOK, PhaseInv, OwnInv, HandleEntering, ~Dead, NEW p \in Pids, p = cur
  PROVE  /\ ts[p] \in Running /\ ~InSocket(p)
         /\ InSocket(p)' <=> regs[p].op = "socket"
         /\ \A fd \in Fds : Held(p, fd)' <=>
              Held(p, fd) /\ ~(regs[p].op = "close" /\ regs[p].fd = fd)
         /\ \A q \in Pids \ {p} :
              /\ ts'[q] = ts[q] /\ (InSocket(q)' <=> InSocket(q))
              /\ \A fd \in Fds : Held(q, fd)' <=> Held(q, fd)
<1>t. ts \in [Pids -> TraceeState]
  BY DEF TypeOK, TraceeTypeOK
<1>1. /\ ts[p] = "entry" /\ ts' = [ts EXCEPT ![p] = "kernel"] /\ UNCHANGED <<fdt, rax>>
      /\ \A q \in Pids : regs'[q].op = regs[q].op /\ regs'[q].fd = regs[q].fd
  BY AtEntering
<1>2. ~InSocket(p) /\ (InSocket(p)' <=> regs[p].op = "socket") BY <1>t, <1>1 DEF InSocket
<1>3. \A fd \in Fds : Held(p, fd)' <=>
        Held(p, fd) /\ ~(regs[p].op = "close" /\ regs[p].fd = fd)
  BY <1>t, <1>1 DEF Held, Running, Stops, HeldStops
<1>4. \A q \in Pids \ {p} : ts'[q] = ts[q] /\ (InSocket(q)' <=> InSocket(q))
  BY <1>t, <1>1 DEF InSocket
<1>5. \A q \in Pids \ {p} : \A fd \in Fds : Held(q, fd)' <=> Held(q, fd)
  BY <1>t, <1>1 DEF Held
<1>. QED BY <1>1, <1>2, <1>3, <1>4, <1>5 DEF Running, Stops, HeldStops

\* And at the exit from one: socket_exiting_handle files the new descriptor.
LEMMA HeldExiting ==
  ASSUME TypeOK, PhaseInv, OwnInv, HandleExiting, ~Dead, NEW p \in Pids, p = cur
  PROVE  /\ ts[p] \in Running /\ ~InSocket(p)'
         /\ InSocket(p) <=> regs[p].op = "socket"
         /\ \A fd \in Fds : Held(p, fd)' <=>
              Held(p, fd) \/ (InSocket(p) /\ rax[p] = fd /\ fdt[p][fd] # "closed")
         /\ \A q \in Pids \ {p} :
              /\ ts'[q] = ts[q] /\ (InSocket(q)' <=> InSocket(q))
              /\ \A fd \in Fds : Held(q, fd)' <=> Held(q, fd)
<1>t. ts \in [Pids -> TraceeState]
  BY DEF TypeOK, TraceeTypeOK
<1>1. /\ ts[p] = "exit" /\ UNCHANGED <<fdt, rax, regs>>
      /\ ts'[p] \in {"held", "user"} /\ \A q \in Pids \ {p} : ts'[q] = ts[q]
  BY <1>t, AtExiting
<1>2. ~InSocket(p)' /\ (InSocket(p) <=> regs[p].op = "socket") BY <1>1 DEF InSocket
<1>3. \A fd \in Fds : Held(p, fd)' <=>
        Held(p, fd) \/ (InSocket(p) /\ rax[p] = fd /\ fdt[p][fd] # "closed")
  BY <1>1, <1>2 DEF Held, Running, Stops, HeldStops
<1>4. \A q \in Pids \ {p} : ts'[q] = ts[q] /\ (InSocket(q)' <=> InSocket(q))
  BY <1>1 DEF InSocket
<1>5. \A q \in Pids \ {p} : \A fd \in Fds : Held(q, fd)' <=> Held(q, fd)
  BY <1>1 DEF Held
<1>. QED BY <1>1, <1>2, <1>3, <1>4, <1>5 DEF Running, Stops, HeldStops

\* And in its other steps.
LEMMA HeldElsewhere ==
  ASSUME TypeOK, PhaseInv, OwnInv, TracerStep,
         ~(HandleEntering /\ ~Dead), ~(HandleExiting /\ ~Dead),
         NEW q \in Pids, ts'[q] \in Running
  PROVE  /\ ts[q] \in Running /\ (InSocket(q)' <=> InSocket(q))
         /\ \A fd \in Fds : Held(q, fd)' <=> Held(q, fd)
<1>1. /\ \/ ts'[q] = ts[q]
         \/ ts[q] = "zombie" /\ ts'[q] = "absent"
         \/ ts[q] = "event" /\ ts'[q] = "finish"
         \/ ts[q] \in {"sigstop", "plain"} /\ ts'[q] = "user"
      /\ UNCHANGED <<regs, fdt, rax>>
  BY Elsewhere
<1>2. CASE ts'[q] = ts[q] BY <1>1, <1>2 DEF InSocket, Held
<1>3. CASE /\ ts'[q] \in {"finish", "user"} /\ ts[q] \in {"event", "sigstop", "plain"}
  BY <1>1, <1>3 DEF InSocket, Held, Running, Stops, HeldStops
<1>. QED BY <1>1, <1>2, <1>3 DEF Running, Stops, HeldStops

\* What the handler of each system call does to SOCKET_INFO_TAB and to the sockaddr.
LEMMA TabEntering ==
  ASSUME TypeOK, PhaseInv, OwnInv, HandleEntering, ~Dead
  PROVE  /\ regs[cur].op = "socket" =>
              /\ tab' \in add_socket_info(tab, Key(MAGIC_FD, cur), [fd |-> -1, fresh |-> FALSE])
              /\ UNCHANGED <<buf, noted, young>>
         /\ regs[cur].op = "connect" => connect_pre_handle(cur) /\ ~BrokenPipe(cur)
         /\ regs[cur].op = "close" => close_pre_handle(cur)
         /\ regs[cur].op \notin {"socket", "connect", "close"} =>
              UNCHANGED <<tab, buf, noted, young>>
<1>1. get_syscall_number(cur) = regs[cur].op /\ trace_syscall_entering(cur)
  BY DEF get_syscall_number, HandleEntering
<1>2. ASSUME regs[cur].op = "socket"
      PROVE  /\ tab' \in add_socket_info(tab, Key(MAGIC_FD, cur), [fd |-> -1, fresh |-> FALSE])
             /\ UNCHANGED <<buf, noted, young>>
  <2>1. cur \in Pids BY DEF TypeOK, TracerTypeOK
  <2>2. socket_pre_handle(cur) BY <1>1, <1>2 DEF trace_syscall_entering
  <2>. QED BY <1>2, <2>1, <2>2 DEF socket_pre_handle, get_syscall_arg, OwnInv, CsnKept
<1>3. regs[cur].op = "connect" => connect_pre_handle(cur) /\ ~BrokenPipe(cur)
  BY <1>1 DEF trace_syscall_entering
<1>4. regs[cur].op = "close" => close_pre_handle(cur) BY <1>1 DEF trace_syscall_entering
<1>5. regs[cur].op \notin {"socket", "connect", "close"} => UNCHANGED <<tab, buf, noted, young>>
  BY <1>1 DEF trace_syscall_entering, clone_pre_handle, handlerVars
<1>. QED BY <1>2, <1>3, <1>4, <1>5

\* The keys of a process are its own; the placeholder of a running socket(2) shares
\* one with the odd descriptor.
LEMMA KeysApart ==
  ASSUME Separate, NEW p \in Pids, NEW q \in Pids, NEW f \in Fds, NEW g \in Fds
  PROVE  /\ Key(f, p) = Key(g, q) <=> p = q /\ f = g
         /\ Key(MAGIC_FD, p) = Key(f, q) <=> p = q /\ f % 2 = 1
         /\ Key(MAGIC_FD, p) = Key(MAGIC_FD, q) <=> p = q
         /\ Key(f, p) \in Keys /\ Key(MAGIC_FD, p) \in Keys
<1>1. /\ p \in 1 .. (HighBit - 1) /\ q \in 1 .. (HighBit - 1)
      /\ f \in Nat /\ g \in Nat /\ MAGIC_FD \in Nat
  BY TracerAssumption, PtraceAssumption DEF MAGIC_FD
<1>2. MAGIC_FD % 2 = 1 BY DEF MAGIC_FD
<1>3. Key(f, p) = Key(g, q) <=> p = q /\ f % 2 = g % 2 BY <1>1, KeyCollision
<1>4. Key(MAGIC_FD, p) = Key(f, q) <=> p = q /\ MAGIC_FD % 2 = f % 2 BY <1>1, KeyCollision
<1>5. Key(MAGIC_FD, p) = Key(MAGIC_FD, q) <=> p = q BY <1>1, KeyCollision
<1>6. Key(f, p) \in Keys /\ Key(MAGIC_FD, p) \in Keys
  <2>1. f \in Int /\ p \in Int /\ MAGIC_FD \in Int BY <1>1
  <2>. QED BY <2>1, KeyType
<1>. QED BY <1>2, <1>3, <1>4, <1>5, <1>6 DEF Separate

\* The entries under every key after each operation of util.c on the table.
LEMMA Entries ==
  ASSUME NEW t \in TableType, NEW k \in Keys, NEW j \in Keys, NEW si \in SocketInfo
  PROVE  /\ Len(t[j]) \in Nat /\ (HasSocketInfo(t, j) <=> Len(t[j]) >= 1)
         /\ j # k => /\ del_socket_info(t, k)[j] = t[j]
                     /\ set_socket_info(t, k, si)[j] = t[j]
         /\ HasSocketInfo(t, k) =>
              /\ find_socket_info(t, k) = t[k][1]
              /\ Len(del_socket_info(t, k)[k]) = Len(t[k]) - 1
              /\ \A i \in 1 .. (Len(t[k]) - 1) : del_socket_info(t, k)[k][i] = t[k][i + 1]
              /\ Len(set_socket_info(t, k, si)[k]) = Len(t[k])
              /\ set_socket_info(t, k, si)[k][1] = si
<1>. DEFINE s == t[k]
<1>1. t \in [Keys -> Seq(SocketInfo)] /\ s \in Seq(SocketInfo) BY DEF TableType
<1>2. Len(t[j]) \in Nat /\ (HasSocketInfo(t, j) <=> Len(t[j]) >= 1)
  BY <1>1 DEF HasSocketInfo
<1>3. j # k => /\ del_socket_info(t, k)[j] = t[j]
               /\ set_socket_info(t, k, si)[j] = t[j]
  BY <1>1 DEF del_socket_info, set_socket_info
<1>4. /\ del_socket_info(t, k)[k] = Tail(s)
      /\ set_socket_info(t, k, si)[k] = <<si>> \o Tail(s)
      /\ HasSocketInfo(t, k) <=> s # <<>>
      /\ find_socket_info(t, k) = Head(s)
  BY <1>1 DEF del_socket_info, set_socket_info, HasSocketInfo, find_socket_info
<1>. HIDE DEF s
<1>5. ASSUME NEW u \in Seq(SocketInfo)
      PROVE  Len(<<si>> \o u) = Len(u) + 1 /\ (<<si>> \o u)[1] = si
  BY <1>5
<1>6. ASSUME s # <<>>
      PROVE  /\ Head(s) = s[1] /\ Tail(s) \in Seq(SocketInfo) /\ Len(Tail(s)) = Len(s) - 1
             /\ \A i \in 1 .. (Len(s) - 1) : Tail(s)[i] = s[i + 1]
  BY <1>1, <1>6
<1>8. ASSUME HasSocketInfo(t, k)
      PROVE  /\ find_socket_info(t, k) = t[k][1]
             /\ Len(del_socket_info(t, k)[k]) = Len(t[k]) - 1
             /\ \A i \in 1 .. (Len(t[k]) - 1) : del_socket_info(t, k)[k][i] = t[k][i + 1]
             /\ Len(set_socket_info(t, k, si)[k]) = Len(t[k])
             /\ set_socket_info(t, k, si)[k][1] = si
  <2>1. Len(s) \in Nat /\ s = t[k] BY <1>1 DEF s
  <2>2. Len(<<si>> \o Tail(s)) = Len(s) BY <1>4, <1>5, <1>6, <1>8, <2>1
  <2>. QED BY <1>4, <1>5, <1>6, <1>8, <2>1, <2>2
<1>. QED BY <1>2, <1>3, <1>8

\* HASH_ADD adds one entry.  In a table that is not expanded it lies on top of the
\* others of its key, and everything else stays where it is.
LEMMA Added ==
  ASSUME NEW t \in TableType, NEW k \in Keys, NEW si \in SocketInfo,
         NEW u \in add_socket_info(t, k, si)
  PROVE  /\ \A j \in Keys : j # k => Len(u[j]) = Len(t[j])
         /\ Len(u[k]) = Len(t[k]) + 1
         /\ ~TableGrows => /\ \A j \in Keys : j # k => u[j] = t[j]
                           /\ \A i \in 1 .. Len(t[k]) : u[k][i + 1] = t[k][i]
<1>. DEFINE v == [t EXCEPT ![k] = <<si>> \o @]
<1>1. t \in [Keys -> Seq(SocketInfo)] /\ t[k] \in Seq(SocketInfo) BY DEF TableType
<1>2. /\ v[k] = <<si>> \o t[k] /\ v \in TableType
      /\ \A j \in Keys : j # k => v[j] = t[j]
  BY <1>1 DEF TableType
<1>3. /\ Len(<<si>> \o t[k]) = Len(t[k]) + 1
      /\ \A i \in 1 .. Len(t[k]) : (<<si>> \o t[k])[i + 1] = t[k][i]
  BY <1>1
<1>4. u \in {v, Expanded(v)} /\ (~TableGrows => u = v)
  BY DEF add_socket_info, Expansions
<1>. HIDE DEF v
<1>5. \A j \in Keys : Len(Expanded(v)[j]) = Len(v[j])
  <2>1. ASSUME NEW j \in Keys PROVE Len(Expanded(v)[j]) = Len(v[j])
    <3>1. v[j] \in Seq(SocketInfo) BY <1>2 DEF TableType
    <3>2. Len(v[j]) \in Nat BY <3>1
    <3>3. Expanded(v)[j] = [i \in 1 .. Len(v[j]) |-> v[j][(Len(v[j]) - i) + 1]]
      BY DEF Expanded, Reverse
    <3>. QED BY <3>2, <3>3
  <2>. QED BY <2>1
<1>6. \A j \in Keys : Len(u[j]) = Len(v[j]) BY <1>4, <1>5
<1>. QED BY <1>2, <1>3, <1>4, <1>6

\* the placeholder of a running socket(2) lies on top of the entry of fd
Behind(p, fd) == IF InSocket(p) /\ fd % 2 = 1 THEN 1 ELSE 0

\* every descriptor the application can use has its entry
Filed ==
  \A p \in Pids :
    /\ InSocket(p) => Len(tab[Key(MAGIC_FD, p)]) >= 1
    /\ \A fd \in Fds : Held(p, fd) => Len(tab[Key(fd, p)]) >= 1 + Behind(p, fd)

\* connect_pre_handle has seen every connect(2) the kernel gets
AtKernel ==
  \A p \in Pids :
    /\ ts[p] = "kernel" /\ regs[p].op = "connect" /\ fdt[p][regs[p].fd] # "closed"
    /\ IsInet(want[p]) /\ ~is_ignore(want[p].ip)
    => buf[p] = ProxySa(want[p].fam) /\ noted[p] = want[p]

FiledInv == OwnInv /\ Filed /\ AtKernel /\ Intercepted

\* Nothing is open in the first state.
LEMMA FiledInit == Init => FiledInv
<1>. SUFFICES ASSUME Init PROVE FiledInv OBVIOUS
<1>1. \A p \in Pids : ts[p] \in {"sigstop", "absent"} /\ fdt[p] = NoFds /\ outcome[p] = NoOutcome
  BY DEF Init, TraceeInit
<1>2. Filed BY <1>1 DEF Filed, InSocket, Held, NoFds
<1>3. AtKernel /\ Intercepted BY <1>1 DEF AtKernel, Intercepted, NoOutcome
<1>. QED BY <1>2, <1>3, OwnInit DEF FiledInv

\* A step after which nobody holds more, and the table is as long as before.
LEMMA FiledKeep ==
  ASSUME Filed,
         \A k \in Keys : Len(tab'[k]) = Len(tab[k]),
         \A q \in Pids : ts'[q] \in Running =>
           /\ InSocket(q)' => InSocket(q)
           /\ \A fd \in Fds : Held(q, fd)' => Held(q, fd)
  PROVE  Filed'
<1>1. ASSUME NEW q \in Pids, InSocket(q)' PROVE Len(tab'[Key(MAGIC_FD, q)]) >= 1
  <2>1. ts'[q] \in Running BY <1>1 DEF InSocket, Running, Stops, HeldStops
  <2>2. Key(MAGIC_FD, q) \in Keys
    <3>1. MAGIC_FD \in Int /\ q \in Int BY TracerAssumption DEF MAGIC_FD
    <3>. QED BY <3>1, KeyType
  <2>. QED BY <1>1, <2>1, <2>2 DEF Filed
<1>2. ASSUME NEW q \in Pids, NEW fd \in Fds, Held(q, fd)'
      PROVE  Len(tab'[Key(fd, q)]) >= 1 + Behind(q, fd)'
  <2>1. ts'[q] \in Running BY <1>2 DEF Held
  <2>2. Key(fd, q) \in Keys
    <3>1. fd \in Int /\ q \in Int BY TracerAssumption, PtraceAssumption
    <3>. QED BY <3>1, KeyType
  <2>3. Len(tab[Key(fd, q)]) >= 1 + Behind(q, fd) BY <1>2, <2>1 DEF Filed
  <2>4. Behind(q, fd)' \in {0, Behind(q, fd)} BY <2>1 DEF Behind
  <2>. QED BY <2>2, <2>3, <2>4 DEF Behind
<1>. QED BY <1>1, <1>2 DEF Filed

\* A tracee's step does not touch the calls the others are in, and never ends in the
\* kernel.
LEMMA OthersCalls ==
  ASSUME Trusted, TypeOK, PhaseInv, OwnInv, pc # "exited", NEW p \in Pids, Tracee(p)
  PROVE  /\ ts'[p] # "kernel"
         /\ \A q \in Pids \ {p} : ts'[q] \in {"entry", "kernel", "exit"} =>
              /\ ts'[q] = ts[q] /\ regs'[q] = regs[q] /\ buf'[q] = buf[q]
              /\ want'[q] = want[q] /\ noted'[q] = noted[q] /\ fdt'[q] = fdt[q]
              /\ rax'[q] = rax[q]
<1>t. /\ ts \in [Pids -> TraceeState] /\ regs \in [Pids -> RegsType]
      /\ buf \in [Pids -> Addrs] /\ want \in [Pids -> Addrs] /\ noted \in [Pids -> Addrs]
      /\ fdt \in [Pids -> [Fds -> AllSockKinds \cup {"closed"}]]
      /\ rax \in [Pids -> Int] /\ grp[p] = p
  BY DEF TypeOK, TraceeTypeOK, OwnInv, OwnFds
<1>1. ASSUME NEW c \in Calls, Syscall(p, c)
      PROVE  /\ ts' = [ts EXCEPT ![p] = "entry"]
             /\ \A q \in Pids \ {p} :
                  /\ regs'[q] = regs[q] /\ buf'[q] = buf[q]
                  /\ want'[q] = want[q] /\ noted'[q] = noted[q] /\ fdt'[q] = fdt[q]
                  /\ rax'[q] = rax[q]
  <2>1. \A q \in Pids \ {p} : buf'[q] = buf[q] /\ want'[q] = want[q]
    BY <1>1, <1>t DEF Syscall
  <2>. QED BY <1>1, <1>t, <2>1 DEF Syscall
<1>2. ASSUME NEW s \in Signals, Signal(p, s)
      PROVE  /\ s # "kernel" /\ ts' = [ts EXCEPT ![p] = s]
             /\ \A q \in Pids \ {p} : regs'[q] = regs[q]
             /\ UNCHANGED <<buf, want, noted, fdt, rax>>
  BY <1>2, <1>t, PtraceAssumption DEF Signal, AllSignals
<1>3. CASE SigKill(p) BY <1>3, <1>t DEF SigKill, Die, Threads
<1>4. CASE Kernel(p)
  <2>. USE <1>4, <1>t DEF Kernel, Return, memVars
  <2>1. CASE KernelSocket(p)
    <3>1. ts' = [ts EXCEPT ![p] = "exit"] /\ UNCHANGED <<regs, buf, want, noted>>
      BY <2>1 DEF KernelSocket
    <3>2. \A q \in Pids \ {p} : fdt'[q] = fdt[q] /\ rax'[q] = rax[q] BY <2>1 DEF KernelSocket
    <3>. QED BY <3>1, <3>2
  <2>2. CASE KernelConnect(p) BY <2>2 DEF KernelConnect
  <2>3. CASE KernelClose(p)
    <3>1. ts' = [ts EXCEPT ![p] = "exit"] /\ UNCHANGED <<regs, buf, want, noted>>
      BY <2>3 DEF KernelClose
    <3>2. \A q \in Pids \ {p} : fdt'[q] = fdt[q] /\ rax'[q] = rax[q] BY <2>3 DEF KernelClose
    <3>. QED BY <3>1, <3>2
  <2>4. CASE KernelClone(p)
    <3>1. CASE FreePids = {} BY <2>4, <3>1 DEF KernelClone
    <3>2. CASE FreePids # {}
      <4>0. /\ "thread" \notin regs[p].opts /\ "untraced" \notin regs[p].opts
            /\ "inherit" \notin regs[p].opts
        BY <2>4 DEF KernelClone, OwnInv, OwnFds, PhaseInv, CloneTraced
      <4>1. PICK r \in FreePids :
              /\ ts' = [ts EXCEPT ![p] = "event", ![r] = "sigstop"]
              /\ regs' = [regs EXCEPT ![r] = regs[p]]
              /\ buf' = [buf EXCEPT ![r] = buf[p]]
              /\ want' = [want EXCEPT ![r] = want[p]]
              /\ fdt' = [fdt EXCEPT ![r] = NoFds]
              /\ rax' = [rax EXCEPT ![p] = 0, ![r] = 0]
        BY <2>4, <3>2, <4>0 DEF KernelClone
      <4>2. r \in Pids /\ r # p BY DEF FreePids
      <4>. QED BY <4>1, <4>2
    <3>. QED BY <3>1, <3>2
  <2>5. CASE KernelExec(p) BY <2>5 DEF KernelExec
  <2>6. CASE KernelExit(p) BY <2>6 DEF KernelExit, Die, Threads, Running
  <2>7. CASE KernelOther(p) BY <2>7 DEF KernelOther
  <2>. QED BY <2>1, <2>2, <2>3, <2>4, <2>5, <2>6, <2>7
<1>5. CASE Finish(p) BY <1>5, <1>t DEF Finish, Return
<1>. QED BY <1>1, <1>2, <1>3, <1>4, <1>5, <1>t, PtraceAssumption
         DEF Tracee, TraceeStep, AllSignals

\* The tracees' own steps: the kernel connects to what connect_pre_handle has left
\* in the sockaddr.
LEMMA FiledTracee ==
  ASSUME Trusted, TypeOK, PhaseInv, FiledInv, pc # "exited", NEW p \in Pids, Tracee(p)
  PROVE  FiledInv'
<1>0. OwnInv /\ Filed /\ AtKernel /\ Intercepted BY DEF FiledInv
<1>t. outcome \in [Pids -> Outcomes] /\ grp[p] = p
  BY <1>0 DEF TypeOK, TraceeTypeOK, OwnInv, OwnFds
<1>1. OwnInv' BY <1>0, OwnTracee
<1>2. Filed'
  <2>1. \A k \in Keys : Len(tab'[k]) = Len(tab[k]) BY DEF Tracee, tracerVars
  <2>2. \A q \in Pids : ts'[q] \in Running =>
          /\ InSocket(q)' => InSocket(q)
          /\ \A fd \in Fds : Held(q, fd)' => Held(q, fd)
    BY <1>0, HeldTracee
  <2>. QED BY <1>0, <2>1, <2>2, FiledKeep
<1>3. AtKernel'
  <2>1. ASSUME NEW q \in Pids, ts'[q] = "kernel"
        PROVE  /\ ts[q] = "kernel" /\ regs'[q] = regs[q] /\ buf'[q] = buf[q]
               /\ want'[q] = want[q] /\ noted'[q] = noted[q] /\ fdt'[q] = fdt[q]
    BY <1>0, <2>1, OthersCalls
  <2>. QED BY <1>0, <2>1 DEF AtKernel, ProxySa, PROXY_SA, PROXY_SA6, IsInet
<1>4. Intercepted'
  <2>1. \/ UNCHANGED outcome
        \/ outcome' = [outcome EXCEPT ![p] = NoOutcome]
        \/ /\ ts[p] = "kernel" /\ regs[p].op = "connect" /\ regs[p].fd \in OpenFds(p)
           /\ outcome' = [outcome EXCEPT ![p] =
                            [kind |-> fdt[grp[p]][regs[p].fd], want |-> want[p],
                             to |-> buf[p], noted |-> noted[p]]]
    BY DEF Tracee, TraceeStep, Syscall, Signal, SigKill, Finish, Kernel, KernelSocket,
           KernelConnect, KernelClose, KernelClone, KernelExec, KernelExit, KernelOther
  <2>2. CASE UNCHANGED outcome
    BY <1>0, <2>2 DEF Intercepted, ProxySa, PROXY_SA, PROXY_SA6, IsInet
  <2>3. CASE outcome' = [outcome EXCEPT ![p] = NoOutcome]
    BY <1>0, <1>t, <2>3 DEF Intercepted, NoOutcome, ProxySa, PROXY_SA, PROXY_SA6, IsInet
  <2>4. CASE /\ ts[p] = "kernel" /\ regs[p].op = "connect" /\ regs[p].fd \in OpenFds(p)
             /\ outcome' = [outcome EXCEPT ![p] =
                              [kind |-> fdt[grp[p]][regs[p].fd], want |-> want[p],
                               to |-> buf[p], noted |-> noted[p]]]
    <3>1. IsInet(want[p]) /\ ~is_ignore(want[p].ip) =>
            buf[p] = ProxySa(want[p].fam) /\ noted[p] = want[p]
      BY <1>0, <1>t, <2>4 DEF AtKernel, OpenFds
    <3>. QED BY <1>0, <1>t, <2>4, <3>1
             DEF Intercepted, ProxySa, PROXY_SA, PROXY_SA6, IsInet
  <2>. QED BY <2>1, <2>2, <2>3, <2>4
<1>. QED BY <1>1, <1>2, <1>3, <1>4 DEF FiledInv

\* The handlers at the entry to a system call keep every usable descriptor filed.
LEMMA FiledEntering ==
  ASSUME Trusted, TypeOK, PhaseInv, OwnInv, Filed, HandleEntering, ~Dead
  PROVE  Filed'
<1>p. PICK p \in Pids : p = cur BY DEF TypeOK, TracerTypeOK
<1>t. tab \in TableType BY DEF TypeOK, TracerTypeOK, TableType
<1>a. regs[p].op \in {"connect", "close"} => regs[p].fd \in Fds BY DEF OwnInv, CallArgs
<1>k. /\ Separate
      /\ \A f \in Fds : f \in Int /\ Key(f, p) \in Keys
      /\ \A q \in Pids : Key(MAGIC_FD, q) \in Keys
  BY KeyType, PtraceAssumption, TracerAssumption DEF Trusted, MAGIC_FD
<1>h. /\ ~InSocket(p) /\ (InSocket(p)' <=> regs[p].op = "socket")
      /\ \A fd \in Fds : Held(p, fd)' <=>
           Held(p, fd) /\ ~(regs[p].op = "close" /\ regs[p].fd = fd)
      /\ \A q \in Pids \ {p} : /\ InSocket(q)' <=> InSocket(q)
                               /\ \A fd \in Fds : Held(q, fd)' <=> Held(q, fd)
  BY <1>p, HeldEntering
\* the length of the stacks is not changed
<1>m. ASSUME \A k \in Keys : Len(tab'[k]) = Len(tab[k]), regs[p].op # "socket" PROVE Filed'
  BY <1>m, <1>h, FiledKeep
<1>1. CASE regs[p].op = "socket"
  <2>. DEFINE m == Key(MAGIC_FD, p)
              si == [fd |-> -1, fresh |-> FALSE]
  <2>1. tab' \in add_socket_info(tab, m, si) /\ si \in SocketInfo /\ m \in Keys
    BY <1>p, <1>1, <1>k, TabEntering DEF SocketInfo
  <2>. HIDE DEF m, si
  <2>2. /\ \A j \in Keys : Len(tab[j]) \in Nat /\ (j # m => Len(tab'[j]) = Len(tab[j]))
        /\ Len(tab'[m]) = Len(tab[m]) + 1
    BY <1>t, <2>1, Entries, Added
  <2>3. ASSUME NEW q \in Pids, InSocket(q)' PROVE Len(tab'[Key(MAGIC_FD, q)]) >= 1
    <3>1. CASE q = p BY <2>1, <2>2, <3>1 DEF m
    <3>2. CASE q # p
      <4>1. Len(tab[Key(MAGIC_FD, q)]) >= 1 BY <1>h, <2>3, <3>2 DEF Filed
      <4>. QED BY <1>k, <2>2, <4>1
    <3>. QED BY <3>1, <3>2
  <2>4. ASSUME NEW q \in Pids, NEW fd \in Fds, Held(q, fd)'
        PROVE  Len(tab'[Key(fd, q)]) >= 1 + Behind(q, fd)'
    <3>1. /\ Key(fd, q) \in Keys /\ (m = Key(fd, q) <=> p = q /\ fd % 2 = 1)
      BY <1>k, KeysApart DEF m
    <3>2. Len(tab[Key(fd, q)]) >= 1 + Behind(q, fd) BY <1>h, <2>4 DEF Filed
    <3>3. CASE q = p
      <4>1. Behind(q, fd) = 0 /\ Behind(q, fd)' = IF fd % 2 = 1 THEN 1 ELSE 0
        BY <1>h, <1>1, <3>3 DEF Behind
      <4>. QED BY <2>2, <3>1, <3>2, <3>3, <4>1
    <3>4. CASE q # p
      <4>1. Behind(q, fd)' = Behind(q, fd) BY <1>h, <3>4 DEF Behind
      <4>. QED BY <2>2, <3>1, <3>2, <3>4, <4>1
    <3>. QED BY <3>3, <3>4
  <2>. QED BY <2>3, <2>4 DEF Filed
<1>2. CASE regs[p].op = "connect"
  <2>. DEFINE k == Key(regs[p].fd, p)
              si == [fd |-> find_socket_info(tab, k).fd, fresh |-> TRUE]
  <2>1. k \in Keys BY <1>a, <1>k, <1>2
  <2>2. connect_pre_handle(p) BY <1>p, <1>2, TabEntering
  <2>3. CASE UNCHANGED tab BY <1>2, <1>m, <2>3
  <2>4. CASE HasSocketInfo(tab, k) /\ tab' = set_socket_info(tab, k, si)
    <3>1. si \in SocketInfo
      <4>1. [fd |-> 0, fresh |-> TRUE] \in SocketInfo BY DEF SocketInfo
      <4>2. find_socket_info(tab, k) \in SocketInfo BY <1>t, <2>1, <2>4, <4>1, TableTypes
      <4>. QED BY <4>2 DEF SocketInfo
    <3>. HIDE DEF k, si
    <3>2. \A j \in Keys : Len(tab'[j]) = Len(tab[j])
      <4>1. \A j \in Keys : j # k => tab'[j] = tab[j] BY <1>t, <2>1, <2>4, <3>1, Entries
      <4>2. Len(tab'[k]) = Len(tab[k]) BY <1>t, <2>1, <2>4, <3>1, Entries
      <4>. QED BY <4>1, <4>2
    <3>. QED BY <1>2, <1>m, <3>2
  <2>. QED BY <2>2, <2>3, <2>4 DEF connect_pre_handle, get_syscall_arg, handlerVars
<1>3. CASE regs[p].op = "close"
  <2>. DEFINE k == Key(regs[p].fd, p)
  <2>1. k \in Keys /\ regs[p].fd \in Fds BY <1>a, <1>k, <1>3
  <2>2. tab' = IF HasSocketInfo(tab, k) THEN del_socket_info(tab, k) ELSE tab
    BY <1>p, <1>3, TabEntering DEF close_pre_handle, get_syscall_arg
  <2>. HIDE DEF k
  <2>3. \A j \in Keys : j # k => tab'[j] = tab[j]
    <3>1. [fd |-> 0, fresh |-> TRUE] \in SocketInfo BY DEF SocketInfo
    <3>. QED BY <1>t, <2>1, <2>2, <3>1, Entries
  <2>4. ASSUME NEW q \in Pids, InSocket(q)' PROVE Len(tab'[Key(MAGIC_FD, q)]) >= 1
    <3>1. q # p /\ Len(tab[Key(MAGIC_FD, q)]) >= 1 BY <1>h, <1>3, <2>4 DEF Filed
    <3>2. k # Key(MAGIC_FD, q) BY <1>k, <2>1, <3>1, KeysApart DEF k
    <3>. QED BY <1>k, <2>3, <3>1, <3>2
  <2>5. ASSUME NEW q \in Pids, NEW fd \in Fds, Held(q, fd)'
        PROVE  Len(tab'[Key(fd, q)]) >= 1 + Behind(q, fd)'
    <3>1. Held(q, fd) /\ ~(q = p /\ fd = regs[p].fd) BY <1>h, <1>3, <2>5
    <3>2. Key(fd, q) \in Keys /\ k # Key(fd, q) BY <1>k, <2>1, <3>1, KeysApart DEF k
    <3>3. Len(tab[Key(fd, q)]) >= 1 + Behind(q, fd) BY <3>1 DEF Filed
    <3>4. Behind(q, fd)' = Behind(q, fd) BY <1>h, <1>3 DEF Behind
    <3>. QED BY <2>3, <3>2, <3>3, <3>4
  <2>. QED BY <2>4, <2>5 DEF Filed
<1>4. CASE regs[p].op \notin {"socket", "connect", "close"}
  BY <1>p, <1>4, <1>m, TabEntering
<1>. QED BY <1>1, <1>2, <1>3, <1>4

\* The handler at the exit from socket(2) files the new descriptor, and takes no
\* other one out.
LEMMA FiledExiting ==
  ASSUME Trusted, TypeOK, PhaseInv, OwnInv, Filed, HandleExiting, ~Dead
  PROVE  Filed'
<1>p. PICK p \in Pids : p = cur BY DEF TypeOK, TracerTypeOK
<1>t. tab \in TableType /\ rax[p] \in Int
  BY DEF TypeOK, TracerTypeOK, TraceeTypeOK, TableType
<1>k. /\ Separate
      /\ \A f \in Int : Key(f, p) \in Keys
      /\ \A q \in Pids : Key(MAGIC_FD, q) \in Keys
  BY KeyType, TracerAssumption DEF Trusted, MAGIC_FD
<1>h. /\ ~InSocket(p)' /\ (InSocket(p) <=> regs[p].op = "socket")
      /\ \A fd \in Fds : Held(p, fd)' <=>
           Held(p, fd) \/ (InSocket(p) /\ rax[p] = fd /\ fdt[p][fd] # "closed")
      /\ \A q \in Pids \ {p} : /\ InSocket(q)' <=> InSocket(q)
                               /\ \A fd \in Fds : Held(q, fd)' <=> Held(q, fd)
  BY <1>p, HeldExiting
<1>c. pinfo[p].csn = regs[p].op /\ trace_syscall_exiting(p)
  BY <1>p, AtExiting DEF OwnInv, CsnKept, HandleExiting
<1>1. CASE regs[p].op # "socket"
  <2>1. UNCHANGED tab BY <1>c, <1>1 DEF trace_syscall_exiting, handlerVars
  <2>. QED BY <1>h, <1>1, <2>1, FiledKeep
<1>2. CASE regs[p].op = "socket"
  <2>. DEFINE m == Key(MAGIC_FD, p)
              k == Key(rax[p], p)
              si == [fd |-> rax[p], fresh |-> find_socket_info(tab, m).fresh]
              t1 == del_socket_info(tab, m)
  <2>1. m \in Keys /\ k \in Keys BY <1>t, <1>k
  <2>2. Len(tab[m]) >= 1 BY <1>h, <1>2 DEF Filed
  <2>3. [fd |-> 0, fresh |-> TRUE] \in SocketInfo BY DEF SocketInfo
  <2>4. HasSocketInfo(tab, m) BY <1>t, <2>1, <2>2, <2>3, Entries
  <2>5. t1 \in TableType /\ si \in SocketInfo
    <3>1. t1 \in TableType /\ find_socket_info(tab, m) \in SocketInfo
      BY <1>t, <2>1, <2>3, <2>4, TableTypes
    <3>. QED BY <1>t, <3>1 DEF SocketInfo
  <2>6. tab' \in add_socket_info(t1, k, si)
    <3>1. socket_exiting_handle(p, rax[p])
      BY <1>c, <1>2 DEF trace_syscall_exiting, get_retval
    <3>. QED BY <2>4, <3>1 DEF socket_exiting_handle
  <2>. HIDE DEF m, k, si, t1
  <2>7. /\ \A j \in Keys : Len(tab[j]) \in Nat /\ (j # m => t1[j] = tab[j])
        /\ Len(t1[m]) = Len(tab[m]) - 1
    <3>1. \A j \in Keys : Len(tab[j]) \in Nat /\ (j # m => t1[j] = tab[j])
      BY <1>t, <2>1, <2>3, Entries DEF t1
    <3>2. Len(t1[m]) = Len(tab[m]) - 1 BY <1>t, <2>1, <2>3, <2>4, Entries DEF t1
    <3>. QED BY <3>1, <3>2
  <2>8. /\ \A j \in Keys : Len(t1[j]) \in Nat /\ (j # k => Len(tab'[j]) = Len(t1[j]))
        /\ Len(tab'[k]) = Len(t1[k]) + 1
    <3>1. \A j \in Keys : Len(t1[j]) \in Nat BY <2>1, <2>5, Entries
    <3>2. /\ \A j \in Keys : j # k => Len(tab'[j]) = Len(t1[j])
          /\ Len(tab'[k]) = Len(t1[k]) + 1
      BY <2>1, <2>5, <2>6, Added
    <3>. QED BY <3>1, <3>2
  \* nothing but the placeholder is taken away
  <2>9. \A j \in Keys : Len(tab'[j]) >= (IF j = m THEN Len(tab[j]) - 1 ELSE Len(tab[j]))
    BY <2>7, <2>8
  <2>10. ASSUME NEW q \in Pids, InSocket(q)' PROVE Len(tab'[Key(MAGIC_FD, q)]) >= 1
    <3>1. q # p /\ Len(tab[Key(MAGIC_FD, q)]) >= 1 BY <1>h, <2>10 DEF Filed
    <3>2. m # Key(MAGIC_FD, q)
      <4>1. p \in 1 .. (HighBit - 1) /\ q \in 1 .. (HighBit - 1) /\ MAGIC_FD \in Nat
        BY TracerAssumption DEF MAGIC_FD
      <4>. QED BY <3>1, <4>1, KeyCollision DEF m
    <3>3. Key(MAGIC_FD, q) \in Keys BY <1>k
    <3>4. Len(tab'[Key(MAGIC_FD, q)]) >= Len(tab[Key(MAGIC_FD, q)]) BY <2>9, <3>2, <3>3
    <3>. QED BY <2>7, <2>8, <3>1, <3>3, <3>4
  <2>11. ASSUME NEW q \in Pids, NEW fd \in Fds, Held(q, fd)'
         PROVE  Len(tab'[Key(fd, q)]) >= 1 + Behind(q, fd)'
    <3>1. /\ Key(fd, q) \in Keys /\ (m = Key(fd, q) <=> p = q /\ fd % 2 = 1)
      BY <1>k, KeysApart DEF m
    <3>2. CASE q = p
      <4>0. Behind(q, fd)' = 0 /\ Behind(q, fd) = IF fd % 2 = 1 THEN 1 ELSE 0
        BY <1>h, <1>2, <3>2 DEF Behind
      <4>1. CASE Held(q, fd)
        <5>1. Len(tab[Key(fd, q)]) >= 1 + Behind(q, fd) BY <4>1 DEF Filed
        <5>. QED BY <2>7, <2>9, <3>1, <3>2, <4>0, <5>1
      <4>2. CASE rax[p] = fd
        <5>1. Key(fd, q) = k BY <3>2, <4>2 DEF k
        <5>. QED BY <2>8, <3>1, <4>0, <5>1
      <4>. QED BY <1>h, <2>11, <3>2, <4>1, <4>2
    <3>3. CASE q # p
      <4>1. Held(q, fd) /\ Behind(q, fd)' = Behind(q, fd) BY <1>h, <2>11, <3>3 DEF Behind
      <4>2. Len(tab[Key(fd, q)]) >= 1 + Behind(q, fd) BY <4>1 DEF Filed
      <4>. QED BY <2>7, <2>9, <3>1, <3>3, <4>1, <4>2 DEF Behind
    <3>. QED BY <3>2, <3>3
  <2>. QED BY <2>10, <2>11 DEF Filed
<1>. QED BY <1>1, <1>2

\* The tracer's own steps: a connect(2) of a filed descriptor is redirected.
LEMMA FiledTracer ==
  ASSUME Trusted, OneShot, TypeOK, PhaseInv, RedirectInv, FiledInv, TracerStep,
         pc' # "exited"
  PROVE  FiledInv'
<1>0. OwnInv /\ Filed /\ AtKernel /\ Intercepted BY DEF FiledInv
<1>t. /\ ts \in [Pids -> TraceeState] /\ buf \in [Pids -> Addrs]
      /\ noted \in [Pids -> Addrs] /\ cur \in Pids /\ tab \in TableType
  BY DEF TypeOK, TraceeTypeOK, TracerTypeOK, TableType
<1>1. OwnInv' BY <1>0, OwnTracer
<1>i. ASSUME UNCHANGED outcome PROVE Intercepted'
  BY <1>0, <1>i DEF Intercepted, ProxySa, PROXY_SA, PROXY_SA6, IsInet
\* nobody gets into the kernel
<1>m. ASSUME UNCHANGED <<buf, want, noted, fdt>>, \A q \in Pids : ts'[q] = "kernel" =>
               ts[q] = "kernel" /\ regs'[q] = regs[q]
      PROVE  AtKernel'
  BY <1>0, <1>m DEF AtKernel, ProxySa, PROXY_SA, PROXY_SA6, IsInet
<1>2. CASE HandleEntering /\ ~Dead
  <2>1. Filed' BY <1>0, <1>2, FiledEntering
  <2>2. /\ ts[cur] = "entry" /\ ts' = [ts EXCEPT ![cur] = "kernel"]
        /\ \A q \in Pids : q # cur => regs'[q] = regs[q]
        /\ regs'[cur].op = regs[cur].op /\ regs'[cur].fd = regs[cur].fd
        /\ UNCHANGED <<fdt, want, outcome>>
    BY <1>2, <1>t, AtEntering
  <2>3. AtKernel'
    <3>1. CASE regs[cur].op # "connect"
      <4>1. UNCHANGED <<buf, noted>>
        BY <1>0, <1>2, <3>1, TabEntering DEF close_pre_handle
      <4>. QED BY <1>0, <1>t, <2>2, <3>1, <4>1
               DEF AtKernel, ProxySa, PROXY_SA, PROXY_SA6, IsInet
    <3>2. CASE regs[cur].op = "connect"
      <4>1. connect_pre_handle(cur) /\ ~BrokenPipe(cur) BY <1>0, <1>2, <3>2, TabEntering
      <4>2. buf[cur] = want[cur]
        BY <1>2, <1>t, <2>2, <3>2 DEF RedirectInv, AtEntry, Abandoned, HandleEntering
      <4>3. \A q \in Pids : q # cur => buf'[q] = buf[q] /\ noted'[q] = noted[q]
        BY <1>t, <4>1 DEF connect_pre_handle, handlerVars, putdata
      <4>4. ASSUME fdt[cur][regs[cur].fd] # "closed", IsInet(want[cur]), ~is_ignore(want[cur].ip)
            PROVE  buf'[cur] = ProxySa(want[cur].fam) /\ noted'[cur] = want[cur]
        <5>1. regs[cur].fd \in Fds BY <1>0, <1>t, <3>2 DEF OwnInv, CallArgs
        <5>2. Held(cur, regs[cur].fd) BY <2>2, <4>4 DEF Held, Running, Stops, HeldStops
        <5>3. HasSocketInfo(tab, Key(regs[cur].fd, cur))
          <6>1. Key(regs[cur].fd, cur) \in Keys
            <7>0. \A fd \in Fds : fd \in Int BY PtraceAssumption
            <7>1. regs[cur].fd \in Int BY <5>1, <7>0
            <7>2. cur \in Int
              <8>1. cur \in 1 .. (HighBit - 1) BY <1>t, TracerAssumption
              <8>. QED BY <8>1
            <7>. QED BY <7>1, <7>2, KeyType
          <6>2. Behind(cur, regs[cur].fd) \in {0, 1} BY DEF Behind
          <6>3. Len(tab[Key(regs[cur].fd, cur)]) >= 1 + Behind(cur, regs[cur].fd)
            BY <1>0, <1>t, <5>1, <5>2 DEF Filed
          <6>4. [fd |-> 0, fresh |-> TRUE] \in SocketInfo BY DEF SocketInfo
          <6>5. /\ Len(tab[Key(regs[cur].fd, cur)]) \in Nat
                /\ HasSocketInfo(tab, Key(regs[cur].fd, cur))
                     <=> Len(tab[Key(regs[cur].fd, cur)]) >= 1
            BY <1>t, <6>1, <6>4, Entries
          <6>. QED BY <6>2, <6>3, <6>5
        <5>4. reader
          <6>1. get_syscall_number(cur) = "connect" BY <1>2, <3>2 DEF get_syscall_number
          <6>. QED BY <4>1, <4>2, <4>4, <5>3, <6>1
                   DEF BrokenPipe, get_syscall_arg, getdata, IsInet, OneShot
        <5>. QED BY <1>t, <4>1, <4>2, <4>4, <5>3, <5>4
                 DEF connect_pre_handle, get_syscall_arg, getdata, putdata, IsInet
      <4>5. ASSUME NEW q \in Pids, ts'[q] = "kernel", regs'[q].op = "connect",
                   fdt'[q][regs'[q].fd] # "closed", IsInet(want'[q]), ~is_ignore(want'[q].ip)
            PROVE  buf'[q] = ProxySa(want'[q].fam) /\ noted'[q] = want'[q]
        <5>1. CASE q = cur BY <2>2, <4>4, <4>5, <5>1
        <5>2. CASE q # cur
          <6>1. /\ ts[q] = "kernel" /\ regs'[q] = regs[q] /\ want'[q] = want[q]
                /\ fdt'[q] = fdt[q] /\ buf'[q] = buf[q] /\ noted'[q] = noted[q]
            BY <1>t, <2>2, <4>3, <4>5, <5>2
          <6>. QED BY <1>0, <4>5, <6>1 DEF AtKernel
        <5>. QED BY <5>1, <5>2
      <4>. QED BY <4>5 DEF AtKernel, ProxySa, PROXY_SA, PROXY_SA6, IsInet
    <3>. QED BY <3>1, <3>2
  <2>. QED BY <1>1, <1>i, <2>1, <2>2, <2>3 DEF FiledInv
<1>3. CASE HandleExiting /\ ~Dead
  <2>1. Filed' BY <1>0, <1>3, FiledExiting
  <2>2. AtKernel' /\ UNCHANGED outcome
    <3>1. /\ ts' = [ts EXCEPT ![cur] = IF IsExit(pinfo[cur].csn) THEN "held" ELSE "user"]
          /\ UNCHANGED <<fdt, regs, buf, noted, want, outcome>>
      BY <1>3, AtExiting
    <3>. QED BY <1>t, <1>m, <3>1
  <2>. QED BY <1>1, <1>i, <2>1, <2>2 DEF FiledInv
<1>4. CASE ~(HandleEntering /\ ~Dead) /\ ~(HandleExiting /\ ~Dead)
  <2>1. /\ \A q \in Pids : ts'[q] = "kernel" => ts[q] = "kernel"
        /\ UNCHANGED <<tab, regs, buf, noted, fdt, want, outcome>>
    BY <1>4, Elsewhere
  <2>2. Filed' BY <1>0, <1>4, <2>1, HeldElsewhere, FiledKeep
  <2>. QED BY <1>1, <1>i, <1>m, <2>1, <2>2 DEF FiledInv
<1>. QED BY <1>2, <1>3, <1>4

\* Time that passes leaves every entry in its place.
LEMMA AgedLengths ==
  ASSUME TypeOK
  PROVE  \A k \in Keys : Len(Aged(tab)[k]) = Len(tab[k])
<1>1. ASSUME NEW k \in Keys PROVE Len(Aged(tab)[k]) = Len(tab[k])
  <2>1. tab[k] \in Seq(SocketInfo) BY DEF TypeOK, TracerTypeOK
  <2>2. Aged(tab)[k] = [i \in 1 .. Len(tab[k]) |-> [tab[k][i] EXCEPT !.fresh = FALSE]]
    BY <2>1 DEF Aged
  <2>. QED BY <2>1, <2>2
<1>. QED BY <1>1

\* Every step of the system keeps the invariant, as long as the tracer runs.
LEMMA FiledNext ==
  ASSUME Trusted, OneShot, TypeOK, PhaseInv, RedirectInv, FiledInv, [Next]_vars,
         pc # "exited", pc' # "exited"
  PROVE  FiledInv'
<1>1. CASE TracerStep BY <1>1, FiledTracer
<1>2. ASSUME NEW p \in Pids, Tracee(p) PROVE FiledInv' BY <1>2, FiledTracee
<1>3. CASE UNCHANGED <<traceeVars, pinfo>> /\ tab' \in {tab, Aged(tab)}
  <2>1. OwnInv'
    BY <1>3 DEF FiledInv, OwnInv, OwnFds, CallArgs, CsnKept, IsTcpSocket, traceeVars
  <2>2. \A k \in Keys : Len(tab'[k]) = Len(tab[k]) BY <1>3, AgedLengths
  <2>3. Filed' BY <1>3, <2>2, FiledKeep DEF FiledInv, InSocket, Held, traceeVars
  <2>4. AtKernel' /\ Intercepted'
    BY <1>3 DEF FiledInv, AtKernel, Intercepted, ProxySa, PROXY_SA, PROXY_SA6, IsInet,
                traceeVars
  <2>. QED BY <2>1, <2>3, <2>4 DEF FiledInv
<1>. QED BY <1>1, <1>2, <1>3
         DEF Next, Elapse, ClockSet, FifoRead, LocalUpDown, Terminated, vars, tracerVars

\* As long as the tracer runs, every connect(2) of a TCP socket to an address that
\* is not to be ignored goes to graftcp-local, announced, for any number of
\* processes, if FLAG_INSYSCALL can be trusted and every process has its own
\* descriptors, filed under keys of their own, and opens TCP sockets only.  Tracees
\* may be killed at any time, socket(2) may fail, the table may be expanded, the
\* clock may be set, and graftcp-local may come and go.  What the tracees do on their
\* own, once a kill or a death of graftcp-local has ended the tracer, is out of it.
THEOREM ConnectsWhileTraced ==
  ASSUME Trusted, OneShot
  PROVE  Spec => [](pc # "exited" => Intercepted)
<1>. DEFINE Inv == TypeOK /\ RedirectInv /\ (pc # "exited" => PhaseInv /\ FiledInv)
<1>1. Init => Inv BY InitType, PhaseInit, RedirectInit, FiledInit
<1>2. Inv /\ [Next]_vars => Inv'
  <2>. SUFFICES ASSUME Inv, [Next]_vars PROVE Inv' OBVIOUS
  <2>1. TypeOK' /\ RedirectInv' BY NextType, RedirectNext
  <2>2. ASSUME pc' # "exited" PROVE PhaseInv' /\ FiledInv'
    <3>1. pc # "exited" BY <2>2, ExitIsFinal
    <3>. QED BY <2>2, <3>1, PhaseNext, FiledNext DEF Trusted, TracedPhase
  <2>. QED BY <2>1, <2>2
<1>3. Inv => (pc # "exited" => Intercepted) BY DEF FiledInv
<1>. QED BY <1>1, <1>2, <1>3, PTL DEF Spec

\* Intercepted for any number of processes: no connect(2) of a TCP socket at all
\* gets past the tracer, if nothing ends the tracer before its last tracee, which
\* rules out kills and deaths of graftcp-local, and the conditions of
\* ConnectsWhileTraced hold.
THEOREM EveryConnect ==
  ASSUME Trusted, OneShot, Undisturbed
  PROVE  Spec => []Intercepted
<1>1. Init => Intercepted BY FiledInit DEF FiledInv
<1>2. /\ Intercepted /\ TracedToTheEnd /\ [Next]_vars
      /\ (pc # "exited" => Intercepted)'
      => Intercepted'
  <2>1. SUFFICES ASSUME Intercepted, TracedToTheEnd, [Next]_vars, pc' = "exited"
                 PROVE  Intercepted'
    OBVIOUS
  <2>2. ASSUME NEW p \in Pids, Tracee(p) PROVE FALSE
    BY <2>1, <2>2, NobodyLeft DEF Tracee, tracerVars
  <2>3. UNCHANGED outcome
    BY <2>1, <2>2
       DEF Next, TracerStep, Wait, WaitNoChild, HandleDeath, HandleSignal, HandleEntering,
           HandleExiting, HandleNoSuchProcess, HandleBrokenPipe, loopVars, traceeVars,
           Elapse, ClockSet, FifoRead, LocalUpDown, Terminated, vars
  <2>. QED BY <2>1, <2>3 DEF Intercepted, ProxySa, PROXY_SA, PROXY_SA6, IsInet
<1>3. Spec => [](pc # "exited" => Intercepted) BY ConnectsWhileTraced
<1>4. Spec => []TracedToTheEnd BY StaysToTheEnd
<1>. QED BY <1>1, <1>2, <1>3, <1>4, PTL DEF Spec

-----------------------------------------------------------------------------
(* The table holds nothing else: close(2) is delayed *)

\* socket(2) of the application succeeds, nobody sets the clock and no chain of the
\* table fills up
Steady == SockErrs = {} /\ ~ClockMaySet /\ ~TableGrows

\* what lies under the key of a descriptor: its entry, with the placeholder of a
\* running socket(2) on top; a young connection's entry is fresh
Slot(p, fd) ==
  /\ ts[p] \in Running =>
       Len(tab[Key(fd, p)]) = Behind(p, fd) + (IF Held(p, fd) THEN 1 ELSE 0)
  /\ ts[p] \in Running /\ <<p, fd>> \in young =>
       Held(p, fd) /\ tab[Key(fd, p)][1 + Behind(p, fd)].fresh
  /\ p \notin used => tab[Key(fd, p)] = <<>> /\ <<p, fd>> \notin young

Slots == \A p \in Pids, fd \in Fds : Slot(p, fd)

\* socket(2) finds a free descriptor and opens it
Room ==
  \A p \in Pids : regs[p].op = "socket" =>
    /\ ts[p] \in {"entry", "kernel"} => \E fd \in Fds : fdt[p][fd] = "closed"
    /\ ts[p] = "exit" => rax[p] \in Fds /\ fdt[p][rax[p]] # "closed"

DelayInv == OwnInv /\ Filed /\ Slots /\ Room

\* The table is empty in the first state.
LEMMA DelayInit == Init => DelayInv
<1>. SUFFICES ASSUME Init PROVE DelayInv OBVIOUS
<1>1. /\ \A p \in Pids : ts[p] \in {"sigstop", "absent"} /\ fdt[p] = NoFds
      /\ young = {} /\ tab = EmptyTable
  BY DEF Init, TraceeInit
<1>2. Filed BY FiledInit DEF FiledInv
<1>3. ASSUME NEW p \in Pids, NEW fd \in Fds PROVE Slot(p, fd)
  <2>1. ~InSocket(p) /\ ~Held(p, fd) BY <1>1 DEF InSocket, Held, NoFds
  <2>2. Key(fd, p) \in Keys
    <3>1. fd \in Int /\ p \in Int BY PtraceAssumption, TracerAssumption
    <3>. QED BY <3>1, KeyType
  <2>3. tab[Key(fd, p)] = <<>> BY <1>1, <2>2 DEF EmptyTable
  <2>. QED BY <1>1, <2>1, <2>3 DEF Slot, Behind
<1>4. Room BY <1>1 DEF Room
<1>. QED BY <1>2, <1>3, <1>4, OwnInit DEF DelayInv, Slots

\* A slot that nobody touches.
LEMMA SlotKeep ==
  ASSUME NEW p \in Pids, NEW fd \in Fds, Slot(p, fd),
         tab'[Key(fd, p)] = tab[Key(fd, p)],
         <<p, fd>> \in young' => <<p, fd>> \in young,
         p \in used => p \in used',
         ts'[p] \in Running =>
           \/ ts[p] \in Running /\ (InSocket(p)' <=> InSocket(p)) /\ (Held(p, fd)' <=> Held(p, fd))
           \/ p \notin used /\ ~InSocket(p)' /\ ~Held(p, fd)'
  PROVE  Slot(p, fd)'
<1>. DEFINE s == tab[Key(fd, p)]
            new == p \notin used /\ ~InSocket(p)' /\ ~Held(p, fd)'
            same == ts[p] \in Running /\ (InSocket(p)' <=> InSocket(p))
                      /\ (Held(p, fd)' <=> Held(p, fd))
<1>1. p \notin used' => s = <<>> /\ <<p, fd>> \notin young' BY DEF Slot
<1>2. ASSUME ts'[p] \in Running, new
      PROVE  /\ Len(s) = Behind(p, fd)' + (IF Held(p, fd)' THEN 1 ELSE 0)
             /\ <<p, fd>> \notin young'
  <2>1. s = <<>> /\ <<p, fd>> \notin young BY <1>2 DEF Slot
  <2>2. Behind(p, fd)' = 0 BY <1>2 DEF Behind
  <2>. QED BY <1>2, <2>1, <2>2
<1>3. ASSUME ts'[p] \in Running, same
      PROVE  /\ Len(s) = Behind(p, fd)' + (IF Held(p, fd)' THEN 1 ELSE 0)
             /\ <<p, fd>> \in young' => Held(p, fd)' /\ s[1 + Behind(p, fd)'].fresh
  <2>1. Behind(p, fd)' = Behind(p, fd) BY <1>3 DEF Behind
  <2>. QED BY <1>3, <2>1 DEF Slot
<1>4. tab'[Key(fd, p)] = s OBVIOUS
<1>. QED BY <1>1, <1>2, <1>3, <1>4 DEF Slot

\* The tracees' own steps.
LEMMA DelayTracee ==
  ASSUME Trusted, Steady, TypeOK, PhaseInv, DelayInv, pc # "exited", NEW p \in Pids,
         Tracee(p)
  PROVE  DelayInv'
<1>0. OwnInv /\ Filed /\ Slots /\ Room BY DEF DelayInv
<1>t. /\ ts \in [Pids -> TraceeState] /\ regs \in [Pids -> RegsType]
      /\ fdt \in [Pids -> [Fds -> AllSockKinds \cup {"closed"}]] /\ rax \in [Pids -> Int]
  BY DEF TypeOK, TraceeTypeOK
<1>o. grp[p] = p BY <1>0 DEF OwnInv, OwnFds
<1>1. OwnInv' BY <1>0, OwnTracee
<1>2. UNCHANGED <<tab, young>> BY DEF Tracee, tracerVars
<1>3. Filed'
  <2>1. \A q \in Pids : ts'[q] \in Running =>
          /\ InSocket(q)' => InSocket(q)
          /\ \A fd \in Fds : Held(q, fd)' => Held(q, fd)
    BY <1>0, HeldTracee
  <2>. QED BY <1>0, <1>2, <2>1, FiledKeep
<1>4. Slots'
  <2>1. used \subseteq used'
    BY DEF Tracee, TraceeStep, Syscall, Signal, SigKill, Finish, Kernel, KernelSocket,
           KernelConnect, KernelClose, KernelClone, KernelExec, KernelExit, KernelOther
  <2>2. \A q \in FreePids : q \notin used BY DEF FreePids, Trusted, Quiet
  <2>3. ASSUME NEW q \in Pids, NEW fd \in Fds PROVE Slot(q, fd)'
    <3>1. Slot(q, fd) BY <1>0 DEF Slots
    <3>2. ts'[q] \in Running =>
            \/ ts[q] \in Running /\ (InSocket(q)' <=> InSocket(q)) /\ (Held(q, fd)' <=> Held(q, fd))
            \/ q \notin used /\ ~InSocket(q)' /\ ~Held(q, fd)'
      BY <1>0, <2>2, HeldTracee
    <3>. QED BY <1>2, <2>1, <3>1, <3>2, SlotKeep
  <2>. QED BY <2>3 DEF Slots
<1>5. Room'
  <2>1. ASSUME NEW q \in Pids \ {p}, regs'[q].op = "socket"
        PROVE  /\ ts'[q] \in {"entry", "kernel"} => \E fd \in Fds : fdt'[q][fd] = "closed"
               /\ ts'[q] = "exit" => rax'[q] \in Fds /\ fdt'[q][rax'[q]] # "closed"
    BY <1>0, <2>1, OthersCalls DEF Room
  <2>2. ASSUME regs'[p].op = "socket", ts'[p] \in {"entry", "kernel"}
        PROVE  \E fd \in Fds : fdt'[p][fd] = "closed"
    <3>1. ts'[p] = "entry" BY <1>0, <2>2, OthersCalls
    <3>2. PICK c \in Calls : Syscall(p, c)
      <4>1. ASSUME NEW s \in Signals, Signal(p, s) PROVE FALSE
        BY <3>1, <4>1, <1>t, PtraceAssumption DEF Signal, AllSignals
      <4>2. ~SigKill(p) BY <3>1, <1>t DEF SigKill, Die, Threads
      <4>3. ~Finish(p) BY <3>1, <1>t DEF Finish, Return
      <4>4. ~Kernel(p)
        <5>1. SUFFICES ASSUME Kernel(p) PROVE FALSE OBVIOUS
        <5>2. ts[p] = "kernel" BY <5>1 DEF Kernel
        <5>3. CASE KernelClone(p)
          BY <1>t, <3>1, <5>2, <5>3 DEF KernelClone, FreePids, Return
        <5>4. CASE KernelExec(p) BY <1>t, <3>1, <5>4 DEF KernelExec
        <5>5. CASE KernelExit(p) BY <1>t, <3>1, <5>2, <5>5 DEF KernelExit, Die, Threads
        <5>6. CASE \/ KernelSocket(p) \/ KernelConnect(p) \/ KernelClose(p) \/ KernelOther(p)
          BY <1>t, <3>1, <5>6
             DEF KernelSocket, KernelConnect, KernelClose, KernelOther, Return
        <5>. QED BY <5>1, <5>3, <5>4, <5>5, <5>6 DEF Kernel
      <4>. QED BY <4>1, <4>2, <4>3, <4>4 DEF Tracee, TraceeStep
    <3>3. c.op = "socket" BY <1>t, <2>2, <3>2 DEF Syscall
    <3>4. FreeFds(p) # {} /\ UNCHANGED fdt BY <3>2, <3>3 DEF Syscall, Steady
    <3>. QED BY <1>o, <3>4 DEF FreeFds, OpenFds
  <2>3. ASSUME regs'[p].op = "socket", ts'[p] = "exit"
        PROVE  rax'[p] \in Fds /\ fdt'[p][rax'[p]] # "closed"
    <3>1. ~Finish(p) BY <1>0, <2>3 DEF Finish, OwnInv, CsnKept
    <3>2. ASSUME NEW s \in Signals, Signal(p, s) PROVE FALSE
      BY <2>3, <3>2, <1>t, PtraceAssumption DEF Signal, AllSignals
    <3>3. ASSUME NEW c \in Calls, Syscall(p, c) PROVE FALSE
      BY <2>3, <3>3, <1>t DEF Syscall
    <3>4. ~SigKill(p) BY <2>3, <1>t DEF SigKill, Die, Threads, Running, Stops, HeldStops
    <3>5. Kernel(p) /\ ts[p] = "kernel"
      BY <3>1, <3>2, <3>3, <3>4 DEF Tracee, TraceeStep, Kernel
    <3>6. regs[p].op = "socket"
      <4>1. CASE UNCHANGED regs BY <2>3, <4>1
      <4>2. CASE KernelClone(p)
        <5>1. regs'[p] = regs[p] BY <1>t, <3>5, <4>2 DEF KernelClone, FreePids, memVars
        <5>. QED BY <2>3, <5>1
      <4>. QED BY <3>5, <4>1, <4>2
               DEF Kernel, KernelSocket, KernelConnect, KernelClose, KernelExec, KernelExit,
                   KernelOther, memVars
    <3>7. KernelSocket(p)
      BY <3>5, <3>6 DEF Kernel, KernelConnect, KernelClose, KernelClone, KernelExec,
                        KernelExit, KernelOther, IsExit
    <3>8. FreeFds(p) # {}
      BY <1>0, <1>o, <3>5, <3>6 DEF Room, FreeFds, OpenFds
    <3>9. PICK fd \in FreeFds(p) : /\ fdt' = [fdt EXCEPT ![grp[p]][fd] = regs[p].kind]
                                   /\ Return(p, fd)
      BY <3>7, <3>8 DEF KernelSocket, Steady
    <3>10. fd \in Fds /\ rax'[p] = fd BY <1>t, <3>9 DEF FreeFds, Return
    <3>11. fdt'[p][fd] = regs[p].kind BY <1>t, <1>o, <3>9, <3>10
    <3>12. regs[p].kind # "closed" BY <1>t DEF RegsType, AllSockKinds
    <3>. QED BY <3>10, <3>11, <3>12
  <2>. QED BY <2>1, <2>2, <2>3 DEF Room
<1>. QED BY <1>1, <1>3, <1>4, <1>5 DEF DelayInv

\* The handlers at the entry to a system call: close_pre_handle lets nothing young
\* pass, connect_pre_handle finds the entry of the descriptor it is called for.
LEMMA SlotsEntering ==
  ASSUME Trusted, Steady, TypeOK, PhaseInv, DelayInv, HandleEntering, ~Dead
  PROVE  Slots'
<1>0. OwnInv /\ Filed /\ Slots /\ Room BY DEF DelayInv
<1>p. PICK p \in Pids : p = cur BY DEF TypeOK, TracerTypeOK
<1>t. tab \in TableType BY DEF TypeOK, TracerTypeOK, TableType
<1>u. p \in used /\ UNCHANGED used /\ grp[p] = p
  BY <1>0, <1>p, AtEntering DEF PhaseInv, FreshPids, OwnInv, OwnFds
<1>a. regs[p].op \in {"connect", "close"} => regs[p].fd \in Fds
  BY <1>0 DEF OwnInv, CallArgs
<1>k. /\ Separate /\ Key(MAGIC_FD, p) \in Keys
      /\ \A f \in Fds : f \in Nat /\ (f % 2) \in {0, 1}
      /\ \A f \in Fds, q \in Pids : Key(f, q) \in Keys
  BY KeyType, PtraceAssumption, TracerAssumption DEF Trusted, MAGIC_FD
<1>e. [fd |-> 0, fresh |-> TRUE] \in SocketInfo BY DEF SocketInfo
<1>h. /\ ts[p] \in Running /\ ~InSocket(p) /\ (InSocket(p)' <=> regs[p].op = "socket")
      /\ \A fd \in Fds : Held(p, fd)' <=>
           Held(p, fd) /\ ~(regs[p].op = "close" /\ regs[p].fd = fd)
      /\ \A q \in Pids \ {p} : /\ ts'[q] = ts[q] /\ (InSocket(q)' <=> InSocket(q))
                               /\ \A fd \in Fds : Held(q, fd)' <=> Held(q, fd)
  BY <1>0, <1>p, HeldEntering
\* a slot of another tracee, or of a descriptor that is not concerned
<1>m. ASSUME NEW q \in Pids, NEW fd \in Fds, tab'[Key(fd, q)] = tab[Key(fd, q)],
             <<q, fd>> \in young' => <<q, fd>> \in young,
             q = p => regs[p].op # "socket" /\ ~(regs[p].op = "close" /\ regs[p].fd = fd)
      PROVE  Slot(q, fd)'
  <2>1. ts'[q] \in Running =>
          ts[q] \in Running /\ (InSocket(q)' <=> InSocket(q)) /\ (Held(q, fd)' <=> Held(q, fd))
    BY <1>h, <1>m
  <2>2. Slot(q, fd) BY <1>0 DEF Slots
  <2>. QED BY <1>m, <1>u, <2>1, <2>2, SlotKeep
<1>1. CASE regs[p].op = "socket"
  <2>. DEFINE m == Key(MAGIC_FD, p)
              si == [fd |-> -1, fresh |-> FALSE]
  <2>1. /\ tab' \in add_socket_info(tab, m, si) /\ UNCHANGED young
        /\ si \in SocketInfo /\ m \in Keys
    BY <1>0, <1>p, <1>1, <1>k, TabEntering DEF SocketInfo
  <2>. HIDE DEF m, si
  <2>2. \A j \in Keys : Len(tab[j]) \in Nat /\ (j # m => tab'[j] = tab[j])
    BY <1>t, <2>1, Entries, Added DEF Steady
  <2>3. /\ Len(tab'[m]) = Len(tab[m]) + 1
        /\ \A i \in 1 .. Len(tab[m]) : tab'[m][i + 1] = tab[m][i]
    BY <1>t, <2>1, Added DEF Steady
  <2>4. ASSUME NEW q \in Pids, NEW fd \in Fds PROVE Slot(q, fd)'
    <3>1. Key(fd, q) \in Keys /\ (m = Key(fd, q) <=> p = q /\ fd % 2 = 1)
      BY <1>k, KeysApart DEF m
    <3>2. CASE q # p
      <4>1. tab'[Key(fd, q)] = tab[Key(fd, q)] BY <2>2, <3>1, <3>2
      <4>. QED BY <1>m, <2>1, <3>2, <4>1
    <3>3. CASE q = p
      <4>1. /\ Len(tab[Key(fd, q)]) = (IF Held(q, fd) THEN 1 ELSE 0)
            /\ <<q, fd>> \in young => Held(q, fd) /\ tab[Key(fd, q)][1].fresh
        <5>1. Behind(q, fd) = 0 BY <1>h, <3>3 DEF Behind
        <5>. QED BY <1>0, <1>h, <3>3, <5>1 DEF Slots, Slot
      <4>2. (Held(q, fd)' <=> Held(q, fd)) /\ q \in used' BY <1>h, <1>u, <1>1, <3>3
      <4>3. Behind(q, fd)' = IF fd % 2 = 1 THEN 1 ELSE 0 BY <1>h, <1>1, <3>3 DEF Behind
      <4>4. CASE fd % 2 = 1
        <5>1. Len(tab'[Key(fd, q)]) = 1 + (IF Held(q, fd) THEN 1 ELSE 0)
          BY <2>2, <2>3, <3>1, <3>3, <4>1, <4>4
        <5>2. Held(q, fd) => tab'[Key(fd, q)][2] = tab[Key(fd, q)][1]
          BY <2>3, <3>1, <3>3, <4>1, <4>4
        <5>3. Behind(q, fd)' = 1 BY <4>3, <4>4
        <5>. QED BY <2>1, <4>1, <4>2, <5>1, <5>2, <5>3 DEF Slot
      <4>5. CASE fd % 2 # 1
        <5>1. tab'[Key(fd, q)] = tab[Key(fd, q)] BY <2>2, <3>1, <4>5
        <5>2. Behind(q, fd)' = 0 BY <4>3, <4>5
        <5>. QED BY <2>1, <4>1, <4>2, <5>1, <5>2 DEF Slot
      <4>. QED BY <4>4, <4>5
    <3>. QED BY <3>2, <3>3
  <2>. QED BY <2>4 DEF Slots
<1>2. CASE regs[p].op = "connect"
  <2>. DEFINE f0 == regs[p].fd
              k == Key(f0, p)
              si == [fd |-> find_socket_info(tab, k).fd, fresh |-> TRUE]
  <2>1. k \in Keys /\ f0 \in Fds BY <1>a, <1>k, <1>2
  <2>2. connect_pre_handle(p) BY <1>0, <1>p, <1>2, TabEntering
  <2>3. CASE UNCHANGED <<tab, young>> BY <1>2, <1>m, <2>3 DEF Slots
  <2>4. CASE /\ HasSocketInfo(tab, k) /\ tab' = set_socket_info(tab, k, si)
             /\ young' = young \cup {<<p, f0>>}
    <3>1. si \in SocketInfo
      <4>1. find_socket_info(tab, k) \in SocketInfo BY <1>t, <1>e, <2>1, <2>4, TableTypes
      <4>. QED BY <4>1 DEF SocketInfo
    <3>2. si.fresh OBVIOUS
    <3>. HIDE DEF k, si
    <3>3. \A j \in Keys : j # k => tab'[j] = tab[j] BY <1>t, <2>1, <2>4, <3>1, Entries
    <3>4. /\ Len(tab'[k]) = Len(tab[k]) /\ tab'[k][1] = si /\ Len(tab[k]) >= 1
          /\ Len(tab[k]) \in Nat
      BY <1>t, <2>1, <2>4, <3>1, Entries
    <3>5. ASSUME NEW q \in Pids, NEW fd \in Fds PROVE Slot(q, fd)'
      <4>1. Key(fd, q) \in Keys /\ (k = Key(fd, q) <=> p = q /\ f0 = fd)
        BY <1>k, <2>1, KeysApart DEF k
      <4>2. CASE ~(q = p /\ fd = f0)
        <5>1. tab'[Key(fd, q)] = tab[Key(fd, q)] BY <3>3, <4>1, <4>2
        <5>2. <<q, fd>> \in young' => <<q, fd>> \in young BY <2>4, <4>2
        <5>. QED BY <1>2, <1>m, <5>1, <5>2
      <4>3. CASE q = p /\ fd = f0
        <5>0. k = Key(fd, q) BY <4>1, <4>3
        <5>1. Behind(q, fd) = 0 /\ Behind(q, fd)' = 0 BY <1>h, <1>2, <4>3 DEF Behind
        <5>2. Len(tab[k]) = (IF Held(q, fd) THEN 1 ELSE 0)
          <6>1. Slot(q, fd) /\ ts[q] \in Running BY <1>0, <1>h, <4>3 DEF Slots
          <6>. QED BY <5>0, <5>1, <6>1 DEF Slot
        <5>3. Held(q, fd) /\ Held(q, fd)' /\ q \in used'
          BY <1>h, <1>u, <1>2, <3>4, <4>3, <5>2
        <5>4. Len(tab'[k]) = 1 /\ tab'[k][1].fresh BY <3>2, <3>4, <5>2, <5>3
        <5>. QED BY <5>0, <5>1, <5>3, <5>4 DEF Slot
      <4>. QED BY <4>2, <4>3
    <3>. QED BY <3>5 DEF Slots
  <2>. QED BY <1>u, <2>2, <2>3, <2>4 DEF connect_pre_handle, get_syscall_arg, handlerVars
<1>3. CASE regs[p].op = "close"
  <2>. DEFINE f0 == regs[p].fd
              k == Key(f0, p)
  <2>1. k \in Keys /\ f0 \in Fds BY <1>a, <1>k, <1>3
  <2>2. /\ HasSocketInfo(tab, k) => ~find_socket_info(tab, k).fresh
        /\ tab' = IF HasSocketInfo(tab, k) THEN del_socket_info(tab, k) ELSE tab
        /\ UNCHANGED young
    BY <1>0, <1>p, <1>3, TabEntering DEF close_pre_handle, get_syscall_arg
  <2>. HIDE DEF k
  <2>3. \A j \in Keys : j # k => tab'[j] = tab[j] BY <1>t, <1>e, <2>1, <2>2, Entries
  <2>4. /\ Len(tab[k]) \in Nat /\ (HasSocketInfo(tab, k) <=> Len(tab[k]) >= 1)
        /\ HasSocketInfo(tab, k) => /\ find_socket_info(tab, k) = tab[k][1]
                                    /\ Len(tab'[k]) = Len(tab[k]) - 1
    BY <1>t, <1>e, <2>1, <2>2, Entries
  <2>5. ASSUME NEW q \in Pids, NEW fd \in Fds PROVE Slot(q, fd)'
    <3>1. Key(fd, q) \in Keys /\ (k = Key(fd, q) <=> p = q /\ f0 = fd)
      BY <1>k, <2>1, KeysApart DEF k
    <3>2. CASE ~(q = p /\ fd = f0)
      <4>1. tab'[Key(fd, q)] = tab[Key(fd, q)] BY <2>3, <3>1, <3>2
      <4>. QED BY <1>3, <1>m, <2>2, <3>2, <4>1
    <3>3. CASE q = p /\ fd = f0
      <4>0. k = Key(fd, q) BY <3>1, <3>3
      <4>1. Behind(q, fd) = 0 /\ Behind(q, fd)' = 0 BY <1>h, <1>3, <3>3 DEF Behind
      <4>2. /\ Len(tab[k]) = (IF Held(q, fd) THEN 1 ELSE 0)
            /\ <<q, fd>> \in young => Held(q, fd) /\ tab[k][1].fresh
        BY <1>0, <1>h, <3>3, <4>0, <4>1 DEF Slots, Slot
      <4>3. <<q, fd>> \notin young' BY <2>2, <2>4, <4>2
      <4>4. ~Held(q, fd)' /\ q \in used' BY <1>h, <1>u, <1>3, <3>3
      <4>5. Len(tab'[k]) = 0 BY <2>2, <2>4, <4>2
      <4>. QED BY <4>0, <4>1, <4>3, <4>4, <4>5 DEF Slot
    <3>. QED BY <3>2, <3>3
  <2>. QED BY <2>5 DEF Slots
<1>4. CASE regs[p].op \notin {"socket", "connect", "close"}
  <2>1. UNCHANGED <<tab, young>> BY <1>0, <1>p, <1>4, TabEntering
  <2>. QED BY <1>4, <1>m, <2>1 DEF Slots
<1>. QED BY <1>1, <1>2, <1>3, <1>4

\* The handler at the exit from socket(2): the placeholder is taken off whatever it
\* lay on, and the new descriptor's slot was empty.
LEMMA SlotsExiting ==
  ASSUME Trusted, Steady, TypeOK, PhaseInv, DelayInv, HandleExiting, ~Dead
  PROVE  Slots'
<1>0. OwnInv /\ Filed /\ Slots /\ Room BY DEF DelayInv
<1>p. PICK p \in Pids : p = cur BY DEF TypeOK, TracerTypeOK
<1>t. tab \in TableType BY DEF TypeOK, TracerTypeOK, TableType
<1>u. /\ p \in used /\ UNCHANGED <<used, young>> /\ ts[p] = "exit"
  BY <1>p, AtExiting DEF PhaseInv, FreshPids
<1>k. Separate /\ Key(MAGIC_FD, p) \in Keys
  BY KeyType, TracerAssumption DEF Trusted, MAGIC_FD
<1>e. [fd |-> 0, fresh |-> TRUE] \in SocketInfo BY DEF SocketInfo
<1>h. /\ ts[p] \in Running /\ ~InSocket(p)' /\ (InSocket(p) <=> regs[p].op = "socket")
      /\ \A fd \in Fds : Held(p, fd)' <=>
           Held(p, fd) \/ (InSocket(p) /\ rax[p] = fd /\ fdt[p][fd] # "closed")
      /\ \A q \in Pids \ {p} : /\ ts'[q] = ts[q] /\ (InSocket(q)' <=> InSocket(q))
                               /\ \A fd \in Fds : Held(q, fd)' <=> Held(q, fd)
  BY <1>0, <1>p, HeldExiting
<1>c. pinfo[p].csn = regs[p].op /\ trace_syscall_exiting(p)
  BY <1>0, <1>p, AtExiting DEF OwnInv, CsnKept, HandleExiting
<1>m. ASSUME NEW q \in Pids, NEW fd \in Fds, tab'[Key(fd, q)] = tab[Key(fd, q)],
             q = p => regs[p].op # "socket"
      PROVE  Slot(q, fd)'
  <2>1. ts'[q] \in Running =>
          ts[q] \in Running /\ (InSocket(q)' <=> InSocket(q)) /\ (Held(q, fd)' <=> Held(q, fd))
    BY <1>h, <1>m
  <2>2. Slot(q, fd) BY <1>0 DEF Slots
  <2>. QED BY <1>m, <1>u, <2>1, <2>2, SlotKeep
<1>1. CASE regs[p].op # "socket"
  <2>1. UNCHANGED tab BY <1>c, <1>1 DEF trace_syscall_exiting, handlerVars
  <2>. QED BY <1>1, <1>m, <2>1 DEF Slots
<1>2. CASE regs[p].op = "socket"
  <2>. DEFINE m == Key(MAGIC_FD, p)
              f0 == rax[p]
              k == Key(f0, p)
              si == [fd |-> f0, fresh |-> find_socket_info(tab, m).fresh]
              t1 == del_socket_info(tab, m)
  <2>0. f0 \in Fds /\ f0 \in Int /\ fdt[p][f0] # "closed" /\ ~Held(p, f0)
    <3>1. f0 \in Fds /\ fdt[p][f0] # "closed" BY <1>0, <1>u, <1>2 DEF Room
    <3>2. ~Held(p, f0) BY <1>u, <1>2 DEF Held
    <3>3. f0 \in Int BY DEF TypeOK, TraceeTypeOK
    <3>. QED BY <3>1, <3>2, <3>3
  <2>1. m \in Keys /\ k \in Keys BY <1>k, <2>0, KeysApart
  <2>2. Len(tab[m]) >= 1 BY <1>0, <1>h, <1>2 DEF Filed
  <2>4. HasSocketInfo(tab, m) BY <1>t, <1>e, <2>1, <2>2, Entries
  <2>5. t1 \in TableType /\ si \in SocketInfo
    <3>1. t1 \in TableType /\ find_socket_info(tab, m) \in SocketInfo
      BY <1>t, <1>e, <2>1, <2>4, TableTypes
    <3>. QED BY <2>0, <3>1 DEF SocketInfo
  <2>6. tab' \in add_socket_info(t1, k, si)
    <3>1. socket_exiting_handle(p, rax[p])
      BY <1>c, <1>2 DEF trace_syscall_exiting, get_retval
    <3>. QED BY <2>4, <3>1 DEF socket_exiting_handle
  <2>. HIDE DEF m, k, si, t1, f0
  <2>7. \A j \in Keys : Len(tab[j]) \in Nat /\ (j # m => t1[j] = tab[j])
    BY <1>t, <1>e, <2>1, Entries DEF t1
  <2>8. /\ Len(t1[m]) = Len(tab[m]) - 1
        /\ \A i \in 1 .. (Len(tab[m]) - 1) : t1[m][i] = tab[m][i + 1]
    BY <1>t, <1>e, <2>1, <2>4, Entries DEF t1
  <2>9. \A j \in Keys : Len(t1[j]) \in Nat /\ (j # k => tab'[j] = t1[j])
    BY <2>1, <2>5, <2>6, Entries, Added DEF Steady
  <2>10. Len(tab'[k]) = Len(t1[k]) + 1 BY <2>1, <2>5, <2>6, Added
  <2>11. ASSUME NEW q \in Pids, NEW fd \in Fds PROVE Slot(q, fd)'
    <3>1. /\ Key(fd, q) \in Keys /\ (m = Key(fd, q) <=> p = q /\ fd % 2 = 1)
          /\ k = Key(fd, q) <=> p = q /\ f0 = fd
      BY <1>k, <2>0, KeysApart DEF m, k
    <3>2. CASE q # p
      <4>1. tab'[Key(fd, q)] = tab[Key(fd, q)] BY <2>7, <2>9, <3>1, <3>2
      <4>. QED BY <1>m, <3>2, <4>1
    <3>3. CASE q = p
      <4>. DEFINE s == tab[Key(fd, q)]
                  b == IF fd % 2 = 1 THEN 1 ELSE 0
      <4>1. Behind(q, fd)' = 0 /\ Behind(q, fd) = b BY <1>h, <1>2, <3>3 DEF Behind
      <4>2. /\ Len(s) = b + (IF Held(q, fd) THEN 1 ELSE 0)
            /\ <<q, fd>> \in young => Held(q, fd) /\ s[1 + b].fresh
        <5>1. Slot(q, fd) /\ ts[q] \in Running BY <1>0, <1>h, <3>3 DEF Slots
        <5>. QED BY <4>1, <5>1 DEF Slot
      \* with the placeholder taken off
      <4>3. /\ Len(t1[Key(fd, q)]) = (IF Held(q, fd) THEN 1 ELSE 0)
            /\ <<q, fd>> \in young => Held(q, fd) /\ t1[Key(fd, q)][1].fresh
        <5>1. CASE fd % 2 = 1
          <6>1. m = Key(fd, q) /\ b = 1 BY <3>1, <3>3, <5>1
          <6>2. Len(t1[m]) = (IF Held(q, fd) THEN 1 ELSE 0) BY <2>8, <4>2, <6>1
          <6>3. Held(q, fd) => t1[m][1] = s[2] BY <2>8, <4>2, <6>1
          <6>. QED BY <4>2, <6>1, <6>2, <6>3
        <5>2. CASE fd % 2 # 1
          <6>1. t1[Key(fd, q)] = s /\ b = 0 BY <2>7, <3>1, <5>2
          <6>. QED BY <4>2, <6>1
        <5>. QED BY <5>1, <5>2
      <4>4. q \in used' /\ UNCHANGED young BY <1>u, <3>3
      <4>5. CASE fd = f0
        <5>1. k = Key(fd, q) /\ ~Held(q, fd) BY <2>0, <3>1, <3>3, <4>5
        <5>2. Held(q, fd)' BY <1>h, <1>2, <2>0, <3>3, <4>5 DEF f0
        <5>3. Len(tab'[Key(fd, q)]) = 1
          <6>1. Len(t1[Key(fd, q)]) = 0 BY <4>3, <5>1
          <6>. QED BY <2>10, <5>1, <6>1
        <5>4. <<q, fd>> \notin young' BY <4>3, <4>4, <5>1
        <5>. QED BY <4>1, <4>4, <5>2, <5>3, <5>4 DEF Slot
      <4>6. CASE fd # f0
        <5>1. tab'[Key(fd, q)] = t1[Key(fd, q)] BY <2>9, <3>1, <4>6
        <5>2. Held(q, fd)' <=> Held(q, fd) BY <1>h, <3>3, <4>6 DEF f0
        <5>. QED BY <4>1, <4>3, <4>4, <5>1, <5>2 DEF Slot
      <4>. QED BY <4>5, <4>6
    <3>. QED BY <3>2, <3>3
  <2>. QED BY <2>11 DEF Slots
<1>. QED BY <1>1, <1>2

\* The tracer's own steps.
LEMMA DelayTracer ==
  ASSUME Trusted, Steady, TypeOK, PhaseInv, DelayInv, TracerStep
  PROVE  DelayInv'
<1>0. OwnInv /\ Filed /\ Slots /\ Room BY DEF DelayInv
<1>t. ts \in [Pids -> TraceeState] /\ cur \in Pids
  BY DEF TypeOK, TraceeTypeOK, TracerTypeOK
<1>1. OwnInv' BY <1>0, OwnTracer
<1>2. CASE HandleEntering /\ ~Dead
  <2>1. Filed' /\ Slots' BY <1>0, <1>2, FiledEntering, SlotsEntering
  <2>2. /\ ts[cur] = "entry" /\ ts' = [ts EXCEPT ![cur] = "kernel"]
        /\ \A q \in Pids : regs'[q].op = regs[q].op
        /\ UNCHANGED <<fdt, rax>>
    BY <1>2, AtEntering
  <2>3. Room' BY <1>0, <1>t, <2>2 DEF Room
  <2>. QED BY <1>1, <2>1, <2>3 DEF DelayInv
<1>3. CASE HandleExiting /\ ~Dead
  <2>1. Filed' /\ Slots' BY <1>0, <1>3, FiledExiting, SlotsExiting
  <2>2. /\ ts' = [ts EXCEPT ![cur] = IF IsExit(pinfo[cur].csn) THEN "held" ELSE "user"]
        /\ UNCHANGED <<fdt, regs, rax>>
    BY <1>3, AtExiting
  <2>3. Room' BY <1>0, <1>t, <2>2 DEF Room
  <2>. QED BY <1>1, <2>1, <2>3 DEF DelayInv
<1>4. CASE ~(HandleEntering /\ ~Dead) /\ ~(HandleExiting /\ ~Dead)
  <2>1. /\ \A q \in Pids : ts'[q] \in {"entry", "kernel", "exit"} => ts'[q] = ts[q]
        /\ UNCHANGED <<tab, young, used, regs, fdt, rax>>
    BY <1>4, Elsewhere
  <2>2. Filed' BY <1>0, <1>4, <2>1, HeldElsewhere, FiledKeep
  <2>3. ASSUME NEW q \in Pids, NEW fd \in Fds PROVE Slot(q, fd)'
    <3>1. Slot(q, fd) BY <1>0 DEF Slots
    <3>2. ts'[q] \in Running =>
            ts[q] \in Running /\ (InSocket(q)' <=> InSocket(q)) /\ (Held(q, fd)' <=> Held(q, fd))
      BY <1>0, <1>4, HeldElsewhere
    <3>. QED BY <2>1, <3>1, <3>2, SlotKeep
  <2>4. Room' BY <1>0, <2>1 DEF Room
  <2>. QED BY <1>1, <2>2, <2>3, <2>4 DEF DelayInv, Slots
<1>. QED BY <1>2, <1>3, <1>4

\* Every step of the system keeps the invariant.
LEMMA DelayNext ==
  ASSUME Trusted, Steady, TypeOK, PhaseInv, DelayInv, pc # "exited", [Next]_vars
  PROVE  DelayInv'
<1>0. OwnInv /\ Filed /\ Slots /\ Room BY DEF DelayInv
<1>1. CASE TracerStep BY <1>1, DelayTracer
<1>2. ASSUME NEW p \in Pids, Tracee(p) PROVE DelayInv' BY <1>2, DelayTracee
<1>3. CASE /\ UNCHANGED <<traceeVars, pinfo>>
           /\ UNCHANGED <<tab, young>> \/ (tab' = Aged(tab) /\ young' = {})
  <2>1. OwnInv' BY <1>0, <1>3 DEF OwnInv, OwnFds, CallArgs, CsnKept, IsTcpSocket, traceeVars
  <2>2. \A k \in Keys : Len(tab'[k]) = Len(tab[k]) BY <1>3, AgedLengths
  <2>3. Filed' BY <1>0, <1>3, <2>2, FiledKeep DEF InSocket, Held, traceeVars
  <2>4. Room' BY <1>0, <1>3 DEF Room, traceeVars
  <2>5. ASSUME NEW q \in Pids, NEW fd \in Fds PROVE Slot(q, fd)'
    <3>0. Slot(q, fd) /\ (InSocket(q)' <=> InSocket(q)) /\ (Held(q, fd)' <=> Held(q, fd))
      BY <1>0, <1>3 DEF Slots, InSocket, Held, traceeVars
    <3>1. CASE UNCHANGED <<tab, young>> BY <1>3, <3>0, <3>1, SlotKeep DEF traceeVars
    <3>2. CASE tab' = Aged(tab) /\ young' = {}
      <4>1. Key(fd, q) \in Keys
        <5>1. fd \in Int /\ q \in Int BY PtraceAssumption, TracerAssumption
        <5>. QED BY <5>1, KeyType
      <4>2. Len(tab'[Key(fd, q)]) = Len(tab[Key(fd, q)]) BY <2>2, <4>1
      <4>3. tab[Key(fd, q)] = <<>> => tab'[Key(fd, q)] = <<>>
        <5>1. tab'[Key(fd, q)] \in Seq(SocketInfo) /\ tab[Key(fd, q)] \in Seq(SocketInfo)
          BY <3>2, <4>1, AgedType DEF TypeOK, TracerTypeOK
        <5>. QED BY <4>2, <5>1
      <4>4. Behind(q, fd)' = Behind(q, fd) /\ UNCHANGED <<ts, used>>
        BY <1>3, <3>0 DEF Behind, traceeVars
      <4>. QED BY <3>0, <3>2, <4>2, <4>3, <4>4 DEF Slot
    <3>. QED BY <1>3, <3>1, <3>2
  <2>. QED BY <2>1, <2>3, <2>4, <2>5 DEF DelayInv, Slots
<1>. QED BY <1>1, <1>2, <1>3
         DEF Next, Elapse, ClockSet, FifoRead, LocalUpDown, Terminated, vars, tracerVars, Steady

\* The entry of a connection that is past close_pre_handle is gone, so it is not
\* young.
LEMMA DelayKept == DelayInv => CloseDelayed
<1>1. SUFFICES ASSUME DelayInv, NEW p \in Pids, ts[p] = "kernel", regs[p].op = "close"
               PROVE  <<grp[p], regs[p].fd>> \notin young
  BY DEF CloseDelayed
<1>2. grp[p] = p /\ regs[p].fd \in Fds
  BY <1>1 DEF DelayInv, OwnInv, OwnFds, CallArgs
<1>3. ~Held(p, regs[p].fd) /\ ts[p] \in Running BY <1>1 DEF Held, Running
<1>4. Slot(p, regs[p].fd) BY <1>1, <1>2 DEF DelayInv, Slots
<1>. QED BY <1>2, <1>3, <1>4 DEF Slot

\* As long as the tracer runs, a connection that close(2) closes is MIN_CLOSE_MSEC
\* old, for any number of processes and with tracees killed at any time.  Beyond what
\* ConnectsWhileTraced needs of the table, no entry may stay behind under a wrong key,
\* which is what a socket(2) that fails leaves, none may be found before a younger one,
\* which is what an expansion of the table does, and the clock must not be set.
THEOREM ClosesWhileTraced ==
  ASSUME Trusted, Steady
  PROVE  Spec => [](pc # "exited" => CloseDelayed)
<1>. DEFINE Inv == TypeOK /\ (pc # "exited" => PhaseInv /\ DelayInv)
<1>1. Init => Inv BY InitType, PhaseInit, DelayInit
<1>2. Inv /\ [Next]_vars => Inv'
  <2>. SUFFICES ASSUME Inv, [Next]_vars PROVE Inv' OBVIOUS
  <2>1. TypeOK' BY NextType
  <2>2. ASSUME pc' # "exited" PROVE PhaseInv' /\ DelayInv'
    <3>1. pc # "exited" BY <2>2, ExitIsFinal
    <3>. QED BY <2>2, <3>1, PhaseNext, DelayNext DEF Trusted, TracedPhase
  <2>. QED BY <2>1, <2>2
<1>3. Inv => (pc # "exited" => CloseDelayed) BY DelayKept
<1>. QED BY <1>1, <1>2, <1>3, PTL DEF Spec

\* CloseDelayed for any number of processes: no close(2) at all gets past the tracer
\* too early, if nothing ends the tracer before its last tracee and the conditions of
\* ClosesWhileTraced hold.
THEOREM CloseWaits ==
  ASSUME Trusted, Steady, Undisturbed
  PROVE  Spec => []CloseDelayed
<1>1. TracedToTheEnd /\ (pc # "exited" => CloseDelayed) => CloseDelayed
  BY DEF TracedToTheEnd, CloseDelayed, Running
<1>2. Spec => [](pc # "exited" => CloseDelayed) BY ClosesWhileTraced
<1>3. Spec => []TracedToTheEnd BY StaysToTheEnd
<1>. QED BY <1>1, <1>2, <1>3, PTL

=============================================================================
