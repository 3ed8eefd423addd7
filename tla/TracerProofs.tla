---------------------------- MODULE TracerProofs ----------------------------
(***************************************************************************)
(* Proofs about Tracer, for any number of tracees, descriptors,            *)
(* destinations, system calls and FIFO records.                            *)
(***************************************************************************)
EXTENDS Tracer, SequenceTheorems, TLAPS

-----------------------------------------------------------------------------
(* Keys *)

\* A key of SOCKET_INFO_TAB (main.c: (fd << 31) + pid, compared on 32 bits) is a
\* number below 2 * HighBit.
LEMMA KeyType ==
  ASSUME NEW fd \in Int, NEW pid \in Int
  PROVE  Key(fd, pid) \in Keys
<1>1. 2 * HighBit \in Nat \ {0} BY HighBitAssumption
<1>2. fd * HighBit + pid \in Int BY HighBitAssumption
<1>. QED BY <1>1, <1>2 DEF Key, Keys

\* Division by a positive number leaves one remainder only.
LEMMA ModUnique ==
  ASSUME NEW n \in Nat \ {0}, NEW a \in Int, NEW r \in 0 .. (n - 1)
  PROVE  (n * a + r) % n = r
<1>. DEFINE x == n * a + r
            q == x \div n
            s == x % n
<1>1. x \in Int /\ q \in Int /\ s \in 0 .. (n - 1) /\ x = n * q + s
  OBVIOUS
<1>. HIDE DEF q, s
<1>2. n * (q - a) = r - s
  BY <1>1, Z3
<1>3. ~(q - a >= 1)
  <2>. SUFFICES ASSUME q - a >= 1 PROVE FALSE OBVIOUS
  <2>1. n * (q - a) >= n BY <1>1, Z3
  <2>. QED BY <1>1, <1>2, <2>1, Z3
<1>4. ~(q - a <= -1)
  <2>. SUFFICES ASSUME q - a <= -1 PROVE FALSE OBVIOUS
  <2>1. n * (q - a) <= -n BY <1>1, Z3
  <2>. QED BY <1>1, <1>2, <2>1, Z3
<1>5. q = a BY <1>1, <1>3, <1>4
<1>. QED BY <1>1, <1>2, <1>5 DEF s

\* Of a descriptor the key keeps the lowest bit only, next to the whole pid.
LEMMA KeyValue ==
  ASSUME NEW fd \in Nat, NEW pid \in 1 .. (HighBit - 1)
  PROVE  Key(fd, pid) = (fd % 2) * HighBit + pid
<1>. DEFINE a == fd \div 2
            b == fd % 2
<1>1. a \in Nat /\ b \in {0, 1} /\ fd = 2 * a + b OBVIOUS
<1>. HIDE DEF a, b
<1>2. 2 * HighBit \in Nat \ {0} BY HighBitAssumption
<1>3. b * HighBit + pid \in 0 .. (2 * HighBit - 1) BY <1>1, HighBitAssumption
<1>4. fd * HighBit + pid = (2 * HighBit) * a + (b * HighBit + pid)
  BY <1>1, HighBitAssumption, Z3
<1>5. ((2 * HighBit) * a + (b * HighBit + pid)) % (2 * HighBit) = b * HighBit + pid
  BY <1>1, <1>2, <1>3, ModUnique
<1>. QED BY <1>4, <1>5 DEF Key, b

\* Two sockets share a key of SOCKET_INFO_TAB exactly when they belong to the
\* same thread and their descriptors are both even or both odd: the tracer never
\* confuses two threads, and always confuses descriptors 3 and 5.
THEOREM KeyCollision ==
  ASSUME NEW f \in Nat, NEW g \in Nat,
         NEW p \in 1 .. (HighBit - 1), NEW q \in 1 .. (HighBit - 1)
  PROVE  Key(f, p) = Key(g, q) <=> (p = q /\ f % 2 = g % 2)
<1>1. Key(f, p) = (f % 2) * HighBit + p BY KeyValue
<1>2. Key(g, q) = (g % 2) * HighBit + q BY KeyValue
<1>3. f % 2 \in {0, 1} /\ g % 2 \in {0, 1} OBVIOUS
<1>. QED BY <1>1, <1>2, <1>3, HighBitAssumption

-----------------------------------------------------------------------------
(* Types *)

\* What putdata writes into a sockaddr, PROXY_SA or PROXY_SA6, is an address.
LEMMA AddrTypes ==
  /\ NoAddr \in Addrs
  /\ Dests \subseteq Addrs
  /\ \A fam : ProxySa(fam) \in Addrs
BY DEF Addrs, ProxySa

\* The registers get_syscall_arg reads hold one of the calls of the application.
LEMMA CallTypes == NoCall \in RegsType /\ Calls \subseteq RegsType
<1>1. \A op \in Ops, fd \in Fds \cup {0}, kind \in AllSockKinds, opts \in SUBSET AllCloneOpts :
         Call(op, fd, kind, opts) \in RegsType
  BY DEF Call, RegsType
<1>2. NoCall \in RegsType
  BY <1>1 DEF NoCall, Ops, AllSockKinds
<1>3. ASSUME NEW c \in Calls PROVE c \in RegsType
  <2>1. SockKinds \subseteq AllSockKinds /\ CloneOpts \subseteq SUBSET AllCloneOpts
    BY PtraceAssumption
  <2>. QED BY <1>1, <2>1 DEF Calls, Ops, AllSockKinds
<1>. QED BY <1>2, <1>3

\* The state that init() leaves behind has the right types.
LEMMA InitType == Init => TypeOK
<1>. SUFFICES ASSUME Init PROVE TypeOK OBVIOUS
<1>1. TraceeTypeOK
  <2>1. outcome \in [Pids -> Outcomes]
    BY AddrTypes DEF Init, TraceeInit, NoOutcome, Outcomes
  <2>2. fdt \in [Pids -> [Fds -> AllSockKinds \cup {"closed"}]]
    BY DEF Init, TraceeInit, NoFds
  <2>3. ts \in [Pids -> TraceeState]
    BY DEF Init, TraceeInit, TraceeState, Running, Stops, HeldStops
  <2>. QED
    BY <2>1, <2>2, <2>3, AddrTypes, CallTypes, PtraceAssumption
       DEF Init, TraceeInit, TraceeTypeOK
<1>2. TracerTypeOK
  <2>1. pinfo \in [Pids -> ProcInfo]
    BY DEF Init, alloc_proc_info, ProcInfo, Ops
  <2>2. tab \in [Keys -> Seq(SocketInfo)]
    BY DEF Init, EmptyTable
  <2>. QED BY <2>1, <2>2, PtraceAssumption DEF Init, TracerTypeOK
<1>. QED BY <1>1, <1>2 DEF TypeOK

\* Two updates of a function keep its type.
LEMMA ExceptTwice ==
  ASSUME NEW S, NEW T, NEW f \in [S -> T], NEW a, NEW b, NEW x \in T, NEW y \in T
  PROVE  [f EXCEPT ![a] = x, ![b] = y] \in [S -> T]
OBVIOUS

\* A record written to the FIFO (connect_pre_handle) leaves a sequence of records.
LEMMA AppendType ==
  ASSUME NEW S, NEW s \in Seq(S), NEW e \in S
  PROVE  Append(s, e) \in Seq(S)
OBVIOUS

TableType == [Keys -> Seq(SocketInfo)]

\* Turning every chain round (uthash.h: HASH_EXPAND_BUCKETS) keeps the type.
LEMMA ExpandedType ==
  ASSUME NEW t \in TableType
  PROVE  Expanded(t) \in TableType
<1>1. ASSUME NEW k \in Keys PROVE Reverse(t[k]) \in Seq(SocketInfo)
  <2>1. t[k] \in Seq(SocketInfo) BY DEF TableType
  <2>2. \A i \in 1 .. Len(t[k]) : t[k][(Len(t[k]) - i) + 1] \in SocketInfo BY <2>1
  <2>3. Len(t[k]) \in Nat BY <2>1
  <2>. QED BY <2>2, <2>3, IsASeq DEF Reverse
<1>. QED BY <1>1 DEF Expanded, TableType

\* The operations of util.c on SOCKET_INFO_TAB keep the type of the table, and
\* find_socket_info returns an entry.
LEMMA TableTypes ==
  ASSUME NEW t \in TableType, NEW k \in Keys, NEW si \in SocketInfo
  PROVE  /\ add_socket_info(t, k, si) \subseteq TableType
         /\ HasSocketInfo(t, k) => /\ find_socket_info(t, k) \in SocketInfo
                                   /\ del_socket_info(t, k) \in TableType
                                   /\ set_socket_info(t, k, si) \in TableType
<1>1. t[k] \in Seq(SocketInfo) BY DEF TableType
<1>2. <<si>> \o t[k] \in Seq(SocketInfo) BY <1>1
<1>3. add_socket_info(t, k, si) \subseteq TableType
  <2>1. [t EXCEPT ![k] = <<si>> \o @] \in TableType BY <1>2 DEF TableType
  <2>. QED BY <2>1, ExpandedType DEF add_socket_info, Expansions
<1>4. ASSUME HasSocketInfo(t, k)
      PROVE  /\ find_socket_info(t, k) \in SocketInfo
             /\ del_socket_info(t, k) \in TableType
             /\ set_socket_info(t, k, si) \in TableType
  <2>1. Head(t[k]) \in SocketInfo /\ Tail(t[k]) \in Seq(SocketInfo)
    BY <1>1, <1>4 DEF HasSocketInfo
  <2>2. <<si>> \o Tail(t[k]) \in Seq(SocketInfo) BY <2>1
  <2>. QED BY <2>1, <2>2 DEF find_socket_info, del_socket_info, set_socket_info, TableType
<1>. QED BY <1>3, <1>4

\* What the application and the kernel do keeps the types of the tracees' state.
LEMMA TraceeType ==
  ASSUME TypeOK, NEW p \in Pids, Tracee(p)
  PROVE  TypeOK'
<1>. USE DEF TypeOK, TraceeTypeOK
<1>. SUFFICES TraceeTypeOK' BY DEF Tracee, tracerVars, TracerTypeOK
<1>s. /\ {"entry", "exit", "event", "sigstop", "zombie", "escaped"} \subseteq TraceeState
      /\ AllSignals \subseteq TraceeState /\ "none" \in Ops
      /\ \A s \in Stops \cup HeldStops : Resumed[s] \in TraceeState
  BY DEF TraceeState, Running, Stops, HeldStops, Resumed, AllSignals, Ops
<1>k. /\ SockKinds \subseteq AllSockKinds /\ Fds \subseteq Nat
      /\ Signals \subseteq TraceeState /\ SockErrs \subseteq Int
  BY <1>s, PtraceAssumption
<1>o. NoOutcome \in Outcomes BY AddrTypes DEF NoOutcome, Outcomes
<1>1. ASSUME NEW c \in Calls, Syscall(p, c) PROVE TraceeTypeOK'
  <2>1. c \in RegsType BY CallTypes
  <2>2. ts' \in [Pids -> TraceeState] /\ regs' \in [Pids -> RegsType]
    BY <1>1, <1>s, <2>1 DEF Syscall
  <2>3. rax' \in [Pids -> Int] /\ calls' \in 0 .. MaxCalls
    BY <1>1, PtraceAssumption DEF Syscall, ENOSYS
  <2>4. /\ noted' \in [Pids -> Addrs] /\ outcome' \in [Pids -> Outcomes]
        /\ buf' \in [Pids -> Addrs] /\ want' \in [Pids -> Addrs]
    <3>1. /\ noted' \in [Pids -> Addrs] /\ outcome' \in [Pids -> Outcomes]
      BY <1>1, <1>o, AddrTypes DEF Syscall
    <3>2. CASE UNCHANGED <<buf, want>> BY <3>1, <3>2
    <3>3. CASE \E d \in Dests : /\ buf' = [buf EXCEPT ![p] = d]
                                /\ want' = [want EXCEPT ![p] = d]
      BY <3>1, <3>3, AddrTypes
    <3>. QED BY <1>1, <3>2, <3>3 DEF Syscall
  <2>. QED BY <1>1, <2>2, <2>3, <2>4 DEF Syscall
<1>2. ASSUME NEW s \in Signals, Signal(p, s) PROVE TraceeTypeOK'
  <2>1. ts' \in [Pids -> TraceeState] BY <1>2, <1>k DEF Signal
  <2>2. regs' \in [Pids -> RegsType]
    <3>1. [regs EXCEPT ![p].op = "none"] \in [Pids -> RegsType] BY <1>s DEF RegsType
    <3>. QED BY <1>2, <3>1 DEF Signal
  <2>3. calls' \in 0 .. MaxCalls BY <1>2, PtraceAssumption DEF Signal
  <2>. QED BY <1>2, <2>1, <2>2, <2>3 DEF Signal
<1>3. CASE SigKill(p)
  <2>1. ts' \in [Pids -> TraceeState] BY <1>3, <1>s DEF SigKill, Die, Threads
  <2>. QED BY <1>3, <2>1 DEF SigKill
<1>4. CASE Kernel(p)
  <2>. USE <1>4 DEF Kernel, memVars, Return
  <2>r. /\ regs[p] \in RegsType /\ regs[p].kind \in AllSockKinds /\ grp[p] \in Pids
        /\ fdt[grp[p]] \in [Fds -> AllSockKinds \cup {"closed"}]
    BY DEF RegsType
  <2>1. CASE KernelSocket(p)
    <3>1. ts' \in [Pids -> TraceeState] BY <2>1, <1>s DEF KernelSocket
    <3>2. rax' \in [Pids -> Int]
      BY <2>1, <1>k DEF KernelSocket, FreeFds, EMFILE
    <3>3. fdt' \in [Pids -> [Fds -> AllSockKinds \cup {"closed"}]]
      <4>1. ASSUME NEW fd \in Fds, fdt' = [fdt EXCEPT ![grp[p]][fd] = regs[p].kind]
            PROVE  fdt' \in [Pids -> [Fds -> AllSockKinds \cup {"closed"}]]
        BY <4>1, <2>r
      <4>. QED BY <2>1, <4>1 DEF KernelSocket, FreeFds
    <3>. QED BY <2>1, <3>1, <3>2, <3>3 DEF KernelSocket
  <2>2. CASE KernelConnect(p)
    <3>1. ts' \in [Pids -> TraceeState] /\ rax' \in [Pids -> Int]
      BY <2>2, <1>s DEF KernelConnect
    <3>2. outcome' \in [Pids -> Outcomes]
      <4>1. regs[p].fd \in OpenFds(p) => fdt[grp[p]][regs[p].fd] \in AllSockKinds
        BY <1>k, <2>r DEF OpenFds
      <4>2. regs[p].fd \in OpenFds(p) =>
              [kind |-> fdt[grp[p]][regs[p].fd], want |-> want[p],
               to |-> buf[p], noted |-> noted[p]] \in Outcomes
        BY <4>1 DEF Outcomes
      <4>. QED BY <2>2, <4>2 DEF KernelConnect
    <3>. QED BY <2>2, <3>1, <3>2 DEF KernelConnect
  <2>3. CASE KernelClose(p)
    <3>1. ts' \in [Pids -> TraceeState] /\ rax' \in [Pids -> Int]
      BY <2>3, <1>s DEF KernelClose
    <3>2. fdt' \in [Pids -> [Fds -> AllSockKinds \cup {"closed"}]]
      BY <2>3, <2>r DEF KernelClose
    <3>. QED BY <2>3, <3>1, <3>2 DEF KernelClose
  <2>4. CASE KernelClone(p)
    <3>1. CASE FreePids = {} BY <2>4, <3>1, <1>s DEF KernelClone
    <3>2. CASE FreePids # {}
      <4>1. PICK q \in FreePids :
              /\ ts' = [ts EXCEPT ![p] = IF "untraced" \notin regs[p].opts THEN "event" ELSE "exit",
                                  ![q] = IF "untraced" \notin regs[p].opts THEN "sigstop" ELSE "escaped"]
              /\ grp' = [grp EXCEPT ![q] = IF "thread" \in regs[p].opts THEN grp[p] ELSE q]
              /\ fdt' = IF "thread" \in regs[p].opts THEN fdt
                        ELSE [fdt EXCEPT ![q] =
                                IF "inherit" \in regs[p].opts THEN fdt[grp[p]] ELSE NoFds]
              /\ rax' = [rax EXCEPT ![p] = 0, ![q] = 0]
              /\ regs' = [regs EXCEPT ![q] = regs[p]]
              /\ buf' = [buf EXCEPT ![q] = buf[p]]
              /\ want' = [want EXCEPT ![q] = want[p]]
              /\ used' = used \cup {q}
        BY <2>4, <3>2 DEF KernelClone
      <4>2. q \in Pids BY DEF FreePids
      <4>3. ts' \in [Pids -> TraceeState] BY <4>1, <1>s
      <4>4. fdt' \in [Pids -> [Fds -> AllSockKinds \cup {"closed"}]]
        BY <4>1, <2>r DEF NoFds
      <4>5. grp' \in [Pids -> Pids] /\ used' \subseteq Pids BY <4>1, <4>2, <2>r
      <4>6. rax' \in [Pids -> Int]
        <5>1. rax \in [Pids -> Int] /\ 0 \in Int OBVIOUS
        <5>2. [rax EXCEPT ![p] = 0, ![q] = 0] \in [Pids -> Int] BY <5>1, ExceptTwice
        <5>. QED BY <4>1, <5>2
      <4>8. regs' \in [Pids -> RegsType] BY <4>1, <2>r
      <4>7. buf' \in [Pids -> Addrs] /\ want' \in [Pids -> Addrs] BY <4>1
      <4>. QED BY <2>4, <4>3, <4>4, <4>5, <4>6, <4>7, <4>8 DEF KernelClone
    <3>. QED BY <3>1, <3>2
  <2>5. CASE KernelExec(p)
    BY <2>5, <1>s DEF KernelExec
  <2>6. CASE KernelExit(p)
    BY <2>6, <1>s DEF KernelExit, Die, Threads
  <2>7. CASE KernelOther(p)
    BY <2>7, <1>s DEF KernelOther
  <2>. QED BY <2>1, <2>2, <2>3, <2>4, <2>5, <2>6, <2>7
<1>5. CASE Finish(p)
  BY <1>5, <1>s DEF Finish, Return
<1>6. CASE Detach(p)
  BY <1>6, <1>s DEF Detach
<1>. QED BY <1>1, <1>2, <1>3, <1>4, <1>5, <1>6 DEF Tracee, TraceeStep

\* Resuming or leaving a tracee keeps the type of ts.
LEMMA ResumeType ==
  ASSUME TypeOK, pc = "handle", status \in Stops
  PROVE  /\ Resume => ts' \in [Pids -> TraceeState]
         /\ \A x \in HeldStops : [ts EXCEPT ![cur] = x] \in [Pids -> TraceeState]
<1>1. Resumed[status] \in TraceeState /\ HeldStops \subseteq TraceeState
  BY DEF Resumed, Stops, TraceeState, Running
<1>2. ts \in [Pids -> TraceeState] BY DEF TypeOK, TraceeTypeOK
<1>. QED BY <1>1, <1>2 DEF Resume

\* The part of the state that the system call handlers change keeps its type.
HandlerTypeOK ==
  /\ regs \in [Pids -> RegsType]
  /\ buf \in [Pids -> Addrs]
  /\ noted \in [Pids -> Addrs]
  /\ tab \in TableType
  /\ fifo \in Seq(FifoRecord)
  /\ young \subseteq Pids \X (Fds \cup {0})
  /\ pinfo \in [Pids -> ProcInfo]

\* What the proofs about the handlers of main.c need of TypeOK, in short.
LEMMA TypeParts ==
  ASSUME TypeOK
  PROVE  /\ HandlerTypeOK /\ cur \in Pids /\ regs[cur] \in RegsType /\ regs[cur].fd \in Int
         /\ cur \in Int /\ rax[cur] \in Int /\ MAGIC_FD \in Int
<1>1. HandlerTypeOK /\ cur \in Pids
  BY DEF TypeOK, TraceeTypeOK, TracerTypeOK, HandlerTypeOK, TableType
<1>2. regs[cur] \in RegsType BY <1>1 DEF HandlerTypeOK
<1>3. regs[cur].fd \in Int
  <2>1. regs[cur].fd \in Fds \cup {0} BY <1>2 DEF RegsType
  <2>2. Fds \cup {0} \subseteq Int BY PtraceAssumption
  <2>. QED BY <2>1, <2>2, Zenon
<1>4. cur \in Int BY <1>1, TracerAssumption, HighBitAssumption
<1>5. rax[cur] \in Int BY <1>1 DEF TypeOK, TraceeTypeOK
<1>6. MAGIC_FD \in Int BY SMT DEF MAGIC_FD
<1>. QED BY <1>1, <1>2, <1>3, <1>4, <1>5, <1>6

\* trace_syscall_entering keeps the types of what a handler may change.
LEMMA EnteringType ==
  ASSUME TypeOK, trace_syscall_entering(cur)
  PROVE  HandlerTypeOK'
<1>. DEFINE csn == get_syscall_number(cur)
            k == Key(regs[cur].fd, cur)
            m == Key(MAGIC_FD, cur)
<1>1. /\ HandlerTypeOK /\ cur \in Pids /\ regs[cur] \in RegsType
      /\ k \in Keys /\ m \in Keys
  BY TypeParts, KeyType
<1>2. csn \in Ops BY <1>1 DEF get_syscall_number, RegsType, Ops
<1>3. pinfo' \in [Pids -> ProcInfo]
  BY <1>1, <1>2 DEF trace_syscall_entering, HandlerTypeOK, ProcInfo
<1>. HIDE DEF csn, k, m
<1>4. CASE UNCHANGED handlerVars
  BY <1>1, <1>3, <1>4 DEF handlerVars, HandlerTypeOK
<1>5. CASE socket_pre_handle(cur)
  <2>1. [fd |-> -1, fresh |-> FALSE] \in SocketInfo BY DEF SocketInfo
  <2>2. tab' \in TableType
    BY <1>1, <1>5, <2>1, TableTypes DEF socket_pre_handle, m, HandlerTypeOK
  <2>. QED BY <1>1, <1>3, <1>5, <2>2 DEF socket_pre_handle, HandlerTypeOK
<1>6. CASE connect_pre_handle(cur)
  <2>1. SUFFICES ASSUME ~UNCHANGED handlerVars PROVE HandlerTypeOK'
    BY <1>4
  <2>2. /\ HasSocketInfo(tab, k)
        /\ buf' = [buf EXCEPT ![cur] = ProxySa(buf[cur].fam)]
        /\ tab' = set_socket_info(tab, k, [fd |-> find_socket_info(tab, k).fd, fresh |-> TRUE])
        /\ fifo' = IF reader THEN Append(fifo, [addr |-> buf[cur], pid |-> cur]) ELSE fifo
        /\ noted' = [noted EXCEPT ![cur] = IF reader THEN buf[cur] ELSE NoAddr]
        /\ young' = young \cup {<<grp[cur], regs[cur].fd>>}
        /\ UNCHANGED regs
    BY <1>6, <2>1 DEF connect_pre_handle, k, get_syscall_arg, getdata, putdata
  <2>3. buf[cur] \in Addrs /\ regs[cur].fd \in Fds \cup {0} /\ grp[cur] \in Pids
    BY <1>1 DEF HandlerTypeOK, RegsType, TypeOK, TraceeTypeOK
  <2>4. buf' \in [Pids -> Addrs] /\ noted' \in [Pids -> Addrs]
    BY <1>1, <2>2, <2>3, AddrTypes DEF HandlerTypeOK
  <2>5. fifo' \in Seq(FifoRecord)
    <3>1. [addr |-> buf[cur], pid |-> cur] \in FifoRecord
      BY <1>1, <2>3 DEF FifoRecord
    <3>2. fifo \in Seq(FifoRecord) BY <1>1 DEF HandlerTypeOK
    <3>3. Append(fifo, [addr |-> buf[cur], pid |-> cur]) \in Seq(FifoRecord)
      BY <3>1, <3>2, AppendType
    <3>. QED BY <2>2, <3>2, <3>3
  <2>6. tab' \in TableType
    <3>1. find_socket_info(tab, k) \in SocketInfo
      <4>1. [fd |-> -1, fresh |-> FALSE] \in SocketInfo BY DEF SocketInfo
      <4>. QED BY <1>1, <2>2, <4>1, TableTypes DEF HandlerTypeOK
    <3>2. [fd |-> find_socket_info(tab, k).fd, fresh |-> TRUE] \in SocketInfo
      BY <3>1 DEF SocketInfo
    <3>. QED BY <1>1, <2>2, <3>2, TableTypes DEF HandlerTypeOK
  <2>. QED BY <1>1, <1>3, <2>2, <2>3, <2>4, <2>5, <2>6 DEF HandlerTypeOK
<1>7. CASE close_pre_handle(cur)
  <2>1. [fd |-> -1, fresh |-> FALSE] \in SocketInfo BY DEF SocketInfo
  <2>2. tab' \in TableType
    BY <1>1, <1>7, <2>1, TableTypes
    DEF close_pre_handle, k, get_syscall_arg, HandlerTypeOK
  <2>. QED BY <1>1, <1>3, <1>7, <2>2 DEF close_pre_handle, HandlerTypeOK
<1>8. CASE clone_pre_handle(cur)
  <2>1. regs' \in [Pids -> RegsType]
    BY <1>1, <1>8 DEF clone_pre_handle, HandlerTypeOK, RegsType
  <2>. QED BY <1>1, <1>3, <1>8, <2>1 DEF clone_pre_handle, HandlerTypeOK
<1>. QED BY <1>4, <1>5, <1>6, <1>7, <1>8 DEF trace_syscall_entering

\* trace_syscall_exiting does too; the result of socket(2) may be negative.
LEMMA ExitingType ==
  ASSUME TypeOK, trace_syscall_exiting(cur)
  PROVE  HandlerTypeOK'
<1>. DEFINE m == Key(MAGIC_FD, cur)
            k == Key(rax[cur], cur)
<1>1. HandlerTypeOK /\ cur \in Pids /\ rax[cur] \in Int /\ k \in Keys /\ m \in Keys
  BY TypeParts, KeyType
<1>2. pinfo' \in [Pids -> ProcInfo]
  BY <1>1 DEF trace_syscall_exiting, HandlerTypeOK, ProcInfo
<1>. HIDE DEF k, m
<1>3. CASE UNCHANGED handlerVars
  BY <1>1, <1>2, <1>3 DEF handlerVars, HandlerTypeOK
<1>4. CASE socket_exiting_handle(cur, rax[cur])
  <2>1. CASE HasSocketInfo(tab, m)
    <3>1. [fd |-> -1, fresh |-> FALSE] \in SocketInfo BY DEF SocketInfo
    <3>2. find_socket_info(tab, m) \in SocketInfo /\ del_socket_info(tab, m) \in TableType
      BY <1>1, <2>1, <3>1, TableTypes DEF HandlerTypeOK
    <3>3. [fd |-> rax[cur], fresh |-> find_socket_info(tab, m).fresh] \in SocketInfo
      BY <1>1, <3>2 DEF SocketInfo
    <3>4. tab' \in TableType
      BY <1>1, <1>4, <2>1, <3>2, <3>3, TableTypes DEF socket_exiting_handle, m, k
    <3>. QED BY <1>1, <1>2, <1>4, <3>4 DEF socket_exiting_handle, HandlerTypeOK
  <2>2. CASE ~HasSocketInfo(tab, m)
    BY <1>1, <1>2, <1>4, <2>2 DEF socket_exiting_handle, HandlerTypeOK, m
  <2>. QED BY <2>1, <2>2
<1>. QED BY <1>3, <1>4 DEF trace_syscall_exiting, get_retval

\* Every step of the tracer keeps the types.
LEMMA TracerStepType ==
  ASSUME TypeOK, TracerStep
  PROVE  TypeOK'
<1>0. /\ "absent" \in TraceeState /\ "none" \notin Stops /\ "zombie" \notin Stops
  BY DEF TraceeState, Stops
<1>h. ASSUME HandlerTypeOK', ts' \in [Pids -> TraceeState], UNCHANGED loopVars,
             pc' \in {"wait", "exited"}, cur' \in Pids, status' \in Stops \cup {"none", "zombie"}
      PROVE  TypeOK'
  BY <1>h DEF HandlerTypeOK, loopVars, TypeOK, TraceeTypeOK, TracerTypeOK, TableType
<1>l. Loop => pc' \in {"wait", "exited"} /\ cur' \in Pids /\ status' \in Stops \cup {"none", "zombie"}
  BY PtraceAssumption DEF Loop
<1>u. ASSUME UNCHANGED handlerVars, UNCHANGED pinfo PROVE HandlerTypeOK'
  BY <1>u, TypeParts DEF HandlerTypeOK, handlerVars
<1>t. ts \in [Pids -> TraceeState] /\ cur \in Pids /\ status \in Stops \cup {"none", "zombie"}
  BY DEF TypeOK, TraceeTypeOK, TracerTypeOK
<1>1. ASSUME NEW p \in Pids, Wait(p) PROVE TypeOK'
  <2>1. ts' \in [Pids -> TraceeState] BY <1>0, <1>1, <1>t DEF Wait
  <2>2. pinfo' \in [Pids -> ProcInfo]
    BY <1>1, TypeParts DEF Wait, HandlerTypeOK, ProcInfo
  <2>3. pc' \in {"handle", "exited"} /\ cur' \in Pids /\ status' \in Stops \cup {"none", "zombie"}
    BY <1>1 DEF Wait, Waitable
  <2>. QED BY <1>1, <2>1, <2>2, <2>3 DEF Wait, TypeOK, TraceeTypeOK, TracerTypeOK
<1>2. CASE WaitNoChild
  BY <1>2 DEF WaitNoChild, traceeVars, TypeOK, TraceeTypeOK, TracerTypeOK
<1>3. CASE HandleDeath
  <2>1. ts' \in [Pids -> TraceeState] BY <1>3, <1>t DEF HandleDeath
  <2>. QED BY <1>3, <1>h, <1>l, <1>u, <2>1 DEF HandleDeath
<1>4. CASE HandleSignal
  <2>1. ts' \in [Pids -> TraceeState] BY <1>4, ResumeType DEF HandleSignal, Stops
  <2>. QED BY <1>4, <1>h, <1>l, <1>u, <2>1 DEF HandleSignal
<1>5. CASE HandleEntering
  <2>1. status \in Stops BY <1>5 DEF HandleEntering, IsSyscallStop, Stops
  <2>2. ts' \in [Pids -> TraceeState] BY <1>5, <2>1, ResumeType DEF HandleEntering
  <2>3. HandlerTypeOK' BY <1>5, EnteringType DEF HandleEntering
  <2>. QED BY <1>5, <1>h, <1>l, <2>2, <2>3 DEF HandleEntering
<1>6. CASE HandleExiting
  <2>1. status \in Stops BY <1>6 DEF HandleExiting, IsSyscallStop, Stops
  <2>2. ts' \in [Pids -> TraceeState] BY <1>6, <1>t, <2>1, ResumeType DEF HandleExiting, HeldStops
  <2>3. HandlerTypeOK' BY <1>6, ExitingType DEF HandleExiting
  <2>. QED BY <1>6, <1>h, <1>l, <2>2, <2>3 DEF HandleExiting
<1>7. CASE HandleNoSuchProcess
  <2>1. ts' \in [Pids -> TraceeState] BY <1>7, <1>t DEF HandleNoSuchProcess
  <2>. QED BY <1>7, <1>h, <1>t, <1>u, <2>1 DEF HandleNoSuchProcess
<1>8. CASE HandleBrokenPipe
  <2>1. ts' \in [Pids -> TraceeState] BY <1>8, <1>t DEF HandleBrokenPipe
  <2>2. HandlerTypeOK'
    BY <1>8, TypeParts, AddrTypes DEF HandleBrokenPipe, HandlerTypeOK, putdata
  <2>. QED BY <1>8, <1>h, <1>t, <2>1, <2>2 DEF HandleBrokenPipe
<1>. QED BY <1>1, <1>2, <1>3, <1>4, <1>5, <1>6, <1>7, <1>8 DEF TracerStep

\* Connections that grow old keep the type of the table.
LEMMA AgedType ==
  ASSUME TypeOK
  PROVE  Aged(tab) \in [Keys -> Seq(SocketInfo)]
<1>1. ASSUME NEW k \in Keys
      PROVE  [i \in DOMAIN tab[k] |-> [tab[k][i] EXCEPT !.fresh = FALSE]] \in Seq(SocketInfo)
  <2>1. tab[k] \in Seq(SocketInfo) BY DEF TypeOK, TracerTypeOK
  <2>2. ASSUME NEW i \in DOMAIN tab[k]
        PROVE  [tab[k][i] EXCEPT !.fresh = FALSE] \in SocketInfo
    <3>1. tab[k][i] \in SocketInfo BY <2>1
    <3>. QED BY <3>1 DEF SocketInfo
  <2>3. PICK n \in Nat : DOMAIN tab[k] = 1 .. n BY <2>1
  <2>4. [i \in 1 .. n |-> [tab[k][i] EXCEPT !.fresh = FALSE]] \in [1 .. n -> SocketInfo]
    BY <2>2, <2>3
  <2>. QED BY <2>3, <2>4, SeqDef
<1>. QED BY <1>1 DEF Aged

\* Every step of the system keeps the types.
LEMMA NextType ==
  ASSUME TypeOK, [Next]_vars
  PROVE  TypeOK'
<1>1. CASE TracerStep BY <1>1, TracerStepType
<1>2. ASSUME NEW p \in Pids, Tracee(p) PROVE TypeOK' BY <1>2, TraceeType
<1>3. CASE Elapse
  BY <1>3, AgedType DEF Elapse, traceeVars, TypeOK, TraceeTypeOK, TracerTypeOK
<1>7. CASE ClockSet
  BY <1>7, AgedType DEF ClockSet, traceeVars, TypeOK, TraceeTypeOK, TracerTypeOK
<1>4. CASE FifoRead
  <2>1. Tail(fifo) \in Seq(FifoRecord) BY <1>4 DEF FifoRead, TypeOK, TracerTypeOK
  <2>. QED BY <1>4, <2>1 DEF FifoRead, traceeVars, TypeOK, TraceeTypeOK, TracerTypeOK
<1>5. CASE LocalUpDown
  BY <1>5 DEF LocalUpDown, traceeVars, TypeOK, TraceeTypeOK, TracerTypeOK
<1>6. CASE UNCHANGED vars
  BY <1>6 DEF vars, traceeVars, tracerVars, TypeOK, TraceeTypeOK, TracerTypeOK
<1>. QED BY <1>1, <1>2, <1>3, <1>4, <1>5, <1>6, <1>7 DEF Next, Terminated

\* The tracer's state keeps its types whatever the application, its signals, its
\* deaths and graftcp-local do.
THEOREM TypeCorrect == Spec => []TypeOK
<1>1. Init => TypeOK BY InitType
<1>2. TypeOK /\ [Next]_vars => TypeOK' BY NextType
<1>. QED BY <1>1, <1>2, PTL DEF Spec

-----------------------------------------------------------------------------
(* The phase of every tracee, and processes that escape *)

\* no stop but SIGSTOP's and system calls' own is taken for one of them, and
\* nobody inherits the proc_info of a dead tracee
Quiet == "stop" \notin Signals /\ "trap" \notin Signals /\ ~PidReuse

\* there are no stops that IsSyscallStop mistakes
NoOddStops ==
  /\ status \notin {"stop", "trap", "group"}
  /\ \A p \in Pids : ts[p] \notin {"stop", "trap", "group"}

\* between Wait and the handler the tracee stays in its stop, or is killed
CurStops ==
  pc = "handle" /\ status # "zombie" => status \in Stops /\ ts[cur] \in {status, "zombie"}

\* a pid that has never been handed out has a proc_info without FLAG_INSYSCALL
FreshPids ==
  /\ cur \in used /\ Root \in used
  /\ \A p \in Pids : p \notin used => ts[p] = "absent" /\ ~pinfo[p].insyscall

\* a clone(2) that the kernel sees has lost its CLONE_UNTRACED
CloneTraced ==
  \A p \in Pids : ts[p] = "kernel" /\ regs[p].op = "clone" => "untraced" \notin regs[p].opts

PhaseInv ==
  NoOddStops /\ CurStops /\ FreshPids /\ CloneTraced /\ PhaseInSync /\ NoEscape

\* a tracer that has ended keeps track of nothing
TracedPhase == pc # "exited" => PhaseInv

\* main() does not come back from its end.
LEMMA ExitIsFinal ==
  ASSUME [Next]_vars, pc = "exited"
  PROVE  UNCHANGED <<pc, cur, status, pinfo, reader>>
BY DEF Next, TracerStep, Wait, WaitNoChild, HandleDeath, HandleSignal, HandleEntering,
       HandleExiting, HandleNoSuchProcess, HandleBrokenPipe, Tracee, tracerVars, Elapse,
       ClockSet, FifoRead, LocalUpDown, Terminated, vars

\* The inductive invariant holds after init().
LEMMA PhaseInit == Init => PhaseInv
<1>. SUFFICES ASSUME Init PROVE PhaseInv OBVIOUS
<1>1. ts = [p \in Pids |-> IF p = Root THEN "sigstop" ELSE "absent"] /\ Root \in Pids
  BY PtraceAssumption DEF Init, TraceeInit
<1>2. used = {Root} /\ cur = Root /\ pc = "wait" /\ status = "none"
  BY DEF Init, TraceeInit
<1>3. \A p \in Pids : ~pinfo[p].insyscall BY DEF Init, alloc_proc_info
<1>. QED BY <1>1, <1>2, <1>3
         DEF PhaseInv, NoOddStops, CurStops, FreshPids, CloneTraced, PhaseInSync,
             NoEscape, Running, Stops, HeldStops

\* The tracees' own steps.
LEMMA PhaseTracee ==
  ASSUME Quiet, TypeOK, PhaseInv, pc # "exited", NEW p \in Pids, Tracee(p)
  PROVE  PhaseInv'
<1>. USE DEF PhaseInv
<1>0. UNCHANGED <<pc, cur, status, pinfo>> BY DEF Tracee, tracerVars
<1>t. ts \in [Pids -> TraceeState] /\ regs \in [Pids -> RegsType] /\ used \subseteq Pids
  BY DEF TypeOK, TraceeTypeOK
<1>c. cur \in Pids /\ used \subseteq Pids BY DEF TypeOK, TraceeTypeOK, TracerTypeOK
\* a step of one tracee that is not in a ptrace-stop
<1>m. ASSUME NEW x \in {"entry", "exit", "sigstop", "plain", "event"}, UNCHANGED used,
             ts[p] \in {"user", "kernel", "finish"},
             ts' = [ts EXCEPT ![p] = x],
             x \in {"entry", "sigstop", "plain"} <=> ts[p] = "user",
             \A q \in Pids : q # p => regs'[q] = regs[q]
      PROVE  PhaseInv'
  <2>1. NoOddStops' BY <1>0, <1>t, <1>m DEF NoOddStops
  <2>2. CurStops' BY <1>0, <1>t, <1>c, <1>m DEF CurStops, Stops
  <2>3. FreshPids' BY <1>0, <1>t, <1>m DEF FreshPids
  <2>4. CloneTraced' BY <1>t, <1>m DEF CloneTraced
  <2>5. PhaseInSync' BY <1>0, <1>t, <1>m DEF PhaseInSync, Running, Stops, HeldStops
  <2>6. NoEscape' BY <1>t, <1>m DEF NoEscape
  <2>. QED BY <2>1, <2>2, <2>3, <2>4, <2>5, <2>6
\* some live tracees die
<1>d. ASSUME NEW D \in SUBSET Pids, UNCHANGED <<used, regs>>,
             ts' = [q \in Pids |-> IF q \in D /\ ts[q] \in Running THEN "zombie" ELSE ts[q]]
      PROVE  PhaseInv'
  <2>1. NoOddStops' BY <1>0, <1>t, <1>d DEF NoOddStops
  <2>2. CurStops' BY <1>0, <1>t, <1>c, <1>d DEF CurStops
  <2>3. FreshPids' BY <1>0, <1>t, <1>d DEF FreshPids, Running, Stops, HeldStops
  <2>4. CloneTraced' BY <1>t, <1>d DEF CloneTraced
  <2>5. PhaseInSync' BY <1>0, <1>t, <1>d DEF PhaseInSync, Running, Stops, HeldStops
  <2>6. NoEscape' BY <1>t, <1>d DEF NoEscape
  <2>. QED BY <2>1, <2>2, <2>3, <2>4, <2>5, <2>6
<1>1. ASSUME NEW c \in Calls, Syscall(p, c) PROVE PhaseInv'
  BY <1>1, <1>m, <1>t DEF Syscall
<1>2. ASSUME NEW s \in Signals, Signal(p, s) PROVE PhaseInv'
  <2>1. s \in {"plain", "sigstop"} BY PtraceAssumption DEF Quiet, AllSignals
  <2>2. \A q \in Pids : q # p => regs'[q] = regs[q] BY <1>2, <1>t DEF Signal
  <2>. QED BY <1>2, <1>m, <2>1, <2>2 DEF Signal
<1>3. CASE SigKill(p)
  BY <1>3, <1>d DEF SigKill, Die, Threads
<1>4. CASE Kernel(p)
  <2>. USE <1>4 DEF Kernel, memVars, Return
  <2>1. CASE KernelSocket(p) BY <2>1, <1>m DEF KernelSocket
  <2>2. CASE KernelConnect(p) BY <2>2, <1>m DEF KernelConnect
  <2>3. CASE KernelClose(p) BY <2>3, <1>m DEF KernelClose
  <2>4. CASE KernelClone(p)
    <3>1. "untraced" \notin regs[p].opts BY <2>4 DEF KernelClone, CloneTraced
    <3>2. CASE FreePids = {} BY <2>4, <3>2, <1>m DEF KernelClone
    <3>3. CASE FreePids # {}
      <4>1. PICK q \in FreePids :
              /\ ts' = [ts EXCEPT ![p] = "event", ![q] = "sigstop"]
              /\ regs' = [regs EXCEPT ![q] = regs[p]]
              /\ used' = used \cup {q}
        BY <2>4, <3>1, <3>3 DEF KernelClone
      <4>2. q \in Pids /\ q \notin used /\ ts[q] = "absent" /\ q # p
        BY DEF FreePids, Quiet
      <4>3. ~pinfo[q].insyscall /\ q # cur BY <4>2 DEF FreshPids
      <4>4. ts[p] = "kernel" OBVIOUS
      <4>5. NoOddStops' BY <1>0, <1>t, <4>1 DEF NoOddStops
      <4>6. CurStops' BY <1>0, <1>t, <1>c, <4>1, <4>3, <4>4 DEF CurStops, Stops
      <4>7. FreshPids' BY <1>0, <1>t, <4>1, <4>4 DEF FreshPids
      <4>8. CloneTraced' BY <1>t, <4>1 DEF CloneTraced
      <4>9. PhaseInSync' BY <1>0, <1>t, <4>1, <4>2, <4>3, <4>4 DEF PhaseInSync, Running, Stops, HeldStops
      <4>10. NoEscape' BY <1>t, <4>1 DEF NoEscape
      <4>. QED BY <4>5, <4>6, <4>7, <4>8, <4>9, <4>10
    <3>. QED BY <3>2, <3>3
  <2>5. CASE KernelExec(p)
    <3>. DEFINE x == [q \in Pids |-> IF q = p THEN "event"
                        ELSE IF grp[q] = grp[p] /\ ts[q] \in Running THEN "zombie"
                        ELSE ts[q]]
    <3>1. ts' = x /\ UNCHANGED <<used, regs>> /\ ts[p] = "kernel" BY <2>5 DEF KernelExec
    <3>2. NoOddStops' BY <1>0, <1>t, <3>1 DEF NoOddStops
    <3>3. CurStops' BY <1>0, <1>t, <1>c, <3>1 DEF CurStops, Stops
    <3>4. FreshPids' BY <1>0, <1>t, <3>1 DEF FreshPids, Running, Stops, HeldStops
    <3>5. CloneTraced' BY <1>t, <3>1 DEF CloneTraced
    <3>6. PhaseInSync' BY <1>0, <1>t, <3>1 DEF PhaseInSync, Running, Stops, HeldStops
    <3>7. NoEscape' BY <1>t, <3>1 DEF NoEscape
    <3>. QED BY <3>2, <3>3, <3>4, <3>5, <3>6, <3>7
  <2>6. CASE KernelExit(p)
    <3>. DEFINE D == IF regs[p].op = "exit" THEN {p} ELSE Threads(p)
    <3>1. D \in SUBSET Pids BY DEF Threads
    <3>. QED BY <2>6, <1>d, <3>1 DEF KernelExit, Die
  <2>7. CASE KernelOther(p) BY <2>7, <1>m DEF KernelOther
  <2>. QED BY <2>1, <2>2, <2>3, <2>4, <2>5, <2>6, <2>7
<1>5. CASE Finish(p) BY <1>5, <1>m DEF Finish, Return
<1>. QED BY <1>1, <1>2, <1>3, <1>4, <1>5 DEF Tracee, TraceeStep

\* The tracer's own steps.
LEMMA PhaseTracer ==
  ASSUME TypeOK, PhaseInv, TracerStep
  PROVE  PhaseInv'
<1>. USE DEF PhaseInv
<1>p. pc # "exited"
  BY DEF TracerStep, Wait, WaitNoChild, HandleDeath, HandleSignal, HandleEntering,
         HandleExiting, HandleNoSuchProcess, HandleBrokenPipe
<1>t. /\ ts \in [Pids -> TraceeState] /\ regs \in [Pids -> RegsType]
      /\ pinfo \in [Pids -> ProcInfo] /\ cur \in Pids /\ used \subseteq Pids
  BY DEF TypeOK, TraceeTypeOK, TracerTypeOK
<1>r. Root \in used /\ Root \in Pids
  BY PtraceAssumption DEF FreshPids
<1>1. ASSUME NEW p \in Pids, Wait(p) PROVE PhaseInv'
  <2>1. /\ cur' = p /\ status' = ts[p] /\ pc' \in {"handle", "exited"}
        /\ ts' = [ts EXCEPT ![p] = IF @ = "zombie" THEN "absent" ELSE @]
        /\ UNCHANGED <<regs, used>> /\ ts[p] \in Stops \cup {"zombie"}
    BY <1>1 DEF Wait, Waitable
  <2>2. \A q \in Pids : pinfo'[q].insyscall = pinfo[q].insyscall
    BY <1>1, <1>t DEF Wait, ProcInfo
  <2>3. NoOddStops' BY <1>t, <2>1 DEF NoOddStops
  <2>4. CurStops' BY <1>t, <2>1 DEF CurStops
  <2>5. FreshPids' BY <1>t, <2>1, <2>2 DEF FreshPids, Stops
  <2>6. CloneTraced' BY <1>t, <2>1 DEF CloneTraced
  <2>7. PhaseInSync' BY <1>p, <1>t, <2>1, <2>2 DEF PhaseInSync, Running, Stops, HeldStops
  <2>8. NoEscape' BY <1>p, <1>t, <2>1 DEF NoEscape
  <2>. QED BY <2>3, <2>4, <2>5, <2>6, <2>7, <2>8
\* the tracer ends or goes back to wait(2) without touching a tracee
<1>e. ASSUME UNCHANGED <<ts, regs, used, pinfo>>, pc' # "handle",
             cur' \in used, status' \notin {"stop", "trap", "group"}
      PROVE  PhaseInv'
  BY <1>p, <1>e DEF NoOddStops, CurStops, FreshPids, CloneTraced, PhaseInSync, NoEscape
<1>2. CASE WaitNoChild
  BY <1>2, <1>e DEF WaitNoChild, traceeVars, FreshPids, NoOddStops
<1>3. CASE HandleDeath
  BY <1>3, <1>e, <1>r DEF HandleDeath, Loop, loopVars, handlerVars
<1>7. CASE HandleNoSuchProcess
  BY <1>7, <1>e DEF HandleNoSuchProcess, loopVars, handlerVars, FreshPids, NoOddStops
<1>8. CASE HandleBrokenPipe
  BY <1>8, <1>e DEF HandleBrokenPipe, loopVars, handlerVars, FreshPids, NoOddStops
<1>4. CASE HandleSignal
  <2>1. /\ pc = "handle" /\ status \in {"event", "sigstop", "plain"}
        /\ UNCHANGED <<regs, used, pinfo>> /\ pc' = "wait" /\ cur' = Root /\ status' = "none"
    BY <1>4 DEF HandleSignal, Loop, loopVars, handlerVars, NoOddStops
  <2>2. CASE Dead BY <1>4, <1>e, <1>r, <2>1, <2>2 DEF HandleSignal, Resume
  <2>3. CASE ~Dead
    <3>1. ts[cur] = status BY <2>3 DEF Dead
    <3>2. ts' = [ts EXCEPT ![cur] = IF status = "event" THEN "finish" ELSE "user"]
      <4>1. Resumed[status] = IF status = "event" THEN "finish" ELSE "user"
        BY <2>1 DEF Resumed
      <4>2. Resume BY <1>4 DEF HandleSignal
      <4>. QED BY <2>3, <4>1, <4>2 DEF Resume
    <3>3. NoOddStops' BY <1>t, <2>1, <3>2 DEF NoOddStops
    <3>4. CurStops' BY <2>1 DEF CurStops
    <3>5. FreshPids' BY <1>t, <1>r, <2>1, <3>2 DEF FreshPids
    <3>6. CloneTraced' BY <1>t, <2>1, <3>2 DEF CloneTraced
    <3>7. PhaseInSync' BY <1>p, <1>t, <2>1, <3>1, <3>2 DEF PhaseInSync, Running, Stops, HeldStops
    <3>8. NoEscape' BY <1>p, <1>t, <3>2 DEF NoEscape
    <3>. QED BY <3>3, <3>4, <3>5, <3>6, <3>7, <3>8
  <2>. QED BY <2>2, <2>3
<1>5. CASE HandleEntering
  <2>1. /\ pc = "handle" /\ status \in {"entry", "exit", "plain"} /\ ~pinfo[cur].insyscall
        /\ status = "plain" => Dead
        /\ UNCHANGED used /\ pc' = "wait" /\ cur' = Root /\ status' = "none"
    BY <1>5 DEF HandleEntering, IsSyscallStop, exiting, Loop, loopVars, NoOddStops
  <2>2. /\ \A q \in Pids : q # cur => pinfo'[q].insyscall = pinfo[q].insyscall
        /\ pinfo'[cur].insyscall
    BY <1>5, <1>t DEF HandleEntering, trace_syscall_entering, ProcInfo
  <2>3. \A q \in Pids : q # cur => regs'[q] = regs[q]
    BY <1>5, <1>t
       DEF HandleEntering, trace_syscall_entering, handlerVars, socket_pre_handle,
           connect_pre_handle, close_pre_handle, clone_pre_handle
  <2>4. CASE Dead
    <3>1. UNCHANGED ts BY <1>5, <2>4 DEF HandleEntering, Resume
    <3>2. ts[cur] = "zombie" BY <2>1, <2>4 DEF Dead, CurStops
    <3>3. NoOddStops' BY <2>1, <3>1 DEF NoOddStops
    <3>4. CurStops' BY <2>1 DEF CurStops
    <3>5. FreshPids' BY <1>r, <2>1, <2>2, <3>1 DEF FreshPids
    <3>6. CloneTraced' BY <2>3, <3>1, <3>2 DEF CloneTraced
    <3>7. PhaseInSync' BY <1>p, <2>2, <3>1, <3>2 DEF PhaseInSync, Running, Stops, HeldStops
    <3>8. NoEscape' BY <1>p, <3>1 DEF NoEscape
    <3>. QED BY <3>3, <3>4, <3>5, <3>6, <3>7, <3>8
  <2>5. CASE ~Dead
    <3>1. ts[cur] = "entry" /\ status = "entry"
      BY <1>p, <1>t, <2>1, <2>5 DEF Dead, PhaseInSync, Running, Stops, HeldStops
    <3>2. ts' = [ts EXCEPT ![cur] = "kernel"]
      BY <1>5, <2>5, <3>1 DEF HandleEntering, Resume, Resumed
    <3>3. regs'[cur].op = "clone" => "untraced" \notin regs'[cur].opts
      <4>1. get_syscall_number(cur) = regs[cur].op BY <2>5 DEF get_syscall_number
      <4>2. CASE regs[cur].op = "clone"
        <5>1. clone_pre_handle(cur)
          BY <1>5, <4>1, <4>2 DEF HandleEntering, trace_syscall_entering
        <5>. QED BY <1>t, <5>1 DEF clone_pre_handle, RegsType
      <4>3. CASE regs[cur].op # "clone"
        <5>1. UNCHANGED regs
          BY <1>5, <4>1, <4>3
             DEF HandleEntering, trace_syscall_entering, handlerVars, socket_pre_handle,
                 connect_pre_handle, close_pre_handle
        <5>. QED BY <4>3, <5>1
      <4>. QED BY <4>2, <4>3
    <3>4. NoOddStops' BY <1>t, <2>1, <3>2 DEF NoOddStops
    <3>5. CurStops' BY <2>1 DEF CurStops
    <3>6. FreshPids' BY <1>t, <1>r, <2>1, <2>2, <3>2 DEF FreshPids
    <3>7. CloneTraced' BY <1>t, <2>3, <3>2, <3>3 DEF CloneTraced
    <3>8. PhaseInSync' BY <1>p, <1>t, <2>2, <3>2 DEF PhaseInSync, Running, Stops, HeldStops
    <3>9. NoEscape' BY <1>p, <1>t, <3>2 DEF NoEscape
    <3>. QED BY <3>4, <3>5, <3>6, <3>7, <3>8, <3>9
  <2>. QED BY <2>4, <2>5
<1>6. CASE HandleExiting
  <2>1. /\ pc = "handle" /\ status \in {"entry", "exit", "plain"} /\ pinfo[cur].insyscall
        /\ status = "plain" => Dead
        /\ UNCHANGED <<used, regs>> /\ pc' = "wait" /\ cur' = Root /\ status' = "none"
    BY <1>6 DEF HandleExiting, IsSyscallStop, exiting, Loop, loopVars, NoOddStops,
                trace_syscall_exiting, handlerVars, socket_exiting_handle
  <2>2. /\ \A q \in Pids : q # cur => pinfo'[q].insyscall = pinfo[q].insyscall
        /\ ~pinfo'[cur].insyscall
    BY <1>6, <1>t DEF HandleExiting, trace_syscall_exiting, ProcInfo
  <2>3. CASE Dead
    <3>1. UNCHANGED ts BY <1>6, <2>3 DEF HandleExiting, Resume
    <3>2. ts[cur] = "zombie" BY <2>1, <2>3 DEF Dead, CurStops
    <3>3. NoOddStops' BY <2>1, <3>1 DEF NoOddStops
    <3>4. CurStops' BY <2>1 DEF CurStops
    <3>5. FreshPids' BY <1>r, <2>1, <2>2, <3>1 DEF FreshPids
    <3>6. CloneTraced' BY <2>1, <3>1 DEF CloneTraced
    <3>7. PhaseInSync' BY <1>p, <2>2, <3>1, <3>2 DEF PhaseInSync, Running, Stops, HeldStops
    <3>8. NoEscape' BY <1>p, <3>1 DEF NoEscape
    <3>. QED BY <3>3, <3>4, <3>5, <3>6, <3>7, <3>8
  <2>4. CASE ~Dead
    <3>1. ts[cur] = "exit" /\ status = "exit"
      BY <1>p, <1>t, <2>1, <2>4 DEF Dead, PhaseInSync, Running, Stops, HeldStops
    <3>2. PICK x \in {"held", "user"} : ts' = [ts EXCEPT ![cur] = x]
      <4>1. CASE IsExit(pinfo[cur].csn)
        BY <1>6, <2>4, <3>1, <4>1 DEF HandleExiting
      <4>2. CASE ~IsExit(pinfo[cur].csn)
        <5>1. Resume BY <1>6, <4>2 DEF HandleExiting
        <5>2. Resumed[status] = "user" BY <3>1 DEF Resumed
        <5>. QED BY <2>4, <5>1, <5>2 DEF Resume
      <4>. QED BY <4>1, <4>2
    <3>3. NoOddStops' BY <1>t, <2>1, <3>2 DEF NoOddStops
    <3>4. CurStops' BY <2>1 DEF CurStops
    <3>5. FreshPids' BY <1>t, <1>r, <2>1, <2>2, <3>2 DEF FreshPids
    <3>6. CloneTraced' BY <1>t, <2>1, <3>2 DEF CloneTraced
    <3>7. PhaseInSync' BY <1>p, <1>t, <2>2, <3>2 DEF PhaseInSync, Running, Stops, HeldStops
    <3>8. NoEscape' BY <1>p, <1>t, <3>2 DEF NoEscape
    <3>. QED BY <3>3, <3>4, <3>5, <3>6, <3>7, <3>8
  <2>. QED BY <2>3, <2>4
<1>. QED BY <1>1, <1>2, <1>3, <1>4, <1>5, <1>6, <1>7, <1>8 DEF TracerStep

\* The inductive invariant is kept by every step of the system.
LEMMA PhaseNext ==
  ASSUME Quiet, TypeOK, TracedPhase, [Next]_vars
  PROVE  TracedPhase'
<1>0. pc = "exited" => pc' = "exited" BY ExitIsFinal
<1>. SUFFICES ASSUME pc # "exited" PROVE PhaseInv' BY <1>0 DEF TracedPhase
<1>. PhaseInv BY DEF TracedPhase
<1>1. CASE TracerStep BY <1>1, PhaseTracer
<1>2. ASSUME NEW p \in Pids, Tracee(p) PROVE PhaseInv' BY <1>2, PhaseTracee
<1>3. CASE UNCHANGED <<traceeVars, pc, cur, status, pinfo>>
  BY <1>3 DEF traceeVars, PhaseInv, NoOddStops, CurStops, FreshPids, CloneTraced,
              PhaseInSync, NoEscape
<1>. QED BY <1>1, <1>2, <1>3
         DEF Next, Elapse, ClockSet, FifoRead, LocalUpDown, Terminated, vars, tracerVars

\* As long as the tracer runs, FLAG_INSYSCALL follows the kernel's phase of every
\* live tracee, if no tracee gets a stopping signal or a SIGTRAP and no pid is used
\* twice.
THEOREM PhaseCorrect ==
  ASSUME Quiet
  PROVE  Spec => []PhaseInSync
<1>1. Init => TypeOK /\ TracedPhase BY InitType, PhaseInit DEF TracedPhase
<1>2. TypeOK /\ TracedPhase /\ [Next]_vars => (TypeOK /\ TracedPhase)'
  BY NextType, PhaseNext
<1>3. TracedPhase => PhaseInSync BY DEF TracedPhase, PhaseInv, PhaseInSync
<1>. QED BY <1>1, <1>2, <1>3, PTL DEF Spec

\* No process escapes a running tracer by CLONE_UNTRACED under the same conditions,
\* with any number of processes and threads, kills included.
THEOREM EscapeImpossible ==
  ASSUME Quiet
  PROVE  Spec => []NoEscape
<1>1. Init => TypeOK /\ TracedPhase BY InitType, PhaseInit DEF TracedPhase
<1>2. TypeOK /\ TracedPhase /\ [Next]_vars => (TypeOK /\ TracedPhase)'
  BY NextType, PhaseNext
<1>3. TracedPhase => NoEscape BY DEF TracedPhase, PhaseInv, NoEscape
<1>. QED BY <1>1, <1>2, <1>3, PTL DEF Spec

-----------------------------------------------------------------------------
(* A connect(2) is redirected only after its destination was announced,     *)
(* however confused the tracer is about the phase of its tracees: signals,  *)
(* kills, reused pids and a graftcp-local that comes and goes included.     *)

\* the application fills in the sockaddr before every connect(2), and a broken
\* FIFO ends the tracer
OneShot == ~AppRetries /\ ~SigPipeIgnored

\* a tracee that has still to carry out the system call it stopped for
MidCall == {"entry", "heldentry", "kernel"}

\* at the entry stop of connect(2) the sockaddr is what the application wrote,
\* unless the tracer has died over it
AtEntry ==
  \A p \in Pids : ts[p] \in {"entry", "heldentry"} /\ regs[p].op = "connect" =>
    \/ buf[p] = want[p]
    \/ buf[p] = ProxySa(want[p].fam) /\ Abandoned(p)

\* past it, the sockaddr is untouched or has been replaced and announced, with the
\* same exception
InCall ==
  \A p \in Pids : ts[p] = "kernel" /\ regs[p].op = "connect" =>
    \/ buf[p] = want[p]
    \/ buf[p] = ProxySa(want[p].fam) /\ (noted[p] = want[p] \/ Abandoned(p))

RedirectInv == CurStops /\ AtEntry /\ InCall /\ RedirectAnnounced

\* Before the first system call nothing is redirected.
LEMMA RedirectInit == Init => RedirectInv
<1>. SUFFICES ASSUME Init PROVE RedirectInv OBVIOUS
<1>1. pc = "wait" /\ \A p \in Pids : ts[p] \notin MidCall
  BY DEF Init, TraceeInit, MidCall
<1>2. \A p \in Pids : outcome[p] = NoOutcome BY DEF Init, TraceeInit
<1>. QED
  BY <1>1, <1>2
     DEF RedirectInv, CurStops, AtEntry, InCall, RedirectAnnounced, NoOutcome, MidCall

\* A step that lets no tracee enter a system call, touches nobody's connect(2) and
\* records no outcome keeps the invariant.
LEMMA RedirectKeep ==
  ASSUME RedirectInv, CurStops', UNCHANGED outcome,
         \A q \in Pids : Abandoned(q) => Abandoned(q)',
         \A q \in Pids : ts'[q] \in MidCall =>
           /\ ts'[q] = ts[q] /\ regs'[q] = regs[q] /\ buf'[q] = buf[q]
           /\ want'[q] = want[q] /\ noted'[q] = noted[q]
  PROVE  RedirectInv'
<1>. USE DEF ProxySa, PROXY_SA, PROXY_SA6
<1>1. AtEntry' BY DEF RedirectInv, AtEntry, MidCall
<1>2. InCall' BY DEF RedirectInv, InCall, MidCall
<1>3. RedirectAnnounced' BY DEF RedirectInv, RedirectAnnounced
<1>. QED BY <1>1, <1>2, <1>3 DEF RedirectInv

\* A tracee leaves a stop, by itself, only to die: do_trace's handler finds the
\* tracee where wait(2) saw it, or dead.
LEMMA StopsKept ==
  ASSUME TypeOK, pc # "exited", NEW p \in Pids, Tracee(p)
  PROVE  \A q \in Pids : ts[q] \in Stops \cup {"zombie"} => ts'[q] \in {ts[q], "zombie"}
<1>t. ts \in [Pids -> TraceeState] BY DEF TypeOK, TraceeTypeOK
<1>m. ASSUME ts[p] \in {"user", "kernel", "finish"},
             \A q \in Pids : q # p => ts'[q] = ts[q]
      PROVE  \A q \in Pids : ts[q] \in Stops \cup {"zombie"} => ts'[q] \in {ts[q], "zombie"}
  BY <1>m DEF Stops
<1>1. ASSUME NEW c \in Calls, Syscall(p, c)
      PROVE  \A q \in Pids : ts[q] \in Stops \cup {"zombie"} => ts'[q] \in {ts[q], "zombie"}
  BY <1>1, <1>m, <1>t DEF Syscall
<1>2. ASSUME NEW s \in Signals, Signal(p, s)
      PROVE  \A q \in Pids : ts[q] \in Stops \cup {"zombie"} => ts'[q] \in {ts[q], "zombie"}
  BY <1>2, <1>m, <1>t DEF Signal
<1>3. CASE SigKill(p) BY <1>3, <1>t DEF SigKill, Die, Threads
<1>4. CASE Kernel(p)
  <2>. USE <1>4, <1>t DEF Kernel, Return
  <2>1. CASE KernelSocket(p) BY <2>1, <1>m DEF KernelSocket
  <2>2. CASE KernelConnect(p) BY <2>2, <1>m DEF KernelConnect
  <2>3. CASE KernelClose(p) BY <2>3, <1>m DEF KernelClose
  <2>4. CASE KernelClone(p)
    <3>1. CASE FreePids = {} BY <2>4, <3>1, <1>m DEF KernelClone
    <3>2. ASSUME NEW q \in FreePids, NEW x, NEW y, ts' = [ts EXCEPT ![p] = x, ![q] = y]
          PROVE  \A r \in Pids : ts[r] \in Stops \cup {"zombie"} => ts'[r] \in {ts[r], "zombie"}
      BY <3>2 DEF FreePids, Stops
    <3>. QED BY <2>4, <3>1, <3>2 DEF KernelClone
  <2>5. CASE KernelExec(p) BY <2>5 DEF KernelExec, Stops
  <2>6. CASE KernelExit(p) BY <2>6 DEF KernelExit, Die, Threads
  <2>7. CASE KernelOther(p) BY <2>7, <1>m DEF KernelOther
  <2>. QED BY <2>1, <2>2, <2>3, <2>4, <2>5, <2>6, <2>7
<1>5. CASE Finish(p) BY <1>5, <1>m, <1>t DEF Finish, Return
<1>. QED BY <1>1, <1>2, <1>3, <1>4, <1>5 DEF Tracee, TraceeStep

\* The tracees' own steps: connect(2) is called with a sockaddr just filled in, and
\* the kernel reads it once the tracer has let the call go on.
LEMMA RedirectTracee ==
  ASSUME OneShot, TypeOK, RedirectInv, NEW p \in Pids, Tracee(p)
  PROVE  RedirectInv'
<1>0. UNCHANGED <<pc, cur, status, reader>> BY DEF Tracee, tracerVars
<1>a. \A q \in Pids : Abandoned(q)' <=> Abandoned(q) BY <1>0 DEF Abandoned
<1>c. CurStops'
  <2>1. cur \in Pids BY DEF TypeOK, TracerTypeOK
  <2>. QED BY <1>0, <2>1, StopsKept DEF CurStops, RedirectInv
<1>t. /\ ts \in [Pids -> TraceeState] /\ regs \in [Pids -> RegsType]
      /\ buf \in [Pids -> Addrs] /\ want \in [Pids -> Addrs] /\ noted \in [Pids -> Addrs]
      /\ outcome \in [Pids -> Outcomes]
  BY DEF TypeOK, TraceeTypeOK
\* tracees leave the kernel, get a signal or die
<1>m. ASSUME \A q \in Pids : ts'[q] \in MidCall => ts'[q] = ts[q],
             UNCHANGED <<regs, buf, want, noted, outcome>>
      PROVE  RedirectInv'
  BY <1>a, <1>c, <1>m, RedirectKeep
<1>1. ASSUME NEW c \in Calls, Syscall(p, c) PROVE RedirectInv'
  <2>1. ts' = [ts EXCEPT ![p] = "entry"] /\ regs' = [regs EXCEPT ![p] = c]
    BY <1>1 DEF Syscall
  <2>2. /\ outcome' = [outcome EXCEPT ![p] = NoOutcome]
        /\ noted' = [noted EXCEPT ![p] = NoAddr]
    BY <1>1 DEF Syscall
  <2>3. /\ \A q \in Pids \ {p} : buf'[q] = buf[q] /\ want'[q] = want[q]
        /\ c.op = "connect" => buf'[p] = want'[p]
    <3>1. CASE c.op # "connect" BY <1>1, <3>1 DEF Syscall
    <3>2. CASE c.op = "connect"
      <4>1. PICK d \in Dests : buf' = [buf EXCEPT ![p] = d] /\ want' = [want EXCEPT ![p] = d]
        BY <1>1, <3>2 DEF Syscall, OneShot
      <4>. QED BY <1>t, <4>1
    <3>. QED BY <3>1, <3>2
  <2>. USE DEF ProxySa, PROXY_SA, PROXY_SA6
  <2>4. AtEntry' BY <1>a, <1>t, <2>1, <2>3 DEF RedirectInv, AtEntry
  <2>5. InCall' BY <1>a, <1>t, <2>1, <2>2, <2>3 DEF RedirectInv, InCall
  <2>6. RedirectAnnounced'
    BY <1>a, <1>t, <2>2 DEF RedirectInv, RedirectAnnounced, NoOutcome
  <2>. QED BY <1>c, <2>4, <2>5, <2>6 DEF RedirectInv
<1>2. ASSUME NEW s \in Signals, Signal(p, s) PROVE RedirectInv'
  <2>1. s \in AllSignals /\ ts' = [ts EXCEPT ![p] = s] BY <1>2, PtraceAssumption DEF Signal
  <2>2. \A q \in Pids : q # p => regs'[q] = regs[q] BY <1>2, <1>t DEF Signal
  <2>3. \A q \in Pids : ts'[q] \in MidCall => ts'[q] = ts[q] /\ q # p
    BY <1>t, <2>1 DEF AllSignals, MidCall
  <2>. QED BY <1>2, <1>a, <1>c, <2>2, <2>3, RedirectKeep DEF Signal
<1>3. CASE SigKill(p) BY <1>3, <1>m DEF SigKill, Die, MidCall
<1>4. CASE Kernel(p)
  <2>. USE <1>4, <1>t DEF Kernel, Return, memVars, MidCall
  <2>1. CASE KernelSocket(p) BY <2>1, <1>m DEF KernelSocket
  <2>2. CASE KernelConnect(p)
    <3>1. ts' = [ts EXCEPT ![p] = "exit"] /\ UNCHANGED <<regs, buf, want, noted>>
      BY <2>2 DEF KernelConnect
    <3>. USE DEF ProxySa, PROXY_SA, PROXY_SA6
    <3>2. AtEntry' BY <1>a, <3>1 DEF RedirectInv, AtEntry
    <3>3. InCall' BY <1>a, <3>1 DEF RedirectInv, InCall
    <3>4. RedirectAnnounced'
      <4>1. CASE UNCHANGED outcome
        BY <1>a, <4>1 DEF RedirectInv, RedirectAnnounced
      <4>2. CASE outcome' = [outcome EXCEPT ![p] =
                               [kind |-> fdt[grp[p]][regs[p].fd], want |-> want[p],
                                to |-> buf[p], noted |-> noted[p]]]
        <5>1. \/ buf[p] = want[p]
              \/ buf[p] = ProxySa(want[p].fam) /\ (noted[p] = want[p] \/ Abandoned(p))
          BY <2>2 DEF KernelConnect, RedirectInv, InCall
        <5>. QED BY <1>a, <4>2, <5>1 DEF RedirectInv, RedirectAnnounced
      <4>. QED BY <2>2, <4>1, <4>2 DEF KernelConnect
    <3>. QED BY <1>c, <3>2, <3>3, <3>4 DEF RedirectInv
  <2>3. CASE KernelClose(p) BY <2>3, <1>m DEF KernelClose
  <2>4. CASE KernelClone(p)
    <3>1. CASE FreePids = {} BY <2>4, <3>1, <1>m DEF KernelClone
    <3>2. CASE FreePids # {}
      <4>1. PICK q \in FreePids :
              /\ \A r \in Pids : r \notin {p, q} => ts'[r] = ts[r]
              /\ ts'[p] \notin MidCall /\ ts'[q] \notin MidCall
              /\ regs' = [regs EXCEPT ![q] = regs[p]]
              /\ buf' = [buf EXCEPT ![q] = buf[p]]
              /\ want' = [want EXCEPT ![q] = want[p]]
        BY <2>4, <3>2 DEF KernelClone, FreePids
      <4>2. UNCHANGED <<noted, outcome>> BY <2>4 DEF KernelClone
      <4>. QED BY <1>a, <1>c, <4>1, <4>2, RedirectKeep
    <3>. QED BY <3>1, <3>2
  <2>5. CASE KernelExec(p) BY <2>5, <1>m DEF KernelExec
  <2>6. CASE KernelExit(p) BY <2>6, <1>m DEF KernelExit, Die
  <2>7. CASE KernelOther(p) BY <2>7, <1>m DEF KernelOther
  <2>. QED BY <2>1, <2>2, <2>3, <2>4, <2>5, <2>6, <2>7
<1>5. CASE Finish(p) BY <1>5, <1>m, <1>t DEF Finish, Return, MidCall
\* the tracer has ended: who was stopped at the entry to a call carries it out
<1>6. CASE Detach(p)
  <2>1. /\ ts[p] \in Stops \cup HeldStops /\ ts' = [ts EXCEPT ![p] = Resumed[ts[p]]]
        /\ UNCHANGED <<regs, buf, want, noted, outcome>>
    BY <1>6 DEF Detach
  <2>2. Resumed[ts[p]] \in {"entry", "heldentry"} => FALSE
    BY <2>1 DEF Resumed, Stops, HeldStops
  <2>3. Resumed[ts[p]] = "kernel" => ts[p] \in {"entry", "heldentry"}
    BY <2>1 DEF Resumed, Stops, HeldStops
  <2>. USE DEF ProxySa, PROXY_SA, PROXY_SA6
  <2>4. AtEntry' BY <1>a, <1>t, <2>1, <2>2 DEF RedirectInv, AtEntry
  <2>5. InCall' BY <1>a, <1>t, <2>1, <2>3 DEF RedirectInv, AtEntry, InCall
  <2>6. RedirectAnnounced' BY <1>a, <2>1 DEF RedirectInv, RedirectAnnounced
  <2>. QED BY <1>c, <2>4, <2>5, <2>6 DEF RedirectInv
<1>. QED BY <1>1, <1>2, <1>3, <1>4, <1>5, <1>6 DEF Tracee, TraceeStep

\* The tracer's own steps: connect_pre_handle is the only one that touches a
\* sockaddr, and it writes the record in the same step.
LEMMA RedirectTracer ==
  ASSUME OneShot, TypeOK, RedirectInv, TracerStep
  PROVE  RedirectInv'
<1>t. /\ ts \in [Pids -> TraceeState] /\ regs \in [Pids -> RegsType]
      /\ buf \in [Pids -> Addrs] /\ want \in [Pids -> Addrs] /\ noted \in [Pids -> Addrs]
      /\ cur \in Pids
  BY DEF TypeOK, TraceeTypeOK, TracerTypeOK
<1>w. ASSUME pc' # "handle" PROVE CurStops' BY <1>w DEF CurStops
<1>a. \A q \in Pids : ~Abandoned(q)
  BY DEF TracerStep, Wait, WaitNoChild, HandleDeath, HandleSignal, HandleEntering,
         HandleExiting, HandleNoSuchProcess, HandleBrokenPipe, Abandoned
\* no tracee is touched, or one is left in or let go from a stop that is not the
\* entry to a system call
<1>k. ASSUME CurStops', UNCHANGED <<want, outcome, buf, noted, regs>>,
             \A q \in Pids : ts'[q] \in MidCall => ts'[q] = ts[q]
      PROVE  RedirectInv'
  BY <1>a, <1>k, RedirectKeep
<1>1. ASSUME NEW p \in Pids, Wait(p) PROVE RedirectInv'
  <2>1. /\ cur' = p /\ status' = ts[p] /\ ts[p] \in Stops \cup {"zombie"}
        /\ ts' = [ts EXCEPT ![p] = IF @ = "zombie" THEN "absent" ELSE @]
    BY <1>1 DEF Wait, Waitable
  <2>2. CurStops' BY <1>t, <2>1 DEF CurStops
  <2>3. \A q \in Pids : ts'[q] \in MidCall => ts'[q] = ts[q] BY <1>t, <2>1 DEF MidCall
  <2>. QED BY <1>1, <1>k, <2>2, <2>3 DEF Wait
<1>2. CASE WaitNoChild BY <1>2, <1>k, <1>w DEF WaitNoChild, traceeVars
<1>3. CASE HandleDeath BY <1>3, <1>k, <1>w DEF HandleDeath, Loop, loopVars, handlerVars
<1>7. CASE HandleNoSuchProcess
  BY <1>7, <1>k, <1>w DEF HandleNoSuchProcess, loopVars, handlerVars
\* the sockaddr is written, the record is not
<1>8. CASE HandleBrokenPipe
  <2>1. /\ pc' = "exited" /\ BrokenPipe(cur) /\ ~reader
        /\ buf' = [buf EXCEPT ![cur] = ProxySa(buf[cur].fam)]
        /\ UNCHANGED <<ts, regs, want, noted, outcome, cur, reader>>
    BY <1>8 DEF HandleBrokenPipe, BrokenPipe, loopVars, putdata, getdata
  <2>2. Abandoned(cur)' BY <2>1 DEF Abandoned
  <2>3. ts[cur] = status /\ status \in {"entry", "exit", "trap", "group"}
    BY <1>8, <2>1
       DEF HandleBrokenPipe, BrokenPipe, get_syscall_number, Dead, IsSyscallStop
  <2>. USE DEF ProxySa, PROXY_SA, PROXY_SA6
  <2>4. AtEntry' BY <1>a, <1>t, <2>1, <2>2 DEF RedirectInv, AtEntry
  <2>5. InCall' BY <1>a, <1>t, <2>1, <2>3 DEF RedirectInv, InCall
  <2>6. RedirectAnnounced' BY <1>a, <2>1 DEF RedirectInv, RedirectAnnounced
  <2>. QED BY <1>w, <2>1, <2>4, <2>5, <2>6 DEF RedirectInv
<1>4. CASE HandleSignal
  <2>1. status \in {"event", "sigstop", "plain", "stop"} BY <1>4 DEF HandleSignal
  <2>2. Resumed[status] \in {"finish", "user", "group"} BY <2>1 DEF Resumed
  <2>3. \A q \in Pids : ts'[q] \in MidCall => ts'[q] = ts[q]
    BY <1>4, <1>t, <2>2 DEF HandleSignal, Resume, MidCall
  <2>. QED BY <1>4, <1>k, <1>w, <2>3 DEF HandleSignal, Loop, loopVars, handlerVars
<1>5. CASE HandleEntering
  <2>0. /\ CurStops' /\ UNCHANGED <<want, outcome>> /\ Resume
        /\ trace_syscall_entering(cur)
    BY <1>5, <1>w DEF HandleEntering, Loop, loopVars
  <2>1. CASE Dead
    <3>1. UNCHANGED handlerVars
      BY <2>0, <2>1 DEF trace_syscall_entering, get_syscall_number
    <3>. QED BY <1>k, <2>0, <2>1, <3>1 DEF Resume, handlerVars
  <2>2. CASE ~Dead
    <3>1. /\ ts[cur] = status /\ status \in {"entry", "exit", "trap", "group"}
          /\ get_syscall_number(cur) = regs[cur].op
      BY <1>5, <2>2 DEF HandleEntering, IsSyscallStop, Dead, get_syscall_number
    <3>2. ts' = [ts EXCEPT ![cur] = IF status = "entry" THEN "kernel" ELSE "user"]
      <4>1. Resumed[status] = IF status = "entry" THEN "kernel" ELSE "user"
        BY <3>1 DEF Resumed
      <4>. QED BY <2>0, <2>2, <4>1 DEF Resume
    <3>3. CASE regs[cur].op # "connect"
      <4>1. /\ UNCHANGED <<buf, noted>>
            /\ \A q \in Pids : q # cur => regs'[q] = regs[q]
            /\ regs'[cur].op = regs[cur].op
        BY <1>t, <2>0, <3>1, <3>3
           DEF trace_syscall_entering, socket_pre_handle, close_pre_handle,
               clone_pre_handle, handlerVars, RegsType
      <4>2. AtEntry' BY <1>a, <1>t, <2>0, <3>2, <4>1 DEF RedirectInv, AtEntry
      <4>3. InCall'
        BY <1>a, <1>t, <2>0, <3>2, <3>3, <4>1
           DEF RedirectInv, InCall, ProxySa, PROXY_SA, PROXY_SA6
      <4>4. RedirectAnnounced'
        BY <1>a, <2>0 DEF RedirectInv, RedirectAnnounced, ProxySa, PROXY_SA, PROXY_SA6
      <4>. QED BY <2>0, <4>2, <4>3, <4>4 DEF RedirectInv
    <3>4. CASE regs[cur].op = "connect"
      <4>1. connect_pre_handle(cur) /\ ~BrokenPipe(cur)
        BY <2>0, <3>1, <3>4 DEF trace_syscall_entering
      <4>2. \/ UNCHANGED handlerVars
            \/ /\ UNCHANGED regs
               /\ buf' = [buf EXCEPT ![cur] = ProxySa(buf[cur].fam)]
               /\ noted' = [noted EXCEPT ![cur] = buf[cur]]
        BY <3>1, <3>4, <4>1
           DEF connect_pre_handle, BrokenPipe, getdata, putdata, OneShot
      <4>3. AtEntry' BY <1>a, <1>t, <2>0, <3>2, <4>2 DEF RedirectInv, AtEntry, handlerVars
      <4>4. status = "entry" => buf[cur] = want[cur]
        BY <1>a, <1>t, <3>1, <3>4 DEF RedirectInv, AtEntry
      <4>5. InCall'
        <5>1. ASSUME NEW q \in Pids, ts'[q] = "kernel", regs'[q].op = "connect"
              PROVE  \/ buf'[q] = want'[q]
                     \/ buf'[q] = ProxySa(want'[q].fam) /\ noted'[q] = want'[q]
          <6>1. CASE q # cur
            BY <1>a, <1>t, <2>0, <3>2, <4>2, <5>1, <6>1 DEF RedirectInv, InCall, handlerVars
          <6>2. CASE q = cur
            BY <1>t, <2>0, <3>2, <4>2, <4>4, <5>1, <6>2 DEF handlerVars
          <6>. QED BY <6>1, <6>2
        <5>. QED BY <5>1 DEF InCall, ProxySa, PROXY_SA, PROXY_SA6
      <4>6. RedirectAnnounced'
        BY <1>a, <2>0 DEF RedirectInv, RedirectAnnounced, ProxySa, PROXY_SA, PROXY_SA6
      <4>. QED BY <2>0, <4>3, <4>5, <4>6 DEF RedirectInv
    <3>. QED BY <3>3, <3>4
  <2>. QED BY <2>1, <2>2
<1>6. CASE HandleExiting
  <2>0. /\ CurStops' /\ UNCHANGED <<want, outcome, buf, noted, regs>>
        /\ \/ ts' = IF Dead THEN ts
                    ELSE [ts EXCEPT ![cur] = IF status = "entry" THEN "heldentry" ELSE "held"]
           \/ Resume
    BY <1>6, <1>w
       DEF HandleExiting, Loop, loopVars, trace_syscall_exiting, socket_exiting_handle,
           handlerVars
  <2>1. CASE ~Dead /\ ts' = [ts EXCEPT ![cur] = IF status = "entry" THEN "heldentry" ELSE "held"]
    <3>1. ts[cur] = status BY <2>1 DEF Dead
    <3>2. AtEntry' BY <1>a, <1>t, <2>0, <2>1, <3>1 DEF RedirectInv, AtEntry
    <3>3. InCall'
      BY <1>a, <1>t, <2>0, <2>1 DEF RedirectInv, InCall, ProxySa, PROXY_SA, PROXY_SA6
    <3>4. RedirectAnnounced'
      BY <1>a, <2>0 DEF RedirectInv, RedirectAnnounced, ProxySa, PROXY_SA, PROXY_SA6
    <3>. QED BY <2>0, <3>2, <3>3, <3>4 DEF RedirectInv
  <2>2. CASE Dead BY <1>k, <2>0, <2>2 DEF Resume
  <2>3. CASE Resume /\ ~Dead
    <3>1. ts[cur] = status /\ status \in {"entry", "exit", "trap", "group"}
      BY <1>6, <2>3 DEF HandleExiting, IsSyscallStop, Dead
    <3>2. ts' = [ts EXCEPT ![cur] = IF status = "entry" THEN "kernel" ELSE "user"]
      <4>1. Resumed[status] = IF status = "entry" THEN "kernel" ELSE "user"
        BY <3>1 DEF Resumed
      <4>. QED BY <2>3, <4>1 DEF Resume
    <3>3. AtEntry' BY <1>a, <1>t, <2>0, <3>2 DEF RedirectInv, AtEntry
    <3>4. InCall'
      BY <1>a, <1>t, <2>0, <3>1, <3>2 DEF RedirectInv, AtEntry, InCall, ProxySa, PROXY_SA, PROXY_SA6
    <3>5. RedirectAnnounced'
      BY <1>a, <2>0 DEF RedirectInv, RedirectAnnounced, ProxySa, PROXY_SA, PROXY_SA6
    <3>. QED BY <2>0, <3>3, <3>4, <3>5 DEF RedirectInv
  <2>. QED BY <2>0, <2>1, <2>2, <2>3
<1>. QED BY <1>1, <1>2, <1>3, <1>4, <1>5, <1>6, <1>7, <1>8 DEF TracerStep

\* Every step of the system keeps the invariant.
LEMMA RedirectNext ==
  ASSUME OneShot, TypeOK, RedirectInv, [Next]_vars
  PROVE  RedirectInv'
<1>1. CASE TracerStep BY <1>1, RedirectTracer
<1>2. ASSUME NEW p \in Pids, Tracee(p) PROVE RedirectInv' BY <1>2, RedirectTracee
<1>3. CASE UNCHANGED <<traceeVars, pc, cur, status>>
  <2>1. \A q \in Pids : Abandoned(q) => Abandoned(q)'
    BY <1>3, ExitIsFinal DEF Abandoned
  <2>. QED BY <1>3, <2>1, RedirectKeep DEF traceeVars, RedirectInv, CurStops
<1>. QED BY <1>1, <1>2, <1>3
         DEF Next, Elapse, ClockSet, FifoRead, LocalUpDown, Terminated, vars, tracerVars

\* A connect(2) is pointed at graftcp-local only once the destination the
\* application asked for is in the FIFO, with the one exception that
\* connect_pre_handle's order leaves open: the connect(2) over whose announcement
\* the tracer died.  This holds as long as the application does not reuse the
\* sockaddr and SIGPIPE is not ignored, and goes on holding when the tracees are on
\* their own.
THEOREM AnnouncedFirst ==
  ASSUME OneShot
  PROVE  Spec => []RedirectAnnounced
<1>1. Init => TypeOK /\ RedirectInv BY InitType, RedirectInit
<1>2. TypeOK /\ RedirectInv /\ [Next]_vars => (TypeOK /\ RedirectInv)'
  BY NextType, RedirectNext
<1>3. RedirectInv => RedirectAnnounced BY DEF RedirectInv
<1>. QED BY <1>1, <1>2, <1>3, PTL DEF Spec

\* While graftcp-local keeps the FIFO open there is no exception: whatever the
\* tracer makes of signals, kills and reused pids, no connect(2) is redirected that
\* graftcp-local cannot look up.
THEOREM AnnouncedAlways ==
  ASSUME OneShot, ~LocalMayDie
  PROVE  Spec => [](\A p \in Pids : outcome[p].to # outcome[p].want =>
                                      outcome[p].noted = outcome[p].want)
<1>1. Init => reader BY DEF Init
<1>2. reader /\ [Next]_vars => reader'
  BY DEF Next, TracerStep, Wait, WaitNoChild, HandleDeath, HandleSignal, HandleEntering,
         HandleExiting, HandleNoSuchProcess, HandleBrokenPipe, loopVars, Tracee, tracerVars,
         Elapse, ClockSet, FifoRead, LocalUpDown, Terminated, vars
<1>3. RedirectAnnounced /\ reader =>
        \A p \in Pids : outcome[p].to # outcome[p].want => outcome[p].noted = outcome[p].want
  BY DEF RedirectAnnounced, Abandoned
<1>4. Spec => []RedirectAnnounced BY AnnouncedFirst
<1>. QED BY <1>1, <1>2, <1>3, <1>4, PTL DEF Spec

=============================================================================
