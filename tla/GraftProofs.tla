---------------------------- MODULE GraftProofs ----------------------------
(***************************************************************************)
(* graftcp and graftcp-local together, for any number of processes,        *)
(* descriptors and connections: what was proved of the tracer holds in     *)
(* company with graftcp-local, and with it, that connections are sent      *)
(* where they were meant to go and that none is given up while its process *)
(* lives.                                                                  *)
(***************************************************************************)
EXTENDS Graft, SocketProofs, SequenceLemmas

-----------------------------------------------------------------------------
(* The inductive invariant *)

\* the process behind connection c is still there
Lives(c) == ts[link[c].pid] \in Running

\* a connection is linked to a descriptor when its record is written; the record
\* has the destination the application asked for
LinkInv ==
  \A c \in Conns :
    /\ st[c] = "new" <=> link[c].asked = NULL
    /\ st[c] = "new" <=> goal[c] = NULL
    /\ st[c] # "new" =>
         /\ goal[c] = [pid |-> link[c].pid, addr |-> link[c].asked]
         /\ link[c].pid \in used /\ link[c].fd \in Fds
    /\ st[c] \in {"new", "announced", "queued", "inode", "range"} => found[c] = NULL

\* a connection that is open has its descriptor
OpenHeld == \A c \in open : Holds(link[c].pid, link[c].fd)

\* connect(2) is called for an open descriptor that has no connection yet, by a
\* process that is not waiting for another one to be looked up
Calling ==
  \A p \in Pids : ts[p] = "entry" /\ regs[p].op = "connect" =>
    /\ fdt[p][regs[p].fd] # "closed"
    /\ ~Waiting(p) /\ ~Connected(p, regs[p].fd)

\* what graftcp-local needs of a connection it is looking up
Kept ==
  \A c \in Conns : L!Pending(c) /\ Lives(c) =>
    /\ <<link[c].pid, link[c].fd>> \in young
    /\ fdt[link[c].pid][link[c].fd] # "closed"
    /\ st[c] # "announced" => c \in open
    /\ st[c] \in {"range", "delete"} => c \in inode
    /\ st[c] # "delete" =>
         \/ \E i \in DOMAIN fifo : fifo[i] = goal[c]
         \/ \E i \in DOMAIN storing : storing[i] = goal[c]
         \/ pidAddrMap[link[c].pid] = goal[c]

\* the entry a lookup has found is its own, and is there until it is deleted
FoundOwn ==
  \A c \in Conns : st[c] = "delete" =>
    found[c] = goal[c] /\ pidAddrMap[link[c].pid] = goal[c]

\* a process has one connection being looked up ...
OnePending ==
  \A c, d \in Conns :
    L!Pending(c) /\ L!Pending(d) /\ link[c].pid = link[d].pid => c = d

\* ... and one record on its way
OneRecord ==
  /\ \A i, j \in DOMAIN fifo : fifo[i].pid = fifo[j].pid => i = j
  /\ \A i, j \in DOMAIN storing : storing[i].pid = storing[j].pid => i = j
  /\ \A i \in DOMAIN fifo, j \in DOMAIN storing : fifo[i].pid # storing[j].pid
  /\ \A i \in DOMAIN fifo : pidAddrMap[fifo[i].pid] = NULL
  /\ \A i \in DOMAIN storing : pidAddrMap[storing[i].pid] = NULL

\* a record belongs to a connection that is being looked up, unless its process
\* has ended
Accounted(r) == \E c \in Conns : goal[c] = r /\ (L!Pending(c) \/ ~Lives(c))

Owned ==
  /\ \A i \in DOMAIN fifo : Accounted(fifo[i])
  /\ \A i \in DOMAIN storing : Accounted(storing[i])
  /\ \A p \in Pids : pidAddrMap[p] # NULL => Accounted(pidAddrMap[p])

\* d is the only connection of its process still being looked up, if any is
Sole(d) == \A c \in Conns : L!Pending(c) /\ link[c].pid = link[d].pid => c = d

\* r is the record of such a connection, or of a process that has ended
Left(r) == \E d \in Conns : goal[d] = r /\ (Sole(d) \/ ~Lives(d))

\* what outlasts the tracer: graftcp-local goes on, for processes that do, and
\* nothing is announced any more
Afterwards ==
  /\ LinkInv
  /\ \A c \in open : Lives(c)
  /\ \A i \in DOMAIN fifo : Left(fifo[i])
  /\ \A i \in DOMAIN storing : Left(storing[i])
  /\ \A p \in Pids : pidAddrMap[p] # NULL => Left(pidAddrMap[p])

GraftInv ==
  /\ LinkInv /\ OpenHeld /\ Calling /\ Kept /\ FoundOwn
  /\ OnePending /\ OneRecord /\ Owned
  /\ LostOnlyByExit


-----------------------------------------------------------------------------
(* The tracer in company *)

\* the conditions under which the tracer's table can be relied on, and an
\* application that waits for one connection before it makes the next
Orderly == Trusted /\ Steady /\ OneShot /\ AppWaits /\ ~AppReconnects

\* what was proved of the tracer while it runs ...
TracerInv == TypeOK /\ PhaseInv /\ RedirectInv /\ FiledInv /\ DelayInv

\* ... and what is left of it when it has ended
TracedInv == TypeOK /\ RedirectInv /\ (pc # "exited" => TracerInv)

\* Both parts start as they do alone.
LEMMA TracedInvInit == GraftInit => TracedInv
BY InitType, PhaseInit, RedirectInit, FiledInit, DelayInit DEF GraftInit, TracerInv, TracedInv

\* A step of the whole is a step of the tracer's specification, except that
\* graftcp-local reads the FIFO whoever holds it open.
LEMMA TracerView ==
  ASSUME [GraftNext]_allVars
  PROVE  [Next]_vars \/ LocalReads
<1>1. CASE TracerQuiet \/ TracerAnnounces
  BY <1>1 DEF TracerQuiet, TracerAnnounces, Next
<1>2. ASSUME NEW c \in Conns, LocalHandles(c) PROVE UNCHANGED vars
  BY <1>2 DEF LocalHandles, apartVars, vars, tracerVars, L!Start, L!getPidByAddr,
              L!getInodeByAddrs, L!RangeFinds, L!RangeFails, L!DeletePidAddr
<1>3. CASE LocalStores
  BY <1>3 DEF LocalStores, apartVars, vars, tracerVars, L!Store, L!StorePidAddr
<1>4. ASSUME NEW p \in Pids, TraceeRuns(p) \/ \E c \in Conns : Redirected(p, c) PROVE Next
  BY <1>4 DEF TraceeRuns, Redirected, Next
<1>5. CASE GraftElapse BY <1>5 DEF GraftElapse, Next
<1>6. CASE GraftTerminated \/ UNCHANGED allVars
  BY <1>6 DEF GraftTerminated, allVars
<1>. QED BY <1>1, <1>2, <1>3, <1>4, <1>5, <1>6 DEF GraftNext

\* The tracer's end is final in company, too.
LEMMA EndIsFinal ==
  ASSUME [GraftNext]_allVars, pc = "exited"
  PROVE  pc' = "exited"
BY TracerView, ExitIsFinal DEF LocalReads, apartVars

\* Hence whatever was proved of the tracer alone holds in company: nothing that
\* graftcp-local does disturbs it.
LEMMA TracedInvNext ==
  ASSUME Trusted, Steady, OneShot, TracedInv, [GraftNext]_allVars
  PROVE  TracedInv'
<1>0. TypeOK /\ RedirectInv /\ (pc = "exited" => pc' = "exited") BY EndIsFinal DEF TracedInv
<1>1. CASE [Next]_vars
  <2>1. TypeOK' /\ RedirectInv' BY <1>0, <1>1, NextType, RedirectNext
  <2>2. ASSUME pc' # "exited" PROVE PhaseInv' /\ FiledInv' /\ DelayInv'
    <3>1. pc # "exited" /\ TracerInv BY <1>0, <2>2 DEF TracedInv
    <3>. QED BY <1>1, <2>2, <3>1, PhaseNext, FiledNext, DelayNext
             DEF TracerInv, Trusted, TracedPhase
  <2>. QED BY <2>1, <2>2 DEF TracedInv, TracerInv
<1>2. CASE LocalReads
  <2>0. /\ UNCHANGED <<traceeVars, pc, cur, status, pinfo, tab, reader, young>>
        /\ fifo # <<>> /\ fifo' = Tail(fifo)
    BY <1>2 DEF LocalReads, apartVars, L!UpdateProcessAddrInfo
  <2>1. TypeOK'
    BY <1>0, <2>0, HeadTailProperties DEF TypeOK, TraceeTypeOK, TracerTypeOK, traceeVars
  <2>2. RedirectInv'
    BY <1>0, <2>0 DEF RedirectInv, AtEntry, InCall, RedirectAnnounced, Abandoned, CurStops,
                      traceeVars
  <2>3. ASSUME pc # "exited" PROVE PhaseInv' /\ FiledInv' /\ DelayInv'
    <3>0. PhaseInv /\ FiledInv /\ DelayInv BY <2>3 DEF TracedInv, TracerInv
    <3>1. PhaseInv'
      BY <2>0, <3>0 DEF PhaseInv, NoOddStops, CurStops, FreshPids, CloneTraced,
                        PhaseInSync, NoEscape, traceeVars
    <3>2. DelayInv'
      BY <2>0, <3>0 DEF DelayInv, OwnInv, OwnFds, CallArgs, CsnKept, Filed, Slots, Slot,
                        Room, Held, InSocket, Behind, traceeVars
    <3>3. AtKernel' /\ Intercepted'
      BY <2>0, <3>0 DEF FiledInv, AtKernel, Intercepted, ProxySa, PROXY_SA, PROXY_SA6, IsInet,
                        traceeVars
    <3>. QED BY <3>1, <3>2, <3>3 DEF FiledInv, DelayInv
  <2>. QED BY <2>0, <2>1, <2>2, <2>3 DEF TracedInv, TracerInv
<1>. QED BY <1>1, <1>2, TracerView

-----------------------------------------------------------------------------
(* What the steps of the tracer and of the tracees mean to a connection *)

\* the types of graftcp-local's state, and of the links
GraftTypes ==
  /\ st \in [Conns -> L!States]
  /\ goal \in [Conns -> L!Records \cup {NULL}]
  /\ open \subseteq Conns /\ inode \subseteq Conns
  /\ fifo \in Seq(L!Records) /\ storing \in Seq(L!Records)
  /\ pidAddrMap \in [Pids -> L!Records \cup {NULL}]
  /\ \A p \in Pids : pidAddrMap[p] # NULL => pidAddrMap[p].pid = p
  /\ found \in [Conns -> L!Records \cup {NULL}]
  /\ link \in [Conns -> [pid : Pids, fd : Fds \cup {0}, asked : Addrs \cup {NULL}]]

\* A process that has ended stays ended, and a descriptor is open until close(2)
\* gets to the kernel; an entry stop follows a call.
LEMMA TraceeEffects ==
  ASSUME Trusted, TypeOK, PhaseInv, OwnInv, pc # "exited", NEW p \in Pids, Tracee(p)
  PROVE  /\ used \subseteq used'
         /\ \A q \in used : ts'[q] \in Running => ts[q] \in Running
         /\ \A q \in used, fd \in Fds :
              ts'[q] \in Running /\ fdt[q][fd] # "closed" =>
                \/ fdt'[q][fd] # "closed"
                \/ q = p /\ ts[p] = "kernel" /\ regs[p].op = "close" /\ regs[p].fd = fd
         /\ \A q \in Pids : ts'[q] = "entry" =>
              /\ fdt'[q] = fdt[q]
              /\ \/ ts[q] = "entry" /\ regs'[q] = regs[q]
                 \/ q = p /\ ts[q] = "user"
<1>t. /\ ts \in [Pids -> TraceeState] /\ used \subseteq Pids /\ grp \in [Pids -> Pids]
      /\ fdt \in [Pids -> [Fds -> AllSockKinds \cup {"closed"}]]
      /\ regs \in [Pids -> RegsType] /\ grp[p] = p
  BY DEF TypeOK, TraceeTypeOK, OwnInv, OwnFds
<1>. DEFINE Effects ==
       /\ used \subseteq used'
       /\ \A q \in used : ts'[q] \in Running => ts[q] \in Running
       /\ \A q \in used, fd \in Fds :
            ts'[q] \in Running /\ fdt[q][fd] # "closed" =>
              \/ fdt'[q][fd] # "closed"
              \/ q = p /\ ts[p] = "kernel" /\ regs[p].op = "close" /\ regs[p].fd = fd
       /\ \A q \in Pids : ts'[q] = "entry" =>
            /\ fdt'[q] = fdt[q]
            /\ \/ ts[q] = "entry" /\ regs'[q] = regs[q]
               \/ q = p /\ ts[q] = "user"
<1>1. ASSUME NEW c \in Calls, Syscall(p, c) PROVE Effects
  BY <1>1, <1>t DEF Syscall, Running, Stops, HeldStops
<1>2. ASSUME NEW s \in Signals, Signal(p, s) PROVE Effects
  BY <1>2, <1>t DEF Signal, Running, Stops, HeldStops
<1>3. CASE SigKill(p) BY <1>3, <1>t DEF SigKill, Die, Threads, Running, Stops, HeldStops
<1>4. CASE Finish(p) BY <1>4, <1>t DEF Finish, Return, Running, Stops, HeldStops
<1>5. CASE Kernel(p)
  <2>0. ts[p] = "kernel" BY <1>5 DEF Kernel
  <2>1. CASE KernelSocket(p)
    <3>1. ASSUME NEW fd \in FreeFds(p), fdt' = [fdt EXCEPT ![grp[p]][fd] = regs[p].kind]
          PROVE  \A q \in Pids, f \in Fds : fdt[q][f] # "closed" => fdt'[q][f] = fdt[q][f]
      BY <3>1, <1>t DEF FreeFds, OpenFds
    <3>2. \A q \in Pids, f \in Fds : fdt[q][f] # "closed" => fdt'[q][f] = fdt[q][f]
      BY <2>1, <3>1 DEF KernelSocket
    <3>3. \A q \in Pids \ {p} : ts'[q] = ts[q] /\ regs'[q] = regs[q] /\ fdt'[q] = fdt[q]
      BY <2>1, <1>t DEF KernelSocket, Return, memVars
    <3>4. ts'[p] = "exit" /\ used' = used BY <2>1, <1>t DEF KernelSocket, Return
    <3>. QED BY <2>0, <3>2, <3>3, <3>4, <1>t DEF Running, Stops, HeldStops
  <2>2. CASE KernelConnect(p)
    BY <2>0, <2>2, <1>t DEF KernelConnect, Return, memVars, Running, Stops, HeldStops
  <2>3. CASE KernelClose(p)
    BY <2>0, <2>3, <1>t DEF KernelClose, Return, memVars, Running, Stops, HeldStops
  <2>4. CASE KernelClone(p)
    <3>0. /\ "thread" \notin regs[p].opts /\ "inherit" \notin regs[p].opts
          /\ "untraced" \notin regs[p].opts
      BY <2>0, <2>4 DEF OwnInv, OwnFds, PhaseInv, CloneTraced, KernelClone
    <3>1. ASSUME NEW q \in FreePids,
                 ts' = [ts EXCEPT ![p] = "event", ![q] = "sigstop"],
                 fdt' = [fdt EXCEPT ![q] = NoFds],
                 regs' = [regs EXCEPT ![q] = regs[p]],
                 used' = used \cup {q}
          PROVE  Effects
      <4>1. q \notin used BY DEF Trusted, Quiet, FreePids
      <4>. QED BY <3>1, <4>1, <2>0, <1>t DEF Running, Stops, HeldStops
    <3>2. CASE FreePids = {} /\ Return(p, -1) /\ UNCHANGED <<grp, fdt, used, memVars>>
      BY <3>2, <2>0, <1>t DEF Return, memVars, Running, Stops, HeldStops
    <3>. QED BY <2>4, <3>0, <3>1, <3>2 DEF KernelClone
  <2>5. CASE KernelExec(p)
    BY <2>0, <2>5, <1>t DEF KernelExec, memVars, Running, Stops, HeldStops
  <2>6. CASE KernelExit(p)
    BY <2>0, <2>6, <1>t DEF KernelExit, Die, Threads, memVars, Running, Stops, HeldStops
  <2>7. CASE KernelOther(p)
    BY <2>0, <2>7, <1>t DEF KernelOther, Return, memVars, Running, Stops, HeldStops
  <2>. QED BY <1>5, <2>1, <2>2, <2>3, <2>4, <2>5, <2>6, <2>7 DEF Kernel
<1>. QED BY <1>1, <1>2, <1>3, <1>4, <1>5 DEF Tracee, TraceeStep

\* The tracer opens, closes and ends nothing, and makes no connection old.
LEMMA TracerEffects ==
  ASSUME TypeOK, PhaseInv, TracerStep
  PROVE  /\ UNCHANGED <<fdt, used, grp, want>> /\ young \subseteq young'
         /\ \A q \in Pids : ts'[q] \in Running <=> ts[q] \in Running
         /\ \A q \in Pids : ts'[q] = "entry" =>
              ts[q] = "entry" /\ regs'[q].op = regs[q].op /\ regs'[q].fd = regs[q].fd
<1>t. ts \in [Pids -> TraceeState] /\ cur \in Pids
  BY DEF TypeOK, TraceeTypeOK, TracerTypeOK
<1>1. CASE HandleEntering /\ ~Dead
  <2>1. young \subseteq young'
    BY <1>1 DEF HandleEntering, trace_syscall_entering, socket_pre_handle, connect_pre_handle,
                close_pre_handle, clone_pre_handle, handlerVars
  <2>. QED BY <1>1, <1>t, <2>1, AtEntering DEF Running, Stops, HeldStops
<1>2. CASE HandleExiting /\ ~Dead
  BY <1>2, <1>t, AtExiting DEF Running, Stops, HeldStops
<1>3. CASE ~(HandleEntering /\ ~Dead) /\ ~(HandleExiting /\ ~Dead)
  BY <1>3, <1>t, Elsewhere DEF Running, Stops, HeldStops
<1>. QED BY <1>1, <1>2, <1>3

-----------------------------------------------------------------------------
(* Steps that graftcp-local takes no part in *)

\* As long as no process comes back to life and those that live keep what the
\* lookups of their connections need, nothing is lost.
LEMMA Frame ==
  ASSUME GraftTypes, GraftInv, used \subseteq used', OpenHeld', Calling',
         UNCHANGED <<st, goal, fifo, storing, pidAddrMap, inode, found, link>>,
         \A q \in used : ts'[q] \in Running => ts[q] \in Running,
         \A c \in Conns : L!Pending(c) /\ Lives(c) /\ Lives(c)' =>
           /\ <<link[c].pid, link[c].fd>> \in young'
           /\ fdt'[link[c].pid][link[c].fd] # "closed"
           /\ c \in open => c \in open'
  PROVE  GraftInv'
<1>. USE DEF L!Pending
<1>1. LinkInv' BY DEF GraftInv, LinkInv
<1>2. \A c \in Conns : st[c] # "new" => (Lives(c)' => Lives(c))
  BY DEF GraftInv, LinkInv, Lives
<1>3. Kept'
  <2>. SUFFICES ASSUME NEW c \in Conns, L!Pending(c)', Lives(c)'
                PROVE  /\ <<link[c].pid, link[c].fd>> \in young'
                       /\ fdt'[link[c].pid][link[c].fd] # "closed"
                       /\ st[c] # "announced" => c \in open'
                       /\ st[c] \in {"range", "delete"} => c \in inode
                       /\ st[c] # "delete" =>
                            \/ \E i \in DOMAIN fifo : fifo[i] = goal[c]
                            \/ \E i \in DOMAIN storing : storing[i] = goal[c]
                            \/ pidAddrMap[link[c].pid] = goal[c]
    BY DEF Kept
  <2>1. L!Pending(c) /\ Lives(c) BY <1>2
  <2>. QED BY <2>1 DEF GraftInv, Kept
<1>4. FoundOwn' /\ OnePending' /\ OneRecord'
  BY DEF GraftInv, FoundOwn, OnePending, OneRecord
<1>5. ASSUME NEW r \in L!Records, Accounted(r) PROVE Accounted(r)'
  <2>1. PICK c \in Conns : goal[c] = r /\ (L!Pending(c) \/ ~Lives(c)) BY <1>5 DEF Accounted
  <2>2. r # NULL BY GraftAssumption DEF L!Records
  <2>3. st[c] # "new" BY <2>1, <2>2 DEF GraftInv, LinkInv
  <2>. QED BY <2>1, <2>3, <1>2 DEF Accounted
<1>6. Owned' BY <1>5 DEF GraftInv, Owned, GraftTypes
<1>7. LostOnlyByExit' BY <1>2 DEF GraftInv, LostOnlyByExit, Lives
<1>. QED BY <1>1, <1>3, <1>4, <1>6, <1>7 DEF GraftInv

\* The tracer goes about its work.
LEMMA QuietKeeps ==
  ASSUME TracerInv, GraftTypes, GraftInv, TracerQuiet
  PROVE  GraftInv'
<1>0. UNCHANGED <<fifo, localVars, link>> BY DEF TracerQuiet
<1>1. /\ UNCHANGED <<fdt, used, grp, want>> /\ young \subseteq young'
      /\ \A q \in Pids : ts'[q] \in Running <=> ts[q] \in Running
      /\ \A q \in Pids : ts'[q] = "entry" =>
           ts[q] = "entry" /\ regs'[q].op = regs[q].op /\ regs'[q].fd = regs[q].fd
  BY TracerEffects DEF TracerQuiet, TracerInv
<1>2. used \subseteq Pids BY DEF TracerInv, TypeOK, TraceeTypeOK
<1>3. Calling'
  <2>. SUFFICES ASSUME NEW q \in Pids, ts'[q] = "entry", regs'[q].op = "connect"
                PROVE  /\ fdt[q][regs[q].fd] # "closed" /\ regs'[q].fd = regs[q].fd
                       /\ ~Waiting(q) /\ ~Connected(q, regs[q].fd)
    BY <1>0, <1>1 DEF Calling, Waiting, Connected, IsLink, L!Pending, localVars
  <2>. QED BY <1>1 DEF GraftInv, Calling
<1>4. OpenHeld' BY <1>0, <1>1 DEF GraftInv, OpenHeld, Holds, localVars, GraftTypes
<1>. QED BY <1>0, <1>1, <1>2, <1>3, <1>4, Frame DEF localVars, GraftInv, Kept

\* A tracee runs: close(2) of a connection that is being looked up has not got to
\* the kernel, because the connection is young.
LEMMA TraceeKeeps ==
  ASSUME Orderly, TracerInv, GraftTypes, GraftInv, pc # "exited", NEW p \in Pids,
         TraceeRuns(p)
  PROVE  GraftInv'
<1>t. /\ ts \in [Pids -> TraceeState] /\ used \subseteq Pids
      /\ fdt \in [Pids -> [Fds -> AllSockKinds \cup {"closed"}]]
      /\ \A q \in Pids : grp[q] = q
  BY DEF TracerInv, TypeOK, TraceeTypeOK, DelayInv, OwnInv, OwnFds
<1>0. /\ UNCHANGED <<tracerVars, link>> /\ Tracee(p) /\ Allowed(p)
      /\ UNCHANGED <<st, goal, storing, pidAddrMap, inode, found>>
      /\ open' = {c \in open : Holds(link[c].pid, link[c].fd)'}
  <2>1. UNCHANGED tracerVars BY DEF TraceeRuns, Tracee
  <2>2. UNCHANGED <<st, goal, storing, pidAddrMap, inode, found>>
        /\ open' = {c \in open : Holds(link[c].pid, link[c].fd)'}
    BY DEF TraceeRuns, localVars, L!AppClose
  <2>. QED BY <2>1, <2>2 DEF TraceeRuns
<1>1. /\ used \subseteq used'
      /\ \A q \in used : ts'[q] \in Running => ts[q] \in Running
      /\ \A q \in used, fd \in Fds :
           ts'[q] \in Running /\ fdt[q][fd] # "closed" =>
             \/ fdt'[q][fd] # "closed"
             \/ q = p /\ ts[p] = "kernel" /\ regs[p].op = "close" /\ regs[p].fd = fd
      /\ \A q \in Pids : ts'[q] = "entry" =>
           /\ fdt'[q] = fdt[q]
           /\ \/ ts[q] = "entry" /\ regs'[q] = regs[q]
              \/ q = p /\ ts[q] = "user"
  BY <1>0, TraceeEffects DEF Orderly, TracerInv, DelayInv
<1>2. OpenHeld' BY <1>0 DEF OpenHeld, Holds
<1>3. ASSUME NEW q \in Pids, NEW fd
      PROVE  (Waiting(q)' => Waiting(q)) /\ (Connected(q, fd)' => Connected(q, fd))
  BY <1>0 DEF Waiting, Connected, IsLink, L!Pending
<1>4. Calling'
  <2>. SUFFICES ASSUME NEW q \in Pids, NEW fd, ts'[q] = "entry", regs'[q].op = "connect",
                       fd = regs'[q].fd
                PROVE  fdt'[q][fd] # "closed" /\ ~Waiting(q)' /\ ~Connected(q, fd)'
    BY DEF Calling, Waiting, Connected, IsLink
  <2>1. CASE ts[q] = "entry" /\ regs'[q] = regs[q]
    <3>1. fdt[q][fd] # "closed" /\ ~Waiting(q) /\ ~Connected(q, fd)
      BY <2>1 DEF GraftInv, Calling
    <3>. QED BY <3>1, <1>1, <1>3
  <2>2. CASE q = p /\ ts[q] = "user"
    <3>1. fd \in OpenFds(p) /\ ~Waiting(p) /\ ~Connected(p, fd)
      BY <2>2, <1>0 DEF Allowed, Orderly
    <3>. QED BY <2>2, <3>1, <1>1, <1>3, <1>t DEF OpenFds
  <2>. QED BY <2>1, <2>2, <1>1
<1>5. ASSUME NEW c \in Conns, L!Pending(c), Lives(c), Lives(c)'
      PROVE  /\ <<link[c].pid, link[c].fd>> \in young'
             /\ fdt'[link[c].pid][link[c].fd] # "closed"
             /\ c \in open => c \in open'
  <2>1. /\ <<link[c].pid, link[c].fd>> \in young /\ fdt[link[c].pid][link[c].fd] # "closed"
        /\ link[c].pid \in used /\ link[c].fd \in Fds
    BY <1>5 DEF GraftInv, Kept, LinkInv, L!Pending
  <2>2. ts'[link[c].pid] \in Running BY <1>0, <1>5 DEF Lives
  <2>3. fdt'[link[c].pid][link[c].fd] # "closed"
    <3>1. CloseDelayed BY DelayKept DEF TracerInv
    <3>. QED BY <2>1, <2>2, <3>1, <1>1, <1>t DEF CloseDelayed
  <2>. QED BY <1>0, <2>1, <2>2, <2>3 DEF Holds, tracerVars
<1>. QED BY <1>0, <1>1, <1>2, <1>4, <1>5, Frame DEF tracerVars

\* Time passes only when no connection is being looked up.
LEMMA ElapseKeeps ==
  ASSUME GraftTypes, GraftInv, GraftElapse
  PROVE  GraftInv'
<1>0. UNCHANGED <<traceeVars, fifo, localVars, link>> /\ \A c \in Conns : ~L!Pending(c)
  BY DEF GraftElapse, Elapse
<1>1. OpenHeld' /\ Calling'
  BY <1>0 DEF GraftInv, OpenHeld, Holds, Calling, Waiting, Connected, IsLink, L!Pending,
              traceeVars, localVars
<1>. QED BY <1>0, <1>1, Frame DEF traceeVars, localVars

\* Nothing happens.
LEMMA StutterKeeps ==
  ASSUME GraftTypes, GraftInv, UNCHANGED allVars
  PROVE  GraftInv'
<1>0. UNCHANGED <<traceeVars, fifo, young, localVars, link>> BY DEF allVars, vars, tracerVars
<1>1. OpenHeld' /\ Calling'
  BY <1>0 DEF GraftInv, OpenHeld, Holds, Calling, Waiting, Connected, IsLink, L!Pending,
              traceeVars, localVars
<1>2. Kept BY DEF GraftInv
<1>. QED BY <1>0, <1>1, <1>2, Frame DEF traceeVars, localVars, Kept

-----------------------------------------------------------------------------
(* A record is written *)

\* The tracer writes a record when a live tracee stands at the entry to connect(2),
\* with the destination the application asked for.
LEMMA AnnounceEffects ==
  ASSUME Orderly, TracerInv, TracerStep, fifo' # fifo, NEW p \in Pids, p = cur
  PROVE  /\ ts[p] = "entry" /\ regs[p].op = "connect" /\ ts' = [ts EXCEPT ![p] = "kernel"]
         /\ p \in used /\ regs[p].fd \in Fds /\ want[p] \in Addrs
         /\ fifo' = Append(fifo, [pid |-> p, addr |-> want[p]])
         /\ young' = young \cup {<<p, regs[p].fd>>}
         /\ UNCHANGED <<fdt, used>>
<1>t. /\ want \in [Pids -> Addrs] /\ regs \in [Pids -> RegsType] /\ cur \in used
      /\ grp[p] = p /\ TypeOK /\ PhaseInv
  BY DEF TracerInv, TypeOK, TraceeTypeOK, PhaseInv, FreshPids, DelayInv, OwnInv, OwnFds
<1>1. HandleEntering
  BY DEF TracerStep, Wait, WaitNoChild, HandleDeath, HandleSignal, HandleExiting,
         HandleNoSuchProcess, HandleBrokenPipe, handlerVars, trace_syscall_exiting,
         socket_exiting_handle
<1>2. get_syscall_number(cur) = "connect" /\ connect_pre_handle(cur) /\ fifo' # fifo
  BY <1>1 DEF HandleEntering, trace_syscall_entering, socket_pre_handle, close_pre_handle,
              clone_pre_handle, handlerVars
<1>3. ~Dead /\ regs[p].op = "connect" BY <1>2 DEF get_syscall_number
<1>4. /\ ts[p] = "entry" /\ ts' = [ts EXCEPT ![p] = "kernel"] /\ UNCHANGED <<fdt, used>>
  BY <1>1, <1>3, <1>t, AtEntering
<1>5. /\ fifo' = Append(fifo, [addr |-> buf[p], pid |-> p])
      /\ young' = young \cup {<<grp[p], regs[p].fd>>}
  BY <1>2 DEF connect_pre_handle, handlerVars, get_syscall_arg, getdata
<1>6. buf[p] = want[p]
  BY <1>1, <1>3, <1>4 DEF HandleEntering, TracerInv, RedirectInv, AtEntry, Abandoned
<1>7. regs[p].fd \in Fds BY <1>3 DEF TracerInv, DelayInv, OwnInv, CallArgs
<1>. QED BY <1>t, <1>3, <1>4, <1>5, <1>6, <1>7

\* A process that waits for nothing and lives has no record anywhere.
LEMMA NoRecord ==
  ASSUME GraftTypes, GraftInv, NEW p \in Pids, ts[p] \in Running, ~Waiting(p)
  PROVE  /\ \A i \in DOMAIN fifo : fifo[i].pid # p
         /\ \A i \in DOMAIN storing : storing[i].pid # p
         /\ pidAddrMap[p] = NULL
         /\ \A d \in Conns : L!Pending(d) => link[d].pid # p
<1>1. ASSUME NEW d \in Conns, goal[d] # NULL PROVE goal[d].pid = link[d].pid
  <2>1. st[d] # "new" BY <1>1 DEF GraftInv, LinkInv
  <2>2. goal[d] = [pid |-> link[d].pid, addr |-> link[d].asked] BY <2>1 DEF GraftInv, LinkInv
  <2>. QED BY <2>2
<1>2. ASSUME NEW d \in Conns, L!Pending(d) PROVE link[d].pid # p
  <2>1. goal[d] # NULL BY <1>2 DEF GraftInv, LinkInv, L!Pending
  <2>. QED BY <1>1, <1>2, <2>1 DEF Waiting
<1>3. ASSUME NEW r \in L!Records, Accounted(r) PROVE r.pid # p
  <2>1. PICK d \in Conns : goal[d] = r /\ (L!Pending(d) \/ ~Lives(d)) BY <1>3 DEF Accounted
  <2>2. r # NULL BY GraftAssumption DEF L!Records
  <2>3. goal[d].pid = link[d].pid BY <1>1, <2>1, <2>2
  <2>. QED BY <1>2, <2>1, <2>3 DEF Lives
<1>4. pidAddrMap[p] = NULL BY <1>3 DEF GraftTypes, GraftInv, Owned
<1>5. \A i \in DOMAIN fifo : fifo[i] \in L!Records /\ Accounted(fifo[i])
  BY DEF GraftTypes, GraftInv, Owned
<1>6. \A i \in DOMAIN storing : storing[i] \in L!Records /\ Accounted(storing[i])
  BY DEF GraftTypes, GraftInv, Owned
<1>. QED BY <1>2, <1>3, <1>4, <1>5, <1>6

\* What TracerAnnounces does: the socket has no connection, or connect(2) would not
\* have been called.
LEMMA AnnounceStep ==
  ASSUME Orderly, TracerInv, GraftTypes, GraftInv, TracerAnnounces
  PROVE  \E p \in Pids, c \in Conns :
           /\ ts[p] = "entry" /\ regs[p].op = "connect" /\ ts' = [ts EXCEPT ![p] = "kernel"]
           /\ p \in used /\ regs[p].fd \in Fds /\ want[p] \in Addrs
           /\ young' = young \cup {<<p, regs[p].fd>>} /\ UNCHANGED <<fdt, used>>
           /\ L!Announce(c, p, want[p])
           /\ link' = [link EXCEPT ![c] = [pid |-> p, fd |-> regs[p].fd, asked |-> want[p]]]
<1>0. PICK p \in Pids : p = cur BY DEF TracerInv, TypeOK, TracerTypeOK
<1>1. /\ ts[p] = "entry" /\ regs[p].op = "connect" /\ ts' = [ts EXCEPT ![p] = "kernel"]
      /\ p \in used /\ regs[p].fd \in Fds /\ want[p] \in Addrs
      /\ fifo' = Append(fifo, [pid |-> p, addr |-> want[p]])
      /\ young' = young \cup {<<p, regs[p].fd>>}
      /\ UNCHANGED <<fdt, used>>
  BY <1>0, AnnounceEffects DEF TracerAnnounces
<1>2. ~Connected(cur, regs[cur].fd) BY <1>0, <1>1 DEF GraftInv, Calling
<1>3. PICK c \in Conns :
        /\ L!Announce(c, cur, fifo'[Len(fifo')].addr)
        /\ link' = [link EXCEPT ![c] = [pid |-> cur, fd |-> regs[cur].fd, asked |-> want[cur]]]
  BY <1>2 DEF TracerAnnounces
<1>4. fifo'[Len(fifo')].addr = want[p]
  BY <1>1 DEF GraftTypes
<1>. QED BY <1>0, <1>1, <1>3, <1>4

\* A connection begins: its record is the only one of its process.
LEMMA AnnounceKeeps ==
  ASSUME Orderly, TracerInv, GraftTypes, GraftInv, TracerAnnounces
  PROVE  GraftTypes' /\ GraftInv'
<1>1. PICK p \in Pids, c \in Conns :
        /\ ts[p] = "entry" /\ regs[p].op = "connect" /\ ts' = [ts EXCEPT ![p] = "kernel"]
        /\ p \in used /\ regs[p].fd \in Fds /\ want[p] \in Addrs
        /\ young' = young \cup {<<p, regs[p].fd>>} /\ UNCHANGED <<fdt, used>>
        /\ L!Announce(c, p, want[p])
        /\ link' = [link EXCEPT ![c] = [pid |-> p, fd |-> regs[p].fd, asked |-> want[p]]]
  BY AnnounceStep
<1>. DEFINE r == [pid |-> p, addr |-> want[p]]
<1>2. /\ st[c] = "new" /\ st' = [st EXCEPT ![c] = "announced"]
      /\ goal' = [goal EXCEPT ![c] = r] /\ fifo' = Append(fifo, r)
      /\ UNCHANGED <<open, storing, pidAddrMap, inode, found>>
  BY <1>1 DEF L!Announce
<1>3. r \in L!Records /\ r # NULL /\ r.pid = p /\ r.addr = want[p] /\ want[p] # NULL
  BY <1>1, GraftAssumption DEF L!Records
<1>. HIDE DEF r
<1>4. \A q \in Pids : ts'[q] \in Running <=> ts[q] \in Running
  BY <1>1 DEF TracerInv, TypeOK, TraceeTypeOK, Running, Stops, HeldStops
<1>5. ts[p] \in Running /\ fdt[p][regs[p].fd] # "closed" /\ ~Waiting(p)
  BY <1>1 DEF GraftInv, Calling, Running, Stops, HeldStops
<1>6. /\ \A i \in DOMAIN fifo : fifo[i].pid # p
      /\ \A i \in DOMAIN storing : storing[i].pid # p
      /\ pidAddrMap[p] = NULL
      /\ \A d \in Conns : L!Pending(d) => link[d].pid # p
  BY <1>5, NoRecord
<1>7. /\ fifo' \in Seq(L!Records)
      /\ Len(fifo) + 1 \in DOMAIN fifo' /\ fifo'[Len(fifo) + 1] = r
      /\ \A k \in DOMAIN fifo' : \/ k \in DOMAIN fifo /\ fifo'[k] = fifo[k]
                                 \/ k = Len(fifo) + 1
      /\ \A k \in DOMAIN fifo : k \in DOMAIN fifo' /\ fifo'[k] = fifo[k]
  BY <1>2, <1>3, AppendedProperties DEF GraftTypes
<1>8. /\ link'[c] = [pid |-> p, fd |-> regs[p].fd, asked |-> want[p]]
      /\ st'[c] = "announced" /\ goal'[c] = r
      /\ \A d \in Conns : d # c =>
           /\ link'[d] = link[d] /\ st'[d] = st[d] /\ goal'[d] = goal[d]
           /\ L!Pending(d)' = L!Pending(d) /\ (Lives(d)' <=> Lives(d))
  BY <1>1, <1>2, <1>4 DEF GraftTypes, L!Pending, Lives
<1>9. GraftTypes'
  <2>1. st' \in [Conns -> L!States] BY <1>2 DEF GraftTypes, L!States
  <2>2. goal' \in [Conns -> L!Records \cup {NULL}] BY <1>2, <1>3 DEF GraftTypes
  <2>3. link' \in [Conns -> [pid : Pids, fd : Fds \cup {0}, asked : Addrs \cup {NULL}]]
    <3>. DEFINE l == [pid |-> p, fd |-> regs[p].fd, asked |-> want[p]]
    <3>1. l \in [pid : Pids, fd : Fds \cup {0}, asked : Addrs \cup {NULL}] BY <1>1
    <3>2. link' = [link EXCEPT ![c] = l] BY <1>1
    <3>. HIDE DEF l
    <3>. QED BY <3>1, <3>2 DEF GraftTypes
  <2>. QED BY <2>1, <2>2, <2>3, <1>2, <1>7 DEF GraftTypes, L!Records
<1>10. LinkInv'
  <2>. SUFFICES ASSUME NEW d \in Conns
                PROVE  /\ st'[d] = "new" <=> link'[d].asked = NULL
                       /\ st'[d] = "new" <=> goal'[d] = NULL
                       /\ st'[d] # "new" =>
                            /\ goal'[d] = [pid |-> link'[d].pid, addr |-> link'[d].asked]
                            /\ link'[d].pid \in used /\ link'[d].fd \in Fds
                       /\ st'[d] \in {"new", "announced", "queued", "inode", "range"} =>
                            found[d] = NULL
    BY <1>1, <1>2 DEF LinkInv
  <2>1. CASE d = c
    <3>1. found[c] = NULL BY <1>2 DEF GraftInv, LinkInv
    <3>2. st'[c] # "new" /\ link'[c].asked # NULL /\ goal'[c] # NULL BY <1>3, <1>8
    <3>3. goal'[c] = [pid |-> link'[c].pid, addr |-> link'[c].asked] BY <1>8 DEF r
    <3>4. link'[c].pid \in used /\ link'[c].fd \in Fds BY <1>1, <1>8
    <3>. QED BY <2>1, <3>1, <3>2, <3>3, <3>4
  <2>2. CASE d # c BY <2>2, <1>8 DEF GraftInv, LinkInv
  <2>. QED BY <2>1, <2>2
<1>11. OpenHeld'
  <2>. SUFFICES ASSUME NEW d \in open
                PROVE  ts'[link'[d].pid] \in Running /\ fdt[link'[d].pid][link'[d].fd] # "closed"
    BY <1>1, <1>2 DEF OpenHeld, Holds
  <2>1. d \in Conns /\ link[d].pid \in Pids BY DEF GraftTypes
  <2>2. CASE d = c BY <2>2, <1>4, <1>5, <1>8
  <2>3. CASE d # c BY <2>1, <2>3, <1>4, <1>8 DEF GraftInv, OpenHeld, Holds
  <2>. QED BY <2>2, <2>3
<1>12. Calling'
  <2>. SUFFICES ASSUME NEW q \in Pids, NEW fd, ts'[q] = "entry", regs'[q].op = "connect",
                       fd = regs'[q].fd
                PROVE  fdt[q][fd] # "closed" /\ ~Waiting(q)' /\ ~Connected(q, fd)'
    BY <1>1 DEF Calling, Waiting, Connected, IsLink
  <2>1. ts[q] = "entry" /\ q # p
    BY <1>1 DEF TracerInv, TypeOK, TraceeTypeOK
  <2>2. regs[q].op = "connect" /\ regs[q].fd = fd
    BY <2>1, TracerEffects DEF TracerAnnounces, TracerInv
  <2>3. fdt[q][fd] # "closed" /\ ~Waiting(q) /\ ~Connected(q, fd)
    BY <2>1, <2>2 DEF GraftInv, Calling
  <2>4. ~Waiting(q)'
    <3>. SUFFICES ASSUME NEW d \in Conns, L!Pending(d)', goal'[d].pid = q PROVE FALSE
      BY DEF Waiting
    <3>1. d # c BY <2>1, <1>3, <1>8
    <3>. QED BY <3>1, <2>3, <1>8 DEF Waiting
  <2>5. ~Connected(q, fd)'
    <3>. SUFFICES ASSUME NEW d \in Conns, d \in open, link'[d].asked # NULL,
                         link'[d].pid = q, link'[d].fd = fd
                  PROVE  FALSE
      BY <1>2 DEF Connected, IsLink
    <3>1. d # c BY <2>1, <1>8
    <3>. QED BY <3>1, <2>3, <1>8 DEF Connected, IsLink
  <2>. QED BY <2>3, <2>4, <2>5
<1>13. Kept'
  <2>. SUFFICES ASSUME NEW d \in Conns, L!Pending(d)', Lives(d)'
                PROVE  /\ <<link'[d].pid, link'[d].fd>> \in young'
                       /\ fdt[link'[d].pid][link'[d].fd] # "closed"
                       /\ st'[d] # "announced" => d \in open
                       /\ st'[d] \in {"range", "delete"} => d \in inode
                       /\ st'[d] # "delete" =>
                            \/ \E i \in DOMAIN fifo' : fifo'[i] = goal'[d]
                            \/ \E i \in DOMAIN storing : storing[i] = goal'[d]
                            \/ pidAddrMap[link'[d].pid] = goal'[d]
    BY <1>1, <1>2 DEF Kept
  <2>1. CASE d = c BY <2>1, <1>1, <1>5, <1>7, <1>8
  <2>2. CASE d # c
    <3>1. L!Pending(d) /\ Lives(d) /\ link'[d] = link[d] /\ st'[d] = st[d] /\ goal'[d] = goal[d]
      BY <2>2, <1>8
    <3>2. (\E i \in DOMAIN fifo : fifo[i] = goal[d]) => \E i \in DOMAIN fifo' : fifo'[i] = goal[d]
      BY <1>7
    <3>. QED BY <3>1, <3>2, <1>1 DEF GraftInv, Kept
  <2>. QED BY <2>1, <2>2
<1>14. FoundOwn' BY <1>2, <1>8 DEF GraftInv, FoundOwn
<1>15. OnePending'
  <2>. SUFFICES ASSUME NEW d \in Conns, NEW e \in Conns, L!Pending(d)', L!Pending(e)',
                       link'[d].pid = link'[e].pid
                PROVE  d = e
    BY DEF OnePending
  <2>1. CASE d # c /\ e # c BY <2>1, <1>8 DEF GraftInv, OnePending
  <2>2. CASE d = c /\ e # c BY <2>2, <1>6, <1>8
  <2>3. CASE d # c /\ e = c BY <2>3, <1>6, <1>8
  <2>. QED BY <2>1, <2>2, <2>3
<1>16. OneRecord'
  <2>1. \A i, j \in DOMAIN fifo' : fifo'[i].pid = fifo'[j].pid => i = j
    BY <1>3, <1>6, <1>7 DEF GraftInv, OneRecord
  <2>2. \A i \in DOMAIN fifo', j \in DOMAIN storing : fifo'[i].pid # storing[j].pid
    BY <1>3, <1>6, <1>7 DEF GraftInv, OneRecord
  <2>3. \A i \in DOMAIN fifo' : pidAddrMap[fifo'[i].pid] = NULL
    BY <1>3, <1>6, <1>7 DEF GraftInv, OneRecord
  <2>. QED BY <2>1, <2>2, <2>3, <1>2 DEF GraftInv, OneRecord
<1>17. Owned'
  <2>1. ASSUME NEW s \in L!Records, Accounted(s) PROVE Accounted(s)'
    <3>1. PICK d \in Conns : goal[d] = s /\ (L!Pending(d) \/ ~Lives(d)) BY <2>1 DEF Accounted
    <3>2. s # NULL BY GraftAssumption DEF L!Records
    <3>3. d # c BY <3>1, <3>2, <1>2 DEF GraftInv, LinkInv
    <3>. QED BY <3>1, <3>3, <1>8 DEF Accounted
  <2>2. ASSUME NEW s, s = r PROVE Accounted(s)' BY <2>2, <1>8 DEF Accounted, L!Pending
  <2>3. ASSUME NEW i \in DOMAIN fifo', NEW s, s = fifo'[i] PROVE Accounted(s)'
    <3>1. CASE i \in DOMAIN fifo /\ fifo'[i] = fifo[i]
      BY <3>1, <2>1, <2>3 DEF GraftInv, Owned, GraftTypes
    <3>2. CASE i = Len(fifo) + 1 BY <3>2, <2>2, <2>3, <1>7
    <3>. QED BY <3>1, <3>2, <1>7
  <2>4. (\A i \in DOMAIN fifo : Accounted(fifo[i]))' BY <2>3 DEF Accounted
  <2>5. (\A i \in DOMAIN storing : Accounted(storing[i]))'
    BY <2>1, <1>2 DEF GraftInv, Owned, GraftTypes, Accounted
  <2>6. (\A q \in Pids : pidAddrMap[q] # NULL => Accounted(pidAddrMap[q]))'
    BY <2>1, <1>2 DEF GraftInv, Owned, GraftTypes, Accounted
  <2>. QED BY <2>4, <2>5, <2>6 DEF Owned
<1>18. LostOnlyByExit'
  BY <1>4, <1>8 DEF GraftInv, LostOnlyByExit, GraftTypes
<1>. QED BY <1>9, <1>10, <1>11, <1>12, <1>13, <1>14, <1>15, <1>16, <1>17, <1>18 DEF GraftInv

-----------------------------------------------------------------------------
(* A connection arrives and is looked up *)

\* One connection makes progress and has what the next part of its lookup needs; the
\* records stay where they are.
LEMMA Progress ==
  ASSUME GraftTypes, GraftInv, OpenHeld', Calling',
         NEW c \in Conns, L!Pending(c), L!Pending(c)', st[c] # "delete",
         UNCHANGED <<goal, fifo, storing, pidAddrMap, link, used, fdt, young>>,
         open \subseteq open', inode \subseteq inode',
         \A q \in Pids : ts'[q] \in Running <=> ts[q] \in Running,
         \A d \in Conns \ {c} : st'[d] = st[d] /\ found'[d] = found[d],
         st'[c] = "delete" => found'[c] = goal[c] /\ pidAddrMap[link[c].pid] = goal[c],
         st'[c] # "delete" => found'[c] = NULL,
         Lives(c) => /\ st'[c] # "announced" => c \in open'
                     /\ st'[c] \in {"range", "delete"} => c \in inode'
  PROVE  GraftInv'
<1>1. \A d \in Conns : (L!Pending(d)' <=> L!Pending(d)) /\ (Lives(d)' <=> Lives(d))
  BY DEF L!Pending, Lives, GraftTypes
<1>2. LinkInv' BY DEF GraftInv, LinkInv, L!Pending
<1>3. Kept'
  <2>. SUFFICES ASSUME NEW d \in Conns, L!Pending(d)', Lives(d)'
                PROVE  /\ <<link[d].pid, link[d].fd>> \in young
                       /\ fdt[link[d].pid][link[d].fd] # "closed"
                       /\ st'[d] # "announced" => d \in open'
                       /\ st'[d] \in {"range", "delete"} => d \in inode'
                       /\ st'[d] # "delete" =>
                            \/ \E i \in DOMAIN fifo : fifo[i] = goal[d]
                            \/ \E i \in DOMAIN storing : storing[i] = goal[d]
                            \/ pidAddrMap[link[d].pid] = goal[d]
    BY DEF Kept
  <2>1. L!Pending(d) /\ Lives(d) BY <1>1
  <2>2. CASE d = c BY <2>1, <2>2 DEF GraftInv, Kept
  <2>3. CASE d # c
    <3>1. st'[d] = st[d] BY <2>3
    <3>. QED BY <2>1, <3>1 DEF GraftInv, Kept
  <2>. QED BY <2>2, <2>3
<1>4. FoundOwn' BY DEF GraftInv, FoundOwn
<1>5. OnePending' BY <1>1 DEF GraftInv, OnePending
<1>6. OneRecord' BY DEF GraftInv, OneRecord
<1>7. Owned'
  <2>1. \A r : Accounted(r) => Accounted(r)' BY <1>1 DEF Accounted
  <2>. QED BY <2>1 DEF GraftInv, Owned, Accounted
<1>8. LostOnlyByExit' BY <1>1 DEF GraftInv, LostOnlyByExit, Lives, L!Pending
<1>. QED BY <1>2, <1>3, <1>4, <1>5, <1>6, <1>7, <1>8 DEF GraftInv

\* The kernel's part of a connect(2) changes no descriptor and ends no process.
LEMMA ArriveEffects ==
  ASSUME TypeOK, NEW p \in Pids, Tracee(p), ts[p] = "kernel", regs[p].op = "connect",
         ts'[p] = "exit"
  PROVE  ts' = [ts EXCEPT ![p] = "exit"] /\ UNCHANGED <<fdt, used, regs>>
<1>1. ~SigKill(p)
  BY DEF SigKill, Die, Threads, TypeOK, TraceeTypeOK
<1>2. Kernel(p) BY <1>1 DEF Tracee, TraceeStep, Syscall, Signal, Finish, Detach, Stops, HeldStops
<1>3. KernelConnect(p)
  BY <1>2 DEF Kernel, KernelSocket, KernelClose, KernelClone, KernelExec, KernelExit, KernelOther,
             IsExit
<1>. QED BY <1>3 DEF KernelConnect, Return, memVars

\* A redirected connection reaches graftcp-local's accept queue.
LEMMA ArriveKeeps ==
  ASSUME TracerInv, GraftTypes, GraftInv, NEW p \in Pids, NEW c \in Conns, Redirected(p, c)
  PROVE  GraftTypes' /\ GraftInv'
<1>t. ts \in [Pids -> TraceeState] BY DEF TracerInv, TypeOK, TraceeTypeOK
<1>0. /\ ts[p] = "kernel" /\ link[c].pid = p /\ UNCHANGED <<link, fifo, young>>
      /\ st[c] = "announced" /\ st' = [st EXCEPT ![c] = "queued"] /\ open' = open \cup {c}
      /\ UNCHANGED <<goal, storing, pidAddrMap, inode, found>>
  BY DEF Redirected, L!Arrive, IsLink, Tracee, tracerVars
<1>1. ts' = [ts EXCEPT ![p] = "exit"] /\ UNCHANGED <<fdt, used, regs>>
  BY ArriveEffects DEF Redirected, TracerInv
<1>2. \A q \in Pids : ts'[q] \in Running <=> ts[q] \in Running
  BY <1>0, <1>1, <1>t DEF Running, Stops, HeldStops
<1>3. GraftTypes' BY <1>0 DEF GraftTypes, L!States
<1>4. st'[c] = "queued" /\ \A d \in Conns \ {c} : st'[d] = st[d] BY <1>0 DEF GraftTypes
<1>5. Lives(c) /\ L!Pending(c) BY <1>0 DEF Lives, L!Pending, Running
<1>6. OpenHeld'
  <2>1. fdt[link[c].pid][link[c].fd] # "closed" BY <1>5 DEF GraftInv, Kept
  <2>. QED BY <2>1, <1>0, <1>1, <1>2, <1>5 DEF GraftInv, OpenHeld, Holds, Lives, GraftTypes
<1>7. Calling'
  <2>1. \A d \in Conns : L!Pending(d)' <=> L!Pending(d)
    BY <1>0, <1>4 DEF L!Pending
  <2>. SUFFICES ASSUME NEW q \in Pids, NEW fd, ts'[q] = "entry", regs[q].op = "connect",
                       fd = regs[q].fd
                PROVE  fdt[q][fd] # "closed" /\ ~Waiting(q)' /\ ~Connected(q, fd)'
    BY <1>1 DEF Calling, Waiting, Connected, IsLink
  <2>2. ts[q] = "entry" /\ q # p BY <1>0, <1>1, <1>t
  <2>3. fdt[q][fd] # "closed" /\ ~Waiting(q) /\ ~Connected(q, fd)
    BY <2>2 DEF GraftInv, Calling
  <2>4. ~Waiting(q)' BY <2>1, <2>3, <1>0 DEF Waiting
  <2>5. ~Connected(q, fd)' BY <2>2, <2>3, <1>0 DEF Connected, IsLink
  <2>. QED BY <2>3, <2>4, <2>5
<1>8. found[c] = NULL /\ L!Pending(c)' BY <1>0, <1>4 DEF GraftInv, LinkInv, L!Pending
<1>. QED BY <1>0, <1>1, <1>2, <1>3, <1>4, <1>5, <1>6, <1>7, <1>8, Progress

\* The lookup of a connection touches nothing of the tracer's and of the tracees'.
LEMMA LookupApart ==
  ASSUME GraftInv, UNCHANGED <<traceeVars, link, open, goal>>,
         \A d \in Conns : L!Pending(d)' => L!Pending(d)
  PROVE  /\ OpenHeld' /\ Calling' /\ UNCHANGED <<fdt, used>>
         /\ \A q \in Pids : ts'[q] \in Running <=> ts[q] \in Running
         /\ \A d \in Conns : Lives(d)' <=> Lives(d)
<1>1. UNCHANGED <<ts, fdt, regs, used>> BY DEF traceeVars
<1>2. OpenHeld' BY <1>1 DEF GraftInv, OpenHeld, Holds
<1>3. \A q \in Pids : Waiting(q)' => Waiting(q) BY DEF Waiting
<1>4. Calling' BY <1>1, <1>3 DEF GraftInv, Calling, Connected, IsLink
<1>. QED BY <1>1, <1>2, <1>4 DEF Lives

\* A record in a goroutine or in the FIFO counts as on its way.
LEMMA RecordOnItsWay ==
  ASSUME GraftTypes, NEW c \in Conns,
         \/ \E i \in DOMAIN storing : storing[i] = goal[c]
         \/ \E i \in DOMAIN fifo : fifo[i] = goal[c]
  PROVE  L!OnItsWay(c)
<1>. DEFINE t == storing \o fifo
            n == Len(storing)
            m == Len(fifo)
<1>1. /\ DOMAIN storing = 1 .. n /\ DOMAIN fifo = 1 .. m
      /\ n \in Nat /\ m \in Nat
  BY DEF GraftTypes
<1>2. /\ Len(t) = n + m /\ t \in Seq(L!Records)
      /\ \A k \in 1 .. n + m : t[k] = IF k <= n THEN storing[k] ELSE fifo[k - n]
  BY ConcatProperties, Zenon DEF GraftTypes
<1>3. SUFFICES \E k \in DOMAIN t : t[k] = goal[c] BY DEF L!OnItsWay, L!Range
<1>. HIDE DEF t, n, m
<1>4. DOMAIN t = 1 .. n + m BY <1>1, <1>2
<1>5. ASSUME NEW k \in 1 .. n, storing[k] = goal[c] PROVE \E j \in DOMAIN t : t[j] = goal[c]
  <2>1. k \in 1 .. n + m /\ k <= n BY <1>1
  <2>. QED BY <2>1, <1>2, <1>4, <1>5
<1>6. ASSUME NEW k \in 1 .. m, fifo[k] = goal[c] PROVE \E j \in DOMAIN t : t[j] = goal[c]
  <2>1. n + k \in 1 .. n + m /\ ~(n + k <= n) /\ (n + k) - n = k BY <1>1
  <2>. QED BY <2>1, <1>2, <1>4, <1>6
<1>. QED BY <1>1, <1>5, <1>6

\* Whatever the lookups need of the records is there in every state of GraftInv.
LEMMA LeftBehind ==
  ASSUME GraftTypes, GraftInv
  PROVE  Afterwards
<1>1. ASSUME NEW r, Accounted(r) PROVE Left(r)
  <2>1. PICK d \in Conns : goal[d] = r /\ (L!Pending(d) \/ ~Lives(d)) BY <1>1 DEF Accounted
  <2>2. L!Pending(d) => Sole(d) BY DEF Sole, GraftInv, OnePending
  <2>. QED BY <2>1, <2>2 DEF Left
<1>2. \A c \in open : Lives(c) BY DEF GraftInv, OpenHeld, Holds, Lives
<1>. QED BY <1>1, <1>2 DEF GraftInv, Owned, Afterwards

\* The same of the next state.
LEMMA LeftBehindNext ==
  ASSUME GraftTypes', GraftInv'
  PROVE  Afterwards'
<1>1. ASSUME NEW r, Accounted(r)' PROVE Left(r)'
  <2>1. PICK d \in Conns : goal'[d] = r /\ (L!Pending(d)' \/ ~Lives(d)') BY <1>1 DEF Accounted
  <2>2. L!Pending(d)' => Sole(d)' BY DEF Sole, GraftInv, OnePending
  <2>. QED BY <2>1, <2>2 DEF Left
<1>2. (\A c \in open : Lives(c))' BY DEF GraftInv, OpenHeld, Holds, Lives
<1>3. (\A i \in DOMAIN fifo : Left(fifo[i]))' BY <1>1 DEF GraftInv, Owned, Accounted, Left
<1>. QED BY <1>1, <1>2, <1>3 DEF GraftInv, Owned, Afterwards

\* The entry a lookup comes across is its own: whoever has the connection open lives,
\* and has no other connection being looked up.
LEMMA OwnEntry ==
  ASSUME GraftTypes, Afterwards, NEW c \in Conns, NEW p \in Pids, L!RangeFinds(c, p)
  PROVE  p = link[c].pid /\ pidAddrMap[p] = goal[c]
<1>1. /\ st[c] = "range" /\ pidAddrMap[p] # NULL /\ c \in open
      /\ [q \in Pids |-> q][p] = [q \in Pids |-> q][goal[c].pid]
  BY DEF L!RangeFinds, L!hasIncludeInode
<1>2. goal[c] = [pid |-> link[c].pid, addr |-> link[c].asked] /\ link[c].pid \in Pids
  BY <1>1 DEF Afterwards, LinkInv, GraftTypes
<1>3. p = link[c].pid BY <1>1, <1>2
<1>4. ts[p] \in Running BY <1>1, <1>3 DEF Afterwards, Lives
<1>5. PICK d \in Conns : goal[d] = pidAddrMap[p] /\ (Sole(d) \/ ~Lives(d))
  BY <1>1 DEF Afterwards, Left
<1>6. st[d] # "new" BY <1>1, <1>5 DEF Afterwards, LinkInv
<1>7. goal[d] = [pid |-> link[d].pid, addr |-> link[d].asked] BY <1>6 DEF Afterwards, LinkInv
<1>8. pidAddrMap[p].pid = p BY <1>1 DEF GraftTypes
<1>9. link[d].pid = p BY <1>5, <1>7, <1>8
<1>10. Sole(d) BY <1>4, <1>5, <1>9 DEF Lives
<1>11. d = c BY <1>1, <1>3, <1>9, <1>10 DEF Sole, L!Pending
<1>. QED BY <1>3, <1>5, <1>11

\* A lookup fails for good only when the process has ended.
LEMMA FailsForGood ==
  ASSUME GraftTypes, GraftInv, NEW c \in Conns, L!RangeFails(c), st'[c] = "lost"
  PROVE  ~Lives(c)
<1>. SUFFICES ASSUME Lives(c) PROVE FALSE OBVIOUS
<1>1. st[c] = "range" /\ L!Pending(c) BY DEF L!RangeFails, L!Pending
<1>2. ~(tries[c] + 1 < L!MaxTries) BY DEF L!RangeFails, GraftTypes
<1>3. ~L!OnItsWay(c) BY <1>2 DEF L!RangeFails
<1>4. c \in open /\ c \in inode /\ pidAddrMap[link[c].pid] = goal[c]
  BY <1>1, <1>3, RecordOnItsWay DEF GraftInv, Kept
<1>5. /\ goal[c] = [pid |-> link[c].pid, addr |-> link[c].asked] /\ goal[c] # NULL
      /\ link[c].pid \in Pids
  BY <1>1 DEF GraftInv, LinkInv, GraftTypes
<1>6. L!hasIncludeInode(link[c].pid, c) BY <1>4, <1>5 DEF L!hasIncludeInode
<1>. QED BY <1>4, <1>5, <1>6 DEF L!RangeFails

\* A lookup ends: the connection's record is gone, or its process is.
LEMMA Ends ==
  ASSUME GraftTypes, GraftInv, NEW c \in Conns, L!Pending(c), st'[c] \in {"routed", "lost"},
         st'[c] = "lost" => ~Lives(c),
         \A d \in Conns \ {c} : st'[d] = st[d],
         UNCHANGED <<traceeVars, young, link, goal, open, inode, found, fifo, storing>>,
         \A q \in Pids : pidAddrMap'[q] = IF q = link[c].pid /\ st'[c] = "routed" THEN NULL
                                          ELSE pidAddrMap[q],
         Lives(c) => /\ \A i \in DOMAIN fifo : fifo[i] # goal[c]
                     /\ \A i \in DOMAIN storing : storing[i] # goal[c]
  PROVE  GraftInv'
<1>0. \A d \in Conns : L!Pending(d)' <=> L!Pending(d) /\ d # c BY DEF L!Pending
<1>1. /\ OpenHeld' /\ Calling' /\ UNCHANGED <<fdt, used>>
      /\ \A d \in Conns : Lives(d)' <=> Lives(d)
  BY <1>0, LookupApart
<1>2. \A d \in Conns \ {c} : L!Pending(d) => link[d].pid # link[c].pid
  BY DEF GraftInv, OnePending
<1>3. \A d \in Conns \ {c} : L!Pending(d) => pidAddrMap'[link[d].pid] = pidAddrMap[link[d].pid]
  BY <1>2 DEF GraftTypes
<1>4. LinkInv' BY <1>1 DEF GraftInv, LinkInv, L!Pending
<1>5. Kept'
  <2>. SUFFICES ASSUME NEW d \in Conns, L!Pending(d)', Lives(d)'
                PROVE  /\ <<link[d].pid, link[d].fd>> \in young
                       /\ fdt[link[d].pid][link[d].fd] # "closed"
                       /\ st'[d] # "announced" => d \in open
                       /\ st'[d] \in {"range", "delete"} => d \in inode
                       /\ st'[d] # "delete" =>
                            \/ \E i \in DOMAIN fifo : fifo[i] = goal[d]
                            \/ \E i \in DOMAIN storing : storing[i] = goal[d]
                            \/ pidAddrMap'[link[d].pid] = goal[d]
    BY <1>1 DEF Kept
  <2>1. L!Pending(d) /\ Lives(d) /\ d # c BY <1>0, <1>1
  <2>. QED BY <2>1, <1>3 DEF GraftInv, Kept
<1>6. FoundOwn' BY <1>3 DEF GraftInv, FoundOwn, L!Pending
<1>7. OnePending' BY <1>0 DEF GraftInv, OnePending
<1>8. OneRecord'
  <2>1. \A q \in Pids : pidAddrMap[q] = NULL => pidAddrMap'[q] = NULL OBVIOUS
  <2>2. /\ \A i \in DOMAIN fifo : fifo[i] \in L!Records
        /\ \A i \in DOMAIN storing : storing[i] \in L!Records
    BY DEF GraftTypes
  <2>3. /\ \A i \in DOMAIN fifo : fifo[i].pid \in Pids
        /\ \A i \in DOMAIN storing : storing[i].pid \in Pids
    BY <2>2 DEF L!Records
  <2>. QED BY <2>1, <2>2, <2>3 DEF GraftInv, OneRecord
<1>9. Owned'
  <2>1. ASSUME NEW r, Accounted(r), r # goal[c] \/ ~Lives(c) PROVE Accounted(r)'
    BY <2>1, <1>0, <1>1 DEF Accounted
  <2>2. \A i \in DOMAIN fifo : Accounted(fifo[i]) /\ (fifo[i] # goal[c] \/ ~Lives(c))
    BY DEF GraftInv, Owned
  <2>3. \A i \in DOMAIN storing : Accounted(storing[i]) /\ (storing[i] # goal[c] \/ ~Lives(c))
    BY DEF GraftInv, Owned
  <2>4. ASSUME NEW q \in Pids, pidAddrMap'[q] # NULL
        PROVE  /\ pidAddrMap'[q] = pidAddrMap[q] /\ Accounted(pidAddrMap[q])
               /\ pidAddrMap[q] # goal[c] \/ ~Lives(c)
    <3>1. pidAddrMap'[q] = pidAddrMap[q] /\ (q = link[c].pid => st'[c] # "routed")
      BY <2>4
    <3>2. pidAddrMap[q].pid = q BY <2>4, <3>1 DEF GraftTypes
    <3>3. goal[c] = [pid |-> link[c].pid, addr |-> link[c].asked]
      BY DEF GraftInv, LinkInv, L!Pending
    <3>. QED BY <2>4, <3>1, <3>2, <3>3 DEF GraftInv, Owned
  <2>5. (\A i \in DOMAIN fifo : Accounted(fifo[i]))' BY <2>1, <2>2 DEF Accounted
  <2>6. (\A i \in DOMAIN storing : Accounted(storing[i]))' BY <2>1, <2>3 DEF Accounted
  <2>7. (\A q \in Pids : pidAddrMap[q] # NULL => Accounted(pidAddrMap[q]))'
    BY <2>1, <2>4 DEF Accounted
  <2>. QED BY <2>5, <2>6, <2>7 DEF Owned
<1>10. LostOnlyByExit' BY <1>1 DEF GraftInv, LostOnlyByExit, Lives
<1>. QED BY <1>1, <1>4, <1>5, <1>6, <1>7, <1>8, <1>9, <1>10 DEF GraftInv

\* The steps of a lookup, from the accept queue to the destination.
LEMMA LookupKeeps ==
  ASSUME GraftTypes, GraftInv, NEW c \in Conns, LocalHandles(c)
  PROVE  GraftTypes' /\ GraftInv'
<1>0. UNCHANGED <<traceeVars, young, link>> BY DEF LocalHandles, apartVars
<1>1. CASE L!Start(c)
  <2>0. /\ st[c] = "queued" /\ st' = [st EXCEPT ![c] = "inode"]
        /\ UNCHANGED <<goal, open, fifo, storing, pidAddrMap, inode, found>>
    BY <1>1 DEF L!Start, L!envVars
  <2>1. GraftTypes' BY <2>0, <1>0 DEF GraftTypes, L!States
  <2>2. st'[c] = "inode" /\ \A d \in Conns \ {c} : st'[d] = st[d] BY <2>0 DEF GraftTypes
  <2>3. L!Pending(c) /\ \A d \in Conns : L!Pending(d)' <=> L!Pending(d)
    BY <2>0, <2>2 DEF L!Pending
  <2>4. /\ OpenHeld' /\ Calling' /\ UNCHANGED <<fdt, used>>
        /\ \A q \in Pids : ts'[q] \in Running <=> ts[q] \in Running
    BY <2>0, <2>3, <1>0, LookupApart
  <2>5. Lives(c) => c \in open BY <2>0, <2>3 DEF GraftInv, Kept
  <2>6. found[c] = NULL BY <2>0 DEF GraftInv, LinkInv
  <2>. QED BY <2>0, <2>1, <2>2, <2>3, <2>4, <2>5, <2>6, <1>0, Progress
<1>2. CASE L!getInodeByAddrs(c)
  <2>0. /\ st[c] = "inode" /\ st' = [st EXCEPT ![c] = "range"]
        /\ inode' = IF c \in open THEN inode \cup {c} ELSE inode
        /\ UNCHANGED <<goal, open, fifo, storing, pidAddrMap, found>>
    BY <1>2 DEF L!getInodeByAddrs, L!envVars
  <2>1. GraftTypes' BY <2>0, <1>0 DEF GraftTypes, L!States
  <2>2. st'[c] = "range" /\ \A d \in Conns \ {c} : st'[d] = st[d] BY <2>0 DEF GraftTypes
  <2>3. L!Pending(c) /\ \A d \in Conns : L!Pending(d)' <=> L!Pending(d)
    BY <2>0, <2>2 DEF L!Pending
  <2>4. /\ OpenHeld' /\ Calling' /\ UNCHANGED <<fdt, used>>
        /\ \A q \in Pids : ts'[q] \in Running <=> ts[q] \in Running
    BY <2>0, <2>3, <1>0, LookupApart
  <2>5. Lives(c) => c \in open /\ c \in inode' BY <2>0, <2>3 DEF GraftInv, Kept
  <2>6. found[c] = NULL BY <2>0 DEF GraftInv, LinkInv
  <2>. QED BY <2>0, <2>1, <2>2, <2>3, <2>4, <2>5, <2>6, <1>0, Progress
<1>3. ASSUME NEW p \in Pids, L!RangeFinds(c, p) PROVE GraftTypes' /\ GraftInv'
  <2>0. /\ st[c] = "range" /\ st' = [st EXCEPT ![c] = "delete"] /\ pidAddrMap[p] # NULL
        /\ found' = [found EXCEPT ![c] = pidAddrMap[p]] /\ c \in inode /\ c \in open
        /\ UNCHANGED <<goal, open, fifo, storing, pidAddrMap, inode>>
    BY <1>3 DEF L!RangeFinds, L!hasIncludeInode, L!envVars
  <2>1. GraftTypes' BY <2>0, <1>0 DEF GraftTypes, L!States
  <2>2. /\ st'[c] = "delete" /\ found'[c] = pidAddrMap[p]
        /\ \A d \in Conns \ {c} : st'[d] = st[d] /\ found'[d] = found[d]
    BY <2>0 DEF GraftTypes
  <2>3. L!Pending(c) /\ \A d \in Conns : L!Pending(d)' <=> L!Pending(d)
    BY <2>0, <2>2 DEF L!Pending
  <2>4. /\ OpenHeld' /\ Calling' /\ UNCHANGED <<fdt, used>>
        /\ \A q \in Pids : ts'[q] \in Running <=> ts[q] \in Running
    BY <2>0, <2>3, <1>0, LookupApart
  <2>5. p = link[c].pid /\ pidAddrMap[p] = goal[c] BY <1>3, LeftBehind, OwnEntry
  <2>. QED BY <2>0, <2>1, <2>2, <2>3, <2>4, <2>5, <1>0, Progress
<1>4. CASE L!RangeFails(c)
  <2>0. /\ st[c] = "range" /\ st' \in {st, [st EXCEPT ![c] = "lost"]}
        /\ UNCHANGED <<goal, open, fifo, storing, pidAddrMap, inode, found>>
    <3>1. [st EXCEPT ![c] = "range"] = st \/ st[c] # "range" BY DEF GraftTypes
    <3>. QED BY <1>4, <3>1 DEF L!RangeFails, L!envVars
  <2>1. GraftTypes' BY <2>0, <1>0 DEF GraftTypes, L!States
  <2>2. L!Pending(c) BY <2>0 DEF L!Pending
  <2>3. CASE st' = st
    <3>1. \A d \in Conns : L!Pending(d)' <=> L!Pending(d) BY <2>3 DEF L!Pending
    <3>2. /\ OpenHeld' /\ Calling' /\ UNCHANGED <<fdt, used>>
          /\ \A q \in Pids : ts'[q] \in Running <=> ts[q] \in Running
      BY <2>0, <3>1, <1>0, LookupApart
    <3>3. Lives(c) => c \in open /\ c \in inode BY <2>0, <2>2 DEF GraftInv, Kept
    <3>4. found[c] = NULL BY <2>0 DEF GraftInv, LinkInv
    <3>. QED BY <2>0, <2>1, <2>2, <2>3, <3>1, <3>2, <3>3, <3>4, <1>0, Progress
  <2>4. CASE st' = [st EXCEPT ![c] = "lost"]
    <3>1. st'[c] = "lost" /\ \A d \in Conns \ {c} : st'[d] = st[d] BY <2>4 DEF GraftTypes
    <3>2. ~Lives(c) BY <1>4, <3>1, FailsForGood
    <3>. QED BY <2>0, <2>1, <2>2, <3>1, <3>2, <1>0, Ends
  <2>. QED BY <2>0, <2>3, <2>4
<1>5. CASE L!DeletePidAddr(c)
  <2>0. /\ st[c] = "delete" /\ st' = [st EXCEPT ![c] = "routed"]
        /\ pidAddrMap' = [pidAddrMap EXCEPT ![found[c].pid] = NULL]
        /\ UNCHANGED <<goal, open, fifo, storing, inode, found>>
    BY <1>5 DEF L!DeletePidAddr, L!envVars
  <2>1. /\ found[c] = goal[c] /\ pidAddrMap[link[c].pid] = goal[c] /\ goal[c] # NULL
        /\ goal[c] = [pid |-> link[c].pid, addr |-> link[c].asked] /\ link[c].pid \in Pids
    BY <2>0 DEF GraftInv, FoundOwn, LinkInv, GraftTypes
  <2>2. st'[c] = "routed" /\ \A d \in Conns \ {c} : st'[d] = st[d] BY <2>0 DEF GraftTypes
  <2>3. \A q \in Pids : pidAddrMap'[q] = IF q = link[c].pid THEN NULL ELSE pidAddrMap[q]
    BY <2>0, <2>1 DEF GraftTypes
  <2>4. /\ \A i \in DOMAIN fifo : fifo[i] # goal[c]
        /\ \A i \in DOMAIN storing : storing[i] # goal[c]
    BY <2>1 DEF GraftInv, OneRecord
  <2>5. GraftTypes' BY <2>0, <1>0 DEF GraftTypes, L!States
  <2>6. L!Pending(c) BY <2>0 DEF L!Pending
  <2>. QED BY <2>0, <2>2, <2>3, <2>4, <2>5, <2>6, <1>0, Ends
<1>. QED BY <1>1, <1>2, <1>3, <1>4, <1>5 DEF LocalHandles, L!getPidByAddr

-----------------------------------------------------------------------------
(* Records are moved *)

\* r is in the FIFO, with a goroutine or in the map
Present(r) ==
  \/ \E i \in DOMAIN fifo : fifo[i] = r
  \/ \E i \in DOMAIN storing : storing[i] = r
  \/ \E p \in Pids : pidAddrMap[p] = r

\* Records may be moved as long as none is lost and none appears.
LEMMA Moves ==
  ASSUME GraftTypes, GraftInv, GraftTypes', OneRecord',
         UNCHANGED <<traceeVars, young, link, st, goal, open, inode, found>>,
         \A r \in L!Records : Present(r)' <=> Present(r),
         \A p \in Pids : pidAddrMap[p] # NULL => pidAddrMap'[p] = pidAddrMap[p]
  PROVE  GraftInv'
<1>0. \A d \in Conns : L!Pending(d)' <=> L!Pending(d) BY DEF L!Pending
<1>1. /\ OpenHeld' /\ Calling' /\ UNCHANGED <<fdt, used>>
      /\ \A d \in Conns : Lives(d)' <=> Lives(d)
  BY <1>0, LookupApart
<1>2. LinkInv' BY <1>1 DEF GraftInv, LinkInv
<1>3. FoundOwn'
  <2>1. \A c \in Conns : st[c] = "delete" => goal[c] # NULL /\ link[c].pid \in Pids
    BY DEF GraftInv, LinkInv, GraftTypes
  <2>. QED BY <2>1 DEF GraftInv, FoundOwn
<1>4. OnePending' /\ LostOnlyByExit'
  BY <1>0, <1>1 DEF GraftInv, OnePending, LostOnlyByExit, Lives
<1>5. Kept'
  <2>. SUFFICES ASSUME NEW d \in Conns, L!Pending(d), Lives(d)
                PROVE  /\ <<link[d].pid, link[d].fd>> \in young
                       /\ fdt[link[d].pid][link[d].fd] # "closed"
                       /\ st[d] # "announced" => d \in open
                       /\ st[d] \in {"range", "delete"} => d \in inode
                       /\ st[d] # "delete" =>
                            \/ \E i \in DOMAIN fifo' : fifo'[i] = goal[d]
                            \/ \E i \in DOMAIN storing' : storing'[i] = goal[d]
                            \/ pidAddrMap'[link[d].pid] = goal[d]
    BY <1>0, <1>1 DEF Kept
  <2>1. /\ goal[d] = [pid |-> link[d].pid, addr |-> link[d].asked] /\ goal[d] # NULL
        /\ goal[d] \in L!Records /\ link[d].pid \in Pids
    BY DEF GraftInv, LinkInv, GraftTypes, L!Pending
  <2>2. ASSUME st[d] # "delete"
        PROVE  \/ \E i \in DOMAIN fifo' : fifo'[i] = goal[d]
               \/ \E i \in DOMAIN storing' : storing'[i] = goal[d]
               \/ pidAddrMap'[link[d].pid] = goal[d]
    <3>. DEFINE r == goal[d]
    <3>1. Present(r) BY <2>1, <2>2 DEF GraftInv, Kept, Present
    <3>2. ASSUME NEW s, s = r PROVE Present(s)' BY <2>1, <3>1, <3>2
    <3>3. ASSUME NEW p \in Pids, pidAddrMap'[p] = r PROVE p = link[d].pid
      BY <2>1, <3>3 DEF GraftTypes
    <3>. QED BY <3>2, <3>3 DEF Present
  <2>. QED BY <2>2 DEF GraftInv, Kept
<1>6. Owned'
  <2>1. ASSUME NEW r \in L!Records, Present(r)' PROVE Accounted(r)'
    <3>1. Present(r) /\ r # NULL BY <2>1, GraftAssumption DEF L!Records
    <3>2. Accounted(r) BY <3>1 DEF Present, GraftInv, Owned
    <3>. QED BY <3>2, <1>0, <1>1 DEF Accounted
  <2>2. ASSUME NEW r, \/ \E i \in DOMAIN fifo' : fifo'[i] = r
                      \/ \E i \in DOMAIN storing' : storing'[i] = r
                      \/ \E p \in Pids : pidAddrMap'[p] # NULL /\ pidAddrMap'[p] = r
        PROVE  Accounted(r)'
    <3>1. r \in L!Records BY <2>2 DEF GraftTypes
    <3>. QED BY <3>1, <2>1, <2>2 DEF Present
  <2>3. (\A i \in DOMAIN fifo : Accounted(fifo[i]))' BY <2>2 DEF Accounted
  <2>4. (\A i \in DOMAIN storing : Accounted(storing[i]))' BY <2>2 DEF Accounted
  <2>5. (\A p \in Pids : pidAddrMap[p] # NULL => Accounted(pidAddrMap[p]))'
    BY <2>2 DEF Accounted
  <2>. QED BY <2>3, <2>4, <2>5 DEF Owned
<1>. QED BY <1>1, <1>2, <1>3, <1>4, <1>5, <1>6 DEF GraftInv

\* A line is read: its record goes from the FIFO to a goroutine.
LEMMA ReadKeeps ==
  ASSUME GraftTypes, GraftInv, LocalReads
  PROVE  GraftTypes' /\ GraftInv'
<1>0. /\ UNCHANGED <<traceeVars, young, link, st, goal, open, inode, found, pidAddrMap>>
      /\ fifo # <<>> /\ fifo' = Tail(fifo) /\ storing' = Append(storing, Head(fifo))
  BY DEF LocalReads, apartVars, L!UpdateProcessAddrInfo, L!envVars
<1>. DEFINE n == Len(storing) + 1
<1>1. /\ fifo' \in Seq(L!Records) /\ Head(fifo) \in L!Records
      /\ 1 \in DOMAIN fifo /\ Head(fifo) = fifo[1]
      /\ \A k \in DOMAIN fifo' : k + 1 \in DOMAIN fifo /\ k + 1 # 1 /\ fifo'[k] = fifo[k + 1]
      /\ \A k \in DOMAIN fifo : k # 1 => \E m \in DOMAIN fifo' : fifo'[m] = fifo[k]
  <2>1. fifo \in Seq(L!Records) BY DEF GraftTypes
  <2>2. /\ Tail(fifo) \in Seq(L!Records) /\ Head(fifo) \in L!Records
        /\ 1 \in DOMAIN fifo /\ Head(fifo) = fifo[1]
        /\ \A k \in DOMAIN Tail(fifo) :
             k + 1 \in DOMAIN fifo /\ k + 1 # 1 /\ Tail(fifo)[k] = fifo[k + 1]
        /\ \A k \in DOMAIN fifo : k # 1 =>
             \E m \in DOMAIN Tail(fifo) : Tail(fifo)[m] = fifo[k]
    BY <2>1, <1>0, TailProperties, Zenon
  <2>. QED BY <2>2, <1>0, Zenon
<1>2. /\ storing' \in Seq(L!Records) /\ n \in DOMAIN storing' /\ storing'[n] = fifo[1]
      /\ \A k \in DOMAIN storing' : \/ k \in DOMAIN storing /\ storing'[k] = storing[k]
                                    \/ k = n
      /\ \A k \in DOMAIN storing : k \in DOMAIN storing' /\ storing'[k] = storing[k]
  BY <1>0, <1>1, AppendedProperties DEF GraftTypes
<1>. HIDE DEF n
<1>3. GraftTypes' BY <1>0, <1>1, <1>2 DEF GraftTypes
<1>4. OneRecord'
  <2>1. \A i, j \in DOMAIN fifo' : fifo'[i].pid = fifo'[j].pid => i = j
    <3>. SUFFICES ASSUME NEW i \in DOMAIN fifo', NEW j \in DOMAIN fifo',
                         fifo'[i].pid = fifo'[j].pid
                  PROVE  i = j
      OBVIOUS
    <3>0. /\ i + 1 \in DOMAIN fifo /\ fifo'[i] = fifo[i + 1]
          /\ j + 1 \in DOMAIN fifo /\ fifo'[j] = fifo[j + 1]
      BY <1>1
    <3>1. i + 1 = j + 1 BY <3>0 DEF GraftInv, OneRecord
    <3>2. fifo' \in Seq(L!Records) BY <1>1
    <3>3. i \in Nat /\ j \in Nat BY <3>2
    <3>. QED BY <3>1, <3>3
  <2>2. \A i, j \in DOMAIN storing' : storing'[i].pid = storing'[j].pid => i = j
    <3>. SUFFICES ASSUME NEW i \in DOMAIN storing', NEW j \in DOMAIN storing',
                         storing'[i].pid = storing'[j].pid
                  PROVE  i = j
      OBVIOUS
    <3>1. \A k \in DOMAIN storing : storing[k].pid # fifo[1].pid
      BY <1>1 DEF GraftInv, OneRecord
    <3>2. CASE i = n \/ j = n BY <3>1, <3>2, <1>2
    <3>3. CASE i # n /\ j # n BY <3>3, <1>2 DEF GraftInv, OneRecord
    <3>. QED BY <3>2, <3>3
  <2>3. \A i \in DOMAIN fifo', j \in DOMAIN storing' : fifo'[i].pid # storing'[j].pid
    <3>. SUFFICES ASSUME NEW i \in DOMAIN fifo', NEW j \in DOMAIN storing'
                  PROVE  fifo'[i].pid # storing'[j].pid
      OBVIOUS
    <3>1. i + 1 \in DOMAIN fifo /\ i + 1 # 1 /\ fifo'[i] = fifo[i + 1] /\ 1 \in DOMAIN fifo
      BY <1>1
    <3>2. CASE j = n BY <3>1, <3>2, <1>2 DEF GraftInv, OneRecord
    <3>3. CASE j # n BY <3>1, <3>3, <1>2 DEF GraftInv, OneRecord
    <3>. QED BY <3>2, <3>3
  <2>4. \A i \in DOMAIN fifo' : pidAddrMap[fifo'[i].pid] = NULL
    BY <1>1 DEF GraftInv, OneRecord
  <2>5. \A i \in DOMAIN storing' : pidAddrMap[storing'[i].pid] = NULL
    BY <1>1, <1>2 DEF GraftInv, OneRecord
  <2>. QED BY <2>1, <2>2, <2>3, <2>4, <2>5, <1>0 DEF OneRecord
<1>5. ASSUME NEW r \in L!Records PROVE Present(r)' <=> Present(r)
  <2>1. Present(r)' => Present(r) BY <1>0, <1>1, <1>2 DEF Present
  <2>2. ASSUME NEW k \in DOMAIN fifo, fifo[k] = r PROVE Present(r)'
    <3>1. CASE k = 1 BY <2>2, <3>1, <1>2 DEF Present
    <3>2. CASE k # 1 BY <2>2, <3>2, <1>1 DEF Present
    <3>. QED BY <3>1, <3>2
  <2>3. ASSUME NEW k \in DOMAIN storing, storing[k] = r PROVE Present(r)'
    BY <2>3, <1>2 DEF Present
  <2>4. ASSUME NEW p \in Pids, pidAddrMap[p] = r PROVE Present(r)' BY <2>4, <1>0 DEF Present
  <2>. QED BY <2>1, <2>2, <2>3, <2>4 DEF Present
<1>. QED BY <1>0, <1>3, <1>4, <1>5, Moves

\* A goroutine stores its record: the map has none of the process yet.
LEMMA StoreKeeps ==
  ASSUME GraftTypes, GraftInv, LocalStores
  PROVE  GraftTypes' /\ GraftInv'
<1>0. PICK i \in DOMAIN storing :
        /\ UNCHANGED <<traceeVars, young, link, st, goal, open, inode, found, fifo>>
        /\ storing' = RemoveAt(storing, i)
        /\ pidAddrMap' = [pidAddrMap EXCEPT ![storing[i].pid] = storing[i]]
  <2>1. PICK i \in DOMAIN storing : L!StorePidAddr(i) BY DEF LocalStores, L!Store
  <2>2. L!RemoveAt(storing, i) = RemoveAt(storing, i) BY DEF L!RemoveAt, RemoveAt
  <2>. QED BY <2>1, <2>2 DEF LocalStores, apartVars, L!StorePidAddr, L!envVars
<1>. DEFINE q == storing[i].pid
<1>1. storing[i] \in L!Records /\ q \in Pids /\ storing[i] # NULL /\ pidAddrMap[q] = NULL
  <2>1. storing[i] \in L!Records BY DEF GraftTypes
  <2>. QED BY <2>1, GraftAssumption DEF L!Records, GraftInv, OneRecord
<1>2. /\ storing' \in Seq(L!Records)
      /\ \A k \in DOMAIN storing' :
           IF k < i THEN k \in DOMAIN storing /\ storing'[k] = storing[k]
                    ELSE k + 1 \in DOMAIN storing /\ storing'[k] = storing[k + 1]
      /\ \A k \in DOMAIN storing : k # i =>
           \E m \in DOMAIN storing' : storing'[m] = storing[k]
  <2>1. storing \in Seq(L!Records) BY DEF GraftTypes
  <2>3. /\ RemoveAt(storing, i) \in Seq(L!Records)
        /\ \A k \in DOMAIN RemoveAt(storing, i) :
             IF k < i THEN k \in DOMAIN storing /\ RemoveAt(storing, i)[k] = storing[k]
             ELSE k + 1 \in DOMAIN storing /\ RemoveAt(storing, i)[k] = storing[k + 1]
        /\ \A k \in DOMAIN storing : k # i =>
             \E m \in DOMAIN RemoveAt(storing, i) :
               RemoveAt(storing, i)[m] = storing[k]
    BY <2>1, RemoveAtProperties, Zenon
  <2>. QED BY <1>0, <2>3, Zenon
<1>3. \A p \in Pids : pidAddrMap'[p] = IF p = q THEN storing[i] ELSE pidAddrMap[p]
  BY <1>0 DEF GraftTypes
<1>4. i \in Nat /\ \A k \in DOMAIN storing' : k \in Nat BY <1>2 DEF GraftTypes
\* where an element that is left came from
<1>. DEFINE From(k) == IF k < i THEN k ELSE k + 1
<1>5. ASSUME NEW k \in DOMAIN storing'
      PROVE  From(k) \in DOMAIN storing /\ From(k) # i /\ storing'[k] = storing[From(k)]
  BY <1>2, <1>4
<1>6. ASSUME NEW k \in DOMAIN storing', NEW m \in DOMAIN storing', From(k) = From(m) PROVE k = m
  BY <1>4, <1>6
<1>. HIDE DEF q, From
<1>7. GraftTypes'
  <2>1. pidAddrMap' \in [Pids -> L!Records \cup {NULL}] BY <1>0, <1>1 DEF GraftTypes, q
  <2>2. \A p \in Pids : pidAddrMap'[p] # NULL => pidAddrMap'[p].pid = p
    BY <1>3 DEF GraftTypes, q
  <2>. QED BY <2>1, <2>2, <1>0, <1>2 DEF GraftTypes
<1>8. OneRecord'
  <2>1. \A k, m \in DOMAIN storing' : storing'[k].pid = storing'[m].pid => k = m
    BY <1>5, <1>6 DEF GraftInv, OneRecord
  <2>2. \A k \in DOMAIN fifo, m \in DOMAIN storing' : fifo[k].pid # storing'[m].pid
    BY <1>5 DEF GraftInv, OneRecord
  <2>3. ASSUME NEW k \in DOMAIN fifo PROVE pidAddrMap'[fifo[k].pid] = NULL
    <3>1. fifo[k] \in L!Records /\ fifo[k].pid # q /\ pidAddrMap[fifo[k].pid] = NULL
      BY DEF GraftInv, OneRecord, q, GraftTypes
    <3>2. fifo[k].pid \in Pids BY <3>1 DEF L!Records
    <3>. QED BY <3>1, <3>2, <1>3
  <2>4. ASSUME NEW k \in DOMAIN storing' PROVE pidAddrMap'[storing'[k].pid] = NULL
    <3>1. /\ storing'[k] \in L!Records /\ storing'[k].pid # q
          /\ pidAddrMap[storing'[k].pid] = NULL
      BY <1>2, <1>5 DEF GraftInv, OneRecord, q
    <3>2. storing'[k].pid \in Pids BY <3>1 DEF L!Records
    <3>. QED BY <3>1, <3>2, <1>3
  <2>. QED BY <2>1, <2>2, <2>3, <2>4, <1>0 DEF GraftInv, OneRecord
<1>9. ASSUME NEW r \in L!Records PROVE Present(r)' <=> Present(r)
  <2>0. r # NULL BY GraftAssumption DEF L!Records
  <2>1. Present(r)' => Present(r) BY <1>0, <1>3, <1>5 DEF Present
  <2>2. Present(r) => Present(r)'
    <3>1. ASSUME NEW p \in Pids, pidAddrMap[p] = r PROVE Present(r)'
      BY <3>1, <2>0, <1>1, <1>3 DEF Present
    <3>2. ASSUME NEW k \in DOMAIN storing, storing[k] = r PROVE Present(r)'
      <4>1. CASE k = i BY <3>2, <4>1, <1>1, <1>3 DEF Present
      <4>2. CASE k # i BY <3>2, <4>2, <1>2 DEF Present
      <4>. QED BY <4>1, <4>2
    <3>3. ASSUME NEW k \in DOMAIN fifo, fifo[k] = r PROVE Present(r)'
      BY <3>3, <1>0 DEF Present
    <3>. QED BY <3>1, <3>2, <3>3 DEF Present
  <2>. QED BY <2>1, <2>2
<1>10. \A p \in Pids : pidAddrMap[p] # NULL => pidAddrMap'[p] = pidAddrMap[p]
  BY <1>1, <1>3
<1>. QED BY <1>0, <1>7, <1>8, <1>9, <1>10, Moves

-----------------------------------------------------------------------------
(* The whole *)

\* Nothing has been announced in the first state.
LEMMA GraftInvInit == GraftInit => GraftTypes /\ GraftInv
<1>. SUFFICES ASSUME GraftInit PROVE GraftTypes /\ GraftInv OBVIOUS
<1>1. /\ st = [c \in Conns |-> "new"] /\ goal = [c \in Conns |-> NULL] /\ open = {}
      /\ fifo = <<>> /\ storing = <<>> /\ pidAddrMap = [p \in Pids |-> NULL] /\ inode = {}
      /\ found = [c \in Conns |-> NULL] /\ link = [c \in Conns |-> NoLink]
      /\ \A p \in Pids : ts[p] # "entry"
  BY DEF GraftInit, L!Init, Init, TraceeInit
<1>2. GraftTypes
  BY <1>1, PtraceAssumption DEF GraftTypes, L!States, NoLink
<1>3. \A c \in Conns : st[c] = "new" /\ ~L!Pending(c) BY <1>1 DEF L!Pending
<1>4. LinkInv BY <1>1 DEF LinkInv, NoLink
<1>5. OpenHeld /\ Calling /\ Kept /\ FoundOwn /\ OnePending /\ LostOnlyByExit
  BY <1>1, <1>3 DEF OpenHeld, Calling, Kept, FoundOwn, OnePending, LostOnlyByExit
<1>6. OneRecord /\ Owned BY <1>1 DEF OneRecord, Owned
<1>. QED BY <1>2, <1>4, <1>5, <1>6 DEF GraftInv

-----------------------------------------------------------------------------
(* When the tracer has ended *)

\* Traced or not, a process that has ended stays ended.
LEMMA DeadStayDead ==
  ASSUME ~PidReuse, TypeOK, NEW p \in Pids, Tracee(p)
  PROVE  used \subseteq used' /\ \A q \in used : ts'[q] \in Running => ts[q] \in Running
<1>t. ts \in [Pids -> TraceeState] /\ used \subseteq Pids BY DEF TypeOK, TraceeTypeOK
<1>1. ASSUME NEW c \in Calls, Syscall(p, c)
      PROVE  used' = used /\ ts[p] \in Running /\ \A q \in Pids : q # p => ts'[q] = ts[q]
  BY <1>1, <1>t DEF Syscall, Running
<1>2. ASSUME NEW s \in Signals, Signal(p, s)
      PROVE  used' = used /\ ts[p] \in Running /\ \A q \in Pids : q # p => ts'[q] = ts[q]
  BY <1>2, <1>t DEF Signal, Running
<1>3. CASE SigKill(p) BY <1>3, <1>t DEF SigKill, Die
<1>4. CASE Finish(p) BY <1>4, <1>t DEF Finish, Return, Running
<1>5. CASE Detach(p) BY <1>5, <1>t DEF Detach, Running
<1>6. CASE Kernel(p)
  <2>0. ts[p] \in Running BY <1>6 DEF Kernel, Running
  <2>1. CASE KernelClone(p)
    <3>1. ASSUME NEW q \in FreePids, used' = used \cup {q},
                 \A r \in Pids \ {p, q} : ts'[r] = ts[r]
          PROVE  used \subseteq used' /\ \A r \in used : ts'[r] \in Running => ts[r] \in Running
      BY <2>0, <3>1, <1>t DEF FreePids
    <3>2. CASE used' = used /\ \A r \in Pids \ {p} : ts'[r] = ts[r] BY <2>0, <3>2, <1>t
    <3>. QED BY <2>1, <3>1, <3>2, <1>t DEF KernelClone, Return
  <2>2. CASE KernelExec(p) BY <2>0, <2>2, <1>t DEF KernelExec
  <2>3. CASE KernelExit(p) BY <2>0, <2>3, <1>t DEF KernelExit, Die
  <2>4. CASE KernelSocket(p) \/ KernelConnect(p) \/ KernelClose(p) \/ KernelOther(p)
    BY <2>0, <2>4, <1>t DEF KernelSocket, KernelConnect, KernelClose, KernelOther, Return
  <2>. QED BY <1>6, <2>1, <2>2, <2>3, <2>4 DEF Kernel
<1>. QED BY <1>1, <1>2, <1>3, <1>4, <1>5, <1>6, <1>t DEF Tracee, TraceeStep

\* A step that announces nothing and makes no record up keeps what outlasts the
\* tracer.
LEMMA AfterwardsKept ==
  ASSUME GraftTypes, Afterwards, GraftTypes', LinkInv', UNCHANGED <<link, goal>>,
         \A c \in Conns : L!Pending(c)' => L!Pending(c),
         \A q \in used : ts'[q] \in Running => ts[q] \in Running,
         \A c \in open' : Lives(c)',
         \A r \in L!Records : Present(r)' => Present(r)
  PROVE  Afterwards'
<1>1. \A d \in Conns : Sole(d) => Sole(d)' BY DEF Sole
<1>2. ASSUME NEW r \in L!Records, Left(r) PROVE Left(r)'
  <2>1. PICK d \in Conns : goal[d] = r /\ (Sole(d) \/ ~Lives(d)) BY <1>2 DEF Left
  <2>2. r # NULL BY GraftAssumption DEF L!Records
  <2>3. link[d].pid \in used BY <2>1, <2>2 DEF Afterwards, LinkInv
  <2>4. ~Lives(d) => ~Lives(d)' BY <2>3 DEF Lives
  <2>. QED BY <2>1, <2>4, <1>1 DEF Left
<1>3. ASSUME NEW r \in L!Records, Present(r)' PROVE Left(r)'
  <2>1. Present(r) /\ r # NULL BY <1>3, GraftAssumption DEF L!Records
  <2>2. Left(r) BY <2>1 DEF Present, Afterwards
  <2>. QED BY <2>2, <1>2
<1>4. ASSUME NEW r, \/ \E i \in DOMAIN fifo' : fifo'[i] = r
                    \/ \E i \in DOMAIN storing' : storing'[i] = r
                    \/ \E p \in Pids : pidAddrMap'[p] # NULL /\ pidAddrMap'[p] = r
      PROVE  Left(r)'
  <2>1. r \in L!Records BY <1>4 DEF GraftTypes
  <2>. QED BY <2>1, <1>3, <1>4 DEF Present
<1>5. (\A i \in DOMAIN fifo : Left(fifo[i]))' BY <1>4 DEF Left
<1>6. (\A i \in DOMAIN storing : Left(storing[i]))' BY <1>4 DEF Left
<1>7. (\A p \in Pids : pidAddrMap[p] # NULL => Left(pidAddrMap[p]))' BY <1>4 DEF Left
<1>. QED BY <1>5, <1>6, <1>7 DEF Afterwards

\* A step of a lookup announces nothing, whoever is there to be asked.
LEMMA LookupAfterwards ==
  ASSUME GraftTypes, Afterwards, NEW c \in Conns, LocalHandles(c)
  PROVE  GraftTypes' /\ Afterwards'
<1>0. UNCHANGED <<traceeVars, link, goal, open, fifo, storing>>
  BY DEF LocalHandles, apartVars, L!Start, L!getPidByAddr, L!getInodeByAddrs, L!RangeFinds,
         L!RangeFails, L!DeletePidAddr, L!envVars
<1>1. /\ GraftTypes' /\ L!Pending(c)
      /\ \A p \in Pids : pidAddrMap'[p] \in {pidAddrMap[p], NULL}
      /\ \A d \in Conns \ {c} : st'[d] = st[d] /\ found'[d] = found[d]
      /\ st'[c] # "new" /\ (st'[c] # "delete" => found'[c] = found[c])
      /\ st'[c] \in {"inode", "range"} => st[c] \in {"queued", "inode", "range"}
      /\ st'[c] # "queued" /\ st'[c] # "announced"
  <2>1. CASE L!Start(c)
    BY <2>1, <1>0 DEF L!Start, GraftTypes, L!States, L!Pending
  <2>2. CASE L!getInodeByAddrs(c)
    BY <2>2, <1>0 DEF L!getInodeByAddrs, GraftTypes, L!States, L!Pending
  <2>3. ASSUME NEW p \in Pids, L!RangeFinds(c, p)
        PROVE  /\ GraftTypes' /\ UNCHANGED pidAddrMap /\ L!Pending(c) /\ st'[c] = "delete"
               /\ \A d \in Conns \ {c} : st'[d] = st[d] /\ found'[d] = found[d]
    BY <2>3, <1>0 DEF L!RangeFinds, GraftTypes, L!States, L!Pending
  <2>4. CASE L!RangeFails(c)
    BY <2>4, <1>0 DEF L!RangeFails, GraftTypes, L!States, L!Pending
  <2>5. CASE L!DeletePidAddr(c)
    BY <2>5, <1>0 DEF L!DeletePidAddr, GraftTypes, L!States, L!Pending
  <2>. QED BY <2>1, <2>2, <2>3, <2>4, <2>5 DEF LocalHandles, L!getPidByAddr
<1>2. \A d \in Conns : L!Pending(d)' => L!Pending(d) BY <1>1 DEF L!Pending
<1>3. LinkInv' BY <1>0, <1>1 DEF Afterwards, LinkInv, L!Pending, traceeVars
<1>4. ASSUME NEW r \in L!Records, Present(r)' PROVE Present(r)
  <2>1. r # NULL BY GraftAssumption DEF L!Records
  <2>. QED BY <1>0, <1>1, <1>4, <2>1 DEF Present
<1>5. \A d \in open' : Lives(d)' BY <1>0 DEF Afterwards, Lives, traceeVars
<1>. QED BY <1>0, <1>1, <1>2, <1>3, <1>4, <1>5, AfterwardsKept DEF traceeVars

\* Nor does moving a record.
LEMMA MoveAfterwards ==
  ASSUME GraftTypes, Afterwards, LocalReads \/ LocalStores
  PROVE  GraftTypes' /\ Afterwards'
<1>0. UNCHANGED <<traceeVars, link, goal, open, st, inode, found>>
  BY DEF LocalReads, LocalStores, apartVars, L!UpdateProcessAddrInfo, L!Store, L!StorePidAddr,
         L!envVars
<1>1. GraftTypes' /\ \A r \in L!Records : Present(r)' => Present(r)
  <2>1. CASE LocalReads
    <3>0. /\ fifo # <<>> /\ fifo' = Tail(fifo) /\ storing' = Append(storing, Head(fifo))
          /\ UNCHANGED pidAddrMap
      BY <2>1 DEF LocalReads, L!UpdateProcessAddrInfo
    <3>1. fifo \in Seq(L!Records) /\ storing \in Seq(L!Records) BY DEF GraftTypes
    <3>2. /\ Tail(fifo) \in Seq(L!Records) /\ Head(fifo) \in L!Records
          /\ 1 \in DOMAIN fifo /\ Head(fifo) = fifo[1]
          /\ \A k \in DOMAIN Tail(fifo) :
               k + 1 \in DOMAIN fifo /\ k + 1 # 1 /\ Tail(fifo)[k] = fifo[k + 1]
      BY <3>0, <3>1, TailProperties, Zenon
    <3>3. /\ storing' \in Seq(L!Records)
          /\ \A k \in DOMAIN storing' :
               \/ k \in DOMAIN storing /\ storing'[k] = storing[k]
               \/ storing'[k] = fifo[1]
      BY <3>0, <3>1, <3>2, AppendedProperties
    <3>4. GraftTypes' BY <1>0, <3>0, <3>2, <3>3 DEF GraftTypes
    <3>5. \A r \in L!Records : Present(r)' => Present(r)
      BY <3>0, <3>2, <3>3 DEF Present
    <3>. QED BY <3>4, <3>5
  <2>2. CASE LocalStores
    <3>0. PICK i \in DOMAIN storing :
            /\ UNCHANGED fifo /\ storing' = RemoveAt(storing, i)
            /\ pidAddrMap' = [pidAddrMap EXCEPT ![storing[i].pid] = storing[i]]
      <4>1. PICK i \in DOMAIN storing : L!StorePidAddr(i) BY <2>2 DEF LocalStores, L!Store
      <4>2. L!RemoveAt(storing, i) = RemoveAt(storing, i) BY DEF L!RemoveAt, RemoveAt
      <4>. QED BY <4>1, <4>2 DEF L!StorePidAddr
    <3>1. storing \in Seq(L!Records) BY DEF GraftTypes
    <3>2. /\ RemoveAt(storing, i) \in Seq(L!Records)
          /\ \A k \in DOMAIN RemoveAt(storing, i) :
               IF k < i THEN k \in DOMAIN storing /\ RemoveAt(storing, i)[k] = storing[k]
               ELSE k + 1 \in DOMAIN storing /\ RemoveAt(storing, i)[k] = storing[k + 1]
      BY <3>1, RemoveAtProperties, Zenon
    <3>3. /\ storing' \in Seq(L!Records)
          /\ \A k \in DOMAIN storing' : \E m \in DOMAIN storing : storing'[k] = storing[m]
      BY <3>0, <3>2
    <3>4. storing[i] \in L!Records /\ storing[i].pid \in Pids
      <4>1. storing[i] \in L!Records BY <3>1
      <4>. QED BY <4>1 DEF L!Records
    <3>5. \A p \in Pids : pidAddrMap'[p] =
            IF p = storing[i].pid THEN storing[i] ELSE pidAddrMap[p]
      BY <3>0 DEF GraftTypes
    <3>6. GraftTypes'
      <4>1. pidAddrMap' \in [Pids -> L!Records \cup {NULL}] BY <3>0, <3>4 DEF GraftTypes
      <4>2. \A p \in Pids : pidAddrMap'[p] # NULL => pidAddrMap'[p].pid = p
        BY <3>5 DEF GraftTypes
      <4>. QED BY <1>0, <3>0, <3>3, <4>1, <4>2 DEF GraftTypes
    <3>7. \A r \in L!Records : Present(r)' => Present(r)
      BY <3>0, <3>3, <3>5 DEF Present
    <3>. QED BY <3>6, <3>7
  <2>. QED BY <2>1, <2>2
<1>2. \A d \in Conns : L!Pending(d)' => L!Pending(d) BY <1>0 DEF L!Pending
<1>3. LinkInv' /\ \A d \in open' : Lives(d)'
  BY <1>0 DEF Afterwards, LinkInv, Lives, traceeVars
<1>. QED BY <1>0, <1>1, <1>2, <1>3, AfterwardsKept DEF traceeVars

\* The tracees go on, each on its own, and so does graftcp-local.
LEMMA AfterwardsNext ==
  ASSUME ~PidReuse, TypeOK, pc = "exited", GraftTypes, Afterwards, [GraftNext]_allVars
  PROVE  GraftTypes' /\ Afterwards'
<1>t. ts \in [Pids -> TraceeState] BY DEF TypeOK, TraceeTypeOK
<1>1. ~TracerStep
  BY DEF TracerStep, Wait, WaitNoChild, HandleDeath, HandleSignal, HandleEntering, HandleExiting,
         HandleNoSuchProcess, HandleBrokenPipe
<1>2. ASSUME NEW p \in Pids, TraceeRuns(p) PROVE GraftTypes' /\ Afterwards'
  <2>0. /\ UNCHANGED <<fifo, link, st, goal, storing, pidAddrMap, inode, found>>
        /\ open' = {c \in open : Holds(link[c].pid, link[c].fd)'} /\ Tracee(p)
    BY <1>2 DEF TraceeRuns, Tracee, tracerVars, localVars, L!AppClose
  <2>1. used \subseteq used' /\ \A q \in used : ts'[q] \in Running => ts[q] \in Running
    BY <2>0, DeadStayDead
  <2>2. GraftTypes' BY <2>0 DEF GraftTypes
  <2>3. LinkInv' BY <2>0, <2>1 DEF Afterwards, LinkInv
  <2>4. /\ \A c \in open' : Lives(c)'
        /\ \A c \in Conns : L!Pending(c)' => L!Pending(c)
        /\ \A r \in L!Records : Present(r)' => Present(r)
    BY <2>0 DEF Holds, Lives, L!Pending, Present
  <2>. QED BY <2>0, <2>1, <2>2, <2>3, <2>4, AfterwardsKept
<1>3. ASSUME NEW p \in Pids, NEW c \in Conns, Redirected(p, c) PROVE GraftTypes' /\ Afterwards'
  <2>0. /\ ts[p] = "kernel" /\ link[c].pid = p /\ UNCHANGED <<link, fifo>>
        /\ st[c] = "announced" /\ st' = [st EXCEPT ![c] = "queued"] /\ open' = open \cup {c}
        /\ UNCHANGED <<goal, storing, pidAddrMap, inode, found>>
    BY <1>3 DEF Redirected, L!Arrive, IsLink, Tracee, tracerVars
  <2>1. ts' = [ts EXCEPT ![p] = "exit"] /\ UNCHANGED used
    BY <1>3, ArriveEffects DEF Redirected
  <2>2. \A q \in Pids : ts'[q] \in Running <=> ts[q] \in Running
    BY <2>0, <2>1, <1>t DEF Running, Stops, HeldStops
  <2>3. GraftTypes' BY <2>0 DEF GraftTypes, L!States
  <2>4. /\ st'[c] = "queued" /\ \A d \in Conns \ {c} : st'[d] = st[d]
        /\ \A d \in Conns : L!Pending(d)' => L!Pending(d)
    BY <2>0 DEF GraftTypes, L!Pending
  <2>5. LinkInv' BY <2>0, <2>1, <2>4 DEF Afterwards, LinkInv
  <2>6. \A d \in open' : Lives(d)'
    BY <2>0, <2>2 DEF Afterwards, Lives, GraftTypes, Running
  <2>7. used \subseteq Pids /\ \A r \in L!Records : Present(r)' => Present(r)
    BY <2>0 DEF Present, TypeOK, TraceeTypeOK
  <2>. QED BY <2>0, <2>2, <2>3, <2>4, <2>5, <2>6, <2>7, AfterwardsKept
<1>4. CASE GraftElapse \/ UNCHANGED allVars
  <2>0. UNCHANGED <<traceeVars, fifo, localVars, link>>
    BY <1>4 DEF GraftElapse, Elapse, allVars, vars, tracerVars
  <2>1. GraftTypes' BY <2>0 DEF localVars, GraftTypes
  <2>2. LinkInv' /\ \A d \in open' : Lives(d)'
    BY <2>0 DEF Afterwards, LinkInv, Lives, traceeVars, localVars
  <2>3. /\ \A c \in Conns : L!Pending(c)' => L!Pending(c)
        /\ \A r \in L!Records : Present(r)' => Present(r)
    BY <2>0 DEF L!Pending, Present, localVars
  <2>. QED BY <2>0, <2>1, <2>2, <2>3, AfterwardsKept DEF traceeVars, localVars
<1>5. ASSUME NEW c \in Conns, LocalHandles(c) PROVE GraftTypes' /\ Afterwards'
  BY <1>5, LookupAfterwards
<1>6. CASE LocalReads \/ LocalStores BY <1>6, MoveAfterwards
<1>. QED BY <1>1, <1>2, <1>3, <1>4, <1>5, <1>6
         DEF GraftNext, GraftTerminated, TracerQuiet, TracerAnnounces

-----------------------------------------------------------------------------
(* The whole, to the tracer's end and beyond *)

\* Every step of a system whose tracer runs keeps the invariant.
LEMMA GraftInvNext ==
  ASSUME Orderly, TracerInv, GraftTypes, GraftInv, pc # "exited", [GraftNext]_allVars
  PROVE  GraftTypes' /\ GraftInv'
<1>1. CASE TracerQuiet
  <2>1. GraftTypes' BY <1>1 DEF TracerQuiet, localVars, GraftTypes
  <2>. QED BY <2>1, <1>1, QuietKeeps
<1>2. CASE TracerAnnounces BY <1>2, AnnounceKeeps
<1>3. ASSUME NEW c \in Conns, LocalHandles(c) PROVE GraftTypes' /\ GraftInv'
  BY <1>3, LookupKeeps
<1>4. ASSUME NEW p \in Pids, TraceeRuns(p) PROVE GraftTypes' /\ GraftInv'
  <2>1. /\ UNCHANGED <<fifo, link, st, goal, storing, pidAddrMap, inode, found>>
        /\ open' \subseteq open
    BY <1>4 DEF TraceeRuns, Tracee, tracerVars, localVars, L!AppClose
  <2>2. GraftTypes' BY <2>1 DEF GraftTypes
  <2>. QED BY <2>2, <1>4, TraceeKeeps
<1>5. ASSUME NEW p \in Pids, NEW c \in Conns, Redirected(p, c) PROVE GraftTypes' /\ GraftInv'
  BY <1>5, ArriveKeeps
<1>6. CASE GraftElapse
  <2>1. GraftTypes' BY <1>6 DEF GraftElapse, Elapse, localVars, GraftTypes
  <2>. QED BY <2>1, <1>6, ElapseKeeps
<1>7. CASE LocalReads BY <1>7, ReadKeeps
<1>8. CASE LocalStores BY <1>8, StoreKeeps
<1>9. CASE UNCHANGED allVars
  <2>1. GraftTypes' BY <1>9 DEF allVars, vars, tracerVars, localVars, GraftTypes
  <2>. QED BY <2>1, <1>9, StutterKeeps
<1>. QED BY <1>1, <1>2, <1>3, <1>4, <1>5, <1>6, <1>7, <1>8, <1>9
         DEF GraftNext, GraftTerminated

\* the inductive invariant of the whole
WholeInv ==
  /\ TracedInv /\ GraftTypes /\ Afterwards
  /\ pc # "exited" => GraftInv

\* It holds in every state, kills included.
LEMMA WholeInvCorrect ==
  ASSUME Orderly
  PROVE  GraftSpec => []WholeInv
<1>1. GraftInit => WholeInv BY TracedInvInit, GraftInvInit, LeftBehind DEF WholeInv
<1>2. ASSUME WholeInv, [GraftNext]_allVars PROVE WholeInv'
  <2>0. GraftTypes /\ Afterwards BY <1>2 DEF WholeInv
  <2>1. TracedInv' BY <1>2, TracedInvNext DEF WholeInv, Orderly
  <2>2. CASE pc # "exited"
    <3>1. GraftTypes' /\ GraftInv' BY <1>2, <2>2, GraftInvNext DEF WholeInv, TracedInv
    <3>2. Afterwards' BY <3>1, LeftBehindNext
    <3>. QED BY <2>1, <3>1, <3>2 DEF WholeInv
  <2>3. CASE pc = "exited"
    <3>1. GraftTypes' /\ Afterwards'
      BY <1>2, <2>0, <2>3, AfterwardsNext DEF WholeInv, TracedInv, Orderly, Trusted, Quiet
    <3>2. pc' = "exited" BY <1>2, <2>3, EndIsFinal
    <3>. QED BY <2>1, <3>1, <3>2 DEF WholeInv
  <2>. QED BY <2>2, <2>3
<1>. QED BY <1>1, <1>2, PTL DEF GraftSpec

\* For any number of processes, descriptors and connections, and with processes killed
\* at any moment: as long as the tracer runs, the delay of close(2) (close_pre_handle)
\* is all that graftcp-local needs in order to find every connection of a process that
\* lives; a process that ends takes only its own with it.
THEOREM LosesNoneWhileTraced ==
  ASSUME Orderly
  PROVE  GraftSpec => [](pc # "exited" => LostOnlyByExit)
<1>1. WholeInv => (pc # "exited" => LostOnlyByExit) BY DEF WholeInv, GraftInv
<1>. QED BY <1>1, WholeInvCorrect, PTL

\* The tracer that is not disturbed ends last in company, too.
LEMMA EndsLast ==
  ASSUME Undisturbed
  PROVE  GraftSpec => []TracedToTheEnd
<1>1. GraftInit => TypeOK /\ EndInv BY InitType, EndInit DEF GraftInit
<1>2. ASSUME TypeOK, EndInv, [GraftNext]_allVars PROVE (TypeOK /\ EndInv)'
  <2>1. CASE [Next]_vars BY <1>2, <2>1, NextType, EndNext
  <2>2. CASE LocalReads
    <3>0. /\ UNCHANGED <<traceeVars, pc, cur, status, pinfo, tab, reader, young>>
          /\ fifo # <<>> /\ fifo' = Tail(fifo)
      BY <2>2 DEF LocalReads, apartVars, L!UpdateProcessAddrInfo
    <3>1. TypeOK'
      BY <1>2, <3>0, HeadTailProperties DEF TypeOK, TraceeTypeOK, TracerTypeOK, traceeVars
    <3>2. EndInv'
      BY <1>2, <3>0 DEF EndInv, OwnGroup, CurThere, RootWaits, TracedToTheEnd, traceeVars
    <3>. QED BY <3>1, <3>2
  <2>. QED BY <1>2, <2>1, <2>2, TracerView
<1>3. EndInv => TracedToTheEnd BY DEF EndInv
<1>. QED BY <1>1, <1>2, <1>3, PTL DEF GraftSpec

\* LostOnlyByExit for any number of processes, descriptors and connections: if nothing
\* ends the tracer before its last tracee, which rules out kills, then no connection
\* of a process that lives is given up at all.
THEOREM OnlyExitLoses ==
  ASSUME Orderly, Undisturbed
  PROVE  GraftSpec => []LostOnlyByExit
<1>1. WholeInv /\ TracedToTheEnd => LostOnlyByExit
  <2>. SUFFICES ASSUME WholeInv, TracedToTheEnd, pc = "exited" PROVE LostOnlyByExit
    BY DEF WholeInv, GraftInv
  <2>. QED BY DEF LostOnlyByExit, TracedToTheEnd, WholeInv, GraftTypes
<1>. QED BY <1>1, WholeInvCorrect, EndsLast, PTL

\* Nothing that graftcp-local does disturbs the tracer: in company, too, and with
\* processes killed at any moment, every connect(2) that is to be redirected is, and
\* only after its destination was announced (connect_pre_handle), and close(2) waits
\* (close_pre_handle), for as long as the tracer runs.
THEOREM TracerInCompany ==
  ASSUME Trusted, Steady, OneShot
  PROVE  GraftSpec => [](pc # "exited" =>
           PhaseInSync /\ NoEscape /\ Intercepted /\ RedirectAnnounced /\ CloseDelayed)
<1>1. TracedInv => (pc # "exited" =>
        PhaseInSync /\ NoEscape /\ Intercepted /\ RedirectAnnounced /\ CloseDelayed)
  BY DelayKept DEF TracedInv, TracerInv, PhaseInv, RedirectInv, FiledInv
<1>2. GraftSpec => []TracedInv BY TracedInvInit, TracedInvNext, PTL DEF GraftSpec
<1>. QED BY <1>1, <1>2, PTL

\* A step of the whole is a step of Rendezvous or none: a record written is a request,
\* a lookup that finds something sends the connection where it was meant to go, one
\* that fails for good closes it.
LEMMA EndToEndStep ==
  ASSUME Orderly, WholeInv, [GraftNext]_allVars
  PROVE  [R!Next]_<<[c \in Conns |-> link[c].asked],
                    [c \in Conns |-> IF found[c] = NULL THEN NULL ELSE found[c].addr],
                    {c \in Conns : st[c] = "lost"}>>
<1>. DEFINE A == [c \in Conns |-> link[c].asked]
            S == [c \in Conns |-> IF found[c] = NULL THEN NULL ELSE found[c].addr]
            C == {c \in Conns : st[c] = "lost"}
<1>s. ASSUME UNCHANGED <<link, found>>, \A c \in Conns : st'[c] = "lost" <=> st[c] = "lost"
      PROVE  UNCHANGED <<A, S, C>>
  BY <1>s
<1>0. GraftTypes /\ Afterwards /\ LinkInv BY DEF WholeInv, Afterwards
<1>1. ASSUME TracerAnnounces PROVE R!Next
  <2>0. TracerInv /\ GraftInv
    BY <1>1 DEF TracerAnnounces, TracerStep, Wait, WaitNoChild, HandleDeath, HandleSignal,
                HandleEntering, HandleExiting, HandleNoSuchProcess, HandleBrokenPipe,
                WholeInv, TracedInv
  <2>1. PICK p \in Pids, c \in Conns :
          /\ want[p] \in Addrs /\ L!Announce(c, p, want[p])
          /\ link' = [link EXCEPT ![c] = [pid |-> p, fd |-> regs[p].fd, asked |-> want[p]]]
    BY <1>0, <1>1, <2>0, AnnounceStep
  <2>2. st[c] = "new" /\ st' = [st EXCEPT ![c] = "announced"] /\ UNCHANGED found
    BY <2>1 DEF L!Announce
  <2>3. A[c] = NULL BY <1>0, <2>2 DEF LinkInv
  <2>4. A' = [A EXCEPT ![c] = want[p]] BY <1>0, <2>1 DEF GraftTypes
  <2>5. UNCHANGED <<S, C>> BY <1>0, <2>2 DEF GraftTypes
  <2>. QED BY <2>1, <2>3, <2>4, <2>5 DEF R!Next, R!Ask
<1>2. ASSUME NEW c \in Conns, NEW p \in Pids, L!RangeFinds(c, p), LocalHandles(c) PROVE R!Next
  <2>0. /\ st[c] = "range" /\ st' = [st EXCEPT ![c] = "delete"] /\ pidAddrMap[p] # NULL
        /\ found' = [found EXCEPT ![c] = pidAddrMap[p]] /\ UNCHANGED link
    BY <1>2 DEF L!RangeFinds, LocalHandles, apartVars
  <2>1. pidAddrMap[p] = goal[c] BY <1>0, <1>2, OwnEntry
  <2>2. /\ goal[c] = [pid |-> link[c].pid, addr |-> link[c].asked]
        /\ link[c].asked # NULL /\ found[c] = NULL
    BY <1>0, <2>0 DEF LinkInv
  <2>3. A[c] # NULL /\ S[c] = NULL /\ c \notin C /\ UNCHANGED A BY <2>0, <2>2
  <2>4. UNCHANGED C BY <1>0, <2>0 DEF GraftTypes
  <2>5. S' = [S EXCEPT ![c] = A[c]]
    <3>1. found'[c] = goal[c] /\ goal[c] # NULL /\ goal[c].addr = A[c]
      BY <1>0, <2>0, <2>1, <2>2 DEF GraftTypes
    <3>2. \A d \in Conns \ {c} : found'[d] = found[d] BY <1>0, <2>0 DEF GraftTypes
    <3>3. \A d \in Conns : S'[d] = IF d = c THEN A[c] ELSE S[d] BY <3>1, <3>2
    <3>4. S' = [d \in Conns |-> S'[d]] OBVIOUS
    <3>. QED BY <3>3, <3>4
  <2>. QED BY <2>3, <2>4, <2>5 DEF R!Next, R!Send, R!Undecided
<1>3. ASSUME NEW c \in Conns, L!RangeFails(c), LocalHandles(c) PROVE [R!Next]_<<A, S, C>>
  <2>0. /\ st[c] = "range" /\ UNCHANGED <<link, found>>
        /\ st' \in {[st EXCEPT ![c] = "range"], [st EXCEPT ![c] = "lost"]}
    BY <1>3 DEF L!RangeFails, LocalHandles, apartVars
  <2>1. CASE st' = [st EXCEPT ![c] = "range"]
    <3>1. \A d \in Conns : st'[d] = st[d] BY <1>0, <2>0, <2>1 DEF GraftTypes
    <3>. QED BY <2>0, <3>1, <1>s
  <2>2. CASE st' = [st EXCEPT ![c] = "lost"]
    <3>1. A[c] # NULL /\ S[c] = NULL /\ c \notin C /\ UNCHANGED <<A, S>>
      BY <1>0, <2>0 DEF LinkInv
    <3>2. C' = C \cup {c} BY <1>0, <2>2 DEF GraftTypes
    <3>. QED BY <3>1, <3>2 DEF R!Next, R!Close, R!Undecided
  <2>. QED BY <2>0, <2>1, <2>2
<1>4. ASSUME NEW c \in Conns, LocalHandles(c),
             L!Start(c) \/ L!getInodeByAddrs(c) \/ L!DeletePidAddr(c)
      PROVE  UNCHANGED <<A, S, C>>
  <2>1. UNCHANGED <<link, found>> /\ \A d \in Conns : st'[d] = "lost" <=> st[d] = "lost"
    BY <1>0, <1>4 DEF L!Start, L!getInodeByAddrs, L!DeletePidAddr, LocalHandles, apartVars, GraftTypes
  <2>. QED BY <2>1, <1>s
<1>5. ASSUME NEW p \in Pids, NEW c \in Conns, Redirected(p, c) PROVE UNCHANGED <<A, S, C>>
  <2>1. UNCHANGED <<link, found>> /\ \A d \in Conns : st'[d] = "lost" <=> st[d] = "lost"
    BY <1>0, <1>5 DEF Redirected, L!Arrive, GraftTypes
  <2>. QED BY <2>1, <1>s
<1>6. ASSUME \/ TracerQuiet \/ \E p \in Pids : TraceeRuns(p)
             \/ GraftElapse \/ LocalReads \/ LocalStores \/ UNCHANGED allVars
      PROVE  UNCHANGED <<A, S, C>>
  <2>1. UNCHANGED <<link, found, st>>
    BY <1>6 DEF TracerQuiet, TraceeRuns, L!AppClose, GraftElapse, LocalReads, LocalStores,
                L!UpdateProcessAddrInfo, L!Store, L!StorePidAddr, apartVars, allVars, localVars
  <2>. QED BY <2>1, <1>s
<1>. HIDE DEF A, S, C
<1>7. ASSUME NEW c \in Conns, LocalHandles(c) PROVE [R!Next]_<<A, S, C>>
  <2>1. \/ L!Start(c) \/ L!getInodeByAddrs(c) \/ L!DeletePidAddr(c) \/ L!RangeFails(c)
        \/ \E p \in Pids : L!RangeFinds(c, p)
    BY <1>7 DEF LocalHandles, L!getPidByAddr
  <2>. QED BY <2>1, <1>2, <1>3, <1>4, <1>7
<1>8. [R!Next]_<<A, S, C>>
  BY <1>1, <1>5, <1>6, <1>7 DEF GraftNext, GraftTerminated
<1>. QED BY <1>8 DEF A, S, C

\* EndToEnd for any number of processes, descriptors and connections, with processes
\* killed at any moment: graftcp and graftcp-local implement Rendezvous together.  A
\* kill may end the tracer, and the connections of the processes that go on without it
\* may be given up then; still none is sent where it was not meant to go.
THEOREM ImplementsEndToEnd ==
  ASSUME Orderly
  PROVE  GraftSpec => EndToEnd
<1>1. GraftInit => R!Init
  BY DEF GraftInit, L!Init, R!Init, NoLink
<1>. QED BY <1>1, EndToEndStep, WholeInvCorrect, PTL DEF GraftSpec, EndToEnd, R!Spec

=============================================================================
