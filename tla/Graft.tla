------------------------------- MODULE Graft -------------------------------
(***************************************************************************)
(* graftcp and graftcp-local together: the tracer's records reach          *)
(* graftcp-local through the FIFO, the tracees' redirected connections     *)
(* through the kernel, and graftcp-local looks at the tracees' descriptors *)
(* while the tracer goes on.                                               *)
(*                                                                         *)
(* A step of the composition is a step of one of the two, or of both where *)
(* they meet: a record is written, a redirected connect(2) completes, a    *)
(* descriptor goes away, a line is read.                                   *)
(***************************************************************************)
EXTENDS Tracer

CONSTANTS
  Conns,        \* connections redirected to graftcp-local
  AppWaits,     \* does a process wait with its next connect(2) for the lookup?
  AppReconnects \* may connect(2) be called for a socket that is connected?

VARIABLES
  link,         \* the socket of each connection and the destination asked for
  st, goal, open, storing, pidAddrMap, inode, tries, found   \* of Local

\* every process has one thread; 60 ms are enough for a record to be stored
L == INSTANCE Local WITH
  Group <- [p \in Pids |-> p], Dests <- Addrs, want <- goal,
  MayOverlap <- Pids \X Pids, InTime <- TRUE, HeldOpen <- FALSE

ASSUME GraftAssumption ==
  /\ AppWaits \in BOOLEAN /\ AppReconnects \in BOOLEAN
  /\ NULL \notin Addrs /\ NULL \notin [pid : Pids, addr : Addrs]

localVars == <<st, goal, open, storing, pidAddrMap, inode, tries, found>>
allVars == <<vars, localVars, link>>

NoLink == [pid |-> Root, fd |-> 0, asked |-> NULL]

GraftInit == Init /\ L!Init /\ link = [c \in Conns |-> NoLink]

\* c is the connection of descriptor fd of process p
IsLink(c, p, fd) == link[c].asked # NULL /\ link[c].pid = p /\ link[c].fd = fd
Connected(p, fd) == \E c \in Conns : c \in open /\ IsLink(c, p, fd)
Waiting(p) == \E c \in Conns : L!Pending(c) /\ goal[c].pid = p

-----------------------------------------------------------------------------

\* a step of the tracer that writes no record
TracerQuiet == TracerStep /\ fifo' = fifo /\ UNCHANGED <<localVars, link>>

\* connect_pre_handle writes a record.  A connection will follow, unless the
\* socket is connected already and connect(2) is going to fail
TracerAnnounces ==
  LET fd == regs[cur].fd IN
  /\ TracerStep /\ fifo' # fifo
  /\ IF Connected(cur, fd) THEN UNCHANGED <<localVars, link>>
     ELSE \E c \in Conns :
            /\ L!Announce(c, cur, fifo'[Len(fifo')].addr)
            /\ link' = [link EXCEPT ![c] = [pid |-> cur, fd |-> fd, asked |-> want[cur]]]

\* what the application is taken to do; execve(2), system calls the tracer has
\* no handler for and descriptors that are not open are left to the runs of Tracer
Allowed(p) ==
  ts[p] = "user" =>
    /\ regs'[p].op \notin {"exec", "other"}
    /\ regs'[p].op \in {"connect", "close"} => regs'[p].fd \in OpenFds(p)
    /\ regs'[p].op = "connect" =>
          /\ ~(AppWaits /\ Waiting(p))
          /\ AppReconnects \/ ~Connected(p, regs'[p].fd)

Holds(p, fd) == ts[p] \in Running /\ fdt[p][fd] # "closed"

\* the kernel completes the connect(2) behind c
Redirected(p, c) ==
  /\ Tracee(p) /\ ts[p] = "kernel" /\ regs[p].op = "connect" /\ ts'[p] = "exit"
  /\ IsLink(c, p, regs[p].fd) /\ L!Arrive(c)
  /\ UNCHANGED link

\* any other step of a tracee; close(2), exit or SIGKILL takes connections away
TraceeRuns(p) ==
  LET gone == {c \in open : ~Holds(link[c].pid, link[c].fd)'} IN
  /\ UNCHANGED link
  /\ Tracee(p) /\ Allowed(p)
  /\ ts[p] = "kernel" /\ ts'[p] = "exit" =>
        ~ \E c \in Conns : st[c] = "announced" /\ IsLink(c, p, regs[p].fd)
  /\ IF gone = {} THEN UNCHANGED localVars ELSE L!AppClose(gone)

\* graftcp-local looks a connection up within MIN_CLOSE_MSEC
GraftElapse == Elapse /\ (\A c \in Conns : ~L!Pending(c)) /\ UNCHANGED <<localVars, link>>

\* every variable of the tracer but fifo, which is shared
apartVars == <<traceeVars, pc, cur, status, pinfo, tab, reader, young, link>>

LocalReads == L!UpdateProcessAddrInfo /\ UNCHANGED apartVars
LocalStores == L!Store /\ UNCHANGED apartVars
LocalHandles(c) == (L!Start(c) \/ L!getPidByAddr(c)) /\ UNCHANGED apartVars

GraftTerminated == pc = "exited" /\ UNCHANGED allVars

GraftNext ==
  \/ TracerQuiet \/ TracerAnnounces
  \/ \E c \in Conns : LocalHandles(c)
  \/ \E p \in Pids : TraceeRuns(p) \/ \E c \in Conns : Redirected(p, c)
  \/ GraftElapse \/ LocalReads \/ LocalStores
  \/ GraftTerminated

GraftSpec == GraftInit /\ [][GraftNext]_allVars

-----------------------------------------------------------------------------
(* Properties *)

R == INSTANCE Rendezvous WITH
  asked <- [c \in Conns |-> link[c].asked],
  sent <- [c \in Conns |-> IF found[c] = NULL THEN NULL ELSE found[c].addr],
  closed <- {c \in Conns : st[c] = "lost"},
  Dests <- Addrs

\* graftcp and graftcp-local implement Rendezvous together: what a process asks
\* for with connect(2) is where its connection is sent, though the request goes
\* through the FIFO and the connection through the kernel.
EndToEnd == R!Spec

\* graftcp-local gives up only connections whose process has ended: close(2) is
\* delayed for long enough (close_pre_handle), exit is not.
LostOnlyByExit ==
  \A c \in Conns : st[c] = "lost" => ts[link[c].pid] \notin Running

=============================================================================
