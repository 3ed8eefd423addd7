-------------------------------- MODULE Local --------------------------------
(***************************************************************************)
(* graftcp-local: how it finds out where a connection it has accepted was  *)
(* meant to go (local.go, util.go, proc_sync_map.go).  What HandleConn does *)
(* with the connection then is in Session.                                 *)
(*                                                                         *)
(* One goroutine reads `ip:port:pid` lines from the FIFO and starts a      *)
(* goroutine per line that stores the address under the pid.  One          *)
(* goroutine per accepted connection looks the connection's inode up in    *)
(* /proc/net/tcp, then looks for a pid in the map that has that inode open,*)
(* up to three times, and deletes the pid's entry.                         *)
(***************************************************************************)
EXTENDS Integers, SequencesExt

CONSTANTS
  Conns,        \* connections redirected to graftcp-local
  Pids,         \* threads of the traced application
  Group,        \* thread group of each of them; a group shares its descriptors
  Dests,        \* original destinations
  NULL,
  MayOverlap,   \* <<p, q>>: may q connect while a connection of p is looked up?
  InTime,       \* is a record stored before the lookup gives up?
  HeldOpen      \* does the application keep its descriptor during the lookup?

VARIABLES
  st,           \* state of each connection; see States
  want,         \* pid and destination of the connect(2) behind each connection
  open,         \* connections whose descriptor the application still holds
  fifo,         \* lines in the FIFO
  storing,      \* goroutines about to run StorePidAddr, by their records
  pidAddrMap,   \* record stored for each pid, or NULL
  inode,        \* connections whose inode getInodeByAddrs has found
  tries,        \* lookups that have failed
  found         \* record a lookup has found

envVars == <<want, open>>
vars == <<st, want, open, fifo, storing, pidAddrMap, inode, tries, found>>

ASSUME LocalAssumption ==
  /\ Group \in [Pids -> Pids]
  /\ MayOverlap \subseteq Pids \X Pids
  /\ InTime \in BOOLEAN /\ HeldOpen \in BOOLEAN
  /\ NULL \notin Dests /\ NULL \notin [pid : Pids, addr : Dests]

\* new: not yet made; announced: connect(2) is about to be issued; queued: in
\* the accept queue; then the steps of getPidByAddr; routed: the destination is
\* known; lost: closed because no record was found
States == {"new", "announced", "queued", "inode", "range", "delete", "routed", "lost"}

MaxTries == 3

Records == [pid : Pids, addr : Dests]

Init ==
  /\ st = [c \in Conns |-> "new"]
  /\ want = [c \in Conns |-> NULL]
  /\ open = {}
  /\ fifo = <<>> /\ storing = <<>>
  /\ pidAddrMap = [p \in Pids |-> NULL]
  /\ inode = {}
  /\ tries = [c \in Conns |-> 0]
  /\ found = [c \in Conns |-> NULL]

-----------------------------------------------------------------------------
(* The tracer and the traced application *)

\* the lookup for c has not ended yet
Pending(c) == st[c] \in {"announced", "queued", "inode", "range", "delete"}

\* the tracer writes the record; a thread makes one connection at a time
Announce(c, p, a) ==
  /\ st[c] = "new"
  /\ \A d \in Conns : Pending(d) =>
        /\ <<want[d].pid, p>> \in MayOverlap
        /\ want[d].pid = p => st[d] # "announced"
  /\ st' = [st EXCEPT ![c] = "announced"]
  /\ want' = [want EXCEPT ![c] = [pid |-> p, addr |-> a]]
  /\ fifo' = Append(fifo, [pid |-> p, addr |-> a])
  /\ UNCHANGED <<open, storing, pidAddrMap, inode, tries, found>>

\* the kernel completes the connection, before graftcp-local accepts it
Arrive(c) ==
  /\ st[c] = "announced"
  /\ st' = [st EXCEPT ![c] = "queued"]
  /\ open' = open \cup {c}
  /\ UNCHANGED <<want, fifo, storing, pidAddrMap, inode, tries, found>>

\* the last descriptors of connections are closed, by close(2) or by an exit
AppClose(cs) ==
  /\ cs # {} /\ cs \subseteq open
  /\ HeldOpen => \A c \in cs : ~Pending(c)
  /\ open' = open \ cs
  /\ UNCHANGED <<st, want, fifo, storing, pidAddrMap, inode, tries, found>>

-----------------------------------------------------------------------------
(* Records *)

\* one line, split at its colons into address and pid; a goroutine is started
\* to store it.  The tracer writes no line with fewer than three fields.
UpdateProcessAddrInfo ==
  /\ fifo # <<>>
  /\ fifo' = Tail(fifo)
  /\ storing' = Append(storing, Head(fifo))
  /\ UNCHANGED <<envVars, st, pidAddrMap, inode, tries, found>>

\* mutant: filed under the process instead of the thread
StorePidAddr_ByProcess(i) ==
  /\ storing' = RemoveAt(storing, i)
  /\ pidAddrMap' = [pidAddrMap EXCEPT ![Group[storing[i].pid]] = storing[i]]
  /\ UNCHANGED <<envVars, st, fifo, inode, tries, found>>

\* the goroutines run in any order
StorePidAddr(i) ==
  /\ storing' = RemoveAt(storing, i)
  /\ pidAddrMap' = [pidAddrMap EXCEPT ![storing[i].pid] = storing[i]]
  /\ UNCHANGED <<envVars, st, fifo, inode, tries, found>>

-----------------------------------------------------------------------------
(* HandleConn up to the destination *)

\* the accept loop starts HandleConn
Start(c) ==
  /\ st[c] = "queued"
  /\ st' = [st EXCEPT ![c] = "inode"]
  /\ UNCHANGED <<envVars, fifo, storing, pidAddrMap, inode, tries, found>>

\* mutant: the row is looked for in the table of the other IP version
getInodeByAddrs_WrongTable(c) ==
  /\ st[c] = "inode"
  /\ st' = [st EXCEPT ![c] = "range"]
  /\ UNCHANGED <<envVars, inode, fifo, storing, pidAddrMap, tries, found>>

\* read once: no inode is found for a connection that is closed by now, and
\* "socket:[]" will match no descriptor
getInodeByAddrs(c) ==
  /\ st[c] = "inode"
  /\ st' = [st EXCEPT ![c] = "range"]
  /\ inode' = IF c \in open THEN inode \cup {c} ELSE inode
  /\ UNCHANGED <<envVars, fifo, storing, pidAddrMap, tries, found>>

\* mutant: any descriptor that is a socket matches
hasIncludeInode_AnySocket(p, c) == c \in inode \cap open

\* /proc/<tid>/fd shows the descriptors of the whole thread group
hasIncludeInode(p, c) == c \in inode \cap open /\ Group[p] = Group[want[c].pid]

\* RangePidAddr comes across an entry whose pid has the inode open
RangeFinds(c, p) ==
  /\ st[c] = "range"
  /\ pidAddrMap[p] # NULL /\ hasIncludeInode(p, c)
  /\ found' = [found EXCEPT ![c] = pidAddrMap[p]]
  /\ st' = [st EXCEPT ![c] = "delete"]
  /\ UNCHANGED <<envVars, fifo, storing, pidAddrMap, inode, tries>>

\* a record of the thread that made c is on its way into the map
OnItsWay(c) ==
  \E r \in Range(storing \o fifo) : r.pid = want[c].pid

\* mutant: no limit to the number of lookups
RangeFails_Unlimited(c) ==
  /\ st[c] = "range"
  /\ \A p \in Pids : pidAddrMap[p] = NULL \/ ~hasIncludeInode(p, c)
  /\ UNCHANGED vars

\* RangePidAddr finds nothing; after the third time the connection is closed
RangeFails(c) ==
  /\ st[c] = "range"
  /\ \A p \in Pids : pidAddrMap[p] = NULL \/ ~hasIncludeInode(p, c)
  /\ tries' = [tries EXCEPT ![c] = @ + 1]
  /\ InTime /\ OnItsWay(c) => tries[c] + 1 < MaxTries
  /\ st' = [st EXCEPT ![c] = IF tries[c] + 1 < MaxTries THEN "range" ELSE "lost"]
  /\ UNCHANGED <<envVars, fifo, storing, pidAddrMap, inode, found>>

\* mutant: the entry is left in the map
DeletePidAddr_Keep(c) ==
  /\ st[c] = "delete"
  /\ st' = [st EXCEPT ![c] = "routed"]
  /\ UNCHANGED <<envVars, fifo, storing, pidAddrMap, inode, tries, found>>

\* by pid: whatever the map holds for it by now is gone
DeletePidAddr(c) ==
  /\ st[c] = "delete"
  /\ pidAddrMap' = [pidAddrMap EXCEPT ![found[c].pid] = NULL]
  /\ st' = [st EXCEPT ![c] = "routed"]
  /\ UNCHANGED <<envVars, fifo, storing, inode, tries, found>>

\* the lookup of HandleConn
getPidByAddr(c) ==
  \/ getInodeByAddrs(c)
  \/ \E p \in Pids : RangeFinds(c, p)
  \/ RangeFails(c) \/ DeletePidAddr(c)

Store == \E i \in DOMAIN storing : StorePidAddr(i)

\* every connection has come to its end
Idle ==
  /\ \A c \in Conns : st[c] \in {"routed", "lost"}
  /\ open = {} /\ fifo = <<>> /\ storing = <<>>
  /\ UNCHANGED vars

Next ==
  \/ \E c \in Conns, p \in Pids, a \in Dests : Announce(c, p, a)
  \/ \E c \in Conns : Arrive(c) \/ Start(c) \/ getPidByAddr(c)
  \/ \E cs \in SUBSET Conns : AppClose(cs)
  \/ UpdateProcessAddrInfo \/ Store
  \/ Idle

Spec == Init /\ [][Next]_vars

(* Fairness: a connect(2) that was let go ends, and every goroutine runs.   *)
(* How long the application keeps a connection is up to it.                *)
Fairness ==
  /\ WF_vars(UpdateProcessAddrInfo) /\ WF_vars(Store)
  /\ \A c \in Conns : WF_vars(Arrive(c)) /\ WF_vars(Start(c)) /\ WF_vars(getPidByAddr(c))

FairSpec == Spec /\ Fairness

-----------------------------------------------------------------------------
(* Properties *)

\* The state of graftcp-local keeps its type; an entry of pidAddrMap is filed
\* under the pid of its record.
TypeOK ==
  /\ st \in [Conns -> States]
  /\ want \in [Conns -> [pid : Pids, addr : Dests] \cup {NULL}]
  /\ open \subseteq Conns
  /\ fifo \in Seq(Records)
  /\ storing \in Seq(Records)
  /\ pidAddrMap \in [Pids -> Records \cup {NULL}]
  /\ \A p \in Pids : pidAddrMap[p] # NULL => pidAddrMap[p].pid = p
  /\ inode \subseteq Conns
  /\ tries \in [Conns -> 0 .. MaxTries]
  /\ found \in [Conns -> Records \cup {NULL}]

\* HandleConn dials the destination the application asked for with the
\* connect(2) behind this very connection.
RoutedRight ==
  \A c \in Conns : found[c] # NULL => found[c].addr = want[c].addr

\* getPidByAddr never fails for a connection the tracer has announced.
NoneLost == \A c \in Conns : st[c] # "lost"

\* Once every connection made has been looked up and the FIFO is drained, no
\* record is left in pidAddrMap for a later connection of the pid to find.
NoLeftover ==
  (fifo = <<>> /\ storing = <<>> /\ \A c \in Conns : ~Pending(c))
    => \A p \in Pids : pidAddrMap[p] = NULL

\* Only destinations that some thread sharing the connection's descriptors
\* announced are ever dialled for it, whatever the interleaving.
RoutedWithinGroup ==
  \A c \in Conns : found[c] # NULL =>
    \E d \in Conns : /\ want[d] # NULL
                     /\ want[d].addr = found[c].addr
                     /\ Group[want[d].pid] = Group[want[c].pid]

Abstract == INSTANCE Rendezvous WITH
  asked <- [c \in Conns |-> IF want[c] = NULL THEN NULL ELSE want[c].addr],
  sent <- [c \in Conns |-> IF found[c] = NULL THEN NULL ELSE found[c].addr],
  closed <- {c \in Conns : st[c] = "lost"}

\* graftcp-local implements Rendezvous: a connection is sent, once and for good,
\* where the connect(2) behind it was meant to go, or it is closed.
IsRendezvous == Abstract!Spec

\* Every connection that was announced is in the end routed or closed: no
\* HandleConn waits for ever for a record.
Served == \A c \in Conns : Pending(c) ~> st[c] \in {"routed", "lost"}

=============================================================================
