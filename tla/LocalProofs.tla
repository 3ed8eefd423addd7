---------------------------- MODULE LocalProofs ----------------------------
(***************************************************************************)
(* Proofs about Local, for any number of connections, threads, thread      *)
(* groups and destinations: what can go wrong when lookups overlap stays   *)
(* within a thread group, and when they do not, graftcp-local implements   *)
(* Rendezvous.                                                             *)
(***************************************************************************)
EXTENDS Local, SequenceLemmas

-----------------------------------------------------------------------------
(* The inductive invariants *)

\* some connect(2) was announced with this record
Announced(r) == \E d \in Conns : want[d] = r

\* Whatever graftcp-local handles, in the FIFO, in a goroutine, in the map or in
\* a lookup, is what the tracer announced for a connection.
AnnouncedInv ==
  /\ \A c \in Conns : st[c] = "new" <=> want[c] = NULL
  /\ \A c \in Conns : st[c] \in {"new", "announced", "queued", "inode", "range"} =>
       tries[c] < MaxTries /\ found[c] = NULL
  /\ \A i \in DOMAIN fifo : Announced(fifo[i])
  /\ \A i \in DOMAIN storing : Announced(storing[i])
  /\ \A p \in Pids : pidAddrMap[p] # NULL => Announced(pidAddrMap[p])
  /\ \A c \in Conns : found[c] # NULL =>
       Announced(found[c]) /\ Group[found[c].pid] = Group[want[c].pid]

\* A thread group waits with its next connection until the last one is looked up,
\* keeps the descriptor until then, and the goroutines run in time.
OneAtATime ==
  /\ InTime /\ HeldOpen
  /\ \A p, q \in Pids : <<p, q>> \in MayOverlap => Group[p] # Group[q]

\* the record of c is still needed
Waiting(c) == st[c] \in {"announced", "queued", "inode", "range"}

\* no two records of a sequence, of two sequences, of a sequence and the map, of
\* the map are of the same thread group
Apart(s) == \A i, j \in DOMAIN s : i # j => Group[s[i].pid] # Group[s[j].pid]
ApartFrom(s, t) == \A i \in DOMAIN s, j \in DOMAIN t : Group[s[i].pid] # Group[t[j].pid]
ApartFromMap(s) ==
  \A i \in DOMAIN s, p \in Pids : pidAddrMap[p] # NULL => Group[s[i].pid] # Group[p]
MapApart ==
  \A p, q \in Pids :
    pidAddrMap[p] # NULL /\ pidAddrMap[q] # NULL /\ p # q => Group[p] # Group[q]

\* A thread group has at most one record anywhere ...
OneRecord ==
  /\ Apart(fifo) /\ Apart(storing) /\ ApartFrom(fifo, storing)
  /\ ApartFromMap(fifo) /\ ApartFromMap(storing) /\ MapApart

\* ... and at most one connection that is being looked up.
OnePending ==
  \A c, d \in Conns : Pending(c) /\ Pending(d) /\ c # d =>
    Group[want[c].pid] # Group[want[d].pid]

\* Each record is that of a pending connection, and while it is not in the map
\* nothing has been found for that connection.
Owned ==
  /\ \A i \in DOMAIN fifo : \E c \in Conns : Waiting(c) /\ want[c] = fifo[i]
  /\ \A i \in DOMAIN storing : \E c \in Conns : Waiting(c) /\ want[c] = storing[i]
  /\ \A p \in Pids : pidAddrMap[p] # NULL =>
       \E c \in Conns : Pending(c) /\ want[c] = pidAddrMap[p]

\* Each pending connection has its record, in the map if it is to be deleted.
Provided ==
  /\ \A c \in Conns : Waiting(c) =>
       \/ \E i \in DOMAIN fifo : fifo[i] = want[c]
       \/ \E i \in DOMAIN storing : storing[i] = want[c]
       \/ pidAddrMap[want[c].pid] = want[c]
  /\ \A c \in Conns : st[c] = "delete" => pidAddrMap[want[c].pid] = want[c]

\* The descriptor of a connection can be found while it is looked up, what has
\* been found is the connection's own record, and nothing is given up.
Findable ==
  \A c \in Conns :
    /\ st[c] \in {"queued", "inode", "range", "delete"} => c \in open
    /\ st[c] \in {"range", "delete"} => c \in inode
    /\ st[c] \in {"delete", "routed"} => found[c] = want[c]
    /\ st[c] # "lost"

SerialInv == OneRecord /\ OnePending /\ Owned /\ Provided /\ Findable

-----------------------------------------------------------------------------
(* Types and origins *)

\* graftcp-local starts with nothing announced.
LEMMA AnnouncedInit == Init => TypeOK /\ AnnouncedInv
BY DEF Init, TypeOK, AnnouncedInv, States, Records, MaxTries

\* Every step keeps the types.
LEMMA TypeStep == TypeOK /\ AnnouncedInv /\ [Next]_vars => TypeOK'
<1>. SUFFICES ASSUME TypeOK, AnnouncedInv, [Next]_vars PROVE TypeOK' OBVIOUS
<1>. USE DEF TypeOK, States, envVars
<1>1. ASSUME NEW c \in Conns, NEW p \in Pids, NEW a \in Dests, Announce(c, p, a)
      PROVE  TypeOK'
  <2>1. [pid |-> p, addr |-> a] \in Records BY DEF Records
  <2>2. fifo' \in Seq(Records) BY <1>1, <2>1, AppendedProperties DEF Announce
  <2>3. want' \in [Conns -> Records \cup {NULL}] BY <1>1, <2>1 DEF Announce, Records
  <2>. QED BY <1>1, <2>2, <2>3 DEF Announce, Records
<1>2. ASSUME NEW c \in Conns, Arrive(c) PROVE TypeOK' BY <1>2 DEF Arrive
<1>3. ASSUME NEW c \in Conns, Start(c) PROVE TypeOK' BY <1>3 DEF Start
<1>4. ASSUME NEW c \in Conns, getInodeByAddrs(c) PROVE TypeOK' BY <1>4 DEF getInodeByAddrs
<1>5. ASSUME NEW c \in Conns, NEW p \in Pids, RangeFinds(c, p) PROVE TypeOK'
  BY <1>5 DEF RangeFinds
<1>6. ASSUME NEW c \in Conns, RangeFails(c) PROVE TypeOK'
  <2>1. tries[c] + 1 \in 0 .. MaxTries BY <1>6 DEF RangeFails, AnnouncedInv, MaxTries
  <2>2. tries' \in [Conns -> 0 .. MaxTries] BY <1>6, <2>1 DEF RangeFails
  <2>3. st' \in [Conns -> States] BY <1>6 DEF RangeFails
  <2>. QED BY <1>6, <2>2, <2>3 DEF RangeFails
<1>7. ASSUME NEW c \in Conns, DeletePidAddr(c) PROVE TypeOK' BY <1>7 DEF DeletePidAddr
<1>8. ASSUME NEW cs \in SUBSET Conns, AppClose(cs) PROVE TypeOK' BY <1>8 DEF AppClose
<1>9. CASE UpdateProcessAddrInfo
  <2>1. fifo' \in Seq(Records) /\ Head(fifo) \in Records
    BY <1>9, TailProperties DEF UpdateProcessAddrInfo
  <2>2. storing' \in Seq(Records) BY <1>9, <2>1, AppendedProperties DEF UpdateProcessAddrInfo
  <2>. QED BY <1>9, <2>1, <2>2 DEF UpdateProcessAddrInfo
<1>10. ASSUME NEW i \in DOMAIN storing, StorePidAddr(i) PROVE TypeOK'
  <2>1. storing' \in Seq(Records) BY <1>10, RemoveAtProperties DEF StorePidAddr
  <2>2. storing[i] \in Records OBVIOUS
  <2>3. /\ pidAddrMap' \in [Pids -> Records \cup {NULL}]
        /\ \A p \in Pids : pidAddrMap'[p] # NULL => pidAddrMap'[p].pid = p
    BY <1>10, <2>2 DEF StorePidAddr, Records
  <2>. QED BY <1>10, <2>1, <2>3 DEF StorePidAddr
<1>11. CASE Idle \/ UNCHANGED vars BY <1>11 DEF Idle, vars
<1>. QED
  BY <1>1, <1>2, <1>3, <1>4, <1>5, <1>6, <1>7, <1>8, <1>9, <1>10, <1>11
  DEF Next, getPidByAddr, Store

\* What was announced stays announced: Announce is taken once for a connection.
LEMMA AnnouncedStays ==
  ASSUME TypeOK, AnnouncedInv, [Next]_vars
  PROVE  \A r \in Records : Announced(r) => Announced(r)'
<1>1. ASSUME NEW c \in Conns, NEW p \in Pids, NEW a \in Dests, Announce(c, p, a)
      PROVE  \A r \in Records : Announced(r) => Announced(r)'
  <2>1. want[c] = NULL BY <1>1 DEF Announce, AnnouncedInv
  <2>2. \A d \in Conns : d # c => want'[d] = want[d] BY <1>1 DEF Announce, TypeOK
  <2>. QED BY <2>1, <2>2, LocalAssumption DEF Announced, Records
<1>2. CASE want' = want BY <1>2 DEF Announced
<1>. QED
  BY <1>1, <1>2
  DEF Next, getPidByAddr, Store, Arrive, Start, getInodeByAddrs, RangeFinds, RangeFails,
      DeletePidAddr, AppClose, UpdateProcessAddrInfo, StorePidAddr, Idle, vars, envVars

\* Every step keeps the origins.
LEMMA AnnouncedStep == TypeOK /\ AnnouncedInv /\ [Next]_vars => AnnouncedInv'
<1>. SUFFICES ASSUME TypeOK, AnnouncedInv, [Next]_vars PROVE AnnouncedInv' OBVIOUS
<1>. USE DEF envVars
<1>. DEFINE Later(r) == \E d \in Conns : want'[d] = r
<1>s. \A r \in Records : (\E d \in Conns : want[d] = r) => Later(r)
  BY AnnouncedStays DEF Announced
<1>a. AnnouncedInv' <=>
        /\ \A c \in Conns : st'[c] = "new" <=> want'[c] = NULL
        /\ \A c \in Conns : st'[c] \in {"new", "announced", "queued", "inode", "range"} =>
             tries'[c] < MaxTries /\ found'[c] = NULL
        /\ \A i \in DOMAIN fifo' : Later(fifo'[i])
        /\ \A i \in DOMAIN storing' : Later(storing'[i])
        /\ \A p \in Pids : pidAddrMap'[p] # NULL => Later(pidAddrMap'[p])
        /\ \A c \in Conns : found'[c] # NULL =>
             Later(found'[c]) /\ Group[found'[c].pid] = Group[want'[c].pid]
  BY DEF AnnouncedInv, Announced
<1>f. \A i \in DOMAIN fifo : fifo[i] \in Records /\ Later(fifo[i])
  <2>1. \A i \in DOMAIN fifo : fifo[i] \in Records BY DEF TypeOK
  <2>. QED BY <1>s, <2>1 DEF AnnouncedInv, Announced
<1>g. \A i \in DOMAIN storing : storing[i] \in Records /\ Later(storing[i])
  <2>1. \A i \in DOMAIN storing : storing[i] \in Records BY DEF TypeOK
  <2>. QED BY <1>s, <2>1 DEF AnnouncedInv, Announced
<1>m. \A p \in Pids : pidAddrMap[p] # NULL => pidAddrMap[p] \in Records /\ Later(pidAddrMap[p])
  <2>1. \A p \in Pids : pidAddrMap[p] # NULL => pidAddrMap[p] \in Records BY DEF TypeOK
  <2>. QED BY <1>s, <2>1 DEF AnnouncedInv, Announced
<1>r. \A c \in Conns : found[c] # NULL => Later(found[c])
  <2>1. \A c \in Conns : found[c] # NULL => found[c] \in Records BY DEF TypeOK
  <2>. QED BY <1>s, <2>1 DEF AnnouncedInv, Announced
<1>h. \A d \in Conns : Later(want'[d]) OBVIOUS
<1>. HIDE DEF Later
<1>1. ASSUME NEW c \in Conns, NEW p \in Pids, NEW a \in Dests, Announce(c, p, a)
      PROVE  AnnouncedInv'
  <2>. DEFINE r == [pid |-> p, addr |-> a]
  <2>1. r \in Records /\ r # NULL BY LocalAssumption DEF Records
  <2>2. want'[c] = r /\ \A d \in Conns : d # c => want'[d] = want[d]
    BY <1>1 DEF Announce, TypeOK
  <2>3. Later(r) BY <2>2, <1>h
  <2>4. \A i \in DOMAIN fifo' : Later(fifo'[i])
    <3>. HIDE DEF r
    <3>1. fifo' = Append(fifo, r) /\ fifo \in Seq(Records) BY <1>1 DEF Announce, TypeOK, r
    <3>. QED BY <3>1, <2>1, <2>3, <1>f, AppendedProperties
  <2>5. \A d \in Conns : st'[d] = "new" <=> want'[d] = NULL
    BY <1>1, <2>1, <2>2 DEF Announce, AnnouncedInv, TypeOK
  <2>6. \A d \in Conns : st'[d] \in {"new", "announced", "queued", "inode", "range"} =>
          tries'[d] < MaxTries /\ found'[d] = NULL
    BY <1>1 DEF Announce, AnnouncedInv, TypeOK
  <2>7. \A d \in Conns : found'[d] # NULL =>
          Later(found'[d]) /\ Group[found'[d].pid] = Group[want'[d].pid]
    <3>1. found' = found /\ found[c] = NULL BY <1>1 DEF Announce, AnnouncedInv
    <3>. QED BY <3>1, <2>2, <1>r DEF AnnouncedInv
  <2>8. storing' = storing /\ pidAddrMap' = pidAddrMap BY <1>1 DEF Announce
  <2>. QED BY <2>4, <2>5, <2>6, <2>7, <2>8, <1>g, <1>m, <1>a
<1>k. ASSUME UNCHANGED <<want, fifo, storing, pidAddrMap, tries, found>>,
             NEW c \in Conns, NEW now \in States \ {"new"}, st[c] # "new",
             now \in {"announced", "queued", "inode", "range"} =>
               st[c] \in {"announced", "queued", "inode", "range"},
             st' = [st EXCEPT ![c] = now]
      PROVE  AnnouncedInv'
  BY <1>k, <1>f, <1>g, <1>m, <1>r, <1>a DEF AnnouncedInv, TypeOK
<1>2. ASSUME NEW c \in Conns, Arrive(c) PROVE AnnouncedInv' BY <1>2, <1>k DEF Arrive, States
<1>3. ASSUME NEW c \in Conns, Start(c) PROVE AnnouncedInv' BY <1>3, <1>k DEF Start, States
<1>4. ASSUME NEW c \in Conns, getInodeByAddrs(c) PROVE AnnouncedInv'
  BY <1>4, <1>k DEF getInodeByAddrs, States
<1>5. ASSUME NEW c \in Conns, NEW p \in Pids, RangeFinds(c, p) PROVE AnnouncedInv'
  <2>1. /\ found'[c] = pidAddrMap[p] /\ pidAddrMap[p] # NULL
        /\ \A d \in Conns : d # c => found'[d] = found[d]
    BY <1>5 DEF RangeFinds, TypeOK
  <2>2. Later(found'[c]) /\ Group[found'[c].pid] = Group[want[c].pid]
    BY <1>5, <2>1, <1>m DEF RangeFinds, hasIncludeInode, TypeOK
  <2>3. /\ \A d \in Conns : st'[d] = "new" <=> want'[d] = NULL
        /\ \A d \in Conns : st'[d] \in {"new", "announced", "queued", "inode", "range"} =>
             tries'[d] < MaxTries /\ found'[d] = NULL
    BY <1>5, <2>1 DEF RangeFinds, AnnouncedInv, TypeOK
  <2>4. UNCHANGED <<want, fifo, storing, pidAddrMap>> BY <1>5 DEF RangeFinds
  <2>. QED BY <2>1, <2>2, <2>3, <2>4, <1>f, <1>g, <1>m, <1>r, <1>a DEF AnnouncedInv
<1>6. ASSUME NEW c \in Conns, RangeFails(c) PROVE AnnouncedInv'
  <2>1. \A d \in Conns : st'[d] = "new" <=> want'[d] = NULL
    BY <1>6 DEF RangeFails, AnnouncedInv, TypeOK
  <2>2. \A d \in Conns : st'[d] \in {"new", "announced", "queued", "inode", "range"} =>
          tries'[d] < MaxTries /\ found'[d] = NULL
    BY <1>6 DEF RangeFails, AnnouncedInv, TypeOK, MaxTries
  <2>. QED BY <1>6, <2>1, <2>2, <1>f, <1>g, <1>m, <1>r, <1>a DEF RangeFails, AnnouncedInv
<1>7. ASSUME NEW c \in Conns, DeletePidAddr(c) PROVE AnnouncedInv'
  <2>1. \A p \in Pids : pidAddrMap'[p] \in {NULL, pidAddrMap[p]}
    BY <1>7 DEF DeletePidAddr, TypeOK
  <2>2. /\ \A d \in Conns : st'[d] = "new" <=> want'[d] = NULL
        /\ \A d \in Conns : st'[d] \in {"new", "announced", "queued", "inode", "range"} =>
             tries'[d] < MaxTries /\ found'[d] = NULL
    BY <1>7 DEF DeletePidAddr, AnnouncedInv, TypeOK
  <2>. QED BY <1>7, <2>1, <2>2, <1>f, <1>g, <1>m, <1>r, <1>a DEF DeletePidAddr, AnnouncedInv
<1>8. ASSUME NEW cs \in SUBSET Conns, AppClose(cs) PROVE AnnouncedInv'
  BY <1>8, <1>f, <1>g, <1>m, <1>r, <1>a DEF AppClose, AnnouncedInv
<1>9. CASE UpdateProcessAddrInfo
  <2>0. fifo \in Seq(Records) /\ storing \in Seq(Records) /\ fifo # <<>>
    BY <1>9 DEF UpdateProcessAddrInfo, TypeOK
  <2>1. (\A i \in DOMAIN fifo' : Later(fifo'[i])) /\ Later(Head(fifo))
    BY <1>9, <2>0, <1>f, TailProperties DEF UpdateProcessAddrInfo
  <2>2. \A i \in DOMAIN storing' : Later(storing'[i])
    <3>1. Head(fifo) \in Records /\ storing' = Append(storing, Head(fifo))
      BY <1>9, <2>0, TailProperties DEF UpdateProcessAddrInfo
    <3>. QED BY <3>1, <2>0, <2>1, <1>g, AppendedProperties
  <2>. QED BY <1>9, <2>1, <2>2, <1>m, <1>r, <1>a DEF UpdateProcessAddrInfo, AnnouncedInv
<1>10. ASSUME NEW i \in DOMAIN storing, StorePidAddr(i) PROVE AnnouncedInv'
  <2>1. \A k \in DOMAIN storing' : Later(storing'[k])
    BY <1>10, <1>g, RemoveAtProperties DEF StorePidAddr, TypeOK
  <2>2. \A p \in Pids : pidAddrMap'[p] \in {storing[i], pidAddrMap[p]}
    BY <1>10 DEF StorePidAddr, TypeOK
  <2>. QED BY <1>10, <2>1, <2>2, <1>f, <1>g, <1>m, <1>r, <1>a DEF StorePidAddr, AnnouncedInv
<1>11. CASE Idle \/ UNCHANGED vars
  BY <1>11, <1>f, <1>g, <1>m, <1>r, <1>a DEF Idle, vars, AnnouncedInv
<1>. QED
  BY <1>1, <1>2, <1>3, <1>4, <1>5, <1>6, <1>7, <1>8, <1>9, <1>10, <1>11
  DEF Next, getPidByAddr, Store

\* Types and origins are right in every reachable state.
LEMMA AnnouncedCorrect == Spec => [](TypeOK /\ AnnouncedInv)
BY AnnouncedInit, TypeStep, AnnouncedStep, PTL DEF Spec

\* TypeOK for any number of connections and threads: above all, an entry of
\* pidAddrMap is always filed under the pid of its record, and no lookup is tried
\* more than three times.
THEOREM TypeCorrect == Spec => []TypeOK
BY AnnouncedCorrect, PTL

\* RoutedWithinGroup without any condition on the interleaving: a connection is
\* only ever sent where a thread that shares its descriptors wanted to go, however
\* lookups, records and closed descriptors overlap.
THEOREM WithinGroup == Spec => []RoutedWithinGroup
<1>1. TypeOK /\ AnnouncedInv => RoutedWithinGroup
  <2>. SUFFICES ASSUME AnnouncedInv, NEW c \in Conns, found[c] # NULL
                PROVE  \E d \in Conns : /\ want[d] # NULL
                                        /\ want[d].addr = found[c].addr
                                        /\ Group[want[d].pid] = Group[want[c].pid]
    BY DEF RoutedWithinGroup
  <2>1. PICK d \in Conns : want[d] = found[c] BY DEF AnnouncedInv, Announced
  <2>. QED BY <2>1 DEF AnnouncedInv
<1>. QED BY <1>1, AnnouncedCorrect, PTL

-----------------------------------------------------------------------------
(* One lookup at a time in a thread group *)

\* At the start there is neither a record nor a pending connection.
LEMMA SerialInit == Init => SerialInv
BY DEF Init, SerialInv, OneRecord, Apart, ApartFrom, ApartFromMap, MapApart, OnePending,
       Pending, Owned, Provided, Waiting, Findable

\* A record in a goroutine or in the FIFO counts as on its way.
LEMMA InTransit ==
  ASSUME TypeOK, NEW c \in Conns, ~OnItsWay(c)
  PROVE  /\ \A i \in DOMAIN storing : storing[i].pid # want[c].pid
         /\ \A i \in DOMAIN fifo : fifo[i].pid # want[c].pid
<1>. DEFINE t == storing \o fifo
            n == Len(storing)
            m == Len(fifo)
<1>1. /\ DOMAIN storing = 1 .. n /\ DOMAIN fifo = 1 .. m
      /\ n \in Nat /\ m \in Nat
  BY DEF TypeOK
<1>2. /\ Len(t) = n + m /\ t \in Seq(Records)
      /\ \A k \in 1 .. n + m : t[k] = IF k <= n THEN storing[k] ELSE fifo[k - n]
  BY ConcatProperties, Zenon DEF TypeOK
<1>3. \A k \in DOMAIN t : t[k].pid # want[c].pid BY DEF OnItsWay, Range
<1>. HIDE DEF t, n, m
<1>4. DOMAIN t = 1 .. n + m BY <1>1, <1>2
<1>5. ASSUME NEW k \in 1 .. n PROVE storing[k].pid # want[c].pid
  <2>1. k \in 1 .. n + m /\ k <= n BY <1>1
  <2>. QED BY <2>1, <1>2, <1>3, <1>4
<1>6. ASSUME NEW k \in 1 .. m PROVE fifo[k].pid # want[c].pid
  <2>1. n + k \in 1 .. n + m /\ ~(n + k <= n) /\ (n + k) - n = k BY <1>1
  <2>. QED BY <2>1, <1>2, <1>3, <1>4
<1>. QED BY <1>1, <1>5, <1>6

\* A step that moves no record and takes no connection to or from the waiting
\* ones leaves the account of the records alone.
LEMMA RecordsKept ==
  ASSUME SerialInv, UNCHANGED <<want, fifo, storing, pidAddrMap>>,
         \A d \in Conns : /\ Waiting(d)' <=> Waiting(d)
                          /\ st'[d] = "delete" <=> st[d] = "delete"
  PROVE  OneRecord' /\ OnePending' /\ Owned' /\ Provided'
<1>1. \A d \in Conns : Pending(d)' <=> Pending(d) BY DEF Pending, Waiting
<1>2. OneRecord'
  BY DEF SerialInv, OneRecord, Apart, ApartFrom, ApartFromMap, MapApart
<1>3. OnePending' BY <1>1 DEF SerialInv, OnePending
<1>4. Owned' BY <1>1 DEF SerialInv, Owned
<1>5. Provided' BY DEF SerialInv, Provided
<1>. QED BY <1>2, <1>3, <1>4, <1>5

\* Announce: the record is the first of its thread group.
LEMMA SerialAnnounce ==
  ASSUME OneAtATime, TypeOK, AnnouncedInv, SerialInv,
         NEW c \in Conns, NEW p \in Pids, NEW a \in Dests, Announce(c, p, a)
  PROVE  SerialInv'
<1>. DEFINE r == [pid |-> p, addr |-> a]
<1>1. r \in Records /\ r # NULL /\ r.pid = p BY LocalAssumption DEF Records
<1>2. /\ want'[c] = r /\ \A d \in Conns : d # c => want'[d] = want[d]
      /\ st'[c] = "announced" /\ \A d \in Conns : d # c => st'[d] = st[d]
      /\ st[c] = "new" /\ fifo' = Append(fifo, r) /\ fifo \in Seq(Records)
      /\ UNCHANGED <<open, storing, pidAddrMap, inode, found>>
  BY DEF Announce, TypeOK
<1>3. \A d \in Conns : Pending(d) => want[d] \in Records /\ Group[want[d].pid] # Group[p]
  <2>1. \A d \in Conns : Pending(d) => want[d] \in Records /\ want[d].pid \in Pids
    BY DEF AnnouncedInv, TypeOK, Pending, Records
  <2>. QED BY <2>1 DEF Announce, OneAtATime
<1>. HIDE DEF r
<1>4. /\ \A d \in Conns : d # c => (Pending(d)' <=> Pending(d)) /\ (Waiting(d)' <=> Waiting(d))
      /\ ~Pending(c) /\ ~Waiting(c) /\ Waiting(c)' /\ Pending(c)'
  BY <1>2 DEF Pending, Waiting
<1>5. \A d \in Conns : Waiting(d) => Pending(d) BY DEF Pending, Waiting
<1>6. /\ \A i \in DOMAIN fifo : Group[fifo[i].pid] # Group[p]
      /\ \A i \in DOMAIN storing : Group[storing[i].pid] # Group[p]
      /\ \A q \in Pids : pidAddrMap[q] # NULL => Group[q] # Group[p]
  <2>1. \A i \in DOMAIN fifo : Group[fifo[i].pid] # Group[p]
    BY <1>3, <1>5 DEF SerialInv, Owned
  <2>2. \A i \in DOMAIN storing : Group[storing[i].pid] # Group[p]
    BY <1>3, <1>5 DEF SerialInv, Owned
  <2>3. \A q \in Pids : pidAddrMap[q] # NULL => Group[q] # Group[p]
    BY <1>3 DEF SerialInv, Owned, TypeOK
  <2>. QED BY <2>1, <2>2, <2>3
<1>7. /\ Len(fifo) + 1 \in DOMAIN fifo' /\ fifo'[Len(fifo) + 1] = r
      /\ \A k \in DOMAIN fifo' : (k \in DOMAIN fifo /\ fifo'[k] = fifo[k]) \/ k = Len(fifo) + 1
      /\ \A k \in DOMAIN fifo : k \in DOMAIN fifo' /\ fifo'[k] = fifo[k]
  BY <1>1, <1>2, AppendedProperties
<1>8. OneRecord'
  <2>1. Apart(fifo)' BY <1>1, <1>6, <1>7 DEF SerialInv, OneRecord, Apart
  <2>2. Apart(storing)' BY <1>2 DEF SerialInv, OneRecord, Apart
  <2>3. ApartFrom(fifo, storing)' BY <1>1, <1>2, <1>6, <1>7 DEF SerialInv, OneRecord, ApartFrom
  <2>4. ApartFromMap(fifo)' BY <1>1, <1>2, <1>6, <1>7 DEF SerialInv, OneRecord, ApartFromMap
  <2>5. ApartFromMap(storing)' /\ MapApart'
    BY <1>2 DEF SerialInv, OneRecord, ApartFromMap, MapApart
  <2>. QED BY <2>1, <2>2, <2>3, <2>4, <2>5 DEF OneRecord
<1>9. OnePending' BY <1>1, <1>2, <1>3, <1>4 DEF SerialInv, OnePending
<1>10. Owned'
  <2>1. \A i \in DOMAIN fifo' : \E d \in Conns : Waiting(d)' /\ want'[d] = fifo'[i]
    BY <1>2, <1>4, <1>7 DEF SerialInv, Owned
  <2>2. \A i \in DOMAIN storing : \E d \in Conns : Waiting(d)' /\ want'[d] = storing[i]
    BY <1>2, <1>4 DEF SerialInv, Owned
  <2>3. \A q \in Pids : pidAddrMap[q] # NULL =>
          \E d \in Conns : Pending(d)' /\ want'[d] = pidAddrMap[q]
    BY <1>2, <1>4 DEF SerialInv, Owned
  <2>. QED BY <1>2, <2>1, <2>2, <2>3 DEF Owned
<1>11. Provided'
  <2>1. ASSUME NEW d \in Conns, Waiting(d)'
        PROVE  \/ \E i \in DOMAIN fifo' : fifo'[i] = want'[d]
               \/ \E i \in DOMAIN storing : storing[i] = want'[d]
               \/ pidAddrMap[want'[d].pid] = want'[d]
    <3>1. CASE d = c BY <3>1, <1>2, <1>7
    <3>2. CASE d # c
      <4>1. Waiting(d) /\ want'[d] = want[d] BY <2>1, <3>2, <1>2, <1>4
      <4>. QED BY <4>1, <1>7 DEF SerialInv, Provided
    <3>. QED BY <3>1, <3>2
  <2>2. \A d \in Conns : st'[d] = "delete" => pidAddrMap[want'[d].pid] = want'[d]
    BY <1>2 DEF SerialInv, Provided
  <2>. QED BY <1>2, <2>1, <2>2 DEF Provided
<1>12. Findable' BY <1>2 DEF SerialInv, Findable
<1>. QED BY <1>8, <1>9, <1>10, <1>11, <1>12 DEF SerialInv

\* UpdateProcessAddrInfo: the record goes from the FIFO to a goroutine.
LEMMA SerialUpdate ==
  ASSUME TypeOK, SerialInv, UpdateProcessAddrInfo
  PROVE  SerialInv'
<1>. DEFINE n == Len(storing) + 1
<1>0. /\ fifo \in Seq(Records) /\ storing \in Seq(Records) /\ fifo # <<>>
      /\ fifo' = Tail(fifo) /\ storing' = Append(storing, Head(fifo))
  BY DEF UpdateProcessAddrInfo, TypeOK
<1>u. UNCHANGED <<st, want, open, pidAddrMap, inode, found>>
  BY DEF UpdateProcessAddrInfo, envVars
<1>1. /\ Head(fifo) \in Records /\ 1 \in DOMAIN fifo /\ Head(fifo) = fifo[1]
      /\ \A k \in DOMAIN fifo' : k + 1 \in DOMAIN fifo /\ k + 1 # 1 /\ fifo'[k] = fifo[k + 1]
      /\ \A k \in DOMAIN fifo : k # 1 => \E m \in DOMAIN fifo' : fifo'[m] = fifo[k]
  BY <1>0, TailProperties
<1>2. /\ n \in DOMAIN storing' /\ storing'[n] = fifo[1]
      /\ \A k \in DOMAIN storing' :
           (k \in DOMAIN storing /\ storing'[k] = storing[k]) \/ k = n
      /\ \A k \in DOMAIN storing : k \in DOMAIN storing' /\ storing'[k] = storing[k]
  BY <1>0, <1>1, AppendedProperties
<1>. HIDE DEF n
<1>3. \A d \in Conns : (Waiting(d)' <=> Waiting(d)) /\ (Pending(d)' <=> Pending(d))
  BY <1>u DEF Waiting, Pending
<1>4. OneRecord'
  <2>0. \A k, m \in DOMAIN fifo' : k # m => k + 1 # m + 1
    <3>1. DOMAIN fifo' \subseteq Int BY <1>0
    <3>. QED BY <3>1
  <2>1. Apart(fifo)' BY <1>1, <2>0 DEF SerialInv, OneRecord, Apart
  <2>2. Apart(storing)' BY <1>1, <1>2 DEF SerialInv, OneRecord, Apart, ApartFrom
  <2>3. ApartFrom(fifo, storing)'
    BY <1>1, <1>2 DEF SerialInv, OneRecord, Apart, ApartFrom
  <2>4. ApartFromMap(fifo)' BY <1>u, <1>1 DEF SerialInv, OneRecord, ApartFromMap
  <2>5. ApartFromMap(storing)' BY <1>u, <1>1, <1>2 DEF SerialInv, OneRecord, ApartFromMap
  <2>6. MapApart' BY <1>u DEF SerialInv, OneRecord, MapApart
  <2>. QED BY <2>1, <2>2, <2>3, <2>4, <2>5, <2>6 DEF OneRecord
<1>5. OnePending' BY <1>u, <1>3 DEF SerialInv, OnePending
<1>6. Owned'
  <2>1. \A i \in DOMAIN fifo' : \E d \in Conns : Waiting(d)' /\ want'[d] = fifo'[i]
    BY <1>u, <1>1, <1>3 DEF SerialInv, Owned
  <2>2. \A i \in DOMAIN storing' : \E d \in Conns : Waiting(d)' /\ want'[d] = storing'[i]
    BY <1>u, <1>1, <1>2, <1>3 DEF SerialInv, Owned
  <2>3. \A q \in Pids : pidAddrMap'[q] # NULL =>
          \E d \in Conns : Pending(d)' /\ want'[d] = pidAddrMap'[q]
    BY <1>u, <1>3 DEF SerialInv, Owned
  <2>. QED BY <2>1, <2>2, <2>3 DEF Owned
<1>7. Provided'
  <2>1. ASSUME NEW d \in Conns, Waiting(d)
        PROVE  \/ \E i \in DOMAIN fifo' : fifo'[i] = want[d]
               \/ \E i \in DOMAIN storing' : storing'[i] = want[d]
               \/ pidAddrMap[want[d].pid] = want[d]
    BY <2>1, <1>1, <1>2 DEF SerialInv, Provided
  <2>. QED BY <1>u, <1>3, <2>1 DEF SerialInv, Provided
<1>8. Findable' BY <1>u DEF SerialInv, Findable
<1>. QED BY <1>4, <1>5, <1>6, <1>7, <1>8 DEF SerialInv

\* StorePidAddr: the record goes from a goroutine to the map, where the thread
\* group has none.
LEMMA SerialStore ==
  ASSUME TypeOK, AnnouncedInv, SerialInv, NEW i \in DOMAIN storing, StorePidAddr(i)
  PROVE  SerialInv'
<1>. DEFINE r == storing[i]
<1>0. /\ storing \in Seq(Records) /\ r \in Records /\ r.pid \in Pids /\ r # NULL
      /\ storing' = RemoveAt(storing, i)
      /\ pidAddrMap'[r.pid] = r /\ \A q \in Pids : q # r.pid => pidAddrMap'[q] = pidAddrMap[q]
      /\ UNCHANGED <<st, want, open, fifo, inode, found>>
  <2>1. storing \in Seq(Records) /\ r \in Records BY DEF TypeOK
  <2>2. r.pid \in Pids /\ r # NULL BY <2>1, LocalAssumption DEF Records
  <2>3. /\ storing' = RemoveAt(storing, i) /\ pidAddrMap' = [pidAddrMap EXCEPT ![r.pid] = r]
        /\ UNCHANGED <<st, want, open, fifo, inode, found>>
    BY DEF StorePidAddr, envVars
  <2>4. DOMAIN pidAddrMap = Pids BY DEF TypeOK
  <2>. HIDE DEF r
  <2>. QED BY <2>1, <2>2, <2>3, <2>4
<1>1. \A k \in DOMAIN storing' :
        \E m \in DOMAIN storing : m # i /\ storing'[k] = storing[m]
  <2>. SUFFICES ASSUME NEW k \in DOMAIN storing'
                PROVE  \E m \in DOMAIN storing : m # i /\ storing'[k] = storing[m]
    OBVIOUS
  <2>1. k \in Int /\ i \in Int BY <1>0, RemoveAtProperties DEF TypeOK
  <2>2. IF k < i THEN k \in DOMAIN storing /\ storing'[k] = storing[k]
                 ELSE k + 1 \in DOMAIN storing /\ storing'[k] = storing[k + 1]
    BY <1>0, RemoveAtProperties
  <2>3. k < i => k # i BY <2>1
  <2>4. ~(k < i) => k + 1 # i BY <2>1
  <2>. QED BY <2>2, <2>3, <2>4
<1>2. \A k, l \in DOMAIN storing' : k # l =>
        \E m, o \in DOMAIN storing :
          m # o /\ storing'[k] = storing[m] /\ storing'[l] = storing[o]
  <2>. SUFFICES ASSUME NEW k \in DOMAIN storing', NEW l \in DOMAIN storing', k # l
                PROVE  \E m, o \in DOMAIN storing :
                         m # o /\ storing'[k] = storing[m] /\ storing'[l] = storing[o]
    OBVIOUS
  <2>. DEFINE at(j) == IF j < i THEN j ELSE j + 1
  <2>1. k \in Int /\ l \in Int /\ i \in Int BY <1>0, RemoveAtProperties DEF TypeOK
  <2>2. \A j \in DOMAIN storing' : at(j) \in DOMAIN storing /\ storing'[j] = storing[at(j)]
    BY <1>0, RemoveAtProperties
  <2>3. at(k) # at(l) BY <2>1
  <2>. QED BY <2>2, <2>3
<1>3. \A k \in DOMAIN storing : k # i => \E m \in DOMAIN storing' : storing'[m] = storing[k]
  BY <1>0, RemoveAtProperties
<1>4. \A d \in Conns : (Waiting(d)' <=> Waiting(d)) /\ (Pending(d)' <=> Pending(d))
  BY <1>0 DEF Waiting, Pending
<1>5. /\ \A k \in DOMAIN fifo : Group[fifo[k].pid] # Group[r.pid]
      /\ \A k \in DOMAIN storing' : Group[storing'[k].pid] # Group[r.pid]
      /\ \A q \in Pids : pidAddrMap[q] # NULL => Group[q] # Group[r.pid]
  BY <1>1 DEF SerialInv, OneRecord, Apart, ApartFrom, ApartFromMap
<1>6. PICK o \in Conns : Waiting(o) /\ want[o] = r BY DEF SerialInv, Owned
<1>. HIDE DEF r
<1>7. OneRecord'
  <2>1. Apart(fifo)' BY <1>0 DEF SerialInv, OneRecord, Apart
  <2>2. Apart(storing)' BY <1>2 DEF SerialInv, OneRecord, Apart
  <2>3. ApartFrom(fifo, storing)' BY <1>0, <1>1 DEF SerialInv, OneRecord, ApartFrom
  <2>4. ApartFromMap(fifo)' BY <1>0, <1>5 DEF SerialInv, OneRecord, ApartFromMap
  <2>5. ApartFromMap(storing)' BY <1>0, <1>1, <1>5 DEF SerialInv, OneRecord, ApartFromMap
  <2>6. MapApart' BY <1>0, <1>5 DEF SerialInv, OneRecord, MapApart
  <2>. QED BY <2>1, <2>2, <2>3, <2>4, <2>5, <2>6 DEF OneRecord
<1>8. OnePending' BY <1>0, <1>4 DEF SerialInv, OnePending
<1>9. Owned'
  <2>1. \A k \in DOMAIN fifo' : \E d \in Conns : Waiting(d)' /\ want'[d] = fifo'[k]
    BY <1>0, <1>4 DEF SerialInv, Owned
  <2>2. \A k \in DOMAIN storing' : \E d \in Conns : Waiting(d)' /\ want'[d] = storing'[k]
    BY <1>0, <1>1, <1>4 DEF SerialInv, Owned
  <2>3. ASSUME NEW q \in Pids, pidAddrMap'[q] # NULL
        PROVE  \E d \in Conns : Pending(d)' /\ want'[d] = pidAddrMap'[q]
    <3>1. CASE q = r.pid
      <4>1. Pending(o) BY <1>6 DEF Waiting, Pending
      <4>. QED BY <3>1, <4>1, <1>0, <1>4, <1>6
    <3>2. CASE q # r.pid BY <2>3, <3>2, <1>0, <1>4 DEF SerialInv, Owned
    <3>. QED BY <3>1, <3>2
  <2>. QED BY <2>1, <2>2, <2>3 DEF Owned
<1>10. Provided'
  <2>1. ASSUME NEW d \in Conns, pidAddrMap[want[d].pid] = want[d], Pending(d),
               want[d] \in Records
        PROVE  pidAddrMap'[want[d].pid] = want[d]
    <3>1. want[d].pid \in Pids /\ want[d] # NULL BY <2>1, LocalAssumption DEF Records
    <3>2. want[d].pid # r.pid BY <2>1, <3>1, <1>5
    <3>. QED BY <2>1, <3>1, <3>2, <1>0
  <2>2. ASSUME NEW d \in Conns, Waiting(d), want[d] \in Records
        PROVE  \/ \E k \in DOMAIN fifo : fifo[k] = want[d]
               \/ \E k \in DOMAIN storing' : storing'[k] = want[d]
               \/ pidAddrMap'[want[d].pid] = want[d]
    <3>1. CASE pidAddrMap[want[d].pid] = want[d]
      BY <2>1, <2>2, <3>1 DEF Pending, Waiting
    <3>2. CASE \E k \in DOMAIN fifo : fifo[k] = want[d] BY <3>2
    <3>3. ASSUME NEW k \in DOMAIN storing, storing[k] = want[d], k # i
          PROVE  \E m \in DOMAIN storing' : storing'[m] = want[d]
      BY <3>3, <1>3
    <3>4. CASE want[d] = r BY <3>4, <1>0
    <3>. QED BY <2>2, <3>1, <3>2, <3>3, <3>4 DEF SerialInv, Provided, r
  <2>3. \A d \in Conns : Pending(d) => want[d] \in Records
    BY DEF Pending, AnnouncedInv, TypeOK, Records
  <2>. QED BY <1>0, <1>4, <2>1, <2>2, <2>3 DEF SerialInv, Provided, Pending, Waiting
<1>11. Findable' BY <1>0 DEF SerialInv, Findable
<1>. QED BY <1>7, <1>8, <1>9, <1>10, <1>11 DEF SerialInv

\* The only record of the thread group that a lookup can come across is that of
\* the connection itself.
LEMMA FindsOwn ==
  ASSUME TypeOK, SerialInv, NEW c \in Conns, Pending(c), NEW p \in Pids,
         pidAddrMap[p] # NULL, hasIncludeInode(p, c)
  PROVE  pidAddrMap[p] = want[c] /\ want[c].pid = p
<1>1. PICK d \in Conns : Pending(d) /\ want[d] = pidAddrMap[p] BY DEF SerialInv, Owned
<1>2. pidAddrMap[p].pid = p BY DEF TypeOK
<1>3. Group[want[d].pid] = Group[want[c].pid] BY <1>1, <1>2 DEF hasIncludeInode
<1>4. d = c BY <1>1, <1>3 DEF SerialInv, OnePending
<1>. QED BY <1>1, <1>2, <1>4

\* RangeFinds: the record it finds is in the map, so not in transit.
LEMMA SerialFinds ==
  ASSUME TypeOK, AnnouncedInv, SerialInv, NEW c \in Conns, NEW p \in Pids, RangeFinds(c, p)
  PROVE  SerialInv'
<1>1. /\ st[c] = "range" /\ st'[c] = "delete" /\ \A d \in Conns : d # c => st'[d] = st[d]
      /\ found'[c] = pidAddrMap[p] /\ \A d \in Conns : d # c => found'[d] = found[d]
      /\ pidAddrMap[p] # NULL /\ hasIncludeInode(p, c)
      /\ UNCHANGED <<want, open, fifo, storing, pidAddrMap, inode>>
  BY DEF RangeFinds, TypeOK, envVars
<1>2. pidAddrMap[p] = want[c] /\ want[c].pid = p BY <1>1, FindsOwn DEF Pending
<1>3. \A d \in Conns : /\ Pending(d)' <=> Pending(d)
                       /\ d # c => (Waiting(d)' <=> Waiting(d))
  BY <1>1 DEF Pending, Waiting
<1>4. Waiting(c) /\ ~Waiting(c)' BY <1>1 DEF Waiting
<1>5. /\ \A i \in DOMAIN fifo : fifo[i] # want[c]
      /\ \A i \in DOMAIN storing : storing[i] # want[c]
  BY <1>1, <1>2 DEF SerialInv, OneRecord, ApartFromMap
<1>6. OneRecord' BY <1>1 DEF SerialInv, OneRecord, Apart, ApartFrom, ApartFromMap, MapApart
<1>7. OnePending' BY <1>1, <1>3 DEF SerialInv, OnePending
<1>8. Owned'
  <2>1. \A i \in DOMAIN fifo' : \E d \in Conns : Waiting(d)' /\ want'[d] = fifo'[i]
    BY <1>1, <1>3, <1>5 DEF SerialInv, Owned
  <2>2. \A i \in DOMAIN storing' : \E d \in Conns : Waiting(d)' /\ want'[d] = storing'[i]
    BY <1>1, <1>3, <1>5 DEF SerialInv, Owned
  <2>3. \A q \in Pids : pidAddrMap'[q] # NULL =>
          \E d \in Conns : Pending(d)' /\ want'[d] = pidAddrMap'[q]
    BY <1>1, <1>3 DEF SerialInv, Owned
  <2>. QED BY <2>1, <2>2, <2>3 DEF Owned
<1>9. Provided' BY <1>1, <1>2, <1>3, <1>4 DEF SerialInv, Provided
<1>10. Findable' BY <1>1, <1>2 DEF SerialInv, Findable
<1>. QED BY <1>6, <1>7, <1>8, <1>9, <1>10 DEF SerialInv

\* RangeFails: a lookup does not fail for the third time, because by then the
\* record is in the map and the descriptor is open.
LEMMA SerialFails ==
  ASSUME OneAtATime, TypeOK, AnnouncedInv, SerialInv, NEW c \in Conns, RangeFails(c)
  PROVE  SerialInv'
<1>1. /\ st[c] = "range" /\ \A d \in Conns : d # c => st'[d] = st[d]
      /\ st'[c] = IF tries[c] + 1 < MaxTries THEN "range" ELSE "lost"
      /\ InTime /\ OnItsWay(c) => tries[c] + 1 < MaxTries
      /\ \A p \in Pids : pidAddrMap[p] = NULL \/ ~hasIncludeInode(p, c)
      /\ UNCHANGED <<want, open, fifo, storing, pidAddrMap, inode, found>>
  BY DEF RangeFails, TypeOK, envVars
<1>2. want[c] \in Records /\ want[c] # NULL /\ want[c].pid \in Pids
  BY <1>1 DEF AnnouncedInv, TypeOK, Records
<1>3. hasIncludeInode(want[c].pid, c) BY <1>1 DEF hasIncludeInode, SerialInv, Findable
<1>4. OnItsWay(c)
  <2>1. pidAddrMap[want[c].pid] # want[c] BY <1>1, <1>2, <1>3
  <2>2. Waiting(c) BY <1>1 DEF Waiting
  <2>3. (\E i \in DOMAIN fifo : fifo[i] = want[c]) \/ (\E i \in DOMAIN storing : storing[i] = want[c])
    BY <2>1, <2>2 DEF SerialInv, Provided
  <2>. QED BY <2>3, InTransit
<1>5. st'[c] = "range" BY <1>1, <1>4 DEF OneAtATime
<1>6. OneRecord' /\ OnePending' /\ Owned' /\ Provided'
  BY <1>1, <1>5, RecordsKept DEF Waiting
<1>7. Findable' BY <1>1, <1>5 DEF SerialInv, Findable
<1>. QED BY <1>6, <1>7 DEF SerialInv

\* DeletePidAddr: the entry that goes is the one that was found, and nobody else's.
LEMMA SerialDelete ==
  ASSUME TypeOK, AnnouncedInv, SerialInv, NEW c \in Conns, DeletePidAddr(c)
  PROVE  SerialInv'
<1>. DEFINE p == want[c].pid
<1>1. /\ st[c] = "delete" /\ st'[c] = "routed" /\ \A d \in Conns : d # c => st'[d] = st[d]
      /\ UNCHANGED <<want, open, fifo, storing, inode, found>>
  BY DEF DeletePidAddr, TypeOK, envVars
<1>2. found[c] = want[c] /\ pidAddrMap[p] = want[c]
  BY <1>1 DEF SerialInv, Findable, Provided
<1>3. \A d \in Conns : Pending(d) => want[d] \in Records /\ want[d].pid \in Pids
  BY DEF Pending, AnnouncedInv, TypeOK, Records
<1>4. p \in Pids /\ Pending(c) BY <1>1, <1>3 DEF Pending
<1>5. pidAddrMap'[p] = NULL /\ \A q \in Pids : q # p => pidAddrMap'[q] = pidAddrMap[q]
  BY <1>2, <1>4 DEF DeletePidAddr, TypeOK
<1>6. \A d \in Conns : d # c /\ Pending(d) => want[d].pid # p
  BY <1>4 DEF SerialInv, OnePending
<1>7. \A d \in Conns : /\ Waiting(d)' <=> Waiting(d)
                       /\ d # c => (Pending(d)' <=> Pending(d))
                       /\ Waiting(d) => Pending(d) /\ d # c
  BY <1>1 DEF Pending, Waiting
<1>8. ~Pending(c)' BY <1>1 DEF Pending
<1>9. OneRecord'
  <2>1. \A q \in Pids : pidAddrMap'[q] # NULL => pidAddrMap[q] # NULL BY <1>5
  <2>. QED BY <1>1, <2>1 DEF SerialInv, OneRecord, Apart, ApartFrom, ApartFromMap, MapApart
<1>10. OnePending' BY <1>1, <1>7, <1>8 DEF SerialInv, OnePending
<1>11. Owned'
  <2>1. /\ \A i \in DOMAIN fifo' : \E d \in Conns : Waiting(d)' /\ want'[d] = fifo'[i]
        /\ \A i \in DOMAIN storing' : \E d \in Conns : Waiting(d)' /\ want'[d] = storing'[i]
    BY <1>1, <1>7 DEF SerialInv, Owned
  <2>2. ASSUME NEW q \in Pids, pidAddrMap'[q] # NULL
        PROVE  \E d \in Conns : Pending(d)' /\ want'[d] = pidAddrMap'[q]
    <3>1. q # p /\ pidAddrMap'[q] = pidAddrMap[q] BY <2>2, <1>5
    <3>2. PICK d \in Conns : Pending(d) /\ want[d] = pidAddrMap[q]
      BY <2>2, <3>1 DEF SerialInv, Owned
    <3>3. d # c BY <2>2, <3>1, <3>2 DEF TypeOK
    <3>. QED BY <3>1, <3>2, <3>3, <1>1, <1>7
  <2>. QED BY <2>1, <2>2 DEF Owned
<1>12. Provided'
  <2>1. ASSUME NEW d \in Conns, Pending(d), d # c, pidAddrMap[want[d].pid] = want[d]
        PROVE  pidAddrMap'[want[d].pid] = want[d]
    BY <2>1, <1>3, <1>5, <1>6
  <2>2. \A d \in Conns : Waiting(d) =>
          \/ \E i \in DOMAIN fifo : fifo[i] = want[d]
          \/ \E i \in DOMAIN storing : storing[i] = want[d]
          \/ pidAddrMap'[want[d].pid] = want[d]
    BY <2>1, <1>7 DEF SerialInv, Provided
  <2>3. \A d \in Conns : st'[d] = "delete" => pidAddrMap'[want[d].pid] = want[d]
    BY <2>1, <1>1 DEF SerialInv, Provided, Pending
  <2>. QED BY <1>1, <1>7, <2>2, <2>3 DEF Provided
<1>13. Findable' BY <1>1, <1>2 DEF SerialInv, Findable
<1>. QED BY <1>9, <1>10, <1>11, <1>12, <1>13 DEF SerialInv

\* Every step keeps one record and one pending connection to a thread group.
LEMMA SerialStep ==
  ASSUME OneAtATime
  PROVE  TypeOK /\ AnnouncedInv /\ SerialInv /\ [Next]_vars => SerialInv'
<1>. SUFFICES ASSUME TypeOK, AnnouncedInv, SerialInv, [Next]_vars PROVE SerialInv' OBVIOUS
<1>k. ASSUME UNCHANGED <<want, fifo, storing, pidAddrMap>>, Findable',
             NEW c \in Conns, NEW now \in {"queued", "inode", "range"}, Waiting(c),
             st' = [st EXCEPT ![c] = now]
      PROVE  SerialInv'
  <2>1. \A d \in Conns : /\ Waiting(d)' <=> Waiting(d)
                         /\ st'[d] = "delete" <=> st[d] = "delete"
    BY <1>k DEF Waiting, TypeOK
  <2>. QED BY <1>k, <2>1, RecordsKept DEF SerialInv
<1>1. ASSUME NEW c \in Conns, NEW p \in Pids, NEW a \in Dests, Announce(c, p, a)
      PROVE  SerialInv'
  BY <1>1, SerialAnnounce
<1>2. ASSUME NEW c \in Conns, Arrive(c) PROVE SerialInv'
  <2>1. Findable' BY <1>2 DEF Arrive, SerialInv, Findable, TypeOK
  <2>. QED BY <1>2, <2>1, <1>k DEF Arrive, Waiting
<1>3. ASSUME NEW c \in Conns, Start(c) PROVE SerialInv'
  <2>1. Findable' BY <1>3 DEF Start, SerialInv, Findable, TypeOK, envVars
  <2>. QED BY <1>3, <2>1, <1>k DEF Start, Waiting, envVars
<1>4. ASSUME NEW c \in Conns, getInodeByAddrs(c) PROVE SerialInv'
  <2>1. Findable' BY <1>4 DEF getInodeByAddrs, SerialInv, Findable, TypeOK, envVars
  <2>. QED BY <1>4, <2>1, <1>k DEF getInodeByAddrs, Waiting, envVars
<1>5. ASSUME NEW c \in Conns, NEW p \in Pids, RangeFinds(c, p) PROVE SerialInv'
  BY <1>5, SerialFinds
<1>6. ASSUME NEW c \in Conns, RangeFails(c) PROVE SerialInv' BY <1>6, SerialFails
<1>7. ASSUME NEW c \in Conns, DeletePidAddr(c) PROVE SerialInv' BY <1>7, SerialDelete
<1>8. ASSUME NEW cs \in SUBSET Conns, AppClose(cs) PROVE SerialInv'
  <2>1. OneRecord' /\ OnePending' /\ Owned' /\ Provided'
    BY <1>8, RecordsKept DEF AppClose, Waiting
  <2>2. Findable' BY <1>8 DEF AppClose, OneAtATime, Pending, SerialInv, Findable
  <2>. QED BY <2>1, <2>2 DEF SerialInv
<1>9. CASE UpdateProcessAddrInfo BY <1>9, SerialUpdate
<1>10. ASSUME NEW i \in DOMAIN storing, StorePidAddr(i) PROVE SerialInv'
  BY <1>10, SerialStore
<1>11. CASE Idle \/ UNCHANGED vars
  <2>1. UNCHANGED vars BY <1>11 DEF Idle
  <2>2. OneRecord' /\ OnePending' /\ Owned' /\ Provided'
    BY <2>1, RecordsKept DEF vars, Waiting
  <2>3. Findable' BY <2>1 DEF vars, SerialInv, Findable
  <2>. QED BY <2>2, <2>3 DEF SerialInv
<1>. QED
  BY <1>1, <1>2, <1>3, <1>4, <1>5, <1>6, <1>7, <1>8, <1>9, <1>10, <1>11
  DEF Next, getPidByAddr, Store

\* One record and one pending connection to a thread group, in every state.
LEMMA SerialCorrect ==
  ASSUME OneAtATime
  PROVE  Spec => [](TypeOK /\ AnnouncedInv /\ SerialInv)
BY SerialInit, SerialStep, AnnouncedCorrect, PTL DEF Spec

\* NoneLost for any number of connections and processes: getPidByAddr fails for
\* no connection as long as lookups of a thread group do not overlap, descriptors
\* stay open and records are stored in time.
THEOREM NeverLost ==
  ASSUME OneAtATime
  PROVE  Spec => []NoneLost
<1>1. SerialInv => NoneLost BY DEF SerialInv, Findable, NoneLost
<1>. QED BY <1>1, SerialCorrect, PTL

\* NoLeftover under the same conditions: every record is taken out of pidAddrMap
\* by the connection it was written for, so none is left for a later one.
THEOREM NothingLeft ==
  ASSUME OneAtATime
  PROVE  Spec => []NoLeftover
<1>1. SerialInv => NoLeftover BY DEF SerialInv, Owned, NoLeftover
<1>. QED BY <1>1, SerialCorrect, PTL

-----------------------------------------------------------------------------
(* Refinement *)

\* what Abstract stands on
absVars ==
  <<[c \in Conns |-> IF want[c] = NULL THEN NULL ELSE want[c].addr],
    [c \in Conns |-> IF found[c] = NULL THEN NULL ELSE found[c].addr],
    {c \in Conns : st[c] = "lost"}>>

\* Each step of graftcp-local is a step of Rendezvous or none: Announce is Ask,
\* RangeFinds is Send, and every other step changes nothing of it.
LEMMA RendezvousStep ==
  ASSUME OneAtATime, TypeOK, AnnouncedInv, SerialInv, SerialInv', [Next]_vars
  PROVE  [Abstract!Next]_absVars
<1>. DEFINE asked == [c \in Conns |-> IF want[c] = NULL THEN NULL ELSE want[c].addr]
            sent == [c \in Conns |-> IF found[c] = NULL THEN NULL ELSE found[c].addr]
            closed == {c \in Conns : st[c] = "lost"}
<1>0. closed = {} /\ closed' = {} BY DEF SerialInv, Findable
<1>u. ASSUME UNCHANGED <<want, found>> PROVE UNCHANGED absVars
  BY <1>u, <1>0 DEF absVars
<1>1. ASSUME NEW c \in Conns, NEW p \in Pids, NEW a \in Dests, Announce(c, p, a)
      PROVE  Abstract!Ask(c, a)
  <2>1. want[c] = NULL BY <1>1 DEF Announce, AnnouncedInv
  <2>2. [pid |-> p, addr |-> a] # NULL BY LocalAssumption
  <2>3. asked' = [asked EXCEPT ![c] = a] BY <1>1, <2>2 DEF Announce, TypeOK
  <2>4. sent' = sent BY <1>1 DEF Announce
  <2>. QED BY <2>1, <2>3, <2>4, <1>0 DEF Abstract!Ask
<1>2. ASSUME NEW c \in Conns, NEW p \in Pids, RangeFinds(c, p) PROVE Abstract!Send(c)
  <2>1. /\ st[c] = "range" /\ found' = [found EXCEPT ![c] = pidAddrMap[p]]
        /\ pidAddrMap[p] # NULL /\ hasIncludeInode(p, c) /\ want' = want
    BY <1>2 DEF RangeFinds, envVars
  <2>2. pidAddrMap[p] = want[c] BY <2>1, FindsOwn DEF Pending
  <2>3. want[c] # NULL /\ found[c] = NULL /\ want[c].addr # NULL
    BY <2>1, LocalAssumption DEF AnnouncedInv, TypeOK
  <2>4. sent' = [sent EXCEPT ![c] = asked[c]] BY <2>1, <2>2, <2>3 DEF TypeOK
  <2>5. asked' = asked BY <2>1
  <2>6. asked[c] # NULL /\ sent[c] = NULL BY <2>3
  <2>. QED BY <2>4, <2>5, <2>6, <1>0 DEF Abstract!Send, Abstract!Undecided
<1>3. (\E c \in Conns, a \in Dests : Abstract!Ask(c, a))
        \/ (\E c \in Conns : Abstract!Send(c)) \/ UNCHANGED <<want, found>>
  BY <1>1, <1>2
  DEF Next, getPidByAddr, Store, Arrive, Start, getInodeByAddrs, RangeFails,
      DeletePidAddr, AppClose, UpdateProcessAddrInfo, StorePidAddr, Idle, vars, envVars
<1>. QED BY <1>3, <1>u DEF Abstract!Next

\* IsRendezvous for any number of connections, threads and destinations: when the
\* lookups of a thread group do not overlap, graftcp-local sends every connection,
\* once and for good, where the connect(2) behind it was meant to go.
THEOREM ImplementsRendezvous ==
  ASSUME OneAtATime
  PROVE  Spec => IsRendezvous
<1>1. Init => Abstract!Init BY DEF Init, Abstract!Init
<1>2. TypeOK /\ AnnouncedInv /\ SerialInv /\ SerialInv' /\ [Next]_vars
        => [Abstract!Next]_absVars
  BY RendezvousStep
<1>. QED BY <1>1, <1>2, SerialCorrect, PTL DEF Spec, IsRendezvous, Abstract!Spec, absVars
=============================================================================
