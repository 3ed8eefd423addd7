---------------------------- MODULE FilterProofs ----------------------------
(***************************************************************************)
(* Proofs about StrSet and IpFilter, for any strings, hash function and    *)
(* number of buckets, any address files and any command lines: the hash    *)
(* sets are sets, and start-up makes of them the filter that the tracer's  *)
(* model takes for granted.                                                *)
(***************************************************************************)
EXTENDS IpFilter, SequenceLemmas, FiniteSetTheorems

-----------------------------------------------------------------------------
(* Tables *)

\* a chain has the strings of its bucket, each once
ChainOK(chain, b) ==
  IsInjective(chain) /\ \A s \in Range(chain) : Bucket(s) = b

\* ... and length counts them all
TableOK(set) ==
  /\ set \in Tables
  /\ \A b \in 0 .. SetSize - 1 : ChainOK(set.buckets[b], b)
  /\ IsFiniteSet(Elements(set)) /\ set.length = Cardinality(Elements(set))

\* A string has one bucket.
LEMMA BucketType == \A e \in Strings : Bucket(e) \in 0 .. SetSize - 1
BY StrSetAssumption DEF Bucket, str_hash

\* The chain of a bucket has all the members that belong there.
LEMMA ChainElements ==
  ASSUME NEW set \in Tables, \A b \in 0 .. SetSize - 1 : ChainOK(set.buckets[b], b),
         NEW b \in 0 .. SetSize - 1
  PROVE  Range(set.buckets[b]) = {s \in Elements(set) : Bucket(s) = b}
<1>1. DOMAIN set.buckets = 0 .. SetSize - 1 BY DEF Tables
<1>2. ASSUME NEW s \in Range(set.buckets[b]) PROVE s \in Elements(set) /\ Bucket(s) = b
  BY <1>1 DEF Elements, ChainOK
<1>3. ASSUME NEW s \in Elements(set), Bucket(s) = b PROVE s \in Range(set.buckets[b])
  <2>1. PICK c \in 0 .. SetSize - 1 : s \in Range(set.buckets[c]) BY <1>1 DEF Elements
  <2>. QED BY <2>1, <1>3 DEF ChainOK
<1>. QED BY <1>2, <1>3

\* When a chain is replaced, the members of the other buckets stay.
LEMMA Replaced ==
  ASSUME NEW set \in Tables, \A b \in 0 .. SetSize - 1 : ChainOK(set.buckets[b], b),
         NEW b \in 0 .. SetSize - 1, NEW chain \in Seq(Strings), ChainOK(chain, b),
         NEW n \in Nat, NEW new,
         new = [length |-> n, buckets |-> [set.buckets EXCEPT ![b] = chain]]
  PROVE  /\ new \in Tables /\ \A c \in 0 .. SetSize - 1 : ChainOK(new.buckets[c], c)
         /\ new.length = n
         /\ Elements(new) = {s \in Elements(set) : Bucket(s) # b} \cup Range(chain)
<1>0. set.buckets \in [0 .. SetSize - 1 -> Seq(Strings)] BY DEF Tables
<1>1. /\ new \in Tables /\ new.length = n
      /\ \A c \in 0 .. SetSize - 1 : new.buckets[c] = IF c = b THEN chain ELSE set.buckets[c]
  BY <1>0 DEF Tables
<1>2. \A c \in 0 .. SetSize - 1 : ChainOK(new.buckets[c], c) BY <1>1
<1>3. \A c \in 0 .. SetSize - 1 : Range(new.buckets[c]) = {s \in Elements(new) : Bucket(s) = c}
  BY <1>1, <1>2, ChainElements
<1>4. \A c \in 0 .. SetSize - 1 : Range(set.buckets[c]) = {s \in Elements(set) : Bucket(s) = c}
  BY ChainElements
<1>5. \A s \in Elements(new) \cup Elements(set) : Bucket(s) \in 0 .. SetSize - 1
  <2>1. DOMAIN set.buckets = 0 .. SetSize - 1 /\ DOMAIN new.buckets = 0 .. SetSize - 1
    BY <1>0, <1>1 DEF Tables
  <2>2. ASSUME NEW s \in Elements(set) PROVE Bucket(s) \in 0 .. SetSize - 1
    <3>1. PICK c \in 0 .. SetSize - 1 : s \in Range(set.buckets[c]) BY <2>1 DEF Elements
    <3>. QED BY <3>1 DEF ChainOK
  <2>3. ASSUME NEW s \in Elements(new) PROVE Bucket(s) \in 0 .. SetSize - 1
    <3>1. PICK c \in 0 .. SetSize - 1 : s \in Range(new.buckets[c]) BY <2>1 DEF Elements
    <3>. QED BY <3>1, <1>2 DEF ChainOK
  <2>. QED BY <2>2, <2>3
<1>6. ASSUME NEW s
      PROVE  s \in Elements(new) <=> (s \in Elements(set) /\ Bucket(s) # b) \/ s \in Range(chain)
  <2>1. CASE Bucket(s) = b BY <2>1, <1>1, <1>3
  <2>2. CASE Bucket(s) # b
    <3>1. s \notin Range(chain) BY <2>2 DEF ChainOK
    <3>2. ASSUME Bucket(s) \in 0 .. SetSize - 1 PROVE s \in Elements(new) <=> s \in Elements(set)
      <4>1. new.buckets[Bucket(s)] = set.buckets[Bucket(s)] BY <2>2, <3>2, <1>1
      <4>. QED BY <4>1, <3>2, <1>3, <1>4, Zenon
    <3>3. s \in Elements(new) <=> s \in Elements(set) BY <3>2, <1>5
    <3>. QED BY <2>2, <3>1, <3>3
  <2>. QED BY <2>1, <2>2
<1>. QED BY <1>1, <1>2, <1>6

\* A string is found if and only if it is in the set.
LEMMA MemberRight ==
  ASSUME NEW set, TableOK(set), NEW e \in Strings
  PROVE  is_str_set_member(set, e) <=> e \in Elements(set)
<1>1. Bucket(e) \in 0 .. SetSize - 1 BY BucketType
<1>2. Range(set.buckets[Bucket(e)]) = {s \in Elements(set) : Bucket(s) = Bucket(e)}
  BY <1>1, ChainElements DEF TableOK
<1>3. set.buckets[Bucket(e)] \in Seq(Strings) BY <1>1 DEF TableOK, Tables
<1>4. is_str_set_member(set, e) <=> e \in Range(set.buckets[Bucket(e)])
  BY <1>3 DEF is_str_set_member, Contains, Range
<1>. QED BY <1>2, <1>4

\* A table that has just been made is empty.
LEMMA NewRight == TableOK(str_set_new) /\ Elements(str_set_new) = {}
<1>. DEFINE set == str_set_new
<1>1. /\ set \in Tables /\ set.length = 0 /\ DOMAIN set.buckets = 0 .. SetSize - 1
      /\ \A b \in 0 .. SetSize - 1 : set.buckets[b] = <<>>
  BY DEF str_set_new, Tables
<1>2. Range(<<>>) = {} BY DEF Range
<1>3. \A b \in 0 .. SetSize - 1 : ChainOK(set.buckets[b], b)
  BY <1>1, <1>2 DEF ChainOK, IsInjective
<1>4. Elements(set) = {} BY <1>1, <1>2 DEF Elements
<1>. QED BY <1>1, <1>3, <1>4, FS_EmptySet DEF TableOK

\* str_set_put adds one string.
LEMMA PutRight ==
  ASSUME NEW set, TableOK(set), NEW e \in Strings
  PROVE  TableOK(str_set_put(set, e)) /\ Elements(str_set_put(set, e)) = Elements(set) \cup {e}
<1>1. is_str_set_member(set, e) <=> e \in Elements(set) BY MemberRight
<1>2. CASE e \in Elements(set) BY <1>1, <1>2 DEF str_set_put
<1>3. CASE e \notin Elements(set)
  <2>. DEFINE b == Bucket(e)
              chain == <<e>> \o set.buckets[b]
              new == [length |-> set.length + 1, buckets |-> [set.buckets EXCEPT ![b] = chain]]
  <2>1. b \in 0 .. SetSize - 1 /\ set.buckets[b] \in Seq(Strings) /\ ChainOK(set.buckets[b], b)
    BY BucketType DEF TableOK, Tables
  <2>2. str_set_put(set, e) = new BY <1>1, <1>3 DEF str_set_put, TableOK, Tables
  <2>3. Range(set.buckets[b]) = {s \in Elements(set) : Bucket(s) = b}
    BY <2>1, ChainElements DEF TableOK
  <2>4. chain \in Seq(Strings) /\ ChainOK(chain, b) /\ Range(chain) = Range(set.buckets[b]) \cup {e}
    BY <1>3, <2>1, <2>3, PrependProperties DEF ChainOK
  <2>. HIDE DEF chain, b
  <2>5. set \in Tables /\ set.length + 1 \in Nat BY DEF TableOK, Tables
  <2>6. /\ new \in Tables /\ \A c \in 0 .. SetSize - 1 : ChainOK(new.buckets[c], c)
        /\ new.length = set.length + 1
        /\ Elements(new) = {s \in Elements(set) : Bucket(s) # b} \cup Range(chain)
    BY <2>1, <2>4, <2>5, Replaced DEF TableOK
  <2>. HIDE DEF new
  <2>7. Elements(new) = Elements(set) \cup {e} BY <2>3, <2>4, <2>6
  <2>8. IsFiniteSet(Elements(new)) /\ Cardinality(Elements(new)) = Cardinality(Elements(set)) + 1
    BY <1>3, <2>7, FS_AddElement DEF TableOK
  <2>. QED BY <2>2, <2>6, <2>7, <2>8 DEF TableOK
<1>. QED BY <1>2, <1>3

\* str_set_remove takes one away.
LEMMA RemoveRight ==
  ASSUME NEW set, TableOK(set), NEW e \in Strings
  PROVE  /\ TableOK(str_set_remove(set, e))
         /\ Elements(str_set_remove(set, e)) = Elements(set) \ {e}
<1>1. is_str_set_member(set, e) <=> e \in Elements(set) BY MemberRight
<1>2. CASE e \notin Elements(set) BY <1>1, <1>2 DEF str_set_remove
<1>3. CASE e \in Elements(set)
  <2>. DEFINE b == Bucket(e)
              chain == RemoveFirst(set.buckets[b], e)
              new == [length |-> set.length - 1, buckets |-> [set.buckets EXCEPT ![b] = chain]]
  <2>1. b \in 0 .. SetSize - 1 /\ set.buckets[b] \in Seq(Strings) /\ ChainOK(set.buckets[b], b)
    BY BucketType DEF TableOK, Tables
  <2>2. str_set_remove(set, e) = new BY <1>1, <1>3 DEF str_set_remove, TableOK, Tables
  <2>3. Range(set.buckets[b]) = {s \in Elements(set) : Bucket(s) = b}
    BY <2>1, ChainElements DEF TableOK
  <2>4. chain \in Seq(Strings) /\ ChainOK(chain, b) /\ Range(chain) = Range(set.buckets[b]) \ {e}
    BY <1>3, <2>1, <2>3, RemoveFirstProperties DEF ChainOK
  <2>5. /\ IsFiniteSet(Elements(set) \ {e})
        /\ Cardinality(Elements(set) \ {e}) = Cardinality(Elements(set)) - 1
    BY <1>3, FS_RemoveElement DEF TableOK
  <2>6. Cardinality(Elements(set) \ {e}) \in Nat BY <2>5, FS_CardinalityType
  <2>. HIDE DEF chain, b
  <2>7. set \in Tables /\ set.length - 1 \in Nat BY <2>5, <2>6 DEF TableOK, Tables
  <2>8. /\ new \in Tables /\ \A c \in 0 .. SetSize - 1 : ChainOK(new.buckets[c], c)
        /\ new.length = set.length - 1
        /\ Elements(new) = {s \in Elements(set) : Bucket(s) # b} \cup Range(chain)
    BY <2>1, <2>4, <2>7, Replaced DEF TableOK
  <2>. HIDE DEF new
  <2>9. Elements(new) = Elements(set) \ {e} BY <2>3, <2>4, <2>8 DEF b
  <2>. QED BY <2>2, <2>5, <2>8, <2>9 DEF TableOK
<1>. QED BY <1>2, <1>3

-----------------------------------------------------------------------------
(* Start-up makes tables *)

\* what start-up keeps, whatever is in the files
StartInv ==
  /\ pc \in {"getopt", "getline", "open", "ready", "exit"}
  /\ argv \in ArgLists /\ optind \in Nat \ {0} /\ lines \in Seq(Lines) /\ LOCAL_ADDR \in Strings
  /\ BLACKLIST_IP # NULL => TableOK(BLACKLIST_IP)
  /\ WHITELACKLIST_IP # NULL => TableOK(WHITELACKLIST_IP)
  /\ pc = "getline" =>
       /\ optind \in DOMAIN argv /\ opt \in {"b", "w"} /\ optarg \in DOMAIN Files
       /\ opt = "b" => BLACKLIST_IP # NULL
       /\ opt = "w" => WHITELACKLIST_IP # NULL

\* A table is not NULL.
LEMMA NotNull == \A set : TableOK(set) => set # NULL
BY IpFilterAssumption DEF TableOK

\* The table a file is loaded into.
LEMMA TableRight ==
  ASSUME NEW set, set # NULL => TableOK(set)
  PROVE  /\ TableOK(Table(set))
         /\ Elements(Table(set)) = IF set = NULL THEN {} ELSE Elements(set)
BY NewRight DEF Table

\* the lines that load_ip_file takes as they are meant: with a newline, and not an
\* address shorter than "the shortest ip"
GoodLine(line) == line.nl /\ (line.text \in Ips => Length[line.text] >= 6)

\* What a line does to a table.
LEMMA LineRight ==
  ASSUME NEW set, TableOK(set), NEW line \in Lines
  PROVE  /\ TableOK(Put(set, line))
         /\ GoodLine(line) =>
              Elements(Put(set, line)) \cap Ips = (Elements(set) \cup {line.text}) \cap Ips
<1>1. Stripped(line) \in Strings /\ line.text \in Strings
  BY IpFilterAssumption DEF Stripped, Lines
<1>2. /\ TableOK(str_set_put(set, Stripped(line)))
      /\ Elements(str_set_put(set, Stripped(line))) = Elements(set) \cup {Stripped(line)}
  BY <1>1, PutRight
<1>3. TableOK(Put(set, line)) BY <1>2 DEF Put
<1>4. ASSUME GoodLine(line)
      PROVE  Elements(Put(set, line)) \cap Ips = (Elements(set) \cup {line.text}) \cap Ips
  <2>1. Stripped(line) = line.text BY <1>4 DEF GoodLine, Stripped
  <2>2. Length[line.text] \in Nat BY <1>1, IpFilterAssumption
  <2>3. line.text \in Ips => ~(Read(line) < 7) BY <1>4, <2>2 DEF GoodLine, Read
  <2>. QED BY <1>2, <2>1, <2>3 DEF Put
<1>. QED BY <1>3, <1>4

\* The last part of start-up puts two addresses more.
LEMMA LocalRight ==
  ASSUME NEW set, set # NULL => TableOK(set), LOCAL_ADDR \in Strings
  PROVE  LET new == str_set_put(str_set_put(Table(set), LOCAL_ADDR), LOCAL_DEFAULT_ADDR)
         IN  /\ TableOK(new)
             /\ Elements(new) = (IF set = NULL THEN {} ELSE Elements(set))
                                  \cup {LOCAL_ADDR, LOCAL_DEFAULT_ADDR}
<1>. DEFINE one == str_set_put(Table(set), LOCAL_ADDR)
<1>1. TableOK(one) /\ Elements(one) = Elements(Table(set)) \cup {LOCAL_ADDR}
  BY TableRight, PutRight
<1>2. LOCAL_DEFAULT_ADDR \in Strings BY IpFilterAssumption
<1>. HIDE DEF one
<1>3. /\ TableOK(str_set_put(one, LOCAL_DEFAULT_ADDR))
      /\ Elements(str_set_put(one, LOCAL_DEFAULT_ADDR)) = Elements(one) \cup {LOCAL_DEFAULT_ADDR}
  BY <1>1, <1>2, PutRight
<1>. QED BY <1>1, <1>3, TableRight DEF one

\* main() starts without tables.
LEMMA StartInit == Init => StartInv
BY IpFilterAssumption DEF Init, StartInv

\* Every step of main() keeps the tables in order.
LEMMA StartNext == StartInv /\ [Next]_vars => StartInv'
<1>. SUFFICES ASSUME StartInv, [Next]_vars PROVE StartInv' OBVIOUS
<1>t. argv \in Seq(Range(argv)) /\ optind \in Nat \ {0} /\ DOMAIN argv = 1 .. Len(argv)
  BY IpFilterAssumption DEF StartInv
<1>1. CASE GetoptAddr
  <2>1. optarg \in Strings
    <3>1. optind \in DOMAIN argv BY <1>1, <1>t DEF GetoptAddr, More
    <3>. QED BY <1>1, <3>1, IpFilterAssumption DEF GetoptAddr, opt, optarg, StartInv
  <2>. QED BY <1>1, <2>1 DEF GetoptAddr, More, StartInv, tables
<1>2. CASE GetoptNotIgnoreLocal \/ GetoptOther
  BY <1>2 DEF GetoptNotIgnoreLocal, GetoptOther, More, StartInv, tables
<1>3. CASE GetoptUsage BY <1>3 DEF GetoptUsage, StartInv, tables
<1>4. CASE OpenFile
  <2>1. CASE optarg \notin DOMAIN Files BY <1>4, <2>1 DEF OpenFile, StartInv, tables
  <2>2. CASE optarg \in DOMAIN Files
    <3>0. optind \in DOMAIN argv BY <1>4, <1>t DEF OpenFile, More
    <3>1. lines' \in Seq(Lines) BY <1>4, <2>2, IpFilterAssumption DEF OpenFile
    <3>2. TableOK(Table(BLACKLIST_IP)) /\ TableOK(Table(WHITELACKLIST_IP))
      BY TableRight DEF StartInv
    <3>. QED BY <1>4, <2>2, <3>0, <3>1, <3>2, NotNull DEF OpenFile, StartInv, opt, optarg
  <2>. QED BY <2>1, <2>2
<1>5. CASE ReadLine
  <2>0. /\ pc = "getline" /\ lines # <<>> /\ lines' = Tail(lines)
        /\ UNCHANGED <<pc, argv, optind, LOCAL_ADDR>>
        /\ BLACKLIST_IP' = IF opt = "b" THEN Put(BLACKLIST_IP, Head(lines)) ELSE BLACKLIST_IP
        /\ WHITELACKLIST_IP' = IF opt = "w" THEN Put(WHITELACKLIST_IP, Head(lines))
                               ELSE WHITELACKLIST_IP
    BY <1>5 DEF ReadLine
  <2>1. Head(lines) \in Lines /\ lines' \in Seq(Lines)
    BY <2>0, TailProperties DEF StartInv
  <2>2. opt = "b" => TableOK(BLACKLIST_IP') BY <2>0, <2>1, LineRight DEF StartInv
  <2>3. opt = "w" => TableOK(WHITELACKLIST_IP') BY <2>0, <2>1, LineRight DEF StartInv
  <2>. QED BY <2>0, <2>1, <2>2, <2>3, NotNull DEF StartInv, opt, optarg
<1>6. CASE EndOfFile BY <1>6 DEF EndOfFile, StartInv, tables
<1>7. CASE IgnoreLocalAddrs
  <2>1. BLACKLIST_IP' # NULL => TableOK(BLACKLIST_IP')
    BY <1>7, LocalRight DEF IgnoreLocalAddrs, StartInv
  <2>. QED BY <1>7, <2>1 DEF IgnoreLocalAddrs, StartInv
<1>8. CASE OpenFifo \/ Finished \/ UNCHANGED vars
  BY <1>8 DEF OpenFifo, Finished, StartInv, tables, vars, opt, optarg
<1>. QED BY <1>1, <1>2, <1>3, <1>4, <1>5, <1>6, <1>7, <1>8 DEF Next

\* SetAlgebra for any strings, hash function and number of buckets: whatever is in the
\* files and on the command line, the tables of string-set.c are sets, and length is
\* their size.
THEOREM TablesAreSets == Spec => []SetAlgebra
<1>1. ASSUME NEW set, TableOK(set), NEW e \in Strings
      PROVE  /\ is_str_set_member(set, e) <=> e \in Elements(set)
             /\ Elements(str_set_put(set, e)) = Elements(set) \cup {e}
             /\ Elements(str_set_remove(set, e)) = Elements(set) \ {e}
             /\ str_set_length(set) = Cardinality(Elements(set))
             /\ str_set_length(str_set_remove(set, e)) = Cardinality(Elements(set) \ {e})
  BY <1>1, MemberRight, PutRight, RemoveRight DEF TableOK, str_set_length
<1>2. StartInv => SetAlgebra BY <1>1 DEF StartInv, SetAlgebra, Strings
<1>. QED BY <1>2, StartInit, StartNext, PTL DEF Spec

-----------------------------------------------------------------------------
(* ... and the filter *)

\* every line of every file is one load_ip_file takes as it is meant
WellFormed == \A f \in DOMAIN Files : \A i \in DOMAIN Files[f] : GoodLine(Files[f][i])

TextsOf(ls) == {ls[i].text : i \in DOMAIN ls}

\* the options that have been seen; a file counts from when it is opened
Before(o, n) == {j \in Given(o) : j < n}
Seen(o) == Before(o, IF pc = "getline" THEN optind + 1 ELSE optind)

\* the addresses in the files of the options in J
InFiles(J) == {x \in Ips : \E j \in J : x \in TextsOf(Files[argv[j].arg])}

\* what is still to be read of a file given with option o
Unread(o) == IF pc = "getline" /\ opt = o THEN TextsOf(lines) ELSE {}

\* what main() adds at the end
Added ==
  IF pc \in {"open", "ready"} /\ ignore_local THEN {LOCAL_ADDR, LOCAL_DEFAULT_ADDR} ELSE {}

\* a table has the addresses of the files opened so far, but for the lines that are
\* still to be read, and those that are added
TableInv(set, o, added) ==
  /\ set = NULL <=> Seen(o) = {} /\ added = {}
  /\ set # NULL =>
       (Elements(set) \cup Unread(o)) \cap Ips = (InFiles(Seen(o)) \cup added) \cap Ips

\* the last -a wins, any -n counts
OptionInv ==
  /\ ignore_local \in BOOLEAN /\ (ignore_local <=> Before("n", optind) = {})
  /\ \/ Before("a", optind) = {} /\ LOCAL_ADDR = "127.0.0.1"
     \/ \E m \in Before("a", optind) :
          LOCAL_ADDR = argv[m].arg /\ \A j \in Before("a", optind) : j <= m

FilterInv ==
  pc # "exit" =>
    /\ OptionInv
    /\ \A j \in Seen("b") \cup Seen("w") : argv[j].arg \in DOMAIN Files
    /\ \A i \in DOMAIN lines : GoodLine(lines[i])
    /\ TableInv(BLACKLIST_IP, "b", Added) /\ TableInv(WHITELACKLIST_IP, "w", {})
    /\ pc \in {"open", "ready"} => optind > Len(argv)

\* Before the first option nothing has been seen.
LEMMA FilterInit == Init => FilterInv
<1>. SUFFICES ASSUME Init PROVE FilterInv OBVIOUS
<1>1. argv \in Seq(Range(argv)) BY IpFilterAssumption DEF Init
<1>2. \A o : Before(o, optind) = {} /\ Seen(o) = {}
  BY <1>1 DEF Init, Before, Given, Seen
<1>3. DOMAIN lines = {} BY DEF Init
<1>. QED BY <1>2, <1>3 DEF Init, FilterInv, OptionInv, TableInv, Added

\* An option more has been seen.
LEMMA OneMore ==
  ASSUME StartInv, optind \in DOMAIN argv, NEW o
  PROVE  Before(o, optind + 1) = Before(o, optind) \cup (IF opt = o THEN {optind} ELSE {})
<1>1. argv \in Seq(Range(argv)) /\ optind \in Nat BY IpFilterAssumption DEF StartInv
<1>2. \A j \in Given(o) : j \in Nat BY <1>1 DEF Given
<1>3. optind \in Given(o) <=> opt = o BY DEF Given, opt
<1>4. \A j \in Given(o) : j < optind + 1 <=> j < optind \/ j = optind BY <1>1, <1>2
<1>. QED BY <1>3, <1>4 DEF Before

\* An option other than -b and -w goes by.
LEMMA PlainOption ==
  ASSUME StartInv, FilterInv, More, opt \notin {"b", "w"},
         optind' = optind + 1, UNCHANGED <<pc, argv, lines, tables>>, OptionInv'
  PROVE  FilterInv'
<1>0. pc = "getopt" /\ pc' = "getopt" /\ optind \in DOMAIN argv
  <2>1. argv \in Seq(Range(argv)) /\ optind \in Nat \ {0} BY IpFilterAssumption DEF StartInv
  <2>. QED BY <2>1 DEF More
<1>1. \A o \in {"b", "w"} : Seen(o)' = Seen(o)
  <2>1. \A o \in {"b", "w"} : Before(o, optind + 1) = Before(o, optind) BY <1>0, OneMore
  <2>. QED BY <2>1, <1>0 DEF Seen, Before, Given
<1>2. \A o \in {"b", "w"} : Unread(o)' = Unread(o) BY <1>0 DEF Unread
<1>3. Added' = Added BY <1>0 DEF Added
<1>4. ASSUME NEW o \in {"b", "w"} PROVE InFiles(Seen(o))' = InFiles(Seen(o))
  BY <1>1 DEF InFiles, TextsOf
<1>. QED BY <1>0, <1>1, <1>2, <1>3, <1>4 DEF FilterInv, TableInv, tables

\* What OpenFile does to the table of the option and to the other one.
LEMMA Opened ==
  ASSUME StartInv, FilterInv, OpenFile, optarg \in DOMAIN Files, NEW o \in {"b", "w"}, NEW set,
         set # NULL => TableOK(set), TableInv(set, o, {}),
         NEW new, new = IF opt = o THEN Table(set) ELSE set
  PROVE  TableInv(new, o, {})'
<1>0. /\ pc = "getopt" /\ pc' = "getline" /\ lines' = Files[optarg]
      /\ UNCHANGED <<argv, optind>> /\ opt' = opt /\ optind \in DOMAIN argv
  <2>1. argv \in Seq(Range(argv)) /\ optind \in Nat \ {0} BY IpFilterAssumption DEF StartInv
  <2>. QED BY <2>1 DEF OpenFile, More, opt
<1>1. Seen(o) = Before(o, optind) BY <1>0 DEF Seen
<1>2. Seen(o)' = Before(o, optind) \cup (IF opt = o THEN {optind} ELSE {})
  <2>1. Seen(o)' = Before(o, optind + 1) BY <1>0 DEF Seen, Before, Given
  <2>. QED BY <2>1, <1>0, OneMore
<1>3. Unread(o)' = IF opt = o THEN TextsOf(Files[optarg]) ELSE {}
  BY <1>0 DEF Unread, TextsOf
<1>4. Unread(o) = {} BY <1>0 DEF Unread
<1>5. InFiles(Seen(o))' = InFiles(Seen(o))
                            \cup (IF opt = o THEN TextsOf(Files[optarg]) \cap Ips ELSE {})
  <2>. DEFINE F(j) == TextsOf(Files[argv[j].arg])
  <2>1. InFiles(Seen(o))' = {x \in Ips : \E j \in Seen(o)' : x \in F(j)}
    BY <1>0 DEF InFiles, TextsOf
  <2>2. InFiles(Seen(o)) = {x \in Ips : \E j \in Seen(o) : x \in F(j)} BY DEF InFiles
  <2>3. F(optind) = TextsOf(Files[optarg]) BY DEF optarg
  <2>. HIDE DEF F
  <2>4. CASE opt = o
    <3>1. Seen(o)' = Seen(o) \cup {optind} BY <2>4, <1>1, <1>2
    <3>. QED BY <2>1, <2>2, <2>3, <2>4, <3>1
  <2>5. CASE opt # o BY <2>1, <2>2, <2>5, <1>1, <1>2
  <2>. QED BY <2>4, <2>5
<1>6. TableOK(Table(set)) /\ Elements(Table(set)) = IF set = NULL THEN {} ELSE Elements(set)
  BY TableRight
<1>7. Seen(o) = {} => InFiles(Seen(o)) = {} BY DEF InFiles
<1>8. CASE opt = o
  <2>1. new # NULL /\ Seen(o)' # {} BY <1>2, <1>6, <1>8, NotNull
  <2>2. Elements(new) \cap Ips = InFiles(Seen(o))
    <3>1. InFiles(Seen(o)) \subseteq Ips BY DEF InFiles
    <3>2. CASE set = NULL
      <4>1. Seen(o) = {} BY <3>2 DEF TableInv
      <4>2. Elements(new) = {} BY <3>2, <1>6, <1>8
      <4>. QED BY <4>1, <4>2, <1>7
    <3>3. CASE set # NULL BY <3>1, <3>3, <1>4, <1>6, <1>8 DEF TableInv
    <3>. QED BY <3>2, <3>3
  <2>3. (Elements(new) \cup Unread(o)') \cap Ips = InFiles(Seen(o))' \cap Ips
    BY <2>2, <1>3, <1>5, <1>8 DEF InFiles
  <2>. QED BY <2>1, <2>3 DEF TableInv
<1>9. CASE opt # o BY <1>1, <1>2, <1>3, <1>4, <1>5, <1>9 DEF TableInv
<1>. QED BY <1>8, <1>9

\* What ReadLine does to them.
LEMMA LineRead ==
  ASSUME StartInv, FilterInv, ReadLine, NEW o \in {"b", "w"}, NEW set,
         set # NULL => TableOK(set), opt = o => set # NULL, TableInv(set, o, {}),
         NEW new, new = IF opt = o THEN Put(set, Head(lines)) ELSE set
  PROVE  TableInv(new, o, {})'
<1>0. /\ pc = "getline" /\ pc' = "getline" /\ lines # <<>> /\ lines' = Tail(lines)
      /\ UNCHANGED <<argv, optind>> /\ opt' = opt
  BY DEF ReadLine, opt
<1>1. Seen(o)' = Seen(o) BY <1>0 DEF Seen, Before, Given
<1>2. InFiles(Seen(o))' = InFiles(Seen(o)) BY <1>0, <1>1 DEF InFiles, TextsOf
<1>3. CASE opt # o
  <2>1. Unread(o)' = Unread(o) BY <1>0, <1>3 DEF Unread
  <2>. QED BY <2>1, <1>1, <1>2, <1>3 DEF TableInv
<1>4. CASE opt = o
  <2>1. /\ Head(lines) \in Lines /\ 1 \in DOMAIN lines /\ Head(lines) = lines[1]
        /\ \A k \in DOMAIN Tail(lines) :
             k + 1 \in DOMAIN lines /\ k + 1 # 1 /\ Tail(lines)[k] = lines[k + 1]
        /\ \A k \in DOMAIN lines : k # 1 =>
             \E m \in DOMAIN Tail(lines) : Tail(lines)[m] = lines[k]
    BY <1>0, TailProperties, Zenon DEF StartInv
  <2>2. TextsOf(lines) = TextsOf(Tail(lines)) \cup {Head(lines).text}
    BY <2>1 DEF TextsOf
  <2>3. Unread(o) = TextsOf(lines) /\ Unread(o)' = TextsOf(Tail(lines))
    BY <1>0, <1>4 DEF Unread, TextsOf
  <2>4. GoodLine(Head(lines)) BY <1>0, <2>1 DEF FilterInv
  <2>5. /\ TableOK(new)
        /\ Elements(new) \cap Ips = (Elements(set) \cup {Head(lines).text}) \cap Ips
    BY <1>4, <2>1, <2>4, LineRight
  <2>6. new # NULL BY <2>5, NotNull
  <2>7. (Elements(new) \cup Unread(o)') \cap Ips = (Elements(set) \cup Unread(o)) \cap Ips
    BY <2>2, <2>3, <2>5
  <2>. QED BY <2>6, <2>7, <1>1, <1>2, <1>4 DEF TableInv
<1>. QED BY <1>3, <1>4

\* Every step of main() keeps the filter in order.
LEMMA FilterNext ==
  ASSUME WellFormed
  PROVE  StartInv /\ FilterInv /\ [Next]_vars => FilterInv'
<1>. SUFFICES ASSUME StartInv, FilterInv, [Next]_vars, pc' # "exit" PROVE FilterInv'
  BY DEF FilterInv
<1>t. /\ argv \in Seq(Range(argv)) /\ optind \in Nat \ {0} /\ DOMAIN argv = 1 .. Len(argv)
      /\ Len(argv) \in Nat
  BY IpFilterAssumption DEF StartInv
<1>m. More => /\ pc = "getopt" /\ optind \in DOMAIN argv /\ OptionInv
              /\ \A o : Before(o, optind + 1) =
                          Before(o, optind) \cup (IF opt = o THEN {optind} ELSE {})
  BY <1>t, OneMore DEF More, FilterInv
<1>1. CASE GetoptAddr
  <2>1. /\ More /\ opt = "a" /\ LOCAL_ADDR' = argv[optind].arg /\ optind' = optind + 1
        /\ UNCHANGED <<pc, argv, lines, tables, ignore_local>>
    BY <1>1 DEF GetoptAddr, optarg
  <2>2. Before("a", optind)' = Before("a", optind) \cup {optind}
    <3>1. Before("a", optind)' = Before("a", optind + 1) BY <2>1 DEF Before, Given
    <3>. QED BY <3>1, <2>1, <1>m
  <2>3. Before("n", optind)' = Before("n", optind)
    <3>1. Before("n", optind)' = Before("n", optind + 1) BY <2>1 DEF Before, Given
    <3>. QED BY <3>1, <2>1, <1>m
  <2>4. \A j \in Before("a", optind)' : j <= optind
    <3>1. \A j \in Before("a", optind) : j \in Nat /\ j < optind BY <1>t DEF Before, Given
    <3>. QED BY <3>1, <2>2, <1>t
  <2>5. OptionInv' BY <2>1, <2>2, <2>3, <2>4, <1>m DEF OptionInv
  <2>. QED BY <2>1, <2>5, PlainOption
<1>2. CASE GetoptNotIgnoreLocal \/ GetoptOther
  <2>1. /\ More /\ opt \notin {"a", "b", "w"} /\ optind' = optind + 1
        /\ UNCHANGED <<pc, argv, lines, tables, LOCAL_ADDR>>
        /\ IF opt = "n" THEN ignore_local' = FALSE ELSE UNCHANGED ignore_local
    BY <1>2 DEF GetoptNotIgnoreLocal, GetoptOther
  <2>2. Before("a", optind)' = Before("a", optind)
    <3>1. Before("a", optind)' = Before("a", optind + 1) BY <2>1 DEF Before, Given
    <3>. QED BY <3>1, <2>1, <1>m
  <2>3. Before("n", optind)' = Before("n", optind) \cup (IF opt = "n" THEN {optind} ELSE {})
    <3>1. Before("n", optind)' = Before("n", optind + 1) BY <2>1 DEF Before, Given
    <3>. QED BY <3>1, <2>1, <1>m
  <2>5. OptionInv' BY <2>1, <2>2, <2>3, <1>m DEF OptionInv
  <2>. QED BY <2>1, <2>5, PlainOption
<1>3. CASE GetoptUsage BY <1>3 DEF GetoptUsage
<1>4. CASE OpenFile
  <2>1. /\ More /\ opt \in {"b", "w"} /\ optarg \in DOMAIN Files
        /\ pc' = "getline" /\ lines' = Files[optarg]
        /\ BLACKLIST_IP' = IF opt = "b" THEN Table(BLACKLIST_IP) ELSE BLACKLIST_IP
        /\ WHITELACKLIST_IP' = IF opt = "w" THEN Table(WHITELACKLIST_IP) ELSE WHITELACKLIST_IP
        /\ UNCHANGED <<argv, optind, LOCAL_ADDR, ignore_local>>
    BY <1>4 DEF OpenFile
  <2>2. Added = {} /\ Added' = {} BY <2>1, <1>m DEF Added
  <2>3. TableInv(BLACKLIST_IP, "b", {}) /\ TableInv(WHITELACKLIST_IP, "w", {})
    BY <2>1, <2>2, <1>m DEF FilterInv
  <2>4. ASSUME NEW new, new = BLACKLIST_IP' PROVE TableInv(new, "b", {})'
    BY <1>4, <2>1, <2>3, <2>4, Opened DEF StartInv
  <2>5. ASSUME NEW new, new = WHITELACKLIST_IP' PROVE TableInv(new, "w", {})'
    BY <1>4, <2>1, <2>3, <2>5, Opened DEF StartInv
  <2>6. TableInv(BLACKLIST_IP, "b", Added)' /\ TableInv(WHITELACKLIST_IP, "w", {})'
    BY <2>2, <2>4, <2>5 DEF TableInv
  <2>7. \A j \in Seen("b")' \cup Seen("w")' : argv'[j].arg \in DOMAIN Files
    <3>1. \A o : Seen(o)' = Before(o, optind + 1) BY <2>1 DEF Seen, Before, Given
    <3>2. \A o : Seen(o) = Before(o, optind) BY <2>1, <1>m DEF Seen
    <3>3. \A j \in Seen("b")' \cup Seen("w")' : j \in Seen("b") \cup Seen("w") \/ j = optind
      BY <3>1, <3>2, <2>1, <1>m
    <3>. QED BY <3>3, <2>1, <1>m DEF FilterInv, optarg
  <2>8. \A i \in DOMAIN lines' : GoodLine(lines'[i]) BY <2>1 DEF WellFormed
  <2>9. OptionInv' BY <2>1, <1>m DEF OptionInv, Before, Given
  <2>. QED BY <2>1, <2>6, <2>7, <2>8, <2>9 DEF FilterInv, GoodLine
<1>5. CASE ReadLine
  <2>1. /\ pc = "getline" /\ pc' = "getline" /\ lines # <<>> /\ lines' = Tail(lines)
        /\ BLACKLIST_IP' = IF opt = "b" THEN Put(BLACKLIST_IP, Head(lines)) ELSE BLACKLIST_IP
        /\ WHITELACKLIST_IP' = IF opt = "w" THEN Put(WHITELACKLIST_IP, Head(lines))
                               ELSE WHITELACKLIST_IP
        /\ UNCHANGED <<argv, optind, LOCAL_ADDR, ignore_local>>
    BY <1>5 DEF ReadLine
  <2>2. Added = {} /\ Added' = {} BY <2>1 DEF Added
  <2>3. TableInv(BLACKLIST_IP, "b", {}) /\ TableInv(WHITELACKLIST_IP, "w", {})
    BY <2>1, <2>2 DEF FilterInv
  <2>4. ASSUME NEW new, new = BLACKLIST_IP' PROVE TableInv(new, "b", {})'
    BY <1>5, <2>1, <2>3, <2>4, LineRead DEF StartInv
  <2>5. ASSUME NEW new, new = WHITELACKLIST_IP' PROVE TableInv(new, "w", {})'
    BY <1>5, <2>1, <2>3, <2>5, LineRead DEF StartInv
  <2>6. TableInv(BLACKLIST_IP, "b", Added)' /\ TableInv(WHITELACKLIST_IP, "w", {})'
    BY <2>2, <2>4, <2>5 DEF TableInv
  <2>7. \A j \in Seen("b")' \cup Seen("w")' : argv'[j].arg \in DOMAIN Files
    BY <2>1 DEF FilterInv, Seen, Before, Given
  <2>8. \A i \in DOMAIN lines' : GoodLine(lines'[i])
    <3>1. \A k \in DOMAIN Tail(lines) : k + 1 \in DOMAIN lines /\ Tail(lines)[k] = lines[k + 1]
      BY <2>1, TailProperties, Zenon DEF StartInv
    <3>. QED BY <3>1, <2>1 DEF FilterInv
  <2>9. OptionInv' BY <2>1 DEF OptionInv, Before, Given, FilterInv
  <2>. QED BY <2>1, <2>6, <2>7, <2>8, <2>9 DEF FilterInv, GoodLine
<1>6. CASE EndOfFile
  <2>1. /\ pc = "getline" /\ lines = <<>> /\ pc' = "getopt" /\ optind' = optind + 1
        /\ UNCHANGED <<argv, lines, tables, LOCAL_ADDR, ignore_local>>
        /\ opt \in {"b", "w"} /\ optind \in DOMAIN argv
    BY <1>6 DEF EndOfFile, StartInv
  <2>2. \A o : Seen(o)' = Seen(o) BY <2>1 DEF Seen, Before, Given
  <2>3. \A o \in {"a", "n"} : Before(o, optind)' = Before(o, optind)
    <3>1. \A o : Before(o, optind + 1) =
                   Before(o, optind) \cup (IF opt = o THEN {optind} ELSE {})
      BY <2>1, OneMore
    <3>2. \A o \in {"a", "n"} : Before(o, optind + 1) = Before(o, optind) BY <3>1, <2>1
    <3>. QED BY <3>2, <2>1 DEF Before, Given
  <2>4. OptionInv' BY <2>1, <2>3 DEF OptionInv, FilterInv
  <2>5. \A o : Unread(o) = {} /\ Unread(o)' = {}
    <3>1. TextsOf(lines) = {} BY <2>1 DEF TextsOf
    <3>. QED BY <3>1, <2>1 DEF Unread
  <2>6. Added = {} /\ Added' = {} BY <2>1 DEF Added
  <2>7. ASSUME NEW o PROVE InFiles(Seen(o))' = InFiles(Seen(o))
    BY <2>1, <2>2 DEF InFiles, TextsOf
  <2>8. TableInv(BLACKLIST_IP, "b", Added)' /\ TableInv(WHITELACKLIST_IP, "w", {})'
    BY <2>1, <2>2, <2>5, <2>6, <2>7 DEF TableInv, FilterInv, tables
  <2>. QED BY <2>1, <2>2, <2>4, <2>8 DEF FilterInv, GoodLine
<1>7. CASE IgnoreLocalAddrs
  <2>1. /\ pc = "getopt" /\ optind > Len(argv) /\ pc' = "open"
        /\ BLACKLIST_IP' =
             IF ignore_local
             THEN str_set_put(str_set_put(Table(BLACKLIST_IP), LOCAL_ADDR), LOCAL_DEFAULT_ADDR)
             ELSE BLACKLIST_IP
        /\ UNCHANGED <<argv, optind, lines, WHITELACKLIST_IP, LOCAL_ADDR, ignore_local>>
    BY <1>7 DEF IgnoreLocalAddrs
  <2>2. \A o : Seen(o)' = Seen(o) BY <2>1 DEF Seen, Before, Given
  <2>3. \A o : Unread(o) = {} /\ Unread(o)' = {} BY <2>1 DEF Unread
  <2>4. Added = {} /\ Added' = IF ignore_local THEN {LOCAL_ADDR, LOCAL_DEFAULT_ADDR} ELSE {}
    BY <2>1 DEF Added
  <2>5. ASSUME NEW o PROVE InFiles(Seen(o))' = InFiles(Seen(o))
    BY <2>1, <2>2 DEF InFiles, TextsOf
  <2>6. TableInv(WHITELACKLIST_IP, "w", {})'
    BY <2>1, <2>2, <2>3, <2>5 DEF TableInv, FilterInv
  <2>7. TableInv(BLACKLIST_IP, "b", Added)'
    <3>1. TableInv(BLACKLIST_IP, "b", {}) BY <2>1, <2>4 DEF FilterInv
    <3>2. CASE ~ignore_local BY <3>1, <3>2, <2>1, <2>2, <2>3, <2>4, <2>5 DEF TableInv
    <3>3. CASE ignore_local
      <4>1. /\ TableOK(BLACKLIST_IP')
            /\ Elements(BLACKLIST_IP') = (IF BLACKLIST_IP = NULL THEN {}
                                          ELSE Elements(BLACKLIST_IP)) \cup Added'
        BY <3>3, <2>1, <2>4, LocalRight DEF StartInv
      <4>2. BLACKLIST_IP' # NULL /\ Added' # {} BY <4>1, <3>3, <2>4, NotNull
      <4>3. BLACKLIST_IP = NULL => InFiles(Seen("b")) = {} BY <3>1 DEF TableInv, InFiles
      <4>4. (IF BLACKLIST_IP = NULL THEN {} ELSE Elements(BLACKLIST_IP)) \cap Ips
              = InFiles(Seen("b")) \cap Ips
        <5>1. CASE BLACKLIST_IP = NULL BY <5>1, <4>3
        <5>2. CASE BLACKLIST_IP # NULL BY <5>2, <3>1, <2>3 DEF TableInv
        <5>. QED BY <5>1, <5>2
      <4>5. (Elements(BLACKLIST_IP') \cup Unread("b")') \cap Ips
              = (InFiles(Seen("b")) \cup Added') \cap Ips
        BY <4>1, <4>4, <2>3
      <4>. QED BY <4>2, <4>5, <2>5 DEF TableInv
    <3>. QED BY <3>2, <3>3
  <2>8. OptionInv' BY <2>1 DEF OptionInv, Before, Given, FilterInv
  <2>. QED BY <2>1, <2>2, <2>6, <2>7, <2>8 DEF FilterInv, GoodLine
<1>8. CASE OpenFifo \/ Finished \/ UNCHANGED vars
  <2>1. /\ UNCHANGED <<argv, optind, lines, tables, LOCAL_ADDR, ignore_local>>
        /\ \/ pc' = pc
           \/ pc = "open" /\ pc' = "ready"
    BY <1>8 DEF OpenFifo, Finished, vars
  <2>2. \A o : Seen(o)' = Seen(o) BY <2>1 DEF Seen, Before, Given
  <2>3. \A o : Unread(o)' = Unread(o) BY <2>1 DEF Unread, TextsOf, opt
  <2>4. Added' = Added BY <2>1 DEF Added
  <2>5. ASSUME NEW o PROVE InFiles(Seen(o))' = InFiles(Seen(o))
    BY <2>1, <2>2 DEF InFiles, TextsOf
  <2>6. pc # "exit" BY <2>1
  <2>7. TableInv(BLACKLIST_IP, "b", Added)' /\ TableInv(WHITELACKLIST_IP, "w", {})'
    BY <2>1, <2>2, <2>3, <2>4, <2>5, <2>6 DEF TableInv, FilterInv, tables
  <2>8. OptionInv' BY <2>1, <2>6 DEF OptionInv, Before, Given, FilterInv
  <2>. QED BY <2>1, <2>2, <2>6, <2>7, <2>8 DEF FilterInv, GoodLine
<1>. QED BY <1>1, <1>2, <1>3, <1>4, <1>5, <1>6, <1>7, <1>8 DEF Next

\* When tracing starts, the options have been read to the last one.
LEMMA AllSeen ==
  ASSUME StartInv, FilterInv, pc = "ready"
  PROVE  /\ \A o : Before(o, optind) = Given(o) /\ Seen(o) = Given(o) /\ Unread(o) = {}
         /\ LOCAL_ADDR = LastArg("a", "127.0.0.1")
         /\ ignore_local <=> Args("n") = {}
<1>1. /\ argv \in Seq(Range(argv)) /\ optind \in Nat /\ Len(argv) \in Nat
      /\ DOMAIN argv = 1 .. Len(argv) /\ optind > Len(argv)
  BY IpFilterAssumption DEF StartInv, FilterInv
<1>2. \A o : Before(o, optind) = Given(o) /\ Seen(o) = Given(o) /\ Unread(o) = {}
  BY <1>1 DEF Before, Given, Seen, Unread
<1>3. OptionInv BY DEF FilterInv
<1>4. LOCAL_ADDR = LastArg("a", "127.0.0.1")
  <2>1. CASE Given("a") = {} BY <1>2, <1>3, <2>1 DEF OptionInv, LastArg
  <2>2. CASE Given("a") # {}
    <3>1. PICK m \in Given("a") :
            LOCAL_ADDR = argv[m].arg /\ \A j \in Given("a") : j <= m
      BY <1>2, <1>3, <2>2 DEF OptionInv
    <3>2. \A j \in Given("a") : j \in Nat BY <1>1 DEF Given
    <3>3. \A x \in Given("a") : (\A y \in Given("a") : x >= y) => x = m BY <3>1, <3>2
    <3>4. \A y \in Given("a") : m >= y BY <3>1, <3>2
    <3>5. Max(Given("a")) = m BY <3>3, <3>4 DEF Max
    <3>. QED BY <3>1, <3>5, <2>2 DEF LastArg
  <2>. QED BY <2>1, <2>2
<1>5. ignore_local <=> Args("n") = {} BY <1>2, <1>3 DEF OptionInv, Args
<1>. QED BY <1>2, <1>4, <1>5

\* The addresses of the files seen are those that are listed.
LEMMA ListedRight ==
  ASSUME StartInv, FilterInv, pc = "ready", NEW o \in {"b", "w"}
  PROVE  /\ Given(o) = {} => Listed(o) = NULL
         /\ Given(o) # {} => Listed(o) = InFiles(Given(o)) /\ Listed(o) # NULL
<1>1. Args(o) = {} <=> Given(o) = {} BY DEF Args
<1>2. CASE Given(o) = {} BY <1>1, <1>2 DEF Listed
<1>3. CASE Given(o) # {}
  <2>1. \A f \in Args(o) : f \in DOMAIN Files /\ \A x :
          x \in TextsOf(Files[f]) <=> \E l \in Range(Files[f]) : x = l.text
    <3>1. \A f \in Args(o) : f \in DOMAIN Files BY AllSeen DEF FilterInv, Args
    <3>. QED BY <3>1 DEF TextsOf, Range
  <2>2. Listed(o) = {l.text : l \in UNION {Range(Files[f]) : f \in Args(o)}} \cap Ips
    BY <1>1, <1>3 DEF Listed
  <2>3. \A x : x \in Listed(o) <=> x \in Ips /\ \E f \in Args(o) : x \in TextsOf(Files[f])
    <3>1. \A l : l \in UNION {Range(Files[f]) : f \in Args(o)}
                   <=> \E f \in Args(o) : l \in Range(Files[f])
      OBVIOUS
    <3>2. \A x : x \in Listed(o)
                   <=> x \in Ips /\ \E l \in UNION {Range(Files[f]) : f \in Args(o)} : x = l.text
      BY <2>2
    <3>. QED BY <3>1, <3>2, <2>1
  <2>4. \A x : x \in InFiles(Given(o))
                 <=> x \in Ips /\ \E f \in Args(o) : x \in TextsOf(Files[f])
    BY DEF InFiles, Args
  <2>5. Listed(o) = InFiles(Given(o)) BY <2>3, <2>4
  <2>6. Listed(o) \in SUBSET Strings BY <2>3, IpFilterAssumption
  <2>. QED BY <1>3, <2>5, <2>6, IpFilterAssumption
<1>. QED BY <1>2, <1>3

\* FilterAsSets for any address files, command line, hash function and number of
\* buckets: when tracing starts, the tables answer as the sets of the tracer's model
\* do, provided that every line of a file ends in a newline and every address listed is
\* as long as load_ip_file takes the shortest to be.
THEOREM StartupBuilds ==
  ASSUME WellFormed
  PROVE  Spec => []FilterAsSets
<1>1. ASSUME StartInv, FilterInv PROVE FilterAsSets
  <2>. SUFFICES ASSUME pc = "ready", NEW ip \in Ips
                PROVE  is_ignore(ip) <=> AsSets!is_ignore(ip)
    BY DEF FilterAsSets
  <2>. USE <1>1
  <2>0. ip \in Strings BY IpFilterAssumption
  <2>1. /\ TableInv(BLACKLIST_IP, "b", Added) /\ TableInv(WHITELACKLIST_IP, "w", {})
        /\ Added = IF Args("n") = {} THEN {LOCAL_ADDR, LOCAL_DEFAULT_ADDR} ELSE {}
    BY AllSeen DEF FilterInv, Added
  <2>2. /\ BLACKLIST_IP = NULL <=> Given("b") = {} /\ Added = {}
        /\ WHITELACKLIST_IP = NULL <=> Given("w") = {}
    BY <2>1, AllSeen DEF TableInv
  <2>3. WHITELACKLIST_IP # NULL =>
          (is_str_set_member(WHITELACKLIST_IP, ip) <=> ip \in InFiles(Given("w")))
    <3>1. WHITELACKLIST_IP # NULL =>
            (is_str_set_member(WHITELACKLIST_IP, ip) <=> ip \in Elements(WHITELACKLIST_IP))
      BY <2>0, MemberRight DEF StartInv, TableOK
    <3>. QED BY <3>1, <2>1, AllSeen DEF TableInv
  <2>4. BLACKLIST_IP # NULL =>
          (is_str_set_member(BLACKLIST_IP, ip) <=> ip \in InFiles(Given("b")) \cup Added)
    <3>1. BLACKLIST_IP # NULL =>
            (is_str_set_member(BLACKLIST_IP, ip) <=> ip \in Elements(BLACKLIST_IP))
      BY <2>0, MemberRight DEF StartInv, TableOK
    <3>. QED BY <3>1, <2>1, AllSeen DEF TableInv
  <2>5. WHITELACKLIST_IP # NULL /\ ~is_str_set_member(WHITELACKLIST_IP, ip)
          <=> AsSets!WHITELACKLIST_IP # NULL /\ ip \notin AsSets!WHITELACKLIST_IP
    BY <2>2, <2>3, ListedRight DEF AsSets!WHITELACKLIST_IP
  <2>6. BLACKLIST_IP # NULL /\ is_str_set_member(BLACKLIST_IP, ip)
          <=> AsSets!BLACKLIST_IP # NULL /\ ip \in AsSets!BLACKLIST_IP
    <3>1. LOCAL_ADDR = GivenAddr BY AllSeen DEF GivenAddr
    <3>2. CASE Args("n") = {}
      <4>1. AsSets!BLACKLIST_IP = (IF Listed("b") = NULL THEN {} ELSE Listed("b")) \cup Added
        BY <2>1, <3>1, <3>2 DEF AsSets!BLACKLIST_IP, AsSets!LOCAL_DEFAULT_ADDR,
                                LOCAL_DEFAULT_ADDR
      <4>2. Added \subseteq Strings BY <2>1, IpFilterAssumption DEF StartInv
      <4>3. (IF Listed("b") = NULL THEN {} ELSE Listed("b")) = InFiles(Given("b"))
        <5>1. CASE Given("b") = {} BY <5>1, ListedRight DEF InFiles
        <5>2. CASE Given("b") # {} BY <5>2, ListedRight
        <5>. QED BY <5>1, <5>2
      <4>4. InFiles(Given("b")) \subseteq Strings BY IpFilterAssumption DEF InFiles
      <4>5. AsSets!BLACKLIST_IP \in SUBSET Strings BY <4>1, <4>2, <4>3, <4>4
      <4>6. AsSets!BLACKLIST_IP # NULL BY <4>5, IpFilterAssumption
      <4>7. BLACKLIST_IP # NULL BY <2>1, <2>2, <3>2
      <4>. QED BY <4>1, <4>3, <4>6, <4>7, <2>4
    <3>3. CASE Args("n") # {}
      <4>1. AsSets!BLACKLIST_IP = Listed("b") BY <3>3 DEF AsSets!BLACKLIST_IP
      <4>2. Added = {} BY <2>1, <3>3
      <4>. QED BY <4>1, <4>2, <2>2, <2>4, ListedRight
    <3>. QED BY <3>2, <3>3
  <2>. QED BY <2>5, <2>6 DEF is_ignore, AsSets!is_ignore
<1>2. Init => FilterInv /\ StartInv BY FilterInit, StartInit
<1>3. StartInv /\ FilterInv /\ [Next]_vars => StartInv' /\ FilterInv'
  BY StartNext, FilterNext
<1>. QED BY <1>1, <1>2, <1>3, PTL DEF Spec

\* FilterRight under the same conditions: for any files and any order and repetition
\* of options graftcp leaves alone what the -b and -w files say, LOCAL_ADDR and 0.0.0.0,
\* and of other destinations none but local ones.
THEOREM StartupFilters ==
  ASSUME WellFormed
  PROVE  Spec => []FilterRight
<1>1. ASSUME StartInv, FilterInv, FilterAsSets PROVE FilterRight
  <2>. SUFFICES ASSUME pc = "ready", NEW ip \in Ips
                PROVE  /\ is_ignore(ip) => LeftByFiles(ip) \/ LeftAsLocal(ip)
                       /\ LeftByFiles(ip) => is_ignore(ip)
                       /\ LeftAsLocal(ip) /\ ip \in {GivenAddr, LOCAL_DEFAULT_ADDR}
                            => is_ignore(ip)
    BY DEF FilterRight
  <2>1. is_ignore(ip) <=> AsSets!is_ignore(ip) BY <1>1 DEF FilterAsSets
  <2>2. CASE Args("n") # {}
    BY <2>1, <2>2 DEF AsSets!is_ignore, AsSets!BLACKLIST_IP, AsSets!WHITELACKLIST_IP,
                      LeftByFiles, LeftAsLocal
  <2>3. CASE Args("n") = {}
    <3>1. AsSets!BLACKLIST_IP = (IF Listed("b") = NULL THEN {} ELSE Listed("b"))
                                  \cup {GivenAddr, LOCAL_DEFAULT_ADDR}
      BY <2>3 DEF AsSets!BLACKLIST_IP, AsSets!LOCAL_DEFAULT_ADDR, LOCAL_DEFAULT_ADDR
    <3>2. GivenAddr \in Strings /\ LOCAL_DEFAULT_ADDR \in Strings
      BY <1>1, AllSeen, IpFilterAssumption DEF GivenAddr, StartInv
    <3>3. Listed("b") = NULL \/ Listed("b") \subseteq Strings
      BY IpFilterAssumption DEF Listed
    <3>4. AsSets!BLACKLIST_IP \in SUBSET Strings BY <3>1, <3>2, <3>3
    <3>5. AsSets!BLACKLIST_IP # NULL BY <3>4, IpFilterAssumption
    <3>. QED BY <2>1, <2>3, <3>1, <3>5
         DEF AsSets!is_ignore, AsSets!WHITELACKLIST_IP, LeftByFiles, LeftAsLocal
  <2>. QED BY <2>2, <2>3
<1>2. Spec => []FilterAsSets BY StartupBuilds
<1>3. Init => FilterInv /\ StartInv BY FilterInit, StartInit
<1>4. StartInv /\ FilterInv /\ [Next]_vars => StartInv' /\ FilterInv'
  BY StartNext, FilterNext
<1>. QED BY <1>1, <1>2, <1>3, <1>4, PTL DEF Spec

=============================================================================
