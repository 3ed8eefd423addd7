------------------------------ MODULE IpFilter ------------------------------
(***************************************************************************)
(* How graftcp's main() gets from its command line to the address filter   *)
(* (main.c, string-set.c): the options in the order they are given, every  *)
(* address file line by line into one of two hash sets, and the local      *)
(* addresses at the end.                                                   *)
(*                                                                         *)
(* A line of a file is its text and whether a newline follows; the length  *)
(* of a text and what is left of it without its last character are given.  *)
(***************************************************************************)
EXTENDS StrSet, FiniteSets

CONSTANTS
  Files,      \* lines of each file that exists
  ArgLists,   \* command lines: sequences of [opt, arg]
  Length,     \* length of each text
  Chopped,    \* each text without its last character
  Ips,        \* texts inet_ntoa and inet_ntop produce
  LocalIps,   \* those of them that are addresses of the host itself
  NULL

VARIABLES
  pc,                 \* "getopt", "getline", "open", "ready" or "exit"
  argv,               \* the command line
  optind,             \* next option of it
  lines,              \* rest of the file that load_ip_file is reading
  BLACKLIST_IP,       \* a table of StrSet, or NULL
  WHITELACKLIST_IP,
  LOCAL_ADDR,
  ignore_local

tables == <<BLACKLIST_IP, WHITELACKLIST_IP>>
vars == <<pc, argv, optind, lines, tables, LOCAL_ADDR, ignore_local>>

LOCAL_DEFAULT_ADDR == "0.0.0.0"

Lines == [text : Strings, nl : BOOLEAN]

ASSUME IpFilterAssumption ==
  /\ \A f \in DOMAIN Files : Files[f] \in Seq(Lines)
  /\ \A args \in ArgLists :
        /\ args \in Seq(Range(args))
        /\ \A i \in DOMAIN args : args[i].opt = "a" => args[i].arg \in Strings
  /\ Length \in [Strings -> Nat] /\ Chopped \in [Strings -> Strings]
  /\ Ips \subseteq Strings /\ {"127.0.0.1", LOCAL_DEFAULT_ADDR} \subseteq Strings
  /\ NULL \notin Tables /\ \A S \in SUBSET Strings : NULL # S

Init ==
  /\ pc = "getopt" /\ argv \in ArgLists /\ optind = 1 /\ lines = <<>>
  /\ BLACKLIST_IP = NULL /\ WHITELACKLIST_IP = NULL
  /\ LOCAL_ADDR = "127.0.0.1" /\ ignore_local = TRUE

-----------------------------------------------------------------------------

More == pc = "getopt" /\ optind <= Len(argv)
opt == argv[optind].opt
optarg == argv[optind].arg

GetoptAddr ==
  /\ More /\ opt = "a"
  /\ LOCAL_ADDR' = optarg /\ optind' = optind + 1
  /\ UNCHANGED <<pc, argv, lines, tables, ignore_local>>

GetoptNotIgnoreLocal ==
  /\ More /\ opt = "n"
  /\ ignore_local' = FALSE /\ optind' = optind + 1
  /\ UNCHANGED <<pc, argv, lines, tables, LOCAL_ADDR>>

\* -p and -f
GetoptOther ==
  /\ More /\ opt \in {"p", "f"}
  /\ optind' = optind + 1
  /\ UNCHANGED <<pc, argv, lines, tables, LOCAL_ADDR, ignore_local>>

\* -h, or an option that is not known
GetoptUsage ==
  /\ More /\ opt = "h"
  /\ pc' = "exit"
  /\ UNCHANGED <<argv, optind, lines, tables, LOCAL_ADDR, ignore_local>>

\* mutant: every file starts a new set
Table_Fresh(set) == str_set_new

\* the set a file is loaded into
Table(set) == IF set = NULL THEN str_set_new ELSE set

\* load_ip_file up to its loop
OpenFile ==
  /\ More /\ opt \in {"b", "w"}
  /\ IF optarg \in DOMAIN Files
     THEN /\ pc' = "getline" /\ lines' = Files[optarg]
          /\ BLACKLIST_IP' = IF opt = "b" THEN Table(BLACKLIST_IP) ELSE BLACKLIST_IP
          /\ WHITELACKLIST_IP' = IF opt = "w" THEN Table(WHITELACKLIST_IP) ELSE WHITELACKLIST_IP
     ELSE pc' = "exit" /\ UNCHANGED <<lines, tables>>
  /\ UNCHANGED <<argv, optind, LOCAL_ADDR, ignore_local>>

\* what getline returns, newline included
Read(line) == Length[line.text] + (IF line.nl THEN 1 ELSE 0)

\* what is left when the last character is overwritten with '\0'
Stripped(line) == IF line.nl THEN line.text ELSE Chopped[line.text]

\* a line goes into the set unless it is shorter than the shortest IPv4 address
Put(set, line) == IF Read(line) < 7 THEN set ELSE str_set_put(set, Stripped(line))

ReadLine ==
  /\ pc = "getline" /\ lines # <<>>
  /\ lines' = Tail(lines)
  /\ BLACKLIST_IP' = IF opt = "b" THEN Put(BLACKLIST_IP, Head(lines)) ELSE BLACKLIST_IP
  /\ WHITELACKLIST_IP' = IF opt = "w" THEN Put(WHITELACKLIST_IP, Head(lines)) ELSE WHITELACKLIST_IP
  /\ UNCHANGED <<pc, argv, optind, LOCAL_ADDR, ignore_local>>

EndOfFile ==
  /\ pc = "getline" /\ lines = <<>>
  /\ pc' = "getopt" /\ optind' = optind + 1
  /\ UNCHANGED <<argv, lines, tables, LOCAL_ADDR, ignore_local>>

\* the options are at their end
IgnoreLocalAddrs ==
  /\ pc = "getopt" /\ optind > Len(argv)
  /\ pc' = "open"
  /\ BLACKLIST_IP' =
       IF ignore_local
       THEN str_set_put(str_set_put(Table(BLACKLIST_IP), LOCAL_ADDR), LOCAL_DEFAULT_ADDR)
       ELSE BLACKLIST_IP
  /\ UNCHANGED <<argv, optind, lines, WHITELACKLIST_IP, LOCAL_ADDR, ignore_local>>

\* LOCAL_ADDR is resolved and the FIFO opened, or one of the two fails
OpenFifo ==
  /\ pc = "open"
  /\ pc' \in {"ready", "exit"}
  /\ UNCHANGED <<argv, optind, lines, tables, LOCAL_ADDR, ignore_local>>

Finished == pc \in {"ready", "exit"} /\ UNCHANGED vars

Next ==
  \/ GetoptAddr \/ GetoptNotIgnoreLocal \/ GetoptOther \/ GetoptUsage
  \/ OpenFile \/ ReadLine \/ EndOfFile
  \/ IgnoreLocalAddrs \/ OpenFifo \/ Finished

Spec == Init /\ [][Next]_vars

\* as connect_pre_handle asks
is_ignore(ip) ==
  \/ BLACKLIST_IP # NULL /\ is_str_set_member(BLACKLIST_IP, ip)
  \/ WHITELACKLIST_IP # NULL /\ ~is_str_set_member(WHITELACKLIST_IP, ip)

-----------------------------------------------------------------------------
(* Properties *)

\* where option o is given on the command line
Given(o) == {i \in DOMAIN argv : argv[i].opt = o}
Args(o) == {argv[i].arg : i \in Given(o)}
LastArg(o, default) == IF Given(o) = {} THEN default ELSE argv[Max(Given(o))].arg

\* all the addresses in the files given with option o, or NULL without one
Listed(o) ==
  IF Args(o) = {} THEN NULL
  ELSE {l.text : l \in UNION {Range(Files[f]) : f \in Args(o)}} \cap Ips

\* LOCAL_ADDR after all options, as it is written there
GivenAddr == LastArg("a", "127.0.0.1")

\* the filter of the tracer's model
AsSets == INSTANCE Filter WITH
  LOCAL_ADDR <- GivenAddr,
  BlackFile <- Listed("b"), WhiteFile <- Listed("w"),
  IgnoreLocal <- Args("n") = {}

\* Once tracing starts, is_ignore on the tables answers as the tracer's model
\* (Filter) does on its sets.
FilterAsSets ==
  pc = "ready" => \A ip \in Ips : is_ignore(ip) <=> AsSets!is_ignore(ip)

\* "Connecting to local is not changed by default" (usage text, -n)
LeftAsLocal(ip) ==
  Args("n") = {} /\ ip \in LocalIps \cup {GivenAddr, LOCAL_DEFAULT_ADDR}

\* "The IP in black-ip-file will connect direct", "Only redirect the connect
\* that destination ip in the white-ip-file" (usage text, -b and -w)
LeftByFiles(ip) ==
  \/ Listed("b") # NULL /\ ip \in Listed("b")
  \/ Listed("w") # NULL /\ ip \notin Listed("w")

\* Once tracing starts, is_ignore leaves alone only what the usage text says, and all
\* that the files say, whatever the order and the number of the options and however
\* the addresses collide in the sets.  Of the local addresses main() knows two:
\* LOCAL_ADDR, as text, and 0.0.0.0.
FilterRight ==
  pc = "ready" => \A ip \in Ips :
    /\ is_ignore(ip) => LeftByFiles(ip) \/ LeftAsLocal(ip)
    /\ LeftByFiles(ip) => is_ignore(ip)
    /\ LeftAsLocal(ip) /\ ip \in {GivenAddr, LOCAL_DEFAULT_ADDR} => is_ignore(ip)

\* Without -n no address of the host is redirected, as the usage text says (main.c)
\* and README.md: "By default, graftcp ignore the connections to localhost".
LocalIgnored ==
  pc = "ready" => \A ip \in Ips : LeftAsLocal(ip) => is_ignore(ip)

\* On every table start-up makes, the operations of string-set.c do what the
\* operations on sets do, and length is the number of members.
SetAlgebra ==
  \A set \in {BLACKLIST_IP, WHITELACKLIST_IP} \ {NULL} : \A e \in DOMAIN StrHash :
    /\ is_str_set_member(set, e) <=> e \in Elements(set)
    /\ Elements(str_set_put(set, e)) = Elements(set) \cup {e}
    /\ Elements(str_set_remove(set, e)) = Elements(set) \ {e}
    /\ str_set_length(set) = Cardinality(Elements(set))
    /\ str_set_length(str_set_remove(set, e)) = Cardinality(Elements(set) \ {e})

=============================================================================
