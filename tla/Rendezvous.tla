----------------------------- MODULE Rendezvous -----------------------------
(***************************************************************************)
(* What graftcp-local promises of a redirected connection: it is sent to   *)
(* the destination the application asked for, or it is closed.             *)
(***************************************************************************)
CONSTANTS Conns, Dests, NULL

VARIABLES
  asked,    \* destination of the connect(2) behind each connection
  sent,     \* destination graftcp-local dials for it
  closed    \* connections given up

Init ==
  /\ asked = [c \in Conns |-> NULL]
  /\ sent = [c \in Conns |-> NULL]
  /\ closed = {}

Ask(c, a) ==
  /\ asked[c] = NULL
  /\ asked' = [asked EXCEPT ![c] = a]
  /\ UNCHANGED <<sent, closed>>

Undecided(c) == asked[c] # NULL /\ sent[c] = NULL /\ c \notin closed

Send(c) ==
  /\ Undecided(c)
  /\ sent' = [sent EXCEPT ![c] = asked[c]]
  /\ UNCHANGED <<asked, closed>>

Close(c) ==
  /\ Undecided(c)
  /\ closed' = closed \cup {c}
  /\ UNCHANGED <<asked, sent>>

Next == \E c \in Conns : (\E a \in Dests : Ask(c, a)) \/ Send(c) \/ Close(c)

Spec == Init /\ [][Next]_<<asked, sent, closed>>

=============================================================================
