------------------------------ MODULE Multimap ------------------------------
(***************************************************************************)
(* What util.c takes uthash for: a collection of entries that belong to a  *)
(* key each, in which a lookup returns an entry of the key it is given     *)
(* whenever there is one, and from which the entry found can be deleted.   *)
(***************************************************************************)
CONSTANTS Items, Keys, NULL

VARIABLES
  entries,    \* the entries in the collection
  found       \* result of the last lookup

Entry(i, k) == [elmt |-> i, key |-> k]

Init == entries = {} /\ found = NULL

Add(i, k) ==
  /\ \A e \in entries : e.elmt # i
  /\ entries' = entries \cup {Entry(i, k)}
  /\ UNCHANGED found

Find(k) ==
  /\ \/ found' \in {e \in entries : e.key = k}
     \/ found' = NULL /\ \A e \in entries : e.key # k
  /\ UNCHANGED entries

Delete ==
  /\ found # NULL
  /\ entries' = entries \ {found}
  /\ found' = NULL

Next ==
  \/ \E i \in Items, k \in Keys : Add(i, k)
  \/ \E k \in Keys : Find(k)
  \/ Delete

Spec == Init /\ [][Next]_<<entries, found>>

=============================================================================
