------------------------------- MODULE StrSet -------------------------------
(***************************************************************************)
(* string-set.c: a set of strings as a hash table of fixed size with a     *)
(* chain per bucket and a separate count.  A member holds a pointer to its *)
(* string; no string in the program changes after it has been put, so a    *)
(* member is its string, and putting an equal string again changes nothing *)
(* that strcmp could see.                                                  *)
(***************************************************************************)
EXTENDS Integers, SequencesExt

CONSTANTS
  StrHash,    \* hash of each string
  SetSize     \* number of buckets, 509 in the build

\* the strings of the program, all with a hash
Strings == DOMAIN StrHash

ASSUME StrSetAssumption == SetSize \in Nat \ {0} /\ StrHash \in [Strings -> Nat]

str_hash(elem) == StrHash[elem]

Bucket(elem) == str_hash(elem) % SetSize

str_set_new == [length |-> 0, buckets |-> [i \in 0 .. SetSize - 1 |-> <<>>]]

is_str_set_member(set, elem) == Contains(set.buckets[Bucket(elem)], elem)

\* mutant: the chain is not searched first
str_set_put_Again(set, elem) ==
  [set EXCEPT !.buckets[Bucket(elem)] = <<elem>> \o @, !.length = @ + 1]

str_set_put(set, elem) ==
  IF is_str_set_member(set, elem) THEN set
  ELSE [set EXCEPT !.buckets[Bucket(elem)] = <<elem>> \o @, !.length = @ + 1]

str_set_remove(set, elem) ==
  IF is_str_set_member(set, elem)
  THEN [set EXCEPT !.buckets[Bucket(elem)] = RemoveFirst(@, elem), !.length = @ - 1]
  ELSE set

str_set_length(set) == set.length

Tables == [length : Nat, buckets : [0 .. SetSize - 1 -> Seq(Strings)]]

\* the set that the table stands for
Elements(set) == UNION {Range(set.buckets[i]) : i \in DOMAIN set.buckets}

=============================================================================
