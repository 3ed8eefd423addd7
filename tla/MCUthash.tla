------------------------------ MODULE MCUthash ------------------------------
(* An instance of Uthash for TLC: two keys that share a bucket until the second *)
(* expansion, and one in another bucket                                      *)
EXTENDS Uthash

HashValues == [k1 |-> 0, k2 |-> 4, k3 |-> 1]

ItemSymmetry == Permutations(Items)

=============================================================================
