------------------------------ MODULE MCGraft ------------------------------
(* Instance of Graft for TLC: two processes, two destinations *)
EXTENDS Graft, TLC

Inet(i) == [fam |-> "inet", ip |-> i, port |-> 80]
TwoFar == {Inet("9.9.9.9"), Inet("8.8.8.8")}
NoErrs == {}
Fork == {{}}

ConnSymmetry == Permutations(Conns)

=============================================================================
