------------------------------ MODULE MCTracer ------------------------------
(* Instances of Tracer for TLC: addresses and sets the .cfg files choose from *)
EXTENDS Tracer

Inet(i) == [fam |-> "inet", ip |-> i, port |-> 80]
Inet6(i) == [fam |-> "inet6", ip |-> i, port |-> 80]

\* an address to redirect, localhost, and an AF_UNIX address
FarAndNear == {Inet("9.9.9.9"), Inet("127.0.0.1"), [fam |-> "unix", ip |-> "none", port |-> 0]}
Far == {Inet("9.9.9.9")}
Far6 == {Inet("9.9.9.9"), Inet6("2001::9"), Inet("8.8.8.8")}

NoErrs == {}
Errs == {-38, -13}     \* one per parity

Fork == {{}}
Untraced == {{"untraced"}}
Clones == {{}, {"untraced"}, {"thread"}}
AllClones == {{}, {"untraced"}, {"thread"}, {"inherit"}}

=============================================================================
