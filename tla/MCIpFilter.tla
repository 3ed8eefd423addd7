----------------------------- MODULE MCIpFilter -----------------------------
(* Instances of IpFilter for TLC: three files, command lines of up to three    *)
(* options, and strings that collide in a table of two buckets                *)
EXTENDS IpFilter

Line(t) == [text |-> t, nl |-> TRUE]
LastLine(t) == [text |-> t, nl |-> FALSE]

\* IPv4 and IPv6 addresses, an empty line and a repetition
GoodFiles ==
  [f1 |-> <<Line("9.9.9.9"), Line(""), Line("fe80::1"), Line("9.9.9.9")>>,
   f2 |-> <<Line("8.8.8.8")>>,
   f3 |-> <<>>]
\* an address of three characters
ShortFiles == [f1 |-> <<Line("::1"), Line("9.9.9.9")>>]
\* no newline at the end
OpenFiles == [f1 |-> <<Line("9.9.9.9"), LastLine("8.8.8.8")>>]

Addresses == {"9.9.9.9", "fe80::1", "8.8.8.8", "127.0.0.1", "0.0.0.0", "::1"}
Texts == Addresses \cup {"", "8.8.8.", "localhost"}

LengthOf == [t \in Texts |-> CASE t = "" -> 0 [] t = "::1" -> 3 [] t = "8.8.8." -> 6 [] OTHER -> 7]
ChoppedOf == [t \in Texts |-> IF t = "8.8.8.8" THEN "8.8.8." ELSE ""]
HashOf == [t \in Texts |-> IF t \in {"9.9.9.9", "127.0.0.1", "8.8.8."} THEN 0 ELSE LengthOf[t]]

Option(o, a) == [opt |-> o, arg |-> a]
Options ==
  {Option("a", "localhost"), Option("n", ""), Option("p", "80"), Option("h", ""),
   Option("b", "f1"), Option("b", "f2"), Option("w", "f1"), Option("w", "f2"),
   Option("w", "f3"), Option("b", "missing")}
CommandLines == UNION {[1 .. n -> Options] : n \in 0 .. 3}

=============================================================================
