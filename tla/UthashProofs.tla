---------------------------- MODULE UthashProofs ----------------------------
(***************************************************************************)
(* Proofs about Uthash, for any items, keys, hash values, number of        *)
(* buckets and threshold: the table is consistent, its chains stay short,  *)
(* and it implements a multimap.                                           *)
(***************************************************************************)
EXTENDS Uthash, SequenceLemmas, FiniteSetTheorems, WellFoundedInduction

Handles == [elmt : Items, key : Keys]

-----------------------------------------------------------------------------
(* Induction, in a form that needs no operator as a parameter *)

Less == {p \in Nat \X Nat : p[1] < p[2]}

\* A set of numbers that has one has a least one.
LEMMA LeastNumber ==
  ASSUME NEW T \in SUBSET Nat, T # {}
  PROVE  \E x \in T : \A y \in T : x <= y
<1>1. IsWellFoundedOn(Less, Nat) BY Zenon, NatLessThanWellFounded DEF OpToRel, Less
<1>2. \A x, y \in Nat : <<y, x>> \in Less <=> y < x BY DEF Less
<1>3. PICK x \in T : \A y \in T : ~ (<<y, x>> \in Less) BY <1>1, WFMin
<1>4. ASSUME NEW y \in T PROVE x <= y
  <2>1. x \in Nat /\ y \in Nat OBVIOUS
  <2>2. ~ (y < x) BY <1>2, <1>3, <2>1, Zenon
  <2>. QED BY <2>1, <2>2
<1>. QED BY <1>4

\* What holds of 0 and of the next number up to N holds of all numbers up to N.
LEMMA UpTo ==
  ASSUME NEW N \in Nat, NEW T, 0 \in T, \A n \in 0 .. N - 1 : n \in T => n + 1 \in T
  PROVE  \A n \in 0 .. N : n \in T
<1>. SUFFICES ASSUME NEW m \in 0 .. N, m \notin T PROVE FALSE OBVIOUS
<1>. DEFINE U == {n \in 0 .. N : n \notin T}
<1>1. U \in SUBSET Nat /\ U # {} OBVIOUS
<1>2. PICK x \in U : \A y \in U : x <= y BY <1>1, LeastNumber
<1>3. x \in 0 .. N /\ x # 0 /\ x \notin T BY <1>2
<1>4. x - 1 \in 0 .. N - 1 /\ x - 1 \notin U BY <1>2, <1>3
<1>5. x - 1 \in T BY <1>4
<1>. QED BY <1>3, <1>4, <1>5

-----------------------------------------------------------------------------
(* Chains *)

\* What Rehashed returns: the items of the old chain that belong to the new bucket.
LEMMA RehashedRight ==
  ASSUME NEW chain \in Seq(Handles), IsInjective(chain), NEW num, NEW b
  PROVE  /\ Rehashed(chain, num, b) \in Seq(Handles)
         /\ IsInjective(Rehashed(chain, num, b))
         /\ Range(Rehashed(chain, num, b)) = {h \in Range(chain) : HASH_FCN(h.key, num) = b}
<1>. DEFINE N == Len(chain)
            Step(hh, n) == IF n = 0 THEN <<>>
                           ELSE IF HASH_FCN(chain[n].key, num) = b
                                THEN <<chain[n]>> \o hh[n - 1]
                           ELSE hh[n - 1]
            T == {n \in 0 .. N : \E g : g = [m \in 0 .. n |-> Step(g, m)]}
<1>0. N \in Nat /\ DOMAIN chain = 1 .. N OBVIOUS
<1>1. \E g : g = [m \in 0 .. N |-> Step(g, m)]
  <2>1. 0 \in T
    <3>. DEFINE g == [m \in 0 .. 0 |-> <<>>]
    <3>1. g = [m \in 0 .. 0 |-> Step(g, m)] OBVIOUS
    <3>. HIDE DEF g, Step
    <3>2. \E f : f = [m \in 0 .. 0 |-> Step(f, m)] BY <3>1
    <3>. QED BY <3>2, <1>0
  <2>2. ASSUME NEW n \in 0 .. N - 1, n \in T PROVE n + 1 \in T
    <3>1. PICK g : g = [m \in 0 .. n |-> Step(g, m)] BY <2>2
    <3>. DEFINE f == [m \in 0 .. n + 1 |-> IF m = n + 1 THEN Step(g, m) ELSE g[m]]
    <3>2. ASSUME NEW m \in 0 .. n + 1 PROVE f[m] = Step(f, m)
      <4>1. n \in Nat BY <1>0
      <4>2. CASE m = 0
        <5>1. f[m] = g[0] BY <4>1, <4>2
        <5>2. g[0] = Step(g, 0) BY <3>1, <4>1
        <5>. QED BY <5>1, <5>2, <4>2
      <4>3. CASE m # 0
        <5>1. m - 1 \in 0 .. n /\ m - 1 # n + 1 /\ m - 1 \in 0 .. n + 1 BY <4>1, <4>3
        <5>2. f[m - 1] = g[m - 1] BY <5>1
        <5>3. Step(f, m) = Step(g, m) BY <5>2, <4>3
        <5>4. f[m] = Step(g, m)
          <6>1. CASE m = n + 1 BY <6>1
          <6>2. CASE m # n + 1
            <7>1. m \in 0 .. n /\ f[m] = g[m] BY <6>2, <4>1
            <7>. QED BY <7>1, <3>1
          <6>. QED BY <6>1, <6>2
        <5>. QED BY <5>3, <5>4
      <4>. QED BY <4>2, <4>3
    <3>. HIDE DEF Step
    <3>3. f = [m \in 0 .. n + 1 |-> Step(f, m)] BY <3>2
    <3>4. n + 1 \in 0 .. N BY <1>0
    <3>. QED BY <3>3, <3>4
  <2>. HIDE DEF T
  <2>3. \A n \in 0 .. N : n \in T BY <1>0, <2>1, <2>2, UpTo
  <2>4. N \in T BY <1>0, <2>3
  <2>. QED BY <2>4 DEF T
<1>. DEFINE hh == CHOOSE g : g = [m \in 0 .. N |-> Step(g, m)]
<1>2. Rehashed(chain, num, b) = hh[N] BY Zenon DEF Rehashed
<1>3. hh = [m \in 0 .. N |-> Step(hh, m)]
  <2>. HIDE DEF Step, N
  <2>. QED BY <1>1
<1>. HIDE DEF hh
<1>. DEFINE First(n) == {k \in 1 .. n : HASH_FCN(chain[k].key, num) = b}
            Good(n) == /\ hh[n] \in Seq(Handles) /\ IsInjective(hh[n])
                       /\ Range(hh[n]) = {chain[k] : k \in First(n)}
            G == {n \in 0 .. N : Good(n)}
<1>4. 0 \in G
  <2>1. hh[0] = <<>> BY <1>0, <1>3
  <2>2. First(0) = {} OBVIOUS
  <2>3. Range(<<>>) = {} /\ IsInjective(<<>>) BY DEF Range, IsInjective
  <2>4. {chain[k] : k \in First(0)} = {} BY <2>2
  <2>5. Good(0) BY <2>1, <2>3, <2>4
  <2>. HIDE DEF Good
  <2>. QED BY <2>5, <1>0
<1>5. ASSUME NEW n \in 0 .. N - 1, n \in G PROVE n + 1 \in G
  <2>. DEFINE e == chain[n + 1]
  <2>0. n \in Nat /\ n + 1 \in 0 .. N /\ n + 1 \in 1 .. N /\ n + 1 # 0 /\ (n + 1) - 1 = n
    BY <1>0
  <2>1. e \in Handles BY <2>0, <1>0
  <2>2. hh[n + 1] = IF HASH_FCN(e.key, num) = b THEN <<e>> \o hh[n] ELSE hh[n]
    BY <2>0, <1>3
  <2>3. \A k : k \in 1 .. n + 1 <=> k \in 1 .. n \/ k = n + 1 BY <2>0
  <2>4. Good(n) BY <1>5
  <2>5. CASE HASH_FCN(e.key, num) = b
    <3>1. First(n + 1) = First(n) \cup {n + 1} BY <2>3, <2>5
    <3>2. e \notin Range(hh[n])
      <4>1. \A k \in First(n) : k \in DOMAIN chain /\ k # n + 1 BY <2>0, <1>0
      <4>2. \A k \in First(n) : chain[k] # e BY <4>1, <2>0, <1>0 DEF IsInjective
      <4>. QED BY <4>2, <2>4
    <3>3. hh[n + 1] = <<e>> \o hh[n] BY <2>2, <2>5
    <3>4. /\ hh[n + 1] \in Seq(Handles) /\ IsInjective(hh[n + 1])
          /\ Range(hh[n + 1]) = Range(hh[n]) \cup {e}
      <4>. HIDE DEF e, First
      <4>. QED BY <2>1, <2>4, <3>2, <3>3, PrependProperties
    <3>5. Range(hh[n + 1]) = {chain[k] : k \in First(n + 1)} BY <3>1, <3>4, <2>4
    <3>. QED BY <3>4, <3>5, <2>0
  <2>6. CASE HASH_FCN(e.key, num) # b
    <3>1. First(n + 1) = First(n) BY <2>3, <2>6
    <3>. HIDE DEF First
    <3>. QED BY <2>0, <2>2, <2>4, <2>6, <3>1
  <2>. QED BY <2>5, <2>6
<1>. HIDE DEF G
<1>6. \A n \in 0 .. N : n \in G BY <1>0, <1>4, <1>5, UpTo
<1>7. Good(N)
  <2>. HIDE DEF Good
  <2>1. N \in G BY <1>0, <1>6
  <2>. QED BY <2>1 DEF G
<1>8. {chain[k] : k \in First(N)} = {h \in Range(chain) : HASH_FCN(h.key, num) = b}
  BY <1>0 DEF Range
<1>. QED BY <1>2, <1>7, <1>8

-----------------------------------------------------------------------------
(* Buckets *)

\* A number has one remainder.
LEMMA OneRemainder ==
  ASSUME NEW n \in Nat \ {0}, NEW p \in Int, NEW q \in Int,
         NEW a \in 0 .. n - 1, NEW c \in 0 .. n - 1, n * p + a = n * q + c
  PROVE  a = c
<1>1. CASE p = q BY <1>1
<1>2. CASE p < q
  <2>1. n * (q - p) >= n BY <1>2
  <2>2. n * (q - p) = a - c OBVIOUS
  <2>. QED BY <2>1, <2>2
<1>3. CASE q < p
  <2>1. n * (p - q) >= n BY <1>3
  <2>2. n * (p - q) = c - a OBVIOUS
  <2>. QED BY <2>1, <2>2
<1>. QED BY <1>1, <1>2, <1>3

\* An item of bucket b of the larger table was in bucket b % n of the smaller one.
LEMMA OldBucket ==
  ASSUME NEW n \in Nat \ {0}, NEW k \in Keys
  PROVE  /\ HASH_FCN(k, n) \in 0 .. n - 1
         /\ HASH_FCN(k, 2 * n) % n = HASH_FCN(k, n)
<1>. DEFINE h == Hash[k]
            b == h % (2 * n)
<1>1. h \in Nat BY UthashAssumption
<1>2. h % n \in 0 .. n - 1 /\ h = n * (h \div n) + (h % n) BY <1>1
<1>3. b \in Nat /\ h = (2 * n) * (h \div (2 * n)) + b BY <1>1
<1>. HIDE DEF h, b
<1>4. b % n \in 0 .. n - 1 /\ b = n * (b \div n) + (b % n) BY <1>3
<1>5. h \div n \in Int /\ h \div (2 * n) \in Int /\ b \div n \in Int BY <1>1, <1>3
<1>6. ASSUME NEW p \in Int, NEW u \in Int, NEW v \in Int,
             NEW a \in 0 .. n - 1, NEW c \in 0 .. n - 1,
             h = n * p + a, h = (2 * n) * u + b, b = n * v + c
      PROVE  a = c
  <2>1. (2 * n) * u + n * v = n * (2 * u + v) /\ 2 * u + v \in Int OBVIOUS
  <2>2. n * v \in Int /\ (2 * n) * u \in Int OBVIOUS
  <2>3. h = n * (2 * u + v) + c BY <1>1, <1>3, <1>6, <2>1, <2>2
  <2>. QED BY <1>6, <2>1, <2>3, OneRemainder
<1>8. h % n = b % n BY <1>2, <1>3, <1>4, <1>5, <1>6
<1>. QED BY <1>2, <1>8 DEF HASH_FCN, HASH_TO_BKT, h, b

Buckets == [hh_head : Seq(Handles), count : Nat, expand_mult : Nat]
Tables(n) ==
  [buckets : [0 .. n - 1 -> Buckets], num_buckets : {n}, num_items : Nat,
   ideal_chain_maxlen : Nat, ineff_expands : Nat, noexpand : BOOLEAN]

\* the items of S that belong to bucket b of n
Belong(S, b, n) == {h \in S : HASH_FCN(h.key, n) = b}

\* the chain of a bucket has these items, each once, and count is their number
ChainOK(bkt, items) ==
  /\ IsInjective(bkt.hh_head) /\ Range(bkt.hh_head) = items
  /\ bkt.count = Len(bkt.hh_head)

\* a table with the items of S
TableOK(t, S) ==
  LET n == t.num_buckets
  IN  /\ n \in Nat \ {0} /\ t \in Tables(n) /\ S \subseteq Handles
      /\ \A b \in 0 .. n - 1 : ChainOK(t.buckets[b], Belong(S, b, n))

\* An empty table.
LEMMA MakeRight ==
  /\ TableOK(HASH_MAKE_TABLE, {})
  /\ HASH_MAKE_TABLE.num_buckets = HASH_INITIAL_NUM_BUCKETS /\ HASH_MAKE_TABLE.num_items = 0
  /\ HASH_MAKE_TABLE.noexpand = FALSE
  /\ \A b \in 0 .. HASH_INITIAL_NUM_BUCKETS - 1 :
       HASH_MAKE_TABLE.buckets[b].hh_head = <<>> /\ HASH_MAKE_TABLE.buckets[b].count = 0
<1>1. Range(<<>>) = {} /\ IsInjective(<<>>) BY DEF Range, IsInjective
<1>2. \A b, n : Belong({}, b, n) = {} BY DEF Belong
<1>3. UT_hash_bucket \in Buckets /\ ChainOK(UT_hash_bucket, {})
  BY <1>1 DEF UT_hash_bucket, Buckets, ChainOK
<1>4. HASH_MAKE_TABLE \in Tables(HASH_INITIAL_NUM_BUCKETS)
  BY <1>3, UthashAssumption DEF HASH_MAKE_TABLE, Tables
<1>. QED BY <1>2, <1>3, <1>4, UthashAssumption DEF HASH_MAKE_TABLE, TableOK, UT_hash_bucket

-----------------------------------------------------------------------------
(* Lengths *)

Limit(t, b) ==
  (t.buckets[b].expand_mult + 1) * Max({HASH_BKT_CAPACITY_THRESH, t.ideal_chain_maxlen + 1})

\* ChainBounded of a table
Bounded(t) ==
  ~t.noexpand => \A b \in 0 .. t.num_buckets - 1 : t.buckets[b].count < Limit(t, b)

\* The greater one of two numbers.
LEMMA MaxOfTwo ==
  ASSUME NEW a \in Nat, NEW c \in Nat
  PROVE  Max({a, c}) \in Nat /\ Max({a, c}) >= a /\ Max({a, c}) >= c
BY DEF Max

\* A larger factor makes a larger product.
LEMMA LargerProduct ==
  ASSUME NEW m \in Nat, NEW a \in Nat, NEW c \in Nat, a <= c
  PROVE  m * a <= m * c /\ m * a \in Nat /\ m * c \in Nat
<1>1. m * (c - a) >= 0 OBVIOUS
<1>2. m * (c - a) = m * c - m * a OBVIOUS
<1>. QED BY <1>1, <1>2

\* A chain of the length that expansion finds is within the limit it sets.
LEMMA WithinLimit ==
  ASSUME NEW len \in Nat, NEW ideal \in Nat \ {0}, NEW max \in Nat, max >= ideal + 1
  PROVE  LET mult == IF len > ideal THEN len \div ideal ELSE 0
         IN  mult \in Nat /\ len < (mult + 1) * max
<1>1. CASE len > ideal
  <2>1. len \div ideal \in Nat /\ len % ideal \in 0 .. ideal - 1
        /\ len = ideal * (len \div ideal) + (len % ideal)
    OBVIOUS
  <2>2. ASSUME NEW q \in Nat, NEW r \in 0 .. ideal - 1, len = ideal * q + r
        PROVE  len < (q + 1) * max
    <3>1. (q + 1) * ideal = ideal * q + ideal OBVIOUS
    <3>2. (q + 1) * ideal <= (q + 1) * max BY LargerProduct
    <3>3. (q + 1) * ideal \in Nat /\ (q + 1) * max \in Nat OBVIOUS
    <3>4. ideal * q \in Nat OBVIOUS
    <3>. QED BY <2>2, <3>1, <3>2, <3>3, <3>4
  <2>. QED BY <1>1, <2>1, <2>2
<1>2. CASE ~(len > ideal) BY <1>2
<1>. QED BY <1>1, <1>2

-----------------------------------------------------------------------------
(* Operations on a table *)

\* What an expansion does.
LEMMA ExpandRight ==
  ASSUME NEW t, NEW S, TableOK(t, S), t.num_items # 0
  PROVE  LET x == HASH_EXPAND_BUCKETS(t)
         IN  /\ TableOK(x, S) /\ Bounded(x)
             /\ x.num_buckets = 2 * t.num_buckets /\ x.num_items = t.num_items
<1>. DEFINE n == t.num_buckets
            num == 2 * n
            ideal == t.num_items \div num + (IF t.num_items % num # 0 THEN 1 ELSE 0)
            moved == [b \in 0 .. num - 1 |-> Rehashed(t.buckets[b % n].hh_head, num, b)]
            ineff == IF NonIdeal(moved, ideal) > t.num_items \div 2
                     THEN t.ineff_expands + 1 ELSE 0
            bkts == [b \in 0 .. num - 1 |->
                       [hh_head |-> moved[b], count |-> Len(moved[b]),
                        expand_mult |-> IF Len(moved[b]) > ideal
                                        THEN Len(moved[b]) \div ideal ELSE 0]]
            x == HASH_EXPAND_BUCKETS(t)
<1>1. x = [t EXCEPT !.num_buckets = num, !.ideal_chain_maxlen = ideal, !.buckets = bkts,
                    !.ineff_expands = ineff, !.noexpand = t.noexpand \/ ineff > 1]
  BY DEF HASH_EXPAND_BUCKETS
<1>2. n \in Nat \ {0} /\ num \in Nat \ {0} /\ t \in Tables(n) /\ t.num_items \in Nat \ {0}
  BY DEF TableOK, Tables
<1>3. ideal \in Nat \ {0}
  <2>1. ASSUME NEW a \in Nat \ {0}, NEW c \in Nat \ {0}
        PROVE  a \div c + (IF a % c # 0 THEN 1 ELSE 0) \in Nat \ {0}
    <3>1. a \div c \in Nat /\ a % c \in Nat /\ a = c * (a \div c) + (a % c) OBVIOUS
    <3>2. ASSUME NEW q \in Nat, NEW r \in Nat, a = c * q + r
          PROVE  q + (IF r # 0 THEN 1 ELSE 0) \in Nat \ {0}
      <4>1. CASE r = 0
        <5>1. q = 0 => c * q + r = 0 BY <4>1
        <5>. QED BY <5>1, <4>1, <3>2
      <4>2. CASE r # 0 BY <4>2
      <4>. QED BY <4>1, <4>2
    <3>. QED BY <3>1, <3>2, Zenon
  <2>. HIDE DEF num
  <2>. QED BY <1>2, <2>1
<1>4. ASSUME NEW b \in 0 .. num - 1
      PROVE  /\ moved[b] \in Seq(Handles) /\ IsInjective(moved[b])
             /\ Range(moved[b]) = Belong(S, b, num)
  <2>1. b % n \in 0 .. n - 1 BY <1>2
  <2>. DEFINE old == t.buckets[b % n].hh_head
  <2>2. old \in Seq(Handles) /\ IsInjective(old) /\ Range(old) = Belong(S, b % n, n)
    BY <2>1, <1>2 DEF Tables, Buckets, TableOK, ChainOK
  <2>3. moved[b] = Rehashed(old, num, b) OBVIOUS
  <2>. HIDE DEF old, num, moved
  <2>4. /\ moved[b] \in Seq(Handles) /\ IsInjective(moved[b])
        /\ Range(moved[b]) = {h \in Range(old) : HASH_FCN(h.key, num) = b}
    BY <2>2, <2>3, RehashedRight
  <2>5. ASSUME NEW h \in S, HASH_FCN(h.key, num) = b PROVE HASH_FCN(h.key, n) = b % n
    <3>1. ASSUME h.key \in Keys PROVE HASH_FCN(h.key, n) = b % n
      BY <2>5, <3>1, <1>2, OldBucket DEF num
    <3>2. h \in Handles BY DEF TableOK
    <3>. QED BY <3>1, <3>2 DEF Handles
  <2>. QED BY <2>2, <2>4, <2>5 DEF Belong
<1>. HIDE DEF moved, ideal, ineff
<1>5. ASSUME NEW b \in 0 .. num - 1
      PROVE  LET bkt == bkts[b]
             IN  /\ bkt \in Buckets /\ ChainOK(bkt, Belong(S, b, num))
                 /\ bkt.count < (bkt.expand_mult + 1)
                                  * Max({HASH_BKT_CAPACITY_THRESH, ideal + 1})
  <2>. DEFINE max == Max({HASH_BKT_CAPACITY_THRESH, ideal + 1})
              len == Len(moved[b])
              mult == IF len > ideal THEN len \div ideal ELSE 0
  <2>1. len \in Nat BY <1>4
  <2>2. max \in Nat /\ max >= ideal + 1 BY <1>3, MaxOfTwo, UthashAssumption
  <2>3. bkts[b] = [hh_head |-> moved[b], count |-> len, expand_mult |-> mult] OBVIOUS
  <2>. HIDE DEF max, len, bkts
  <2>4. mult \in Nat /\ len < (mult + 1) * max BY <1>3, <2>1, <2>2, WithinLimit
  <2>. HIDE DEF mult
  <2>. QED BY <1>4, <2>1, <2>3, <2>4 DEF Buckets, ChainOK, len, max
<1>6. DOMAIN bkts = 0 .. num - 1 OBVIOUS
<1>. HIDE DEF bkts, x
<1>7. /\ x.num_buckets = num /\ x.buckets = bkts /\ x.num_items = t.num_items
      /\ x.ideal_chain_maxlen = ideal
  BY <1>1, <1>2 DEF Tables
<1>8. ineff \in Nat BY <1>2 DEF ineff, Tables
<1>9. bkts \in [0 .. num - 1 -> Buckets] BY <1>5, <1>6, Zenon DEF bkts
<1>10. x \in Tables(num) BY <1>1, <1>2, <1>3, <1>8, <1>9 DEF Tables
<1>11. TableOK(x, S) BY <1>2, <1>5, <1>7, <1>10 DEF TableOK
<1>12. Bounded(x) BY <1>5, <1>7 DEF Bounded, Limit
<1>. QED BY <1>7, <1>11, <1>12 DEF x

\* a table with bucket b replaced
With(t, num, b, bkt) == [t EXCEPT !.num_items = num, !.buckets = [t.buckets EXCEPT ![b] = bkt]]

\* A table of which one bucket changes.
LEMMA OneBucket ==
  ASSUME NEW n \in Nat, NEW t \in Tables(n), NEW b \in 0 .. n - 1, NEW bkt \in Buckets, NEW num \in Nat
  PROVE  LET x == With(t, num, b, bkt)
         IN  /\ x \in Tables(n) /\ x.num_buckets = t.num_buckets /\ x.num_items = num
             /\ x.noexpand = t.noexpand /\ x.ideal_chain_maxlen = t.ideal_chain_maxlen
             /\ x.buckets = [t.buckets EXCEPT ![b] = bkt]
<1>. DEFINE bkts == [t.buckets EXCEPT ![b] = bkt]
            x == With(t, num, b, bkt)
<1>1. t.buckets \in [0 .. n - 1 -> Buckets] BY DEF Tables
<1>2. bkts \in [0 .. n - 1 -> Buckets] BY <1>1
<1>3. x = [t EXCEPT !.num_items = num, !.buckets = bkts] BY DEF With
<1>. HIDE DEF bkts, x
<1>4. /\ x \in Tables(n) /\ x.num_buckets = t.num_buckets /\ x.num_items = num
      /\ x.noexpand = t.noexpand /\ x.ideal_chain_maxlen = t.ideal_chain_maxlen
      /\ x.buckets = bkts
  BY <1>2, <1>3 DEF Tables
<1>. QED BY <1>4 DEF x, bkts

\* a table with an item put at the head of its chain
Added(t, b, h) == [t EXCEPT !.buckets[b].count = @ + 1, !.buckets[b].hh_head = <<h>> \o @]

\* It differs in one bucket.
LEMMA PutFirst ==
  ASSUME NEW n \in Nat, NEW t \in Tables(n), NEW b \in 0 .. n - 1, NEW h
  PROVE  Added(t, b, h)
           = With(t, t.num_items, b,
                  [hh_head |-> <<h>> \o t.buckets[b].hh_head, count |-> t.buckets[b].count + 1,
                   expand_mult |-> t.buckets[b].expand_mult])
<1>. DEFINE bkts == t.buckets
            bkt == bkts[b]
            p == bkt.count + 1
            q == <<h>> \o bkt.hh_head
            one == [t EXCEPT !.buckets[b].count = p]
            two == [t EXCEPT !.buckets[b].count = p, !.buckets[b].hh_head = q]
            new == [hh_head |-> q, count |-> p, expand_mult |-> bkt.expand_mult]
<1>0. Added(t, b, h) = two BY DEF Added
<1>. HIDE DEF p, q
<1>1. bkts \in [0 .. n - 1 -> Buckets] /\ bkt \in Buckets BY DEF Tables
<1>2. one = [t EXCEPT !.buckets = [bkts EXCEPT ![b] = [bkt EXCEPT !.count = p]]] OBVIOUS
<1>3. one.buckets = [bkts EXCEPT ![b] = [bkt EXCEPT !.count = p]] BY <1>2 DEF Tables
<1>4. one.buckets[b] = [bkt EXCEPT !.count = p] BY <1>1, <1>3
<1>5. two = [one EXCEPT !.buckets = [one.buckets EXCEPT ![b] = [one.buckets[b] EXCEPT !.hh_head = q]]]
  OBVIOUS
<1>6. [one.buckets[b] EXCEPT !.hh_head = q] = new BY <1>1, <1>4 DEF Buckets
<1>7. [one.buckets EXCEPT ![b] = new] = [bkts EXCEPT ![b] = new] BY <1>1, <1>3
<1>8. two = [one EXCEPT !.buckets = [bkts EXCEPT ![b] = new]] BY <1>5, <1>6, <1>7
<1>. HIDE DEF new
<1>9. two = With(t, t.num_items, b, new) BY <1>1, <1>2, <1>8 DEF With, Tables
<1>. HIDE DEF two
<1>. QED BY <1>0, <1>9, Zenon DEF new, p, q

\* x is t with item h, and either expanded or with h as the first of its chain and all
\* other chains as they are
HasAdded(x, t, S, b, h) ==
  /\ TableOK(x, S \cup {h}) /\ Bounded(x) /\ x.num_items = t.num_items
  /\ \/ x.num_buckets = 2 * t.num_buckets
     \/ /\ x.num_buckets = t.num_buckets
        /\ x.buckets[b].hh_head = <<h>> \o t.buckets[b].hh_head
        /\ \A c \in 0 .. t.num_buckets - 1 : c # b => x.buckets[c] = t.buckets[c]

\* What HASH_ADD_TO_BKT does.
LEMMA AddRight ==
  ASSUME NEW t, NEW S, TableOK(t, S), Bounded(t), t.num_items # 0,
         NEW h \in Handles, h \notin S, NEW b, b = HASH_FCN(h.key, t.num_buckets)
  PROVE  HasAdded(HASH_ADD_TO_BKT(t, b, h), t, S, b, h)
<1>. DEFINE n == t.num_buckets
            bkt == t.buckets[b]
            new == [hh_head |-> <<h>> \o bkt.hh_head, count |-> bkt.count + 1,
                    expand_mult |-> bkt.expand_mult]
            added == Added(t, b, h)
            x == HASH_ADD_TO_BKT(t, b, h)
<1>1. n \in Nat \ {0} /\ t \in Tables(n) /\ b \in 0 .. n - 1
  <2>1. h.key \in Keys BY DEF Handles
  <2>. QED BY <2>1, OldBucket DEF TableOK
<1>2. bkt \in Buckets /\ ChainOK(bkt, Belong(S, b, n))
  BY <1>1 DEF Tables, TableOK
<1>3. added = With(t, t.num_items, b, new) BY <1>1, PutFirst, Zenon
<1>x. x = IF /\ added.buckets[b].count
                  >= (added.buckets[b].expand_mult + 1) * HASH_BKT_CAPACITY_THRESH
             /\ ~t.noexpand
          THEN HASH_EXPAND_BUCKETS(added) ELSE added
  BY Zenon DEF HASH_ADD_TO_BKT, Added
<1>4. new \in Buckets /\ ChainOK(new, Belong(S \cup {h}, b, n))
  <2>1. h \notin Range(bkt.hh_head) BY <1>2 DEF ChainOK, Belong
  <2>2. bkt.hh_head \in Seq(Handles) BY <1>2 DEF Buckets
  <2>3. /\ new.hh_head \in Seq(Handles) /\ IsInjective(new.hh_head)
        /\ Range(new.hh_head) = Range(bkt.hh_head) \cup {h}
        /\ Len(new.hh_head) = Len(bkt.hh_head) + 1
    BY <1>2, <2>1, <2>2, PrependProperties DEF ChainOK
  <2>4. Belong(S \cup {h}, b, n) = Belong(S, b, n) \cup {h} BY DEF Belong
  <2>5. new \in Buckets BY <1>2, <2>3 DEF Buckets
  <2>. QED BY <1>2, <2>3, <2>4, <2>5 DEF ChainOK
<1>. HIDE DEF new, added, bkt, x
<1>5. ASSUME NEW c \in 0 .. n - 1, c # b PROVE Belong(S \cup {h}, c, n) = Belong(S, c, n)
  BY <1>5 DEF Belong
<1>6. /\ added \in Tables(n) /\ added.num_buckets = n /\ added.num_items = t.num_items
      /\ added.noexpand = t.noexpand /\ added.ideal_chain_maxlen = t.ideal_chain_maxlen
      /\ added.buckets[b] = new
      /\ \A c \in 0 .. n - 1 : c # b => added.buckets[c] = t.buckets[c]
  <2>1. t.num_items \in Nat BY <1>1 DEF Tables
  <2>2. t.buckets \in [0 .. n - 1 -> Buckets] BY <1>1 DEF Tables
  <2>3. ASSUME NEW w, w = With(t, t.num_items, b, new)
        PROVE  /\ w \in Tables(n) /\ w.num_buckets = n /\ w.num_items = t.num_items
               /\ w.noexpand = t.noexpand /\ w.ideal_chain_maxlen = t.ideal_chain_maxlen
               /\ w.buckets = [t.buckets EXCEPT ![b] = new]
    BY <1>1, <1>4, <2>1, <2>3, OneBucket
  <2>4. added.buckets = [t.buckets EXCEPT ![b] = new] BY <1>3, <2>3
  <2>5. added.buckets[b] = new /\ \A c \in 0 .. n - 1 : c # b => added.buckets[c] = t.buckets[c]
    BY <1>1, <2>2, <2>4
  <2>. QED BY <1>3, <2>3, <2>5
<1>7. TableOK(added, S \cup {h}) BY <1>1, <1>4, <1>5, <1>6 DEF TableOK
<1>8. x = IF new.count >= (new.expand_mult + 1) * HASH_BKT_CAPACITY_THRESH /\ ~t.noexpand
          THEN HASH_EXPAND_BUCKETS(added) ELSE added
  BY <1>6, <1>x
<1>9. new.hh_head = <<h>> \o bkt.hh_head /\ new.expand_mult = bkt.expand_mult BY DEF new
<1>10. CASE new.count >= (new.expand_mult + 1) * HASH_BKT_CAPACITY_THRESH /\ ~t.noexpand
  BY <1>6, <1>7, <1>8, <1>10, ExpandRight DEF x, HasAdded
<1>11. CASE ~(new.count >= (new.expand_mult + 1) * HASH_BKT_CAPACITY_THRESH /\ ~t.noexpand)
  <2>0. x = added BY <1>8, <1>11
  <2>1. ASSUME ~t.noexpand PROVE new.count < Limit(added, b)
    <3>. DEFINE m == new.expand_mult + 1
                max == Max({HASH_BKT_CAPACITY_THRESH, t.ideal_chain_maxlen + 1})
    <3>1. new.count \in Nat /\ m \in Nat /\ t.ideal_chain_maxlen \in Nat
      BY <1>1, <1>4 DEF Buckets, Tables
    <3>2. max \in Nat /\ HASH_BKT_CAPACITY_THRESH <= max BY <3>1, MaxOfTwo, UthashAssumption
    <3>3. Limit(added, b) = m * max BY <1>6 DEF Limit
    <3>4. new.count < m * HASH_BKT_CAPACITY_THRESH
      <4>1. m * HASH_BKT_CAPACITY_THRESH \in Nat BY <3>1, UthashAssumption
      <4>2. ~(new.count >= m * HASH_BKT_CAPACITY_THRESH) BY <1>11, <2>1
      <4>. QED BY <3>1, <4>1, <4>2
    <3>. HIDE DEF m, max
    <3>5. m * HASH_BKT_CAPACITY_THRESH <= m * max /\ m * max \in Nat
          /\ m * HASH_BKT_CAPACITY_THRESH \in Nat
      BY <3>1, <3>2, LargerProduct, UthashAssumption
    <3>. QED BY <3>1, <3>3, <3>4, <3>5
  <2>2. \A c \in 0 .. n - 1 : c # b => Limit(added, c) = Limit(t, c) BY <1>6 DEF Limit
  <2>3. Bounded(added) BY <1>6, <2>1, <2>2 DEF Bounded
  <2>. QED BY <1>6, <1>7, <1>9, <2>0, <2>3 DEF x, bkt, HasAdded
<1>. QED BY <1>10, <1>11

\* x is t without item h, with its chain shorter and all other chains as they are
HasDeleted(x, t, S, b, h) ==
  /\ TableOK(x, S \ {h}) /\ Bounded(x) /\ x.num_items = t.num_items - 1
  /\ x.num_buckets = t.num_buckets
  /\ h \in Range(t.buckets[b].hh_head)
  /\ x.buckets[b].hh_head = RemoveFirst(t.buckets[b].hh_head, h)
  /\ \A c \in 0 .. t.num_buckets - 1 : c # b => x.buckets[c] = t.buckets[c]

\* What HASH_DELETE does to a table that has other items.
LEMMA DeleteRight ==
  ASSUME NEW t, NEW S, TableOK(t, S), Bounded(t), t.num_items # 0,
         NEW h \in S, NEW b, b = HASH_FCN(h.key, t.num_buckets),
         NEW x, x = [t EXCEPT !.num_items = @ - 1, !.buckets[b] = HASH_DEL_IN_BKT(@, h)]
  PROVE  HasDeleted(x, t, S, b, h)
<1>. DEFINE n == t.num_buckets
            bkt == t.buckets[b]
            new == HASH_DEL_IN_BKT(bkt, h)
<1>1. n \in Nat \ {0} /\ t \in Tables(n) /\ b \in 0 .. n - 1
  <2>1. h.key \in Keys BY DEF Handles, TableOK
  <2>. QED BY <2>1, OldBucket DEF TableOK
<1>2. bkt \in Buckets /\ ChainOK(bkt, Belong(S, b, n)) /\ h \in Range(bkt.hh_head)
  BY <1>1 DEF Tables, TableOK, ChainOK, Belong
<1>3. x = With(t, t.num_items - 1, b, new) BY <1>1 DEF Tables, With
<1>4. /\ new \in Buckets /\ ChainOK(new, Belong(S \ {h}, b, n))
      /\ new.hh_head = RemoveFirst(bkt.hh_head, h)
      /\ new.expand_mult = bkt.expand_mult /\ new.count = bkt.count - 1
  <2>1. bkt.hh_head \in Seq(Handles) BY <1>2 DEF Buckets
  <2>. DEFINE r == RemoveFirst(bkt.hh_head, h)
  <2>2. /\ r \in Seq(Handles) /\ IsInjective(r) /\ Range(r) = Range(bkt.hh_head) \ {h}
        /\ Len(r) = Len(bkt.hh_head) - 1
    BY <1>2, <2>1, RemoveFirstProperties DEF ChainOK
  <2>3. new.hh_head = r /\ new.count = bkt.count - 1 /\ new.expand_mult = bkt.expand_mult
        /\ new = [hh_head |-> r, count |-> bkt.count - 1, expand_mult |-> bkt.expand_mult]
    <3>1. new = [bkt EXCEPT !.count = @ - 1, !.hh_head = r] BY DEF HASH_DEL_IN_BKT
    <3>. HIDE DEF new, r
    <3>. QED BY <1>2, <3>1 DEF Buckets
  <2>. HIDE DEF new, r
  <2>4. bkt.count - 1 \in Nat
    <3>1. bkt.count = Len(bkt.hh_head) /\ Len(r) \in Nat BY <1>2, <2>2 DEF ChainOK
    <3>. QED BY <3>1, <2>2
  <2>5. Belong(S \ {h}, b, n) = Belong(S, b, n) \ {h} BY DEF Belong
  <2>6. new \in Buckets BY <1>2, <2>2, <2>3, <2>4 DEF Buckets
  <2>7. ChainOK(new, Belong(S \ {h}, b, n)) BY <1>2, <2>2, <2>3, <2>5 DEF ChainOK
  <2>. QED BY <2>3, <2>6, <2>7 DEF r
<1>. HIDE DEF new, bkt
<1>5. ASSUME NEW c \in 0 .. n - 1, c # b PROVE Belong(S \ {h}, c, n) = Belong(S, c, n)
  BY <1>5 DEF Belong
<1>6. /\ x \in Tables(n) /\ x.num_buckets = n /\ x.num_items = t.num_items - 1
      /\ x.noexpand = t.noexpand /\ x.ideal_chain_maxlen = t.ideal_chain_maxlen
      /\ x.buckets[b] = new
      /\ \A c \in 0 .. n - 1 : c # b => x.buckets[c] = t.buckets[c]
  <2>1. t.num_items - 1 \in Nat BY <1>1 DEF Tables
  <2>2. t.buckets \in [0 .. n - 1 -> Buckets] BY <1>1 DEF Tables
  <2>3. ASSUME NEW w, w = With(t, t.num_items - 1, b, new)
        PROVE  /\ w \in Tables(n) /\ w.num_buckets = n /\ w.num_items = t.num_items - 1
               /\ w.noexpand = t.noexpand /\ w.ideal_chain_maxlen = t.ideal_chain_maxlen
               /\ w.buckets = [t.buckets EXCEPT ![b] = new]
    BY <1>1, <1>4, <2>1, <2>3, OneBucket
  <2>4. ASSUME NEW w, w.buckets = [t.buckets EXCEPT ![b] = new]
        PROVE  w.buckets[b] = new /\ \A c \in 0 .. n - 1 : c # b => w.buckets[c] = t.buckets[c]
    BY <1>1, <2>2, <2>4
  <2>. QED BY <1>3, <2>3, <2>4
<1>7. TableOK(x, S \ {h}) BY <1>1, <1>4, <1>5, <1>6 DEF TableOK
<1>8. Bounded(x)
  <2>1. \A c \in 0 .. n - 1 : Limit(x, c) = Limit(t, c) BY <1>4, <1>6 DEF Limit, bkt
  <2>2. bkt.count \in Nat /\ Limit(t, b) \in Int
    <3>1. Max({HASH_BKT_CAPACITY_THRESH, t.ideal_chain_maxlen + 1}) \in Nat
      <4>1. t.ideal_chain_maxlen + 1 \in Nat BY <1>1 DEF Tables
      <4>. QED BY <4>1, MaxOfTwo, UthashAssumption
    <3>2. bkt.expand_mult + 1 \in Nat /\ bkt.count \in Nat BY <1>2 DEF Buckets
    <3>. QED BY <3>1, <3>2 DEF Limit, bkt
  <2>3. bkt.count < Limit(t, b) => new.count < Limit(t, b) BY <1>4, <2>2
  <2>. QED BY <1>1, <1>6, <2>1, <2>3 DEF Bounded, bkt
<1>. QED BY <1>2, <1>4, <1>6, <1>7, <1>8 DEF bkt, HasDeleted

\* What HASH_FIND_IN_BKT returns: an item with the key, if the table has one.
LEMMA FindRight ==
  ASSUME NEW t, NEW S, TableOK(t, S), NEW k \in Keys, NEW x,
         x = HASH_FIND_IN_BKT(t.buckets[HASH_FCN(k, t.num_buckets)], k)
  PROVE  \/ x \in {h \in S : h.key = k}
         \/ x = NULL /\ \A h \in S : h.key # k
<1>. DEFINE b == HASH_FCN(k, t.num_buckets)
            chain == t.buckets[b].hh_head
            same == {n \in DOMAIN chain : chain[n].key = k}
<1>1. b \in 0 .. t.num_buckets - 1 BY OldBucket DEF TableOK
<1>2. /\ chain \in Seq(Handles) /\ Range(chain) = Belong(S, b, t.num_buckets)
      /\ \A h \in S : h.key = k => h \in Range(chain)
  BY <1>1 DEF TableOK, Tables, Buckets, ChainOK, Belong
<1>3. x = IF same = {} THEN NULL ELSE chain[Min(same)] BY DEF HASH_FIND_IN_BKT
<1>. HIDE DEF chain
<1>4. CASE same = {} BY <1>2, <1>3, <1>4 DEF Range
<1>5. CASE same # {}
  <2>1. same \in SUBSET Nat BY <1>2
  <2>2. \E m \in same : \A y \in same : m <= y BY <1>5, <2>1, LeastNumber
  <2>. HIDE DEF same
  <2>3. Min(same) \in same BY <2>2 DEF Min
  <2>4. Min(same) \in DOMAIN chain /\ chain[Min(same)].key = k BY <2>3 DEF same
  <2>5. x = chain[Min(same)] BY <1>3, <1>5 DEF same
  <2>. QED BY <1>2, <2>4, <2>5 DEF Range, Belong
<1>. QED BY <1>4, <1>5

-----------------------------------------------------------------------------
(* The table as the program uses it *)

\* the chains have their items in reverse order of addition
Stacked(t, s) ==
  \A b \in 0 .. t.num_buckets - 1 : \A h, g \in Range(t.buckets[b].hh_head) :
    Precedes(t.buckets[b].hh_head, h, g) => Precedes(s, g, h)

\* no item is in the table twice, what has been found is in it, and the table has the
\* items of the application order
UthashInv ==
  /\ order \in Seq(Handles)
  /\ \A i, j \in DOMAIN order : order[i].elmt = order[j].elmt => i = j
  /\ out # NULL => out \in Range(order)
  /\ order # <<>> =>
       /\ TableOK(tbl, Range(order)) /\ Bounded(tbl) /\ tbl.num_items = Len(order)
       /\ tbl.num_buckets >= HASH_INITIAL_NUM_BUCKETS
       /\ tbl.num_buckets = HASH_INITIAL_NUM_BUCKETS => Stacked(tbl, order)

\* In a chain with a new head, an item precedes another as before or is the new one.
LEMMA PrecedesHead ==
  ASSUME NEW s \in Seq(Handles), NEW e \in Handles, NEW x, NEW y,
         Precedes(<<e>> \o s, x, y)
  PROVE  Precedes(s, x, y) \/ (x = e /\ y \in Range(s))
<1>. DEFINE t == <<e>> \o s
<1>1. PICK i, j \in DOMAIN t : i < j /\ t[i] = x /\ t[j] = y BY DEF Precedes
<1>2. /\ t \in Seq(Handles) /\ Len(t) = Len(s) + 1 /\ t[1] = e
      /\ \A k \in 1 .. Len(s) : t[k + 1] = s[k]
  BY PrependProperties
<1>3. Len(s) \in Nat /\ DOMAIN s = 1 .. Len(s) OBVIOUS
<1>4. DOMAIN t = 1 .. Len(s) + 1 BY <1>2
<1>. HIDE DEF t
<1>5. j \in Nat /\ j - 1 \in DOMAIN s /\ s[j - 1] = y BY <1>1, <1>2, <1>3, <1>4
<1>6. CASE i = 1 BY <1>1, <1>2, <1>5, <1>6 DEF Range
<1>7. CASE i # 1
  <2>1. i - 1 \in DOMAIN s /\ s[i - 1] = x /\ i - 1 < j - 1
    BY <1>1, <1>2, <1>3, <1>4, <1>5, <1>7
  <2>. QED BY <1>5, <2>1 DEF Precedes
<1>. QED BY <1>6, <1>7

\* The item added last comes after all others.
LEMMA PrecedesLast ==
  ASSUME NEW s \in Seq(Handles), NEW e \in Handles
  PROVE  /\ \A x \in Range(s) : Precedes(Append(s, e), x, e)
         /\ \A x, y : Precedes(s, x, y) => Precedes(Append(s, e), x, y)
<1>1. /\ Len(s) + 1 \in DOMAIN Append(s, e) /\ Append(s, e)[Len(s) + 1] = e
      /\ \A k \in DOMAIN s : k \in DOMAIN Append(s, e) /\ Append(s, e)[k] = s[k]
  BY AppendedProperties
<1>2. \A k \in DOMAIN s : k < Len(s) + 1 OBVIOUS
<1>. QED BY <1>1, <1>2 DEF Precedes, Range

\* What is left after a deletion is in the order it was in.
LEMMA PrecedesRemoved ==
  ASSUME NEW s \in Seq(Handles), IsInjective(s), NEW e \in Range(s), NEW x, NEW y
  PROVE  /\ Precedes(RemoveFirst(s, e), x, y) => Precedes(s, x, y)
         /\ Precedes(s, x, y) /\ x # e /\ y # e => Precedes(RemoveFirst(s, e), x, y)
BY RemoveFirstProperties DEF Precedes

\* The application order has no repetitions.
LEMMA OrderInjective == UthashInv => IsInjective(order)
BY DEF UthashInv, IsInjective

\* There is no table yet.
LEMMA UthashInit == Init => UthashInv
BY DEF Init, UthashInv

\* Adding an item.
LEMMA AddStep ==
  ASSUME UthashInv, NEW i \in Items, NEW k \in Keys, HASH_ADD(i, k)
  PROVE  UthashInv' /\ Range(order') = Range(order) \cup {UT_hash_handle(i, k)}
<1>. DEFINE h == UT_hash_handle(i, k)
            t == IF order = <<>> THEN HASH_MAKE_TABLE ELSE tbl
            u == [t EXCEPT !.num_items = @ + 1]
            n == t.num_buckets
            b == HASH_FCN(k, n)
            S == Range(order)
<1>1. /\ \A m \in DOMAIN order : order[m].elmt # i
      /\ order' = Append(order, h) /\ tbl' = HASH_ADD_TO_BKT(u, b, h) /\ out' = out
  BY DEF HASH_ADD
<1>2. h \in Handles /\ h.elmt = i /\ h.key = k BY DEF UT_hash_handle, Handles
<1>3. order \in Seq(Handles) /\ DOMAIN order = 1 .. Len(order) /\ Len(order) \in Nat
  BY DEF UthashInv
<1>4. h \notin S BY <1>1, <1>2 DEF Range
<1>5. /\ TableOK(t, S) /\ Bounded(t) /\ t.num_items = Len(order)
      /\ n >= HASH_INITIAL_NUM_BUCKETS
      /\ n = HASH_INITIAL_NUM_BUCKETS => Stacked(t, order)
  <2>1. CASE order = <<>>
    <3>1. S = {} BY <2>1 DEF Range
    <3>2. ASSUME NEW ideal \in Nat PROVE Max({HASH_BKT_CAPACITY_THRESH, ideal + 1}) >= 1
      <4>1. ideal + 1 \in Nat BY <3>2
      <4>. QED BY <4>1, MaxOfTwo, UthashAssumption
    <3>3. /\ t = HASH_MAKE_TABLE /\ n = HASH_INITIAL_NUM_BUCKETS /\ Len(order) = 0
          /\ \A c \in 0 .. n - 1 : t.buckets[c].hh_head = <<>> /\ t.buckets[c].count = 0
          /\ t.num_items = 0
      BY <2>1, MakeRight
    <3>4. TableOK(t, S) BY <2>1, <3>1, MakeRight
    <3>5. ASSUME NEW c \in 0 .. n - 1 PROVE 0 < Limit(t, c)
      <4>1. t.buckets[c].expand_mult \in Nat /\ t.ideal_chain_maxlen \in Nat
        BY <3>4 DEF TableOK, Tables, Buckets
      <4>2. ASSUME NEW m \in Nat, NEW max \in Nat, max >= 1 PROVE 0 < (m + 1) * max
        BY <4>2
      <4>3. /\ Max({HASH_BKT_CAPACITY_THRESH, t.ideal_chain_maxlen + 1}) >= 1
            /\ Max({HASH_BKT_CAPACITY_THRESH, t.ideal_chain_maxlen + 1}) \in Nat
        <5>1. t.ideal_chain_maxlen + 1 \in Nat BY <4>1
        <5>. QED BY <3>2, <4>1, <5>1, MaxOfTwo, UthashAssumption
      <4>. QED BY <4>1, <4>2, <4>3 DEF Limit
    <3>6. Bounded(t) BY <3>3, <3>5 DEF Bounded
    <3>7. Stacked(t, order) BY <3>3 DEF Stacked, Range
    <3>. QED BY <3>3, <3>4, <3>6, <3>7, UthashAssumption
  <2>2. CASE order # <<>> BY <2>2 DEF UthashInv
  <2>. QED BY <2>1, <2>2
<1>. HIDE DEF t
<1>6. /\ TableOK(u, S) /\ Bounded(u) /\ u.num_items = Len(order) + 1
      /\ u.num_buckets = n /\ u.buckets = t.buckets
  <2>1. t \in Tables(n) BY <1>5 DEF TableOK
  <2>2. /\ u \in Tables(n) /\ u.num_items = t.num_items + 1 /\ u.num_buckets = n
        /\ u.buckets = t.buckets /\ u.noexpand = t.noexpand
        /\ u.ideal_chain_maxlen = t.ideal_chain_maxlen
    BY <2>1 DEF Tables
  <2>. HIDE DEF u
  <2>3. TableOK(u, S) BY <1>5, <2>2 DEF TableOK
  <2>4. Bounded(u) BY <1>5, <2>2 DEF Bounded, Limit
  <2>. QED BY <1>5, <2>2, <2>3, <2>4
<1>. HIDE DEF u, h
<1>7. /\ TableOK(tbl', S \cup {h}) /\ Bounded(tbl') /\ tbl'.num_items = Len(order) + 1
      /\ \/ tbl'.num_buckets = 2 * n
         \/ /\ tbl'.num_buckets = n
            /\ tbl'.buckets[b].hh_head = <<h>> \o t.buckets[b].hh_head
            /\ \A c \in 0 .. n - 1 : c # b => tbl'.buckets[c] = t.buckets[c]
  <2>1. HasAdded(HASH_ADD_TO_BKT(u, b, h), u, S, b, h)
    <3>1. u.num_items # 0 BY <1>3, <1>6
    <3>2. b = HASH_FCN(h.key, u.num_buckets) BY <1>2, <1>6
    <3>3. TableOK(u, S) /\ Bounded(u) BY <1>6
    <3>. HIDE DEF b, S
    <3>. QED BY <3>1, <3>2, <3>3, <1>2, <1>4, AddRight, Zenon
  <2>. QED BY <1>1, <1>6, <2>1 DEF HasAdded
<1>8. /\ order' \in Seq(Handles) /\ order' # <<>> /\ Len(order') = Len(order) + 1
      /\ Range(order') = S \cup {h}
  BY <1>1, <1>2, <1>3 DEF Range
<1>9. \A m, p \in DOMAIN order' : order'[m].elmt = order'[p].elmt => m = p
  BY <1>1, <1>2, <1>3 DEF UthashInv
<1>10. n \in Nat \ {0} /\ b \in 0 .. n - 1 BY <1>5, OldBucket DEF TableOK
<1>11. tbl'.num_buckets >= HASH_INITIAL_NUM_BUCKETS BY <1>5, <1>7, <1>10, UthashAssumption
<1>12. ASSUME tbl'.num_buckets = HASH_INITIAL_NUM_BUCKETS PROVE Stacked(tbl', order')
  <2>1. /\ n = HASH_INITIAL_NUM_BUCKETS /\ tbl'.num_buckets = n
        /\ tbl'.buckets[b].hh_head = <<h>> \o t.buckets[b].hh_head
        /\ \A c \in 0 .. n - 1 : c # b => tbl'.buckets[c] = t.buckets[c]
    <3>1. tbl'.num_buckets # 2 * n BY <1>5, <1>10, <1>12, UthashAssumption
    <3>2. tbl'.num_buckets = n BY <1>7, <3>1
    <3>. QED BY <1>7, <1>12, <3>1, <3>2
  <2>2. ASSUME NEW c \in 0 .. n - 1, NEW x, NEW y, Precedes(tbl'.buckets[c].hh_head, x, y)
        PROVE  Precedes(order', y, x)
    <3>1. /\ t.buckets[c].hh_head \in Seq(Handles)
          /\ Range(t.buckets[c].hh_head) \subseteq S
      BY <1>5 DEF TableOK, Tables, Buckets, ChainOK, Belong
    <3>2. ASSUME Precedes(t.buckets[c].hh_head, x, y) PROVE Precedes(order', y, x)
      <4>1. x \in Range(t.buckets[c].hh_head) /\ y \in Range(t.buckets[c].hh_head)
        BY <3>2 DEF Precedes, Range
      <4>2. Precedes(order, y, x) BY <1>5, <2>1, <3>2, <4>1 DEF Stacked
      <4>. QED BY <4>2, <1>1, <1>2, <1>3, PrecedesLast
    <3>3. CASE c # b BY <2>1, <2>2, <3>2, <3>3
    <3>4. CASE c = b
      <4>1. Precedes(<<h>> \o t.buckets[c].hh_head, x, y) BY <2>1, <2>2, <3>4
      <4>2. Precedes(t.buckets[c].hh_head, x, y) \/ (x = h /\ y \in Range(t.buckets[c].hh_head))
        BY <1>2, <3>1, <4>1, PrecedesHead
      <4>. QED BY <4>2, <3>1, <3>2, <1>1, <1>2, <1>3, PrecedesLast
    <3>. QED BY <3>3, <3>4
  <2>. QED BY <2>1, <2>2 DEF Stacked
<1>13. out' # NULL => out' \in Range(order') BY <1>1, <1>8 DEF UthashInv
<1>14. UthashInv' BY <1>7, <1>8, <1>9, <1>11, <1>12, <1>13 DEF UthashInv
<1>. QED BY <1>8, <1>14 DEF h

\* Deleting the item found.
LEMMA DeleteStep ==
  ASSUME UthashInv, HASH_DELETE
  PROVE  UthashInv' /\ Range(order') = Range(order) \ {out}
<1>. DEFINE S == Range(order)
            b == HASH_FCN(out.key, tbl.num_buckets)
<1>1. out # NULL /\ out \in S /\ order' = RemoveFirst(order, out) /\ out' = NULL
  BY DEF HASH_DELETE, UthashInv
<1>2. order \in Seq(Handles) /\ IsInjective(order) /\ Len(order) \in Nat
  BY OrderInjective DEF UthashInv
<1>3. order # <<>> /\ Len(order) # 0 BY <1>1, <1>2 DEF Range
<1>4. /\ TableOK(tbl, S) /\ Bounded(tbl) /\ tbl.num_items = Len(order)
      /\ tbl.num_buckets >= HASH_INITIAL_NUM_BUCKETS
      /\ tbl.num_buckets = HASH_INITIAL_NUM_BUCKETS => Stacked(tbl, order)
  BY <1>3 DEF UthashInv
<1>5. /\ order' \in Seq(Handles) /\ Range(order') = S \ {out} /\ Len(order') = Len(order) - 1
      /\ IsInjective(order')
  BY <1>1, <1>2, RemoveFirstProperties
<1>6. \A m, p \in DOMAIN order' : order'[m].elmt = order'[p].elmt => m = p
  <2>1. ASSUME NEW g \in S, NEW h \in S, g.elmt = h.elmt PROVE g = h
    BY <2>1 DEF UthashInv, Range
  <2>2. \A m \in DOMAIN order' : order'[m] \in S BY <1>5 DEF Range
  <2>. QED BY <1>5, <2>1, <2>2 DEF IsInjective
<1>7. CASE order = <<out>>
  <2>1. order' = <<>>
    <3>1. Len(order') = 0 BY <1>5, <1>7
    <3>. QED BY <1>5, <3>1
  <2>. QED BY <1>1, <1>5, <1>6, <2>1 DEF UthashInv
<1>8. CASE order # <<out>>
  <2>1. tbl' = [tbl EXCEPT !.num_items = @ - 1, !.buckets[b] = HASH_DEL_IN_BKT(@, out)]
    BY <1>8 DEF HASH_DELETE
  <2>2. tbl.num_items # 0 BY <1>3, <1>4
  <2>3. /\ TableOK(tbl', S \ {out}) /\ Bounded(tbl') /\ tbl'.num_items = tbl.num_items - 1
        /\ tbl'.num_buckets = tbl.num_buckets
        /\ out \in Range(tbl.buckets[b].hh_head)
        /\ tbl'.buckets[b].hh_head = RemoveFirst(tbl.buckets[b].hh_head, out)
        /\ \A c \in 0 .. tbl.num_buckets - 1 : c # b => tbl'.buckets[c] = tbl.buckets[c]
    <3>1. HasDeleted(tbl', tbl, S, b, out)
      <4>. HIDE DEF S
      <4>. QED BY <1>1, <1>4, <2>1, <2>2, DeleteRight
    <3>. QED BY <3>1 DEF HasDeleted
  <2>4. ASSUME tbl.num_buckets = HASH_INITIAL_NUM_BUCKETS,
               NEW c \in 0 .. tbl.num_buckets - 1, NEW x, NEW y,
               Precedes(tbl'.buckets[c].hh_head, x, y)
        PROVE  Precedes(order', y, x)
    <3>. DEFINE chain == tbl.buckets[c].hh_head
    <3>1. chain \in Seq(Handles) /\ IsInjective(chain)
      BY <1>4 DEF TableOK, Tables, Buckets, ChainOK
    <3>2. Precedes(chain, x, y)
      <4>1. CASE c = b
        <5>1. Precedes(RemoveFirst(chain, out), x, y) /\ out \in Range(chain)
          BY <2>3, <2>4, <4>1
        <5>. HIDE DEF chain
        <5>. QED BY <3>1, <5>1, PrecedesRemoved
      <4>2. CASE c # b BY <2>3, <2>4, <4>2
      <4>. QED BY <4>1, <4>2
    <3>3. x \in Range(chain) /\ y \in Range(chain) BY <3>2 DEF Precedes, Range
    <3>4. Precedes(order, y, x) BY <1>4, <2>4, <3>2, <3>3 DEF Stacked
    <3>5. x # out /\ y # out
      <4>1. x \in Range(tbl'.buckets[c].hh_head) /\ y \in Range(tbl'.buckets[c].hh_head)
        BY <2>4 DEF Precedes, Range
      <4>2. Range(tbl'.buckets[c].hh_head) \subseteq S \ {out}
        BY <2>3 DEF TableOK, ChainOK, Belong
      <4>. QED BY <4>1, <4>2
    <3>. QED BY <1>1, <1>2, <3>4, <3>5, PrecedesRemoved
  <2>5. tbl'.num_buckets = HASH_INITIAL_NUM_BUCKETS => Stacked(tbl', order')
    BY <2>3, <2>4 DEF Stacked
  <2>. QED BY <1>1, <1>4, <1>5, <1>6, <2>3, <2>5 DEF UthashInv
<1>. QED BY <1>5, <1>7, <1>8

\* Finding an item.
LEMMA FindStep ==
  ASSUME UthashInv, NEW k \in Keys, HASH_FIND(k)
  PROVE  /\ UthashInv'
         /\ \/ out' \in {h \in Range(order) : h.key = k}
            \/ out' = NULL /\ \A h \in Range(order) : h.key # k
<1>1. order' = order /\ tbl' = tbl BY DEF HASH_FIND
<1>2. \/ out' \in {h \in Range(order) : h.key = k}
      \/ out' = NULL /\ \A h \in Range(order) : h.key # k
  <2>1. CASE order = <<>>
    <3>1. Range(order) = {} BY <2>1 DEF Range
    <3>. QED BY <2>1, <3>1 DEF HASH_FIND
  <2>2. CASE order # <<>>
    <3>1. out' = HASH_FIND_IN_BKT(tbl.buckets[HASH_FCN(k, tbl.num_buckets)], k)
      BY <2>2 DEF HASH_FIND
    <3>2. TableOK(tbl, Range(order)) BY <2>2 DEF UthashInv
    <3>. QED BY <3>1, <3>2, FindRight
  <2>. QED BY <2>1, <2>2
<1>3. UthashInv' BY <1>1, <1>2 DEF UthashInv
<1>. QED BY <1>2, <1>3

\* Every operation keeps the table in order.
LEMMA UthashNext == UthashInv /\ [Next]_vars => UthashInv'
<1>. SUFFICES ASSUME UthashInv, [Next]_vars PROVE UthashInv' OBVIOUS
<1>1. ASSUME NEW i \in Items, NEW k \in Keys, HASH_ADD(i, k) PROVE UthashInv'
  BY <1>1, AddStep
<1>2. ASSUME NEW k \in Keys, HASH_FIND(k) PROVE UthashInv' BY <1>2, FindStep
<1>3. CASE HASH_DELETE BY <1>3, DeleteStep
<1>4. CASE UNCHANGED vars BY <1>4 DEF vars, UthashInv
<1>. QED BY <1>1, <1>2, <1>3, <1>4 DEF Next

\* The places in the chains of a table are as many as its items.
LEMMA PlacesCount ==
  ASSUME NEW t, NEW s \in Seq(Handles), IsInjective(s), TableOK(t, Range(s))
  PROVE  Cardinality(Places(t)) = Len(s)
<1>. DEFINE n == t.num_buckets
            P == Places(t)
            f == [p \in P |-> t.buckets[p[1]].hh_head[p[2]]]
<1>1. n \in Nat \ {0} /\ DOMAIN t.buckets = 0 .. n - 1 BY DEF TableOK, Tables
<1>2. ASSUME NEW b \in 0 .. n - 1
      PROVE  LET chain == t.buckets[b].hh_head
             IN  /\ chain \in Seq(Handles) /\ IsInjective(chain)
                 /\ \A h : h \in Range(chain) <=> h \in Range(s) /\ HASH_FCN(h.key, n) = b
  BY DEF TableOK, Tables, Buckets, ChainOK, Belong
<1>3. \A p : p \in P <=> \E b \in 0 .. n - 1 : \E m \in DOMAIN t.buckets[b].hh_head : p = <<b, m>>
  BY <1>1 DEF Places
<1>4. ASSUME NEW p \in P
      PROVE  /\ p[1] \in 0 .. n - 1 /\ p[2] \in DOMAIN t.buckets[p[1]].hh_head
             /\ p = <<p[1], p[2]>>
             /\ f[p] \in Range(s) /\ HASH_FCN(f[p].key, n) = p[1]
  <2>1. p[1] \in 0 .. n - 1 /\ p[2] \in DOMAIN t.buckets[p[1]].hh_head /\ p = <<p[1], p[2]>>
    BY <1>3
  <2>2. f[p] \in Range(t.buckets[p[1]].hh_head) BY <2>1 DEF Range
  <2>. QED BY <1>2, <2>1, <2>2
<1>5. ASSUME NEW p \in P, NEW q \in P, f[p] = f[q] PROVE p = q
  <2>1. p[1] = q[1] BY <1>4, <1>5
  <2>2. p[2] = q[2] BY <1>2, <1>4, <1>5, <2>1 DEF IsInjective
  <2>. QED BY <1>4, <2>1, <2>2
<1>6. ASSUME NEW h \in Range(s) PROVE \E p \in P : f[p] = h
  <2>. DEFINE b == HASH_FCN(h.key, n)
  <2>0. h \in Handles /\ h.key \in Keys BY DEF TableOK, Handles
  <2>1. b \in 0 .. n - 1 BY <1>1, <2>0, OldBucket
  <2>2. h \in Range(t.buckets[b].hh_head) BY <1>2, <2>1
  <2>3. PICK m \in DOMAIN t.buckets[b].hh_head : t.buckets[b].hh_head[m] = h
    BY <2>2 DEF Range
  <2>4. <<b, m>> \in P BY <1>3, <2>1
  <2>. QED BY <2>3, <2>4
<1>. HIDE DEF f, P
<1>7. f \in Bijection(P, Range(s))
  <2>1. f \in [P -> Range(s)] BY <1>4 DEF f
  <2>2. f \in Injection(P, Range(s)) BY <1>5, <2>1 DEF Injection, IsInjective
  <2>3. f \in Surjection(P, Range(s)) BY <1>6, <2>1 DEF Surjection
  <2>. QED BY <2>2, <2>3 DEF Bijection
<1>8. s \in Bijection(1 .. Len(s), Range(s))
  BY DEF Bijection, Injection, Surjection, IsInjective, Range
<1>9. IsFiniteSet(Range(s)) /\ Cardinality(Range(s)) = Len(s)
  <2>1. IsFiniteSet(1 .. Len(s)) /\ Cardinality(1 .. Len(s)) = Len(s)
    <3>1. Len(s) \in Nat OBVIOUS
    <3>2. IsFiniteSet(1 .. Len(s)) /\ Cardinality(1 .. Len(s)) = IF 1 > Len(s) THEN 0 ELSE Len(s) - 1 + 1
      BY <3>1, FS_Interval
    <3>. QED BY <3>1, <3>2
  <2>. QED BY <1>8, <2>1, FS_Bijection DEF ExistsBijection
<1>10. IsFiniteSet(P) BY <1>7, <1>9, FS_Injection DEF Bijection
<1>11. Cardinality(Range(s)) = Cardinality(P)
  BY <1>7, <1>10, FS_Bijection DEF ExistsBijection
<1>. QED BY <1>9, <1>11 DEF P

\* Fsck, for any items, keys, hash values, initial size and threshold: the counts of
\* uthash agree with its chains and with the application order after any sequence of
\* additions, lookups and deletions, through any number of expansions.
THEOREM CountsAgree == Spec => []Fsck
<1>1. ASSUME UthashInv PROVE Fsck
  <2>. SUFFICES ASSUME order # <<>>
                PROVE  /\ \A b \in DOMAIN tbl.buckets :
                             tbl.buckets[b].count = Len(tbl.buckets[b].hh_head)
                       /\ tbl.num_items = Cardinality(Places(tbl))
                       /\ tbl.num_items = Len(order)
    BY DEF Fsck
  <2>1. TableOK(tbl, Range(order)) /\ tbl.num_items = Len(order) BY <1>1 DEF UthashInv
  <2>2. \A b \in DOMAIN tbl.buckets : tbl.buckets[b].count = Len(tbl.buckets[b].hh_head)
    BY <2>1 DEF TableOK, Tables, ChainOK
  <2>3. Cardinality(Places(tbl)) = Len(order)
    BY <1>1, <2>1, OrderInjective, PlacesCount DEF UthashInv
  <2>. QED BY <2>1, <2>2, <2>3
<1>. QED BY <1>1, UthashInit, UthashNext, PTL DEF Spec

\* NewestFirst, for any items, keys, hash values, initial size and threshold: a table
\* that has not been expanded is a stack of items per key.
THEOREM StackPerKey == Spec => []NewestFirst
<1>1. ASSUME UthashInv PROVE NewestFirst
  <2>. SUFFICES ASSUME order # <<>>, tbl.num_buckets = HASH_INITIAL_NUM_BUCKETS
                PROVE  \A b \in DOMAIN tbl.buckets :
                         LET chain == tbl.buckets[b].hh_head
                         IN  /\ Range(chain) =
                                  {h \in Range(order) : HASH_FCN(h.key, tbl.num_buckets) = b}
                             /\ \A h, g \in Range(chain) :
                                  Precedes(chain, h, g) => Precedes(order, g, h)
    BY DEF NewestFirst
  <2>1. TableOK(tbl, Range(order)) /\ Stacked(tbl, order) BY <1>1 DEF UthashInv
  <2>2. DOMAIN tbl.buckets = 0 .. tbl.num_buckets - 1 BY <2>1 DEF TableOK, Tables
  <2>. QED BY <2>1, <2>2 DEF TableOK, ChainOK, Belong, Stacked
<1>. QED BY <1>1, UthashInit, UthashNext, PTL DEF Spec

\* ChainBounded, for any items, keys, hash values, initial size and threshold: until
\* expansion has been given up, no chain outgrows what its expand_mult allows.
THEOREM ChainsStayShort == Spec => []ChainBounded
<1>1. ASSUME UthashInv PROVE ChainBounded
  <2>. SUFFICES ASSUME order # <<>>, ~tbl.noexpand
                PROVE  \A b \in DOMAIN tbl.buckets : tbl.buckets[b].count < Limit(tbl, b)
    BY DEF ChainBounded, Limit
  <2>1. TableOK(tbl, Range(order)) /\ Bounded(tbl) BY <1>1 DEF UthashInv
  <2>2. DOMAIN tbl.buckets = 0 .. tbl.num_buckets - 1 BY <2>1 DEF TableOK, Tables
  <2>. QED BY <2>1, <2>2 DEF Bounded
<1>. QED BY <1>1, UthashInit, UthashNext, PTL DEF Spec

\* Uthash implements Multimap, for any items, keys, hash values, initial size and
\* threshold: a lookup finds an item of the key if and only if one has been added and
\* not deleted since.
THEOREM ImplementsMultimap == Spec => IsMultimap
<1>1. Init => Abstract!Init
  <2>1. Range(<<>>) = {} BY DEF Range
  <2>. QED BY <2>1 DEF Init, Abstract!Init
<1>2. ASSUME UthashInv, [Next]_vars
      PROVE  [Abstract!Next]_<<Range(order), out>>
  <2>. USE <1>2
  <2>1. ASSUME NEW i \in Items, NEW k \in Keys, HASH_ADD(i, k) PROVE Abstract!Add(i, k)
    <3>1. Range(order') = Range(order) \cup {UT_hash_handle(i, k)} BY <2>1, AddStep
    <3>2. out' = out /\ \A n \in DOMAIN order : order[n].elmt # i BY <2>1 DEF HASH_ADD
    <3>3. \A e \in Range(order) : e.elmt # i BY <3>2 DEF Range
    <3>4. Range(order)' = Range(order') BY DEF Range
    <3>. QED BY <3>1, <3>2, <3>3, <3>4 DEF Abstract!Add, Abstract!Entry, UT_hash_handle
  <2>2. ASSUME NEW k \in Keys, HASH_FIND(k) PROVE Abstract!Find(k)
    <3>1. order' = order BY <2>2 DEF HASH_FIND
    <3>2. Range(order)' = Range(order) BY <3>1 DEF Range
    <3>. QED BY <2>2, <3>2, FindStep DEF Abstract!Find
  <2>3. ASSUME HASH_DELETE PROVE Abstract!Delete
    <3>1. Range(order') = Range(order) \ {out} BY <2>3, DeleteStep
    <3>2. Range(order)' = Range(order') BY DEF Range
    <3>. QED BY <2>3, <3>1, <3>2 DEF HASH_DELETE, Abstract!Delete
  <2>4. CASE UNCHANGED vars
    <3>1. Range(order)' = Range(order) /\ out' = out BY <2>4 DEF vars, Range
    <3>. QED BY <3>1
  <2>5. ASSUME Next PROVE Abstract!Next
    BY <2>1, <2>2, <2>3, <2>5, Zenon DEF Next, Abstract!Next
  <2>. QED BY <2>4, <2>5
<1>. QED BY <1>1, <1>2, UthashInit, UthashNext, PTL DEF Spec, IsMultimap, Abstract!Spec

=============================================================================
