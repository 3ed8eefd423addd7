--------------------------- MODULE SequenceLemmas ---------------------------
(***************************************************************************)
(* Facts about sequences that the proofs share: what is left when an       *)
(* element is taken out or added, in terms of the elements.                *)
(***************************************************************************)
EXTENDS Integers, SequencesExt, SequenceTheorems, TLAPS

\* What is left of a sequence when one of its elements is taken out.
LEMMA RemoveAtProperties ==
  ASSUME NEW S, NEW s \in Seq(S), NEW i \in DOMAIN s
  PROVE  /\ RemoveAt(s, i) \in Seq(S)
         /\ \A k \in DOMAIN RemoveAt(s, i) :
              IF k < i THEN k \in DOMAIN s /\ RemoveAt(s, i)[k] = s[k]
                       ELSE k + 1 \in DOMAIN s /\ RemoveAt(s, i)[k] = s[k + 1]
         /\ \A k \in DOMAIN s : k # i =>
              \E m \in DOMAIN RemoveAt(s, i) : RemoveAt(s, i)[m] = s[k]
<1>. DEFINE a == SubSeq(s, 1, i - 1)
            b == SubSeq(s, i + 1, Len(s))
            t == RemoveAt(s, i)
            n == Len(s)
<1>0. i \in 1 .. n /\ n \in Nat /\ DOMAIN s = 1 .. n OBVIOUS
<1>1. a \in Seq(S) /\ b \in Seq(S) /\ Len(a) = i - 1 /\ Len(b) = n - i OBVIOUS
<1>2. \A k \in 1 .. i - 1 : a[k] = s[k] OBVIOUS
<1>3. \A k \in 1 .. n - i : b[k] = s[i + k] BY <1>0
<1>4. t = a \o b BY DEF RemoveAt
<1>. HIDE DEF a, b, t
<1>5. /\ t \in Seq(S) /\ Len(t) = Len(a) + Len(b)
      /\ \A k \in 1 .. Len(a) + Len(b) :
           t[k] = IF k <= Len(a) THEN a[k] ELSE b[k - Len(a)]
  BY <1>1, <1>4, ConcatProperties, Zenon
<1>. HIDE DEF n
<1>6. Len(t) = n - 1 /\ DOMAIN t = 1 .. n - 1 BY <1>0, <1>1, <1>5
<1>7. \A k \in 1 .. n - 1 : t[k] = IF k <= i - 1 THEN a[k] ELSE b[k - (i - 1)]
  <2>1. Len(a) + Len(b) = n - 1 BY <1>0, <1>1
  <2>. QED BY <2>1, <1>1, <1>5
<1>8. ASSUME NEW k \in 1 .. n - 1, k < i PROVE k \in 1 .. n /\ t[k] = s[k]
  <2>1. k \in 1 .. i - 1 /\ k <= i - 1 /\ k \in 1 .. n BY <1>8, <1>0
  <2>. QED BY <2>1, <1>2, <1>7
<1>9. ASSUME NEW k \in 1 .. n - 1, ~(k < i) PROVE k + 1 \in 1 .. n /\ t[k] = s[k + 1]
  <2>1. /\ k - (i - 1) \in 1 .. n - i /\ i + (k - (i - 1)) = k + 1
        /\ ~(k <= i - 1) /\ k + 1 \in 1 .. n
    BY <1>9, <1>0
  <2>. QED BY <2>1, <1>3, <1>7
<1>10. ASSUME NEW k \in 1 .. n, k # i PROVE \E m \in 1 .. n - 1 : t[m] = s[k]
  <2>1. CASE k < i
    <3>1. k \in 1 .. n - 1 BY <2>1, <1>0
    <3>. QED BY <2>1, <3>1, <1>8
  <2>2. CASE k > i
    <3>1. k - 1 \in 1 .. n - 1 /\ ~(k - 1 < i) /\ (k - 1) + 1 = k BY <2>2, <1>0
    <3>2. t[k - 1] = s[(k - 1) + 1] BY <3>1, <1>9
    <3>. QED BY <3>1, <3>2
  <2>. QED BY <2>1, <2>2, <1>0, <1>10
<1>. QED BY <1>0, <1>5, <1>6, <1>8, <1>9, <1>10 DEF t

\* What a sequence and its tail have in common.
LEMMA TailProperties ==
  ASSUME NEW S, NEW s \in Seq(S), s # <<>>
  PROVE  /\ Tail(s) \in Seq(S) /\ Head(s) \in S
         /\ 1 \in DOMAIN s /\ Head(s) = s[1]
         /\ \A k \in DOMAIN Tail(s) :
              k + 1 \in DOMAIN s /\ k + 1 # 1 /\ Tail(s)[k] = s[k + 1]
         /\ \A k \in DOMAIN s : k # 1 => \E m \in DOMAIN Tail(s) : Tail(s)[m] = s[k]
<1>. DEFINE n == Len(s)
            t == Tail(s)
<1>1. n \in Nat /\ n > 0 /\ DOMAIN s = 1 .. n OBVIOUS
<1>2. t \in Seq(S) /\ Len(t) = n - 1 /\ Head(s) \in S /\ Head(s) = s[1]
  BY HeadTailProperties
<1>3. DOMAIN t = 1 .. n - 1 BY <1>1, <1>2
<1>4. \A k \in 1 .. n - 1 : t[k] = s[k + 1] BY <1>2, HeadTailProperties
<1>. HIDE DEF n, t
<1>5. ASSUME NEW k \in 1 .. n - 1 PROVE k + 1 \in 1 .. n /\ k + 1 # 1 BY <1>1
<1>6. ASSUME NEW k \in 1 .. n, k # 1 PROVE \E m \in 1 .. n - 1 : t[m] = s[k]
  <2>1. k - 1 \in 1 .. n - 1 /\ (k - 1) + 1 = k BY <1>1, <1>6
  <2>2. t[k - 1] = s[(k - 1) + 1] BY <1>4, <2>1
  <2>. QED BY <2>1, <2>2
<1>7. 1 \in 1 .. n BY <1>1
<1>. QED BY <1>1, <1>2, <1>3, <1>4, <1>5, <1>6, <1>7 DEF t

\* What a sequence and its extension have in common.
LEMMA AppendedProperties ==
  ASSUME NEW S, NEW s \in Seq(S), NEW e \in S
  PROVE  /\ Append(s, e) \in Seq(S)
         /\ Len(s) + 1 \in DOMAIN Append(s, e) /\ Append(s, e)[Len(s) + 1] = e
         /\ \A k \in DOMAIN Append(s, e) :
              \/ k \in DOMAIN s /\ Append(s, e)[k] = s[k]
              \/ k = Len(s) + 1
         /\ \A k \in DOMAIN s : k \in DOMAIN Append(s, e) /\ Append(s, e)[k] = s[k]
OBVIOUS

\* What a sequence without repetitions has left when an element is removed.
LEMMA RemoveFirstProperties ==
  ASSUME NEW S, NEW s \in Seq(S), IsInjective(s), NEW e \in Range(s)
  PROVE  /\ RemoveFirst(s, e) \in Seq(S) /\ IsInjective(RemoveFirst(s, e))
         /\ Range(RemoveFirst(s, e)) = Range(s) \ {e}
         /\ Len(RemoveFirst(s, e)) = Len(s) - 1
         /\ \A k, m \in DOMAIN RemoveFirst(s, e) : k < m =>
              \E n, p \in DOMAIN s :
                n < p /\ s[n] = RemoveFirst(s, e)[k] /\ s[p] = RemoveFirst(s, e)[m]
         /\ \A n, p \in DOMAIN s : n < p /\ s[n] # e /\ s[p] # e =>
              \E k, m \in DOMAIN RemoveFirst(s, e) :
                k < m /\ s[n] = RemoveFirst(s, e)[k] /\ s[p] = RemoveFirst(s, e)[m]
<1>1. PICK i \in DOMAIN s : s[i] = e BY DEF Range
<1>2. DOMAIN s = 1 .. Len(s) /\ Len(s) \in Nat /\ i \in Nat OBVIOUS
<1>. DEFINE t == RemoveAt(s, i)
            I == {j \in 1 .. Len(s) : s[j] = e}
<1>3. RemoveFirst(s, e) = t
  <2>1. I = {i} BY <1>1, <1>2 DEF IsInjective
  <2>2. Min(I) = i BY <2>1, <1>2 DEF Min
  <2>3. SelectInSeq(s, LAMBDA v : v = e) = i BY <2>1, <2>2 DEF SelectInSeq
  <2>. QED BY <2>3, <1>1, <1>2 DEF RemoveFirst
<1>4. /\ t \in Seq(S)
      /\ \A k \in DOMAIN t :
           IF k < i THEN k \in DOMAIN s /\ t[k] = s[k]
                    ELSE k + 1 \in DOMAIN s /\ t[k] = s[k + 1]
      /\ \A k \in DOMAIN s : k # i => \E m \in DOMAIN t : t[m] = s[k]
  BY RemoveAtProperties
<1>5. Len(t) = Len(s) - 1
  <2>1. /\ SubSeq(s, 1, i - 1) \in Seq(S) /\ Len(SubSeq(s, 1, i - 1)) = i - 1
        /\ SubSeq(s, i + 1, Len(s)) \in Seq(S) /\ Len(SubSeq(s, i + 1, Len(s))) = Len(s) - i
    BY <1>2
  <2>2. Len(t) = (i - 1) + (Len(s) - i) BY <2>1, ConcatProperties DEF RemoveAt
  <2>. QED BY <2>2, <1>2
<1>. HIDE DEF t, I
<1>6. DOMAIN t = 1 .. Len(t) /\ \A k \in DOMAIN t : k \in Nat BY <1>4
<1>. DEFINE From(k) == IF k < i THEN k ELSE k + 1
<1>7. ASSUME NEW k \in DOMAIN t
      PROVE  From(k) \in DOMAIN s /\ From(k) # i /\ t[k] = s[From(k)]
  BY <1>2, <1>4, <1>6
<1>8. ASSUME NEW k \in DOMAIN t, NEW m \in DOMAIN t, From(k) = From(m) PROVE k = m
  BY <1>2, <1>6, <1>8
<1>a. ASSUME NEW k \in DOMAIN t, NEW m \in DOMAIN t, k < m PROVE From(k) < From(m)
  BY <1>2, <1>6, <1>a
<1>b. ASSUME NEW k \in DOMAIN s, k # i
      PROVE  LET n == IF k < i THEN k ELSE k - 1 IN n \in DOMAIN t /\ From(n) = k
  BY <1>2, <1>5, <1>6, <1>b
<1>. HIDE DEF From
<1>9. IsInjective(t)
  <2>. SUFFICES ASSUME NEW k \in DOMAIN t, NEW m \in DOMAIN t, t[k] = t[m] PROVE k = m
    BY DEF IsInjective
  <2>. QED BY <1>7, <1>8 DEF IsInjective
<1>10. Range(t) = Range(s) \ {e}
  <2>1. ASSUME NEW k \in DOMAIN t PROVE t[k] \in Range(s) \ {e}
    BY <1>1, <1>7 DEF IsInjective, Range
  <2>2. ASSUME NEW x \in Range(s) \ {e} PROVE x \in Range(t)
    BY <1>1, <1>4 DEF Range
  <2>. QED BY <2>1, <2>2 DEF Range
<1>11. ASSUME NEW k \in DOMAIN t, NEW m \in DOMAIN t, k < m
       PROVE  \E n, p \in DOMAIN s : n < p /\ s[n] = t[k] /\ s[p] = t[m]
  BY <1>7, <1>a, <1>11
<1>12. ASSUME NEW n \in DOMAIN s, NEW p \in DOMAIN s, n < p, s[n] # e, s[p] # e
       PROVE  \E k, m \in DOMAIN t : k < m /\ s[n] = t[k] /\ s[p] = t[m]
  <2>. DEFINE k == IF n < i THEN n ELSE n - 1
              m == IF p < i THEN p ELSE p - 1
  <2>1. n # i /\ p # i BY <1>1, <1>12
  <2>2. k \in DOMAIN t /\ From(k) = n /\ m \in DOMAIN t /\ From(m) = p BY <1>b, <2>1
  <2>3. k < m BY <1>2, <1>12, <2>1
  <2>4. s[n] = t[k] /\ s[p] = t[m] BY <1>7, <2>2
  <2>. QED BY <2>2, <2>3, <2>4
<1>. QED BY <1>3, <1>4, <1>5, <1>9, <1>10, <1>11, <1>12

\* What a sequence has in common with itself behind a new first element.
LEMMA PrependProperties ==
  ASSUME NEW S, NEW s \in Seq(S), NEW e \in S
  PROVE  /\ <<e>> \o s \in Seq(S) /\ Len(<<e>> \o s) = Len(s) + 1
         /\ (<<e>> \o s)[1] = e /\ \A k \in 1 .. Len(s) : (<<e>> \o s)[k + 1] = s[k]
         /\ Range(<<e>> \o s) = Range(s) \cup {e}
         /\ IsInjective(s) /\ e \notin Range(s) => IsInjective(<<e>> \o s)
<1>. DEFINE t == <<e>> \o s
            n == Len(s)
<1>1. n \in Nat /\ DOMAIN s = 1 .. n OBVIOUS
<1>2. /\ t \in Seq(S) /\ Len(t) = n + 1
      /\ \A k \in 1 .. n + 1 : t[k] = IF k = 1 THEN e ELSE s[k - 1]
  OBVIOUS
<1>3. DOMAIN t = 1 .. n + 1 BY <1>1, <1>2
<1>. HIDE DEF t, n
<1>4. t[1] = e /\ 1 \in DOMAIN t BY <1>1, <1>2, <1>3
<1>5. ASSUME NEW k \in 1 .. n PROVE t[k + 1] = s[k] /\ k + 1 \in DOMAIN t
  BY <1>1, <1>2, <1>3
<1>6. ASSUME NEW k \in DOMAIN t, k # 1 PROVE k - 1 \in DOMAIN s /\ t[k] = s[k - 1]
  BY <1>1, <1>2, <1>3, <1>6
<1>7. Range(t) = Range(s) \cup {e}
  <2>1. ASSUME NEW k \in DOMAIN t PROVE t[k] \in Range(s) \cup {e}
    BY <1>4, <1>6 DEF Range
  <2>2. e \in Range(t) BY <1>4 DEF Range
  <2>3. ASSUME NEW k \in DOMAIN s PROVE s[k] \in Range(t) BY <1>1, <1>5 DEF Range
  <2>. QED BY <2>1, <2>2, <2>3 DEF Range
<1>8. ASSUME IsInjective(s), e \notin Range(s) PROVE IsInjective(t)
  <2>. SUFFICES ASSUME NEW k \in DOMAIN t, NEW m \in DOMAIN t, t[k] = t[m] PROVE k = m
    BY DEF IsInjective
  <2>1. CASE k # 1 /\ m # 1
    <3>1. k - 1 = m - 1 BY <2>1, <1>6, <1>8 DEF IsInjective
    <3>. QED BY <3>1, <1>1, <1>3
  <2>2. CASE k = 1 \/ m = 1 BY <2>2, <1>4, <1>6, <1>8 DEF Range
  <2>. QED BY <2>1, <2>2
<1>. QED BY <1>2, <1>4, <1>5, <1>7, <1>8 DEF t, n

=============================================================================
