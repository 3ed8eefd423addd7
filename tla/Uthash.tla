------------------------------- MODULE Uthash -------------------------------
(***************************************************************************)
(* uthash.h, the hash table behind SOCKET_INFO_TAB and PROC_INFO_TAB, with *)
(* the operations util.c uses: HASH_ADD_INT, HASH_FIND_INT and HASH_DEL of *)
(* the item just found.  A table has buckets, each a chain of the items'   *)
(* hash handles, and a list of all items in the order they were added.  A  *)
(* chain that gets too long makes the table double its buckets, until two  *)
(* doublings in a row have not helped.                                     *)
(*                                                                         *)
(* A chain and the application order are sequences of handles, so their    *)
(* hh_prev and prev links cannot disagree with the hh_next and next links. *)
(* uthash_malloc does not fail.                                            *)
(***************************************************************************)
EXTENDS Integers, FiniteSets, SequencesExt

CONSTANTS
  Items,                      \* structures with a hash handle in them
  Keys,
  Hash,                       \* hash value of each key
  HASH_INITIAL_NUM_BUCKETS,   \* 32 in the build
  HASH_BKT_CAPACITY_THRESH,   \* 10 in the build
  MaxBuckets,                 \* BOUND: the code doubles num_buckets without limit
  NULL

ASSUME UthashAssumption ==
  /\ Hash \in [Keys -> Nat]
  /\ HASH_INITIAL_NUM_BUCKETS \in Nat \ {0}
  /\ HASH_BKT_CAPACITY_THRESH \in Nat \ {0}
  /\ MaxBuckets \in Nat
  /\ NULL \notin [elmt : Items, key : Keys]

VARIABLES
  order,    \* the items in application order; <<>> is a head that is NULL
  tbl,      \* the table, NULL when there is no item
  out       \* result of the last HASH_FIND

vars == <<order, tbl, out>>

-----------------------------------------------------------------------------

UT_hash_handle(elmt, key) == [elmt |-> elmt, key |-> key]

UT_hash_bucket == [hh_head |-> <<>>, count |-> 0, expand_mult |-> 0]

HASH_TO_BKT(hashv, num_bkts) == hashv % num_bkts

\* the hash function of the build is HASH_JEN
HASH_FCN(key, num_bkts) == HASH_TO_BKT(Hash[key], num_bkts)

HASH_MAKE_TABLE ==
  [buckets |-> [b \in 0 .. HASH_INITIAL_NUM_BUCKETS - 1 |-> UT_hash_bucket],
   num_buckets |-> HASH_INITIAL_NUM_BUCKETS, num_items |-> 0,
   ideal_chain_maxlen |-> 0, ineff_expands |-> 0, noexpand |-> FALSE]

\* the first in the chain
HASH_FIND_IN_BKT(bkt, key) ==
  LET same == {n \in DOMAIN bkt.hh_head : bkt.hh_head[n].key = key}
  IN  IF same = {} THEN NULL ELSE bkt.hh_head[Min(same)]

\* the chain that bucket b of num has when the items of an old chain have been taken
\* one by one and prepended to their new chains
Rehashed(chain, num, b) ==
  LET hh_head[n \in 0 .. Len(chain)] ==
        IF n = 0 THEN <<>>
        ELSE IF HASH_FCN(chain[n].key, num) = b THEN <<chain[n]>> \o hh_head[n - 1]
        ELSE hh_head[n - 1]
  IN  hh_head[Len(chain)]

\* the items beyond the ideal length of their chain
NonIdeal(chains, ideal_chain_maxlen) ==
  LET over == {b \in DOMAIN chains : Len(chains[b]) > ideal_chain_maxlen}
  IN  MapThenSumSet(LAMBDA b : Len(chains[b]) - ideal_chain_maxlen, over)

\* mutant: the items are put where they were in the smaller table
HASH_EXPAND_BUCKETS_OldMask(t) ==
  LET num == 2 * t.num_buckets
      Moved(b) == Rehashed(t.buckets[b % t.num_buckets].hh_head, t.num_buckets, b)
  IN [t EXCEPT !.num_buckets = num,
               !.buckets = [b \in 0 .. num - 1 |->
                  [hh_head |-> Moved(b), count |-> Len(Moved(b)), expand_mult |-> Len(Moved(b))]]]

\* an item goes from its old bucket b to b or b + num_buckets
HASH_EXPAND_BUCKETS(t) ==
  LET num == 2 * t.num_buckets
      ideal_chain_maxlen ==
        t.num_items \div num + (IF t.num_items % num # 0 THEN 1 ELSE 0)
      moved == [b \in 0 .. num - 1 |->
                  Rehashed(t.buckets[b % t.num_buckets].hh_head, num, b)]
      ineff_expands ==
        IF NonIdeal(moved, ideal_chain_maxlen) > t.num_items \div 2
        THEN t.ineff_expands + 1 ELSE 0
  IN
  [t EXCEPT !.num_buckets = num,
            !.ideal_chain_maxlen = ideal_chain_maxlen,
            !.buckets = [b \in 0 .. num - 1 |->
               [hh_head |-> moved[b], count |-> Len(moved[b]),
                expand_mult |-> IF Len(moved[b]) > ideal_chain_maxlen
                                THEN Len(moved[b]) \div ideal_chain_maxlen ELSE 0]],
            !.ineff_expands = ineff_expands,
            !.noexpand = @ \/ ineff_expands > 1]

\* mutant: the new item is put at the end of the chain
HASH_ADD_TO_BKT_Last(t, b, h) ==
  LET added == [t EXCEPT !.buckets[b].count = @ + 1,
                         !.buckets[b].hh_head = Append(@, h)]
      bkt == added.buckets[b]
  IN
  IF bkt.count >= (bkt.expand_mult + 1) * HASH_BKT_CAPACITY_THRESH /\ ~t.noexpand
  THEN HASH_EXPAND_BUCKETS(added) ELSE added

\* mutant: the chain may reach the threshold
HASH_ADD_TO_BKT_Late(t, b, h) ==
  LET added == [t EXCEPT !.buckets[b].count = @ + 1,
                         !.buckets[b].hh_head = <<h>> \o @]
      bkt == added.buckets[b]
  IN
  IF bkt.count > (bkt.expand_mult + 1) * HASH_BKT_CAPACITY_THRESH /\ ~t.noexpand
  THEN HASH_EXPAND_BUCKETS(added) ELSE added

HASH_ADD_TO_BKT(t, b, h) ==
  LET added == [t EXCEPT !.buckets[b].count = @ + 1,
                         !.buckets[b].hh_head = <<h>> \o @]
      bkt == added.buckets[b]
  IN
  IF bkt.count >= (bkt.expand_mult + 1) * HASH_BKT_CAPACITY_THRESH /\ ~t.noexpand
  THEN HASH_EXPAND_BUCKETS(added) ELSE added

\* mutant: the count stays
HASH_DEL_IN_BKT_KeepCount(bkt, h) == [bkt EXCEPT !.hh_head = RemoveFirst(@, h)]

HASH_DEL_IN_BKT(bkt, h) == [bkt EXCEPT !.count = @ - 1, !.hh_head = RemoveFirst(@, h)]

-----------------------------------------------------------------------------

Init == order = <<>> /\ tbl = NULL /\ out = NULL

\* HASH_ADD_KEYPTR; the program adds no item twice
HASH_ADD(i, k) ==
  LET h == UT_hash_handle(i, k)
      t == IF order = <<>> THEN HASH_MAKE_TABLE ELSE tbl
  IN
  /\ \A n \in DOMAIN order : order[n].elmt # i
  /\ order' = Append(order, h)
  /\ tbl' = HASH_ADD_TO_BKT([t EXCEPT !.num_items = @ + 1], HASH_FCN(k, t.num_buckets), h)
  /\ tbl'.num_buckets <= MaxBuckets
  /\ UNCHANGED out

HASH_FIND(k) ==
  /\ out' = IF order = <<>> THEN NULL
            ELSE HASH_FIND_IN_BKT(tbl.buckets[HASH_FCN(k, tbl.num_buckets)], k)
  /\ UNCHANGED <<order, tbl>>

\* with its last item the table goes
HASH_DELETE ==
  /\ out # NULL
  /\ order' = RemoveFirst(order, out)
  /\ tbl' = IF order = <<out>> THEN NULL
            ELSE [tbl EXCEPT !.num_items = @ - 1,
                             !.buckets[HASH_FCN(out.key, tbl.num_buckets)] =
                                HASH_DEL_IN_BKT(@, out)]
  /\ out' = NULL

Next ==
  \/ \E i \in Items, k \in Keys : HASH_ADD(i, k)
  \/ \E k \in Keys : HASH_FIND(k)
  \/ HASH_DELETE

Spec == Init /\ [][Next]_vars

-----------------------------------------------------------------------------
(* Properties *)

\* the places in the chains
Places(t) == UNION {{b} \X DOMAIN t.buckets[b].hh_head : b \in DOMAIN t.buckets}

\* HASH_FSCK, the check uthash makes after every add and delete when it is
\* compiled for debugging: the count of every bucket is the length of its chain,
\* and both the chains and the application order have num_items items.
Fsck ==
  order # <<>> =>
    /\ \A b \in DOMAIN tbl.buckets : tbl.buckets[b].count = Len(tbl.buckets[b].hh_head)
    /\ tbl.num_items = Cardinality(Places(tbl))
    /\ tbl.num_items = Len(order)

Precedes(s, x, y) == \E i, j \in DOMAIN s : i < j /\ s[i] = x /\ s[j] = y

\* Until its first expansion a chain has the items that belong there in reverse order of
\* addition, so that of several items with one key HASH_FIND returns the one added last:
\* for util.c the table is a stack of entries per key, as SocketTable has it.
NewestFirst ==
  order # <<>> /\ tbl.num_buckets = HASH_INITIAL_NUM_BUCKETS =>
    \A b \in DOMAIN tbl.buckets :
      LET chain == tbl.buckets[b].hh_head
      IN  /\ Range(chain) = {h \in Range(order) : HASH_FCN(h.key, tbl.num_buckets) = b}
          /\ \A h, g \in Range(chain) : Precedes(chain, h, g) => Precedes(order, g, h)

\* "by expanding buckets the hash keeps a bound on the chain length": unless
\* expansion has been given up, every chain is shorter than the multiple of the
\* threshold that expand_mult allows, or than the same multiple of the ideal length
\* where that was already above the threshold.
ChainBounded ==
  order # <<>> /\ ~tbl.noexpand =>
    \A b \in DOMAIN tbl.buckets :
      tbl.buckets[b].count < (tbl.buckets[b].expand_mult + 1)
                              * Max({HASH_BKT_CAPACITY_THRESH, tbl.ideal_chain_maxlen + 1})

Abstract == INSTANCE Multimap WITH entries <- Range(order), found <- out

\* uthash implements a multimap: whatever expansions there have been, HASH_FIND
\* returns an item with the key if and only if the table has one.
IsMultimap == Abstract!Spec

=============================================================================
