---------------------------- MODULE SocketTable ----------------------------
(***************************************************************************)
(* SOCKET_INFO_TAB, the tracer's table of the TCP sockets it has seen      *)
(* (util.c), and the keys the tracer files them under (main.c).            *)
(*                                                                         *)
(* A key is made by `(fd << 31) + pid` and is compared by uthash's         *)
(* HASH_FIND_INT / HASH_ADD_INT, which look at sizeof(int) bytes of the    *)
(* 64-bit magic_fd: its low 32 bits.  HighBit stands for 2^31, so a key is *)
(* a number below 2 * HighBit and a pid, being a positive int, is below    *)
(* HighBit.                                                                *)
(*                                                                         *)
(* uthash keeps entries with equal keys: HASH_ADD prepends to the bucket,  *)
(* HASH_FIND returns the first match, and the program only ever deletes    *)
(* the entry it has just found.  What it can see of the table is therefore *)
(* one stack of entries per key (Uthash: NewestFirst, IsMultimap), until a *)
(* chain reaches ten entries, HASH_ADD expands the table and every chain   *)
(* is reversed.  Entries that exited processes leave behind make chains    *)
(* grow; TableGrows says whether that may come to an expansion.            *)
(***************************************************************************)
EXTENDS Integers, SequencesExt

CONSTANTS
  HighBit,      \* 2^31 in the build: the bit `<< 31` moves fd's low bit to
  TableGrows    \* may HASH_ADD find a chain full and expand the table?

ASSUME HighBitAssumption == HighBit \in Nat \ {0} /\ TableGrows \in BOOLEAN

MAGIC_FD == 7777777     \* stands for the fd while socket(2) is still running

Keys == 0 .. (2 * HighBit - 1)

\* (fd << 31) + pid, as far as uthash compares it
Key(fd, pid) == (fd * HighBit + pid) % (2 * HighBit)

\* calloc'ed socket_info: fresh says that less than MIN_CLOSE_MSEC have passed
\* since conn_ti; an all-zero conn_ti is never fresh
SocketInfo == [fd : Int, fresh : BOOLEAN]

EmptyTable == [k \in Keys |-> <<>>]

HasSocketInfo(tab, k) == tab[k] # <<>>

find_socket_info(tab, k) == Head(tab[k])

\* the table before and after an expansion
Expanded(tab) == [k \in Keys |-> Reverse(tab[k])]
Expansions(tab) == IF TableGrows THEN {tab, Expanded(tab)} ELSE {tab}

\* the tables that HASH_ADD may leave
add_socket_info(tab, k, si) == Expansions([tab EXCEPT ![k] = <<si>> \o @])

\* always applied to the entry find_socket_info has just returned for k
del_socket_info(tab, k) == [tab EXCEPT ![k] = Tail(@)]

\* the entry find_socket_info returns for k, updated in place
set_socket_info(tab, k, si) == [tab EXCEPT ![k] = <<si>> \o Tail(@)]

=============================================================================
