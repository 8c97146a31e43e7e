---------------------------- MODULE MCDirTable ----------------------------
(***************************************************************************)
(* DirTable and DEntKeys for TLC: the Acl every row reads back with and one *)
(* other, and names that are prefixes of each other.  With three values of  *)
(* a byte and two bytes of an id, the ids 2 and 3 are 0,2 and 1,0: the last *)
(* byte of the first is the one that ends a range.                          *)
(***************************************************************************)
EXTENDS DEntKeys

AclsFew == {NoAcl, [uid |-> 1, gid |-> 1, perm |-> 0..8]}
BytesFew == [n \in 0..2 |-> CASE n = 0 -> <<>> [] n = 1 -> <<1>> [] n = 2 -> <<1, 0>>]
===========================================================================
