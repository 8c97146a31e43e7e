------------------------------ MODULE AclCheck ------------------------------
(***************************************************************************)
(* The permission check of MkdirsOp over bounded inputs: it is asked about  *)
(* directories with any Acl, as DirTableBase lets a table return it.        *)
(* (KVDirTable itself returns only the root's Acl and an empty one, see     *)
(* DirTable, so that some of these answers do not yet reach a user.)        *)
(***************************************************************************)
EXTENDS Acl

CONSTANTS Uids, Gids, Bits      \* the ids of users and groups, and the bits Acls differ in

VARIABLES
    acl,    \* of the directory
    asked   \* the last question: operation, user and answer

vars == <<acl, asked>>

UserIds == [uid : Uids, gid : Gids]
Acls == [uid : Uids, gid : Gids, perm : SUBSET Bits]
NoQuestion == [op |-> "none"]

Init == acl \in Acls /\ asked = NoQuestion

\* MkdirsOp in the directory.
Mkdir(user) ==
    /\ asked' = [op |-> "mkdir", user |-> user, allowed |-> MayMkdir(acl, user)]
    /\ UNCHANGED acl

Next == \E user \in UserIds : Mkdir(user)

Spec == Init /\ [][Next]_vars

----------------------------------------------------------------------------
\* MkdirsOp lets a user create an entry only with both the write and the execute
\* bit of the class that applies, as the comment on Acl says: without execute "the
\* write perm is meaningless for directories".  Only uid 0 is exempt.
WriteNeedsExecute ==
    asked.op = "mkdir" /\ asked.allowed =>
        asked.user.uid = 0 \/ {0, 1} \subseteq ClassBits(acl, asked.user)
=============================================================================
