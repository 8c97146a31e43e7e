-------------------------------- MODULE Acl --------------------------------
(***************************************************************************)
(* Permissions of directories: CheckPermission (table/dir_table_base.h),    *)
(* the checks that MkdirsOp and ListDirOp make with it, and the Acl that    *)
(* MkdirsOp gives to a new directory.                                       *)
(*                                                                          *)
(* A permission word is the set of its bit positions: bits 0, 1, 2 are      *)
(* execute, write and read of the others class, 3 to 5 of the group, 6 to 8 *)
(* of the user, and 9 to 11 are S_ISVTX, S_ISGID and S_ISUID.  A left shift *)
(* adds to every position; no bit of the 64-bit word falls off.             *)
(***************************************************************************)
EXTENDS Naturals

S_IWOTH == {1}
S_IRUSR == {8}
S_ISGID == {10}
ALLPERMS == 0..11

Shift(perm, n) == {b + n : b \in perm}

PermNeeded(acl, user, perm) ==
    IF user.uid = 0 THEN {}
    ELSE IF user.uid = acl.uid THEN Shift(perm, 6)
    ELSE IF user.gid = acl.gid THEN Shift(perm, 3)
    ELSE perm

CheckPermission(acl, user, perm) == PermNeeded(acl, user, perm) \subseteq acl.perm

\* The check MkdirsOp makes on the parent, and the one ListDirOp makes.
MayMkdir(acl, user) == CheckPermission(acl, user, S_IWOTH)
MayList(acl, user) == CheckPermission(acl, user, S_IRUSR)

\* The Acl of a directory that user creates with mode under a parent.
ChildAcl(parent, user, mode) ==
    LET inherits == S_ISGID \subseteq parent.perm
    IN  [uid  |-> user.uid,
         gid  |-> IF inherits THEN parent.gid ELSE user.gid,
         perm |-> (mode \cap ALLPERMS) \cup (IF inherits THEN S_ISGID ELSE {})]

\* The rule in the comment on Acl, to compare the code with: the bits of the one
\* class that applies to a user, the user class, else the group class, else others.
ClassBits(acl, user) ==
    LET applies(low) ==
            \/ low = 6 /\ user.uid = acl.uid
            \/ low = 3 /\ user.uid # acl.uid /\ user.gid = acl.gid
            \/ low = 0 /\ user.uid # acl.uid /\ user.gid # acl.gid
    IN  {b \in 0..2 : \E low \in {0, 3, 6} : applies(low) /\ b + low \in acl.perm}
============================================================================
