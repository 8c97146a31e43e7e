----------------------------- MODULE AclProofs -----------------------------
(***************************************************************************)
(* What CheckPermission grants, for all users, groups and permission words: *)
(* the class rule for the bits of the others class, and what becomes of a   *)
(* bit of another class, as ListDirOp passes it.                            *)
(***************************************************************************)
EXTENDS Acl, TLAPS

\* A user other than root needs the given bits in the class that applies.
LEMMA NeededBits ==
    ASSUME NEW a, NEW user, NEW perm, user.uid # 0
    PROVE  CheckPermission(a, user, perm) <=>
               \/ user.uid = a.uid /\ Shift(perm, 6) \subseteq a.perm
               \/ user.uid # a.uid /\ user.gid = a.gid /\ Shift(perm, 3) \subseteq a.perm
               \/ user.uid # a.uid /\ user.gid # a.gid /\ perm \subseteq a.perm
BY Zenon DEF CheckPermission, PermNeeded

\* A check for bits of the others class follows the comment on Acl: the one class
\* that applies decides, an owner who is denied gains nothing from the bits of the
\* group or of others, and only uid 0 is exempt.
THEOREM ClassDecides ==
    ASSUME NEW a, NEW user, NEW perm \in SUBSET (0..2)
    PROVE  CheckPermission(a, user, perm) <=>
               user.uid = 0 \/ perm \subseteq ClassBits(a, user)
<1>1. CASE user.uid = 0
  BY <1>1, Zenon DEF CheckPermission, PermNeeded
<1>2. CASE user.uid # 0
  <2>1. /\ Shift(perm, 6) \subseteq a.perm <=> \A b \in perm : b + 6 \in a.perm
        /\ Shift(perm, 3) \subseteq a.perm <=> \A b \in perm : b + 3 \in a.perm
    BY Zenon DEF Shift
  <2>2. perm \subseteq a.perm <=> \A b \in perm : b + 0 \in a.perm
    <3>1. \A b \in 0..2 : b + 0 = b
      OBVIOUS
    <3> QED
      BY <3>1, Zenon
  <2>3. CASE user.uid = a.uid
    <3>1. ClassBits(a, user) = {b \in 0..2 : b + 6 \in a.perm}
      BY <2>3 DEF ClassBits
    <3> QED
      BY <1>2, <2>1, <2>3, <3>1, NeededBits, Zenon
  <2>4. CASE user.uid # a.uid /\ user.gid = a.gid
    <3>1. ClassBits(a, user) = {b \in 0..2 : b + 3 \in a.perm}
      BY <2>4 DEF ClassBits
    <3> QED
      BY <1>2, <2>1, <2>4, <3>1, NeededBits, Zenon
  <2>5. CASE user.uid # a.uid /\ user.gid # a.gid
    <3>1. ClassBits(a, user) = {b \in 0..2 : b + 0 \in a.perm}
      BY <2>5 DEF ClassBits
    <3> QED
      BY <1>2, <2>2, <2>5, <3>1, NeededBits, Zenon
  <2> QED
    BY <2>3, <2>4, <2>5
<1> QED
  BY <1>1, <1>2

\* ListDirOp passes S_IRUSR, a bit of the user class, which CheckPermission shifts
\* once more: no permission word lets its owner list a directory, unless that is
\* uid 0, and the group needs S_ISUID for it.
THEOREM ListShiftsTwice ==
    ASSUME NEW a, NEW user, a.perm \subseteq ALLPERMS, user.uid # 0
    PROVE  MayList(a, user) <=>
               \/ user.uid # a.uid /\ user.gid = a.gid /\ 11 \in a.perm
               \/ user.uid # a.uid /\ user.gid # a.gid /\ 8 \in a.perm
<1>1. Shift(S_IRUSR, 6) = {14} /\ Shift(S_IRUSR, 3) = {11}
  BY DEF Shift, S_IRUSR
<1>2. 14 \notin a.perm
  BY DEF ALLPERMS
<1>3. MayList(a, user) <=>
         \/ user.uid = a.uid /\ {14} \subseteq a.perm
         \/ user.uid # a.uid /\ user.gid = a.gid /\ {11} \subseteq a.perm
         \/ user.uid # a.uid /\ user.gid # a.gid /\ S_IRUSR \subseteq a.perm
  BY <1>1, NeededBits DEF MayList
<1> QED
  BY <1>2, <1>3 DEF S_IRUSR
=============================================================================
