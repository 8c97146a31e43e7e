--------------------------- MODULE NameNodeProofs ---------------------------
(***************************************************************************)
(* Machine-checked proofs about NameNode, for any names, users, modes and   *)
(* limits, any number of requests, failures and restarts, and whatever ids  *)
(* the generator returns: every parent and every entry names a directory    *)
(* that can be read, the ids that were given in order make a tree whose     *)
(* entries resolve, and the NameNode implements DirTree.                    *)
(***************************************************************************)
EXTENDS NameNode, SequenceTheorems, TLAPS

------------------------------------------------------------------------------
\* The inductive invariant.  Every state of RocksDB that a crash may return to
\* is closed: its directories have an id that Next returned, a stored parent and
\* both times, and its entries name stored directories.  Where the ids came in
\* order it is a tree as well: a directory is newer than its parent, and an
\* entry leads to a directory with its parent and name.
IsSeq(s) == \E S : s \in Seq(S)

NewIds == 1..MaxInodeID

ShapeOK(s, id) ==
    /\ s.inode[id] \in [parent_id : Nat, name : Names, id : Nat, ctime_in_ns : Nat]
    /\ s.inode[id].parent_id \in {kRootInodeID} \cup DOMAIN s.inode
    /\ s.mtime[id] \in Times /\ s.atime[id] \in Times

DEntOK(s, k) ==
    /\ k \in ReqIds \X Names
    /\ s.dent[k] \in [parent_id : Nat, name : Names, id : Nat]
    /\ s.dent[k].id \in DOMAIN s.inode

ClosedOK(s) ==
    /\ DOMAIN s.inode \subseteq NewIds
    /\ DOMAIN s.mtime = DOMAIN s.inode /\ DOMAIN s.atime = DOMAIN s.inode
    /\ \A id \in DOMAIN s.inode : ShapeOK(s, id)
    /\ \A k \in DOMAIN s.dent : DEntOK(s, k)

TreeOK(s, given, late) ==
    /\ DOMAIN s.inode \subseteq given
    /\ \A id \in DOMAIN s.inode : id \notin late => s.inode[id].parent_id < id
    /\ \A k \in DOMAIN s.dent :
          s.dent[k].id \notin late =>
             <<s.inode[s.dent[k].id].parent_id, s.inode[s.dent[k].id].name>> = k

NNInv ==
    /\ used \subseteq NewIds /\ unordered \subseteq used
    /\ IsSeq(log)
    /\ Len(log) \in 1..MaxCreations + 1
    /\ \A i \in 1..Len(log) : ClosedOK(log[i]) /\ TreeOK(log[i], used, unordered)
    /\ alive \in BOOLEAN
    /\ restarts \in 0..MaxRestarts
    /\ DotDotPresent

\* The ids of the generator are ids that requests may name.
LEMMA NewIdsTyped ==
    /\ NewIds = ReqIds \ {0} /\ NewIds \subseteq Nat \ {0} /\ ReqIds \subseteq Nat
    /\ kRootInodeID \in NewIds
BY NameNodeAssumption DEF NewIds, ReqIds, kRootInodeID

LEMMA TimesTyped == Times \subseteq Nat
BY NameNodeAssumption

\* What KVDirTable::Read finds in a closed state.
LEMMA ClosedFinds ==
    ASSUME NEW s, ClosedOK(s), NEW id \in Nat
    PROVE  /\ ReadDir(s, id) # CheckFailed
           /\ ReadDir(s, id) = NoDir <=> id \notin {kRootInodeID} \cup DOMAIN s.inode
           /\ ReadDir(s, id) # NoDir => ReadDir(s, id) \in Dirs
           /\ id \in DOMAIN s.inode => ReadDir(s, id).parent_id = s.inode[id].parent_id
<1>1. NoDir \notin Dirs /\ CheckFailed \notin Dirs /\ CheckFailed # NoDir
  BY NameNodeAssumption
<1>2. RootDir \in Dirs
  BY DEF RootDir, Dirs, RootAcl, kRootInodeID
<1>3. ASSUME id \in DOMAIN s.inode
      PROVE  ReadDir(s, id) \in Dirs /\ ReadDir(s, id).parent_id = s.inode[id].parent_id
  <2> DEFINE v == s.inode[id]
             r == [parent_id |-> v.parent_id, name |-> v.name, id |-> v.id, acl |-> NoAcl,
                   ctime_in_ns |-> v.ctime_in_ns, mtime_in_ns |-> s.mtime[id],
                   atime_in_ns |-> s.atime[id]]
  <2>1. /\ v \in [parent_id : Nat, name : Names, id : Nat, ctime_in_ns : Nat]
        /\ s.mtime[id] \in Nat /\ s.atime[id] \in Nat
        /\ id \in DOMAIN s.mtime /\ id \in DOMAIN s.atime
    BY <1>3, TimesTyped, Zenon DEF ClosedOK, ShapeOK
  <2>2. ReadDir(s, id) = [InodeDeVal(v) EXCEPT !.mtime_in_ns = s.mtime[id],
                                               !.atime_in_ns = s.atime[id]]
    BY <1>3, <2>1 DEF ReadDir
  <2>3. ReadDir(s, id) = r
    <3> HIDE DEF v
    <3> QED
      BY <2>2, Zenon DEF InodeDeVal
  <2>4. NoAcl \in [uid : Nat, gid : Nat, perm : SUBSET Nat]
    BY DEF NoAcl
  <2>5. r \in Dirs
    <3> HIDE DEF v
    <3> QED
      BY <2>1, <2>4, NameNodeAssumption, Zenon DEF Dirs
  <2> QED
    BY <2>3, <2>5
<1>4. id \notin DOMAIN s.inode
        => ReadDir(s, id) = IF id = kRootInodeID THEN RootDir ELSE NoDir
  BY Zenon DEF ReadDir
<1> QED
  BY <1>1, <1>2, <1>3, <1>4, Zenon

\* What KVDirTable::Write(std::nullopt, dir) makes of a state.
Puts(new, old, key, val) ==
    /\ DOMAIN new = DOMAIN old \cup {key}
    /\ new[key] = val
    /\ \A k \in DOMAIN old \ {key} : new[k] = old[k]

LEMMA PutNew ==
    ASSUME NEW cf, NEW key, NEW val
    PROVE  Puts(PutKey(DelKeys(cf, {}), key, val), cf, key, val)
BY DEF Puts, PutKey, DelKeys

LEMMA WriteNew ==
    ASSUME NEW s, NEW dir \in Dirs
    PROVE  /\ Puts(WriteDir(s, NoDir, dir).inode, s.inode, dir.id, InodeSerVal(dir))
           /\ Puts(WriteDir(s, NoDir, dir).mtime, s.mtime, dir.id, dir.mtime_in_ns)
           /\ Puts(WriteDir(s, NoDir, dir).atime, s.atime, dir.id, dir.atime_in_ns)
           /\ Puts(WriteDir(s, NoDir, dir).dent, s.dent, <<dir.parent_id, dir.name>>,
                   DEntSerVal(dir))
<1>1. dir # NoDir
  BY NameNodeAssumption
<1>2. WriteDir(s, NoDir, dir).inode = PutKey(DelKeys(s.inode, {}), dir.id, InodeSerVal(dir))
  <2>1. WriteDir(s, NoDir, dir).inode =
           SerdeWrite(s.inode, NoDir, dir, InodeSerKey(NoDir), InodeSerKey(dir),
                      InodeSerVal(dir), InodeIsKeyChanged(NoDir, dir),
                      InodeIsValueChanged(NoDir, dir))
    BY Zenon DEF WriteDir
  <2>2. WriteDir(s, NoDir, dir).inode =
           PutKey(DelKeys(s.inode, {}), InodeSerKey(dir), InodeSerVal(dir))
    BY <1>1, <2>1, Zenon DEF SerdeWrite
  <2> QED
    BY <2>2, Zenon DEF InodeSerKey
<1>3. WriteDir(s, NoDir, dir).mtime = PutKey(DelKeys(s.mtime, {}), dir.id, dir.mtime_in_ns)
  <2>1. WriteDir(s, NoDir, dir).mtime =
           SerdeWrite(s.mtime, NoDir, dir, MTimeSerKey(NoDir), MTimeSerKey(dir),
                      MTimeSerVal(dir), MTimeIsKeyChanged(NoDir, dir),
                      MTimeIsValueChanged(NoDir, dir))
    BY Zenon DEF WriteDir
  <2>2. WriteDir(s, NoDir, dir).mtime =
           PutKey(DelKeys(s.mtime, {}), MTimeSerKey(dir), MTimeSerVal(dir))
    BY <1>1, <2>1, Zenon DEF SerdeWrite
  <2> QED
    BY <2>2, Zenon DEF MTimeSerKey, MTimeSerVal
<1>4. WriteDir(s, NoDir, dir).atime = PutKey(DelKeys(s.atime, {}), dir.id, dir.atime_in_ns)
  <2>1. WriteDir(s, NoDir, dir).atime =
           SerdeWrite(s.atime, NoDir, dir, ATimeSerKey(NoDir), ATimeSerKey(dir),
                      ATimeSerVal(dir), ATimeIsKeyChanged(NoDir, dir),
                      ATimeIsValueChanged(NoDir, dir))
    BY Zenon DEF WriteDir
  <2>2. WriteDir(s, NoDir, dir).atime =
           PutKey(DelKeys(s.atime, {}), ATimeSerKey(dir), ATimeSerVal(dir))
    BY <1>1, <2>1, Zenon DEF SerdeWrite
  <2> QED
    BY <2>2, Zenon DEF ATimeSerKey, ATimeSerVal
<1>5. WriteDir(s, NoDir, dir).dent = PutKey(DelKeys(s.dent, {}), <<dir.parent_id, dir.name>>, DEntSerVal(dir))
  <2>1. WriteDir(s, NoDir, dir).dent =
           SerdeWrite(s.dent, NoDir, dir, DEntSerKey(NoDir), DEntSerKey(dir),
                      DEntSerVal(dir), DEntIsKeyChanged(NoDir, dir),
                      DEntIsValueChanged(NoDir, dir))
    BY Zenon DEF WriteDir
  <2>2. WriteDir(s, NoDir, dir).dent =
           PutKey(DelKeys(s.dent, {}), DEntSerKey(dir), DEntSerVal(dir))
    BY <1>1, <2>1, Zenon DEF SerdeWrite
  <2> QED
    BY <2>2, Zenon DEF DEntSerKey
<1> QED
  BY <1>2, <1>3, <1>4, <1>5, PutNew, Zenon

\* What Mkdirs writes keeps a state closed, also under an id that is in use.
LEMMA CreateClosed ==
    ASSUME NEW s, ClosedOK(s), NEW id \in NewIds,
           NEW p \in {kRootInodeID} \cup DOMAIN s.inode, NEW n \in Names,
           NEW acl \in [uid : Nat, gid : Nat, perm : SUBSET Nat],
           NEW t \in Times
    PROVE  /\ NewDir(p, n, id, acl, t) \in Dirs
           /\ ClosedOK(WriteDir(s, NoDir, NewDir(p, n, id, acl, t)))
<1> DEFINE dir == NewDir(p, n, id, acl, t)
           w == WriteDir(s, NoDir, dir)
           val == [parent_id |-> p, name |-> n, id |-> id, ctime_in_ns |-> t]
           key == <<p, n>>
<1>1. p \in Nat /\ p \in ReqIds /\ id \in Nat /\ t \in Nat /\ n \in Nat
  <2>1. p = kRootInodeID \/ p \in NewIds
    BY Zenon DEF ClosedOK
  <2>2. p \in Nat /\ p \in ReqIds
    BY <2>1, NewIdsTyped, Zenon
  <2>3. id \in Nat /\ t \in Nat
    BY NewIdsTyped, TimesTyped, Zenon
  <2> QED
    BY <2>2, <2>3, NameNodeAssumption, Zenon
<1>2. dir \in Dirs
  BY <1>1, Zenon DEF NewDir, Dirs
<1>3. /\ dir.id = id /\ dir.parent_id = p /\ dir.name = n
      /\ dir.mtime_in_ns = t /\ dir.atime_in_ns = t
      /\ InodeSerVal(dir) = val
      /\ DEntSerVal(dir) = [parent_id |-> p, name |-> n, id |-> id]
  BY <1>1, Zenon DEF NewDir, InodeSerVal, DEntSerVal
<1>d. /\ DEntSerVal(dir).id = id
      /\ DEntSerVal(dir) \in [parent_id : Nat, name : Names, id : Nat]
  <2> HIDE DEF dir
  <2> QED
    BY <1>1, <1>3
<1> HIDE DEF dir
<1>4. /\ Puts(w.inode, s.inode, id, val)
      /\ Puts(w.mtime, s.mtime, id, t) /\ Puts(w.atime, s.atime, id, t)
      /\ Puts(w.dent, s.dent, key, DEntSerVal(dir))
  BY <1>2, <1>3, WriteNew, Zenon
<1> HIDE DEF w
<1>5. /\ DOMAIN w.inode = DOMAIN s.inode \cup {id}
      /\ DOMAIN w.mtime = DOMAIN w.inode /\ DOMAIN w.atime = DOMAIN w.inode
      /\ w.inode[id] = val /\ w.mtime[id] = t /\ w.atime[id] = t
      /\ \A i \in DOMAIN s.inode \ {id} : /\ w.inode[i] = s.inode[i]
                                          /\ w.mtime[i] = s.mtime[i] /\ w.atime[i] = s.atime[i]
  BY <1>4, Zenon DEF Puts, ClosedOK
<1>6. ASSUME NEW i \in DOMAIN w.inode PROVE ShapeOK(w, i)
  <2>1. CASE i = id
    <3>1. val \in [parent_id : Nat, name : Names, id : Nat, ctime_in_ns : Nat]
      BY <1>1, Zenon
    <3>2. val.parent_id = p
      OBVIOUS
    <3> HIDE DEF val
    <3> QED
      BY <1>5, <2>1, <3>1, <3>2, Zenon DEF ShapeOK
  <2>2. CASE i # id
    BY <1>5, <2>2, Zenon DEF ShapeOK, ClosedOK
  <2> QED
    BY <2>1, <2>2
<1>7. ASSUME NEW k \in DOMAIN w.dent
      PROVE  DEntOK(w, k)
  <2>1. CASE k = key
    BY <1>1, <1>4, <1>5, <1>d, <2>1, Zenon DEF Puts, DEntOK
  <2>2. CASE k # key
    <3>1. k \in DOMAIN s.dent /\ w.dent[k] = s.dent[k]
      BY <1>4, <2>2, Zenon DEF Puts
    <3> QED
      BY <1>5, <3>1, Zenon DEF ClosedOK, DEntOK
  <2> QED
    BY <2>1, <2>2, Zenon
<1>8. DOMAIN w.inode \subseteq NewIds
  BY <1>5, Zenon DEF ClosedOK
<1> QED
  BY <1>2, <1>5, <1>6, <1>7, <1>8, Zenon DEF ClosedOK, dir, w

\* More ids, and more of them out of order, change nothing for a stored state.
LEMMA MoreIDs ==
    ASSUME NEW s, NEW given, NEW late, NEW given2, NEW late2, TreeOK(s, given, late),
           given \subseteq given2, late \subseteq late2
    PROVE  TreeOK(s, given2, late2)
BY Zenon DEF TreeOK

\* What Mkdirs writes keeps a tree, when an id that is not above all others is
\* among the late ones: the parent was there, so it is older.
LEMMA CreateTree ==
    ASSUME NEW s, ClosedOK(s), NEW given \in SUBSET NewIds, NEW late, TreeOK(s, given, late),
           NEW id \in NewIds,
           NEW late2, late \subseteq late2,
           id \in late2 \/ \A i \in given \cup {kRootInodeID} : i < id,
           NEW p \in {kRootInodeID} \cup DOMAIN s.inode, NEW n \in Names,
           NEW acl \in [uid : Nat, gid : Nat, perm : SUBSET Nat],
           NEW t \in Times
    PROVE  TreeOK(WriteDir(s, NoDir, NewDir(p, n, id, acl, t)), given \cup {id}, late2)
<1> DEFINE dir == NewDir(p, n, id, acl, t)
           w == WriteDir(s, NoDir, dir)
           val == [parent_id |-> p, name |-> n, id |-> id, ctime_in_ns |-> t]
           key == <<p, n>>
<1>1. dir \in Dirs
  BY CreateClosed
<1>2. /\ dir.id = id /\ dir.parent_id = p /\ dir.name = n
      /\ InodeSerVal(dir) = val
      /\ DEntSerVal(dir).id = id
  BY Zenon DEF NewDir, InodeSerVal, DEntSerVal
<1>v. val.parent_id = p /\ val.name = n
  OBVIOUS
<1> HIDE DEF dir
<1>3. /\ Puts(w.inode, s.inode, id, val)
      /\ Puts(w.dent, s.dent, key, DEntSerVal(dir))
  BY <1>1, <1>2, WriteNew, Zenon
<1> HIDE DEF w, val
<1>4. /\ DOMAIN w.inode = DOMAIN s.inode \cup {id}
      /\ w.inode[id] = val
      /\ \A i \in DOMAIN s.inode \ {id} : w.inode[i] = s.inode[i]
  BY <1>3, Zenon DEF Puts
<1>5. DOMAIN s.inode \subseteq given
  BY DEF TreeOK
<1>6. id \notin late2 => p < id /\ id \notin given
  <2>1. ~(id < id)
    BY NewIdsTyped
  <2> QED
    BY <1>5, <2>1, Zenon
<1>7. ASSUME NEW i \in DOMAIN w.inode, i \notin late2 PROVE w.inode[i].parent_id < i
  <2>1. CASE i = id
    BY <1>4, <1>6, <1>7, <1>v, <2>1, Zenon
  <2>2. CASE i # id
    BY <1>4, <1>7, <2>2, Zenon DEF TreeOK
  <2> QED
    BY <2>1, <2>2
<1>8. ASSUME NEW k \in DOMAIN w.dent, w.dent[k].id \notin late2
      PROVE  <<w.inode[w.dent[k].id].parent_id, w.inode[w.dent[k].id].name>> = k
  <2>1. CASE k = key
    <3>1. w.dent[k].id = id
      BY <1>2, <1>3, <2>1, Zenon DEF Puts
    <3> QED
      BY <1>4, <1>v, <2>1, <3>1, Zenon
  <2>2. CASE k # key
    <3>1. k \in DOMAIN s.dent /\ w.dent[k] = s.dent[k]
      BY <1>3, <2>2, Zenon DEF Puts
    <3>2. s.dent[k].id \in DOMAIN s.inode
      BY <3>1, Zenon DEF ClosedOK, DEntOK
    <3>3. s.dent[k].id # id
      BY <1>5, <1>6, <1>8, <3>1, <3>2, Zenon
    <3>4. w.inode[w.dent[k].id] = s.inode[s.dent[k].id]
      BY <1>4, <3>1, <3>2, <3>3, Zenon
    <3>5. <<s.inode[s.dent[k].id].parent_id, s.inode[s.dent[k].id].name>> = k
      BY <1>8, <3>1, Zenon DEF TreeOK
    <3> QED
      BY <3>4, <3>5, Zenon
  <2> QED
    BY <2>1, <2>2
<1> QED
  BY <1>4, <1>5, <1>7, <1>8, Zenon DEF TreeOK, w, dir

\* The latest state of RocksDB is one of the log.
LEMMA Latest ==
    ASSUME NNInv
    PROVE  /\ Len(log) \in Nat \ {0}
           /\ ClosedOK(db) /\ TreeOK(db, used, unordered)
<1>1. Len(log) \in Nat \ {0}
  BY NameNodeAssumption DEF NNInv
<1> QED
  BY <1>1 DEF NNInv, db

\* The parent that MkdirsOp and ListDirOp found is the root or is stored.
LEMMA Found ==
    ASSUME NNInv, NEW id \in Nat
    PROVE  /\ ReadDir(db, id) # CheckFailed
           /\ ReadDir(db, id) = NoDir <=> id \notin {kRootInodeID} \cup DOMAIN db.inode
           /\ ReadDir(db, id) # NoDir => ReadDir(db, id) \in Dirs
           /\ id \in DOMAIN db.inode =>
                 ReadDir(db, id).parent_id = db.inode[id].parent_id
<1>1. ClosedOK(db)
  BY Latest
<1> QED
  BY <1>1, ClosedFinds

\* What a step of MkdirsOp can do: answer without effect, stop, lose the id it
\* drew, or write a new directory under it.
MkdirsWrites(p, n, id, state) ==
    /\ p \in {kRootInodeID} \cup DOMAIN db.inode
    /\ \E acl \in [uid : Nat, gid : Nat, perm : SUBSET Nat], now \in Times :
          state = WriteDir(db, NoDir, NewDir(p, n, id, acl, now))
    /\ log' = Append(log, state)
    /\ reply' = [req |-> <<"Mkdirs", p, n>>, code |-> "kOK", id |-> id]
    /\ alive' = TRUE

MkdirsDraws(p, n, id) ==
    /\ Len(log) <= MaxCreations
    /\ NextID(id)
    /\ restarts' = restarts
    /\ \/ alive' = FALSE /\ UNCHANGED <<log, reply>>
       \/ \E state : MkdirsWrites(p, n, id, state)

LEMMA MkdirsCases ==
    ASSUME NNInv, NEW p \in ReqIds, NEW n \in Names,
           NEW u \in Users, NEW m \in Modes, Mkdirs(p, n, u, m)
    PROVE  /\ Ready
           /\ \/ /\ UNCHANGED <<log, alive, restarts, ids>>
                 /\ \E code \in {"kSystemError"}
                       \cup {IF p \in {kRootInodeID} \cup DOMAIN db.inode THEN "kPermissionError"
                             ELSE "kParentNotFoundError"} :
                       reply' = [req |-> <<"Mkdirs", p, n>>, code |-> code]
              \/ Stop
              \/ \E id \in NewIds : MkdirsDraws(p, n, id)
<1> DEFINE parent == ReadDir(db, p)
<1>1. p \in Nat
  BY NewIdsTyped, Zenon
<1>2. /\ parent # CheckFailed
      /\ parent = NoDir <=> p \notin {kRootInodeID} \cup DOMAIN db.inode
      /\ parent # NoDir => parent \in Dirs
  BY <1>1, Found
<1> HIDE DEF parent
<1>4. \/ Refuse(<<"Mkdirs", p, n>>, "kSystemError")
      \/ parent = NoDir /\ Refuse(<<"Mkdirs", p, n>>, "kParentNotFoundError")
      \/ parent # NoDir /\ Refuse(<<"Mkdirs", p, n>>, "kPermissionError")
      \/ parent # NoDir /\ MkdirsWrite(p, parent, n, u, m)
  BY <1>2, Zenon DEF Mkdirs, parent
<1>5. CASE Refuse(<<"Mkdirs", p, n>>, "kSystemError")
  BY <1>5 DEF Refuse, Answer
<1>6. CASE parent = NoDir /\ Refuse(<<"Mkdirs", p, n>>, "kParentNotFoundError")
  BY <1>2, <1>6 DEF Refuse, Answer
<1>7. CASE parent # NoDir /\ Refuse(<<"Mkdirs", p, n>>, "kPermissionError")
  BY <1>2, <1>7 DEF Refuse, Answer
<1>8. CASE parent # NoDir /\ MkdirsWrite(p, parent, n, u, m)
  <2> DEFINE acl == ChildAcl(parent.acl, u, m)
  <2>1. acl \in [uid : Nat, gid : Nat, perm : SUBSET Nat]
    <3>1. parent.acl \in [uid : Nat, gid : Nat, perm : SUBSET Nat]
      BY <1>2, <1>8 DEF Dirs
    <3>2. u.uid \in Nat /\ u.gid \in Nat /\ m \subseteq Nat
      BY NameNodeAssumption
    <3> QED
      BY <3>1, <3>2, Zenon DEF ChildAcl, S_ISGID, ALLPERMS
  <2>2. CASE Stop
    BY <2>2, Zenon DEF Stop
  <2>3. ASSUME NEW id \in NewIds, NEW now \in Times,
               Ready, Len(log) <= MaxCreations, NextID(id), restarts' = restarts,
               \/ /\ log' = Append(log, WriteDir(db, NoDir, NewDir(p, n, id, acl, now)))
                  /\ reply' = [req |-> <<"Mkdirs", p, n>>, code |-> "kOK", id |-> id]
                  /\ alive' = TRUE
               \/ alive' = FALSE /\ UNCHANGED <<log, reply>>
        PROVE  Ready /\ MkdirsDraws(p, n, id)
    <3> HIDE DEF acl
    <3> QED
      BY <1>2, <1>8, <2>1, <2>3, Zenon DEF MkdirsDraws, MkdirsWrites
  <2>4. \/ Stop
        \/ \E id \in NewIds, now \in Times :
              /\ Ready /\ Len(log) <= MaxCreations /\ NextID(id) /\ restarts' = restarts
              /\ \/ /\ log' = Append(log, WriteDir(db, NoDir, NewDir(p, n, id, acl, now)))
                    /\ reply' = [req |-> <<"Mkdirs", p, n>>, code |-> "kOK", id |-> id]
                    /\ alive' = TRUE
                 \/ alive' = FALSE /\ UNCHANGED <<log, reply>>
    BY <1>8, NewIdsTyped, Zenon DEF MkdirsWrite
  <2> HIDE DEF acl
  <2> QED
    BY <2>2, <2>3, <2>4, Zenon
<1> QED
  BY <1>4, <1>5, <1>6, <1>7, <1>8, Zenon

\* What the steps of the reading handlers can do: answer, and change nothing.
IsStored(id) == id \in {kRootInodeID} \cup DOMAIN db.inode

LEMMA GetInodeCases ==
    ASSUME NNInv, NEW i \in ReqIds, GetInode(i)
    PROVE  /\ Ready /\ UNCHANGED <<log, alive, restarts, ids>>
           /\ \/ reply' = [req |-> <<"GetInode", i>>, code |-> "kSystemError"]
              \/ ~IsStored(i) /\ reply' = [req |-> <<"GetInode", i>>, code |-> "kNotFoundError"]
              \/ IsStored(i) /\ reply' = [req |-> <<"GetInode", i>>, code |-> "kOK"]
<1>1. i \in Nat
  BY NewIdsTyped, Zenon
<1>2. ReadDir(db, i) # CheckFailed /\ (ReadDir(db, i) = NoDir <=> ~IsStored(i))
  BY <1>1, Found, Zenon DEF IsStored
<1> QED
  BY <1>2, Zenon DEF GetInode, Refuse, Answer

LEMMA LookupCases ==
    ASSUME NEW p, NEW n, Lookup(p, n)
    PROVE  /\ Ready /\ UNCHANGED <<log, alive, restarts, ids>>
           /\ \/ reply' = [req |-> <<"Lookup", p, n>>, code |-> "kSystemError"]
              \/ /\ ReadDEnt(db, p, n) = NoDir
                 /\ reply' = [req |-> <<"Lookup", p, n>>, code |-> "kNotFoundError"]
              \/ /\ ReadDEnt(db, p, n) # NoDir
                 /\ reply' = [req |-> <<"Lookup", p, n>>, code |-> "kOK",
                              id |-> ReadDEnt(db, p, n).id]
BY Zenon DEF Lookup, Refuse, Answer

\* The listing that ListDirOp answers with: its ".." is the parent, which is there.
StoredParent(id) == IF id = kRootInodeID THEN id ELSE db.inode[id].parent_id
ListedOK(i, start, l, ents) ==
    [req         |-> <<"ListDir", i, start, l>>,
     code        |-> "kOK",
     parent_dent |-> IF start = 0 THEN StoredParent(i) ELSE 0,
     ents        |-> ents,
     has_more    |-> Cardinality(ents) = l]

LEMMA ListDirCases ==
    ASSUME NNInv, NEW i \in ReqIds, NEW u \in Users, NEW start, NEW l, ListDir(i, u, start, l)
    PROVE  /\ Ready /\ UNCHANGED <<log, alive, restarts, ids>>
           /\ \/ \E code \in {"kSystemError"} \cup {IF IsStored(i) THEN "kPermissionError"
                                                   ELSE "kParentNotFoundError"} :
                    reply' = [req |-> <<"ListDir", i, start, l>>, code |-> code]
              \/ /\ IsStored(i) /\ StoredParent(i) # 0
                 /\ reply' = ListedOK(i, start, l,
                       ListDEnts(i, start, IF l > 0 THEN l ELSE list_dir_default_limit))
<1> DEFINE dir == ReadDir(db, i)
           req == <<"ListDir", i, start, l>>
           ents == ListDEnts(i, start, IF l > 0 THEN l ELSE list_dir_default_limit)
<1>1. i \in Nat
  BY NewIdsTyped, Zenon
<1>2. dir # CheckFailed /\ (dir = NoDir <=> ~IsStored(i))
  BY <1>1, Found, Zenon DEF IsStored
<1>3. ASSUME IsStored(i), i # kRootInodeID
      PROVE  /\ dir.parent_id = db.inode[i].parent_id /\ dir.parent_id # 0
             /\ ReadDir(db, dir.parent_id) \notin {NoDir, CheckFailed}
  <2>1. i \in DOMAIN db.inode
    BY <1>3 DEF IsStored
  <2>2. dir.parent_id = db.inode[i].parent_id
    BY <1>1, <2>1, Found
  <2>3. /\ db.inode[i].parent_id \in {kRootInodeID} \cup DOMAIN db.inode
        /\ db.inode[i].parent_id \in Nat \ {0}
    <3>1. ShapeOK(db, i) /\ DOMAIN db.inode \subseteq NewIds
      BY <2>1, Latest, Zenon DEF ClosedOK
    <3> QED
      BY <3>1, NewIdsTyped, Zenon DEF ShapeOK
  <2> QED
    BY <2>2, <2>3, Found, Zenon
<1> HIDE DEF dir, ents
<1>4. \/ Refuse(req, "kSystemError")
      \/ ~IsStored(i) /\ Refuse(req, "kParentNotFoundError")
      \/ IsStored(i) /\ Refuse(req, "kPermissionError")
      \/ /\ IsStored(i)
         /\ Answer([req         |-> req,
                    code        |-> "kOK",
                    parent_dent |-> IF start = 0 THEN ParentDEnt(i, dir) ELSE 0,
                    ents        |-> ents,
                    has_more    |-> Cardinality(ents) = l])
  BY <1>2, <1>3, Zenon DEF ListDir, dir, ents
<1>5. ASSUME IsStored(i) PROVE ParentDEnt(i, dir) = StoredParent(i) /\ StoredParent(i) # 0
  <2>1. CASE i = kRootInodeID
    BY <2>1 DEF ParentDEnt, StoredParent, kRootInodeID
  <2>2. CASE i # kRootInodeID
    BY <1>3, <1>5, <2>2, Zenon DEF ParentDEnt, StoredParent
  <2> QED
    BY <2>1, <2>2
<1> QED
  BY <1>4, <1>5, Zenon DEF Refuse, Answer, ListedOK, ents

\* What CommitTxn and a restart make of the log.
LEMMA LogAppend ==
    ASSUME IsSeq(log), NEW state, log' = Append(log, state)
    PROVE  /\ IsSeq(log') /\ Len(log) \in Nat /\ Len(log') = Len(log) + 1
           /\ \A i \in 1..Len(log) : log'[i] = log[i]
           /\ log'[Len(log) + 1] = state
<1>1. PICK S : log \in Seq(S)
  BY DEF IsSeq
<1> DEFINE R == S \cup {state}
<1>2. log \in Seq(R) /\ state \in R
  BY <1>1
<1> HIDE DEF R
<1>3. log' \in Seq(R)
  BY <1>2
<1> QED
  BY <1>2, <1>3, AppendProperties DEF IsSeq

LEMMA LogCut ==
    ASSUME IsSeq(log), NEW n \in 1..Len(log), log' = SubSeq(log, 1, n)
    PROVE  /\ IsSeq(log') /\ Len(log') = n /\ Len(log) \in Nat
           /\ \A i \in 1..n : log'[i] = log[i]
<1>1. PICK S : log \in Seq(S)
  BY DEF IsSeq
<1>2. Len(log) \in Nat /\ n \in Nat
  BY <1>1
<1>3. /\ log' \in Seq(S) /\ Len(log') = n
      /\ \A i \in 1..n : log'[i] = log[i]
  BY <1>1, <1>2, SubSeqProperties
<1> QED
  BY <1>2, <1>3 DEF IsSeq

\* A step that leaves the log and the ids alone.
LEMMA QuietStep ==
    ASSUME NNInv, log' = log, UNCHANGED ids, alive' \in BOOLEAN, restarts' = restarts,
           DotDotPresent'
    PROVE  NNInv'
BY DEF NNInv, IsSeq, ids

\* A handler that only answers, or stops at a CHECK.
LEMMA AnswerStep ==
    ASSUME NNInv,
           \/ /\ UNCHANGED <<log, alive, restarts, ids>>
              /\ reply' # NoReply /\ reply'.req[1] = "ListDir" /\ reply'.code = "kOK"
                    /\ reply'.req[3] = 0 => reply'.parent_dent # 0
           \/ Stop
    PROVE  NNInv'
<1>1. log' = log /\ UNCHANGED ids /\ alive' \in BOOLEAN /\ restarts' = restarts
  BY Zenon DEF Stop, ids, NNInv
<1>2. DotDotPresent'
  BY Zenon DEF Stop, NNInv, DotDotPresent, Ready
<1> QED
  BY <1>1, <1>2, QuietStep

LEMMA RestartStep ==
    ASSUME NNInv, NEW n \in 1..Len(log), Restart(n)
    PROVE  NNInv'
<1>1. /\ log' = SubSeq(log, 1, n) /\ UNCHANGED ids /\ reply' = reply /\ reply = NoReply
      /\ alive' = TRUE /\ restarts < MaxRestarts /\ restarts' = restarts + 1
  BY DEF Restart
<1>2. /\ IsSeq(log') /\ Len(log') = n /\ Len(log) \in Nat
      /\ \A i \in 1..n : log'[i] = log[i]
  BY <1>1, LogCut DEF NNInv
<1>3. \A i \in 1..Len(log') : ClosedOK(log'[i]) /\ TreeOK(log'[i], used', unordered')
  BY <1>1, <1>2 DEF NNInv, ids
<1>4. Len(log') \in 1..MaxCreations + 1
  BY <1>2, NameNodeAssumption DEF NNInv
<1>5. restarts' \in 0..MaxRestarts
  BY <1>1, NameNodeAssumption DEF NNInv
<1>6. DotDotPresent'
  BY <1>1 DEF DotDotPresent
<1> QED
  BY <1>1, <1>2, <1>3, <1>4, <1>5, <1>6, Zenon DEF NNInv, ids

\* What NextID says of the ids.
LEMMA Drawn ==
    ASSUME NNInv, NEW id \in NewIds, NextID(id)
    PROVE  /\ used' = used \cup {id} /\ used' \subseteq NewIds
           /\ unordered \subseteq unordered' /\ unordered' \subseteq used'
           /\ id \in unordered' \/ \A i \in used \cup {kRootInodeID} : i < id
BY Zenon DEF NNInv, NextID

\* A Mkdirs that draws an id, whether it writes or fails.
LEMMA DrawStep ==
    ASSUME NNInv, Ready, NEW p \in ReqIds, NEW n \in Names, NEW id \in NewIds,
           MkdirsDraws(p, n, id)
    PROVE  NNInv'
<1>1. NextID(id) /\ restarts' = restarts /\ Len(log) <= MaxCreations
  BY DEF MkdirsDraws
<1>2. /\ used' = used \cup {id} /\ used' \subseteq NewIds /\ used \subseteq used'
      /\ unordered \subseteq unordered' /\ unordered' \subseteq used'
      /\ id \in unordered' \/ \A i \in used \cup {kRootInodeID} : i < id
  BY <1>1, Drawn, Zenon
<1>3. /\ Len(log) \in Nat \ {0} /\ ClosedOK(db) /\ TreeOK(db, used, unordered)
      /\ used \in SUBSET NewIds
  BY Latest, Zenon DEF NNInv
<1>4. \A i \in 1..Len(log) : ClosedOK(log[i]) /\ TreeOK(log[i], used', unordered')
  <2>1. \A i \in 1..Len(log) : ClosedOK(log[i]) /\ TreeOK(log[i], used, unordered)
    BY DEF NNInv
  <2> QED
    BY <1>2, <2>1, MoreIDs, Zenon
<1>5. CASE alive' = FALSE /\ UNCHANGED <<log, reply>>
  <2>1. DotDotPresent'
    BY <1>5, Zenon DEF NNInv, DotDotPresent
  <2> QED
    BY <1>1, <1>2, <1>4, <1>5, <2>1, Zenon DEF NNInv, IsSeq
<1>6. ASSUME NEW state, MkdirsWrites(p, n, id, state) PROVE NNInv'
  <2>1. PICK acl \in [uid : Nat, gid : Nat, perm : SUBSET Nat], t \in Times :
           state = WriteDir(db, NoDir, NewDir(p, n, id, acl, t))
    BY <1>6 DEF MkdirsWrites
  <2>2. /\ p \in {kRootInodeID} \cup DOMAIN db.inode /\ log' = Append(log, state)
        /\ alive' = TRUE
        /\ reply' = [req |-> <<"Mkdirs", p, n>>, code |-> "kOK", id |-> id]
    BY <1>6 DEF MkdirsWrites
  <2>3. ClosedOK(state)
    BY <1>3, <2>1, <2>2, CreateClosed, Zenon
  <2>4. TreeOK(state, used', unordered')
    BY <1>2, <1>3, <2>1, <2>2, CreateTree, Zenon
  <2>5. /\ IsSeq(log') /\ Len(log') = Len(log) + 1
        /\ \A i \in 1..Len(log) : log'[i] = log[i]
        /\ log'[Len(log) + 1] = state
    BY <2>2, LogAppend DEF NNInv
  <2>6. \A i \in 1..Len(log') : ClosedOK(log'[i]) /\ TreeOK(log'[i], used', unordered')
    <3>1. \A i \in 1..Len(log') : i \in 1..Len(log) \/ i = Len(log) + 1
      BY <1>3, <2>5
    <3> QED
      BY <1>4, <2>3, <2>4, <2>5, <3>1, Zenon
  <2>7. Len(log') \in 1..MaxCreations + 1
    BY <1>1, <1>3, <2>5, NameNodeAssumption
  <2>8. DotDotPresent'
    BY <2>2 DEF DotDotPresent
  <2> QED
    BY <1>1, <1>2, <2>2, <2>5, <2>6, <2>7, <2>8, Zenon DEF NNInv
<1> QED
  BY <1>5, <1>6, Zenon DEF MkdirsDraws

LEMMA NNInit == Init => NNInv
<1> SUFFICES ASSUME Init PROVE NNInv
  OBVIOUS
<1>1. /\ log = <<EmptyDB>> /\ used = {} /\ unordered = {} /\ alive = TRUE /\ reply = NoReply
      /\ restarts = 0
  BY DEF Init
<1>2. Len(log) = 1 /\ log[1] = EmptyDB /\ log \in Seq({EmptyDB})
  <2>1. <<EmptyDB>> \in Seq({EmptyDB}) /\ Len(<<EmptyDB>>) = 1 /\ <<EmptyDB>>[1] = EmptyDB
    OBVIOUS
  <2> QED
    BY <1>1, <2>1
<1>3. ClosedOK(EmptyDB) /\ TreeOK(EmptyDB, used, unordered)
  BY DEF ClosedOK, TreeOK, EmptyDB, EmptyCF
<1>4. IsSeq(log) /\ \A i \in 1..Len(log) : ClosedOK(log[i]) /\ TreeOK(log[i], used, unordered)
  BY <1>2, <1>3 DEF IsSeq
<1>5. Len(log) \in 1..MaxCreations + 1 /\ restarts \in 0..MaxRestarts
  BY <1>1, <1>2, NameNodeAssumption
<1>6. DotDotPresent
  BY <1>1 DEF DotDotPresent
<1> QED
  BY <1>1, <1>4, <1>5, <1>6, Zenon DEF NNInv

LEMMA NNStep == NNInv /\ [Next]_vars => NNInv'
<1> SUFFICES ASSUME NNInv, [Next]_vars PROVE NNInv'
  OBVIOUS
<1>1. CASE Finish
  BY <1>1, AnswerStep, Zenon DEF Finish
<1>2. ASSUME NEW p \in ReqIds, NEW n \in Names, NEW u \in Users, NEW m \in Modes,
             Mkdirs(p, n, u, m)
      PROVE  NNInv'
  <2>1. ASSUME NEW code, reply' = [req |-> <<"Mkdirs", p, n>>, code |-> code]
        PROVE  reply'.req[1] # "ListDir"
    BY <2>1
  <2> QED
    BY <1>2, <2>1, MkdirsCases, AnswerStep, DrawStep, Zenon
<1>3. ASSUME NEW i \in ReqIds, GetInode(i) PROVE NNInv'
  <2>1. ASSUME NEW code, reply' = [req |-> <<"GetInode", i>>, code |-> code]
        PROVE  reply'.req[1] # "ListDir"
    BY <2>1
  <2> QED
    BY <1>3, <2>1, GetInodeCases, AnswerStep, Zenon
<1>4. ASSUME NEW p \in ReqIds, NEW n \in Names, Lookup(p, n) PROVE NNInv'
  <2>1. reply'.req = <<"Lookup", p, n>> /\ UNCHANGED <<log, alive, restarts, ids>>
    BY <1>4, LookupCases
  <2>2. reply'.req[1] # "ListDir"
    BY <2>1
  <2> QED
    BY <2>1, <2>2, AnswerStep, Zenon
<1>5. ASSUME NEW i \in ReqIds, NEW u \in Users, NEW s \in Names \cup {0}, NEW l \in Limits,
             ListDir(i, u, s, l)
      PROVE  NNInv'
  <2> DEFINE ents == ListDEnts(i, s, IF l > 0 THEN l ELSE list_dir_default_limit)
             resp == ListedOK(i, s, l, ents)
  <2>1. UNCHANGED <<log, alive, restarts, ids>>
    BY <1>5, ListDirCases
  <2>2. \/ \E code \in {"kSystemError", "kPermissionError", "kParentNotFoundError"} :
              reply' = [req |-> <<"ListDir", i, s, l>>, code |-> code]
        \/ StoredParent(i) # 0 /\ reply' = resp
    BY <1>5, ListDirCases, Zenon
  <2>3. resp.req[3] = s /\ (StoredParent(i) # 0 /\ s = 0 => resp.parent_dent # 0)
    <3> HIDE DEF ents
    <3> QED
      BY Zenon DEF ListedOK
  <2> HIDE DEF resp
  <2>4. CASE StoredParent(i) # 0 /\ reply' = resp
    BY <2>1, <2>3, <2>4, AnswerStep, Zenon
  <2>5. ASSUME NEW code \in {"kSystemError", "kPermissionError", "kParentNotFoundError"},
               reply' = [req |-> <<"ListDir", i, s, l>>, code |-> code]
        PROVE  NNInv'
    <3>1. reply'.code # "kOK"
      BY <2>5
    <3> QED
      BY <2>1, <3>1, AnswerStep, Zenon
  <2> QED
    BY <2>2, <2>4, <2>5, Zenon
<1>6. CASE \E n \in 1..Len(log) : Restart(n)
  BY <1>6, RestartStep
<1>7. CASE UNCHANGED vars
  <2>1. DotDotPresent' /\ alive' \in BOOLEAN
    BY <1>7, Zenon DEF vars, DotDotPresent, NNInv
  <2> QED
    BY <1>7, <2>1, QuietStep DEF vars
<1> QED
  BY <1>1, <1>2, <1>3, <1>4, <1>5, <1>6, <1>7, Zenon DEF Next

\* Whatever ids the generator returns, the invariant holds.
LEMMA NNAlways == Spec => []NNInv
BY NNInit, NNStep, PTL DEF Spec

------------------------------------------------------------------------------
\* The stored tables keep their shape, also when ids are given twice: each
\* directory has an id of the generator and both of its times, read from the
\* clock.
THEOREM NameNodeTypeCorrect == Spec => []TypeOK
<1>1. ASSUME NNInv
      PROVE  TypeOK
  <2>1. ClosedOK(db)
    BY <1>1, Latest
  <2>2. Inodes \subseteq ReqIds
    BY <2>1, NewIdsTyped, Zenon DEF ClosedOK, Inodes
  <2>3. /\ DOMAIN db.mtime = Inodes /\ DOMAIN db.atime = Inodes
        /\ \A id \in Inodes : db.mtime[id] \in Times /\ db.atime[id] \in Times
    BY <2>1, Zenon DEF ClosedOK, ShapeOK, Inodes
  <2>4. DOMAIN db.dent \subseteq ReqIds \X Names
    BY <2>1, Zenon DEF ClosedOK, DEntOK
  <2>5. used \subseteq ReqIds \ {0}
    BY <1>1, NewIdsTyped, Zenon DEF NNInv
  <2> QED
    BY <1>1, <2>2, <2>3, <2>4, <2>5, Zenon DEF TypeOK, NNInv
<1> QED
  BY <1>1, NNAlways, PTL

\* The parent of every stored directory can be read, whatever requests, failed
\* writes, crashes and ids given twice went before.
THEOREM ForeignKeyHolds == Spec => []ForeignKey
<1>1. NNInv => ForeignKey
  <2> SUFFICES ASSUME NNInv, NEW id \in Inodes
               PROVE  ReadDir(db, ParentOf(id)) \notin {NoDir, CheckFailed}
    BY DEF ForeignKey
  <2>1. /\ ParentOf(id) \in Nat
        /\ ParentOf(id) \in {kRootInodeID} \cup DOMAIN db.inode
    BY Latest, Zenon DEF Inodes, ParentOf, ClosedOK, ShapeOK
  <2> QED
    BY <2>1, Found
<1> QED
  BY <1>1, NNAlways, PTL

\* A listing from the beginning always has its "..": ListDirOp finds the parent,
\* and no parent has the id 0 that would read as unset.
THEOREM ListingsHaveParent == Spec => []DotDotPresent
<1>1. NNInv => DotDotPresent
  BY DEF NNInv
<1> QED
  BY <1>1, NNAlways, PTL

\* What Lookup finds can be read: every entry of every state that RocksDB may come
\* back with names a stored directory, even one written over by a second Mkdirs.
\* (That it also has the entry's parent and name is EntriesResolve.)
THEOREM EntriesAreStored ==
    Spec => [](\A i \in 1..Len(log) : \A k \in DOMAIN log[i].dent :
                  ReadDir(log[i], log[i].dent[k].id) \notin {NoDir, CheckFailed})
<1>1. ASSUME NNInv
      PROVE  \A i \in 1..Len(log) : \A k \in DOMAIN log[i].dent :
                 ReadDir(log[i], log[i].dent[k].id) \notin {NoDir, CheckFailed}
  <2> SUFFICES ASSUME NEW i \in 1..Len(log), NEW k \in DOMAIN log[i].dent
               PROVE  ReadDir(log[i], log[i].dent[k].id) \notin {NoDir, CheckFailed}
    OBVIOUS
  <2>1. ClosedOK(log[i])
    BY <1>1 DEF NNInv
  <2>2. log[i].dent[k].id \in DOMAIN log[i].inode /\ log[i].dent[k].id \in Nat
    BY <2>1, Zenon DEF ClosedOK, DEntOK
  <2> QED
    BY <2>1, <2>2, ClosedFinds, Zenon
<1> QED
  BY <1>1, NNAlways, PTL

\* A directory whose id was given in order is newer than its parent: a circle of
\* parents can only run through ids that the generator gave out of order.
THEOREM TreeBelowRoot == Spec => []ParentIsOlder
<1>1. NNInv => ParentIsOlder
  BY Latest, Zenon DEF ParentIsOlder, Inodes, ParentOf, TreeOK
<1> QED
  BY <1>1, NNAlways, PTL

\* Every entry leads to a stored directory, which has the entry's parent and name
\* unless its id was given out of order.
THEOREM EntriesResolve == Spec => []DEntsResolve
<1>1. NNInv => DEntsResolve
  BY Latest, Zenon DEF DEntsResolve, Inodes, ClosedOK, DEntOK, TreeOK
<1> QED
  BY <1>1, NNAlways, PTL

\* What the handlers that write nothing do to the log.
LEMMA ReadersKeepLog ==
    ASSUME \/ Finish
           \/ \E i \in ReqIds : GetInode(i)
           \/ \E p \in ReqIds, n \in Names : Lookup(p, n)
           \/ \E i \in ReqIds, u \in Users, s \in Names \cup {0}, l \in Limits : ListDir(i, u, s, l)
    PROVE  log' = log
<1>1. Finish \/ Stop \/ (\E resp : Answer(resp)) => log' = log
  BY DEF Finish, Stop, Answer
<1>2. \A req, code : Refuse(req, code) => \E resp : Answer(resp)
  BY Zenon DEF Refuse
<1>3. ASSUME NEW i, GetInode(i) PROVE Stop \/ \E resp : Answer(resp)
  BY <1>2, <1>3, Zenon DEF GetInode
<1>4. ASSUME NEW p, NEW n, Lookup(p, n) PROVE \E resp : Answer(resp)
  BY <1>2, <1>4, Zenon DEF Lookup
<1>5. ASSUME NEW i, NEW u, NEW s, NEW l, ListDir(i, u, s, l)
      PROVE  Stop \/ \E resp : Answer(resp)
  BY <1>2, <1>5, Zenon DEF ListDir
<1> QED
  BY <1>1, <1>3, <1>4, <1>5, Zenon

\* No step but a restart takes a stored directory away, and none changes one
\* unless the generator has given its id out of order.
THEOREM DirectoriesStay == Spec => InodesStay
<1> DEFINE Stay == restarts' = restarts =>
              \A id \in DOMAIN db.inode :
                  /\ id \in DOMAIN db'.inode
                  /\ id \notin unordered' => db'.inode[id] = db.inode[id]
<1>1. NNInv /\ [Next]_vars => [Stay]_vars
  <2> SUFFICES ASSUME NNInv, Next, restarts' = restarts, NEW id \in DOMAIN db.inode
               PROVE  /\ id \in DOMAIN db'.inode
                      /\ id \notin unordered' => db'.inode[id] = db.inode[id]
    OBVIOUS
  <2>1. log' = log => db' = db
    BY DEF db
  <2>2. ASSUME NEW p \in ReqIds, NEW n \in Names, NEW new \in NewIds, MkdirsDraws(p, n, new)
        PROVE  /\ id \in DOMAIN db'.inode
               /\ id \notin unordered' => db'.inode[id] = db.inode[id]
    <3>1. CASE log' = log
      BY <2>1, <3>1
    <3>2. ASSUME NEW state, MkdirsWrites(p, n, new, state)
          PROVE  /\ id \in DOMAIN db'.inode
                 /\ id \notin unordered' => db'.inode[id] = db.inode[id]
      <4>1. new \in unordered' \/ \A i \in used \cup {kRootInodeID} : i < new
        BY <2>2, Drawn, Zenon DEF MkdirsDraws
      <4>2. ClosedOK(db) /\ id \in used
        BY Latest, Zenon DEF TreeOK
      <4>3. PICK acl \in [uid : Nat, gid : Nat, perm : SUBSET Nat], t \in Times :
               state = WriteDir(db, NoDir, NewDir(p, n, new, acl, t))
        BY <3>2 DEF MkdirsWrites
      <4>4. p \in {kRootInodeID} \cup DOMAIN db.inode /\ log' = Append(log, state)
        BY <3>2 DEF MkdirsWrites
      <4>5. NewDir(p, n, new, acl, t) \in Dirs /\ NewDir(p, n, new, acl, t).id = new
        BY <4>2, <4>3, <4>4, CreateClosed, Zenon DEF NewDir
      <4>6. Puts(state.inode, db.inode, new, InodeSerVal(NewDir(p, n, new, acl, t)))
        BY <4>3, <4>5, WriteNew, Zenon
      <4>7. id = new => id \in unordered'
        <5>1. ~(new < new)
          BY NewIdsTyped
        <5> QED
          BY <4>1, <4>2, <5>1, Zenon
      <4>8. db' = state
        BY <4>4, LogAppend DEF NNInv, db
      <4> QED
        BY <4>6, <4>7, <4>8, Zenon DEF Puts
    <3> QED
      BY <2>2, <3>1, <3>2, Zenon DEF MkdirsDraws
  <2>3. CASE \E n \in 1..Len(log) : Restart(n)
    <3>1. restarts' = restarts + 1 /\ restarts \in 0..MaxRestarts
      BY <2>3, Zenon DEF Restart, NNInv
    <3> QED
      BY <3>1
  <2>4. CASE \E p \in ReqIds, n \in Names, u \in Users, m \in Modes : Mkdirs(p, n, u, m)
    <3>1. PICK p \in ReqIds, n \in Names, u \in Users, m \in Modes : Mkdirs(p, n, u, m)
      BY <2>4
    <3>2. log' = log \/ \E new \in NewIds : MkdirsDraws(p, n, new)
      BY <3>1, MkdirsCases, Zenon DEF Stop
    <3> QED
      BY <2>1, <2>2, <3>2, Zenon
  <2>5. ASSUME log' = log
        PROVE  /\ id \in DOMAIN db'.inode
               /\ id \notin unordered' => db'.inode[id] = db.inode[id]
    BY <2>1, <2>5
  <2> QED
    BY <2>3, <2>4, <2>5, ReadersKeepLog, Zenon DEF Next
<1> QED
  BY <1>1, NNAlways, PTL DEF Spec, InodesStay

------------------------------------------------------------------------------
\* The name space that the log stores, seen as DirTree's.
LEMMA TreeNow ==
    ASSUME NNInv
    PROVE  /\ IsSeq(tree) /\ Len(tree) = Len(log) /\ Len(log) \in Nat \ {0}
           /\ \A i \in 1..Len(log) : tree[i] = TreeOf(log[i])
           /\ Tree!now = TreeOf(db)
<1>1. Len(log) \in Nat \ {0}
  BY Latest
<1> DEFINE S == {TreeOf(log[i]) : i \in 1..Len(log)}
<1>2. tree \in [1..Len(log) -> S]
  BY DEF tree
<1> HIDE DEF S
<1>3. tree \in Seq(S) /\ Len(tree) = Len(log)
  BY <1>1, <1>2
<1>4. \A i \in 1..Len(log) : tree[i] = TreeOf(log[i])
  BY DEF tree
<1>5. tree[Len(tree)] = TreeOf(log[Len(log)])
  BY <1>1, <1>3, <1>4
<1> QED
  BY <1>1, <1>3, <1>4, <1>5 DEF IsSeq, Tree!now, db

LEMMA TreeViews ==
    ASSUME NNInv
    PROVE  /\ \A id : Tree!IsDir(id) <=> IsStored(id)
           /\ \A id : IsStored(id) => Tree!ParentOf(id) = StoredParent(id)
           /\ \A p, n : Tree!Entry(p, n) =
                 IF <<p, n>> \in DOMAIN db.dent THEN db.dent[<<p, n>>].id ELSE 0
           /\ DOMAIN Tree!now.entry = DOMAIN db.dent
<1>1. Tree!now = TreeOf(db)
  BY TreeNow
<1> DEFINE d == Tree!now.dirs
           e == Tree!now.entry
<1>2. /\ DOMAIN d = DOMAIN db.inode
      /\ \A id \in DOMAIN db.inode : d[id].parent_id = db.inode[id].parent_id
  BY <1>1 DEF TreeOf
<1>3. DOMAIN e = DOMAIN db.dent /\ \A k \in DOMAIN db.dent : e[k] = db.dent[k].id
  BY <1>1 DEF TreeOf
<1> HIDE DEF d, e
<1>5. \A id : Tree!IsDir(id) <=> IsStored(id)
  BY <1>2 DEF Tree!IsDir, IsStored, d
<1>6. \A id : IsStored(id) => Tree!ParentOf(id) = StoredParent(id)
  BY <1>2, Zenon DEF Tree!ParentOf, StoredParent, IsStored, d
<1>7. \A p, n : Tree!Entry(p, n) =
         IF <<p, n>> \in DOMAIN db.dent THEN db.dent[<<p, n>>].id ELSE 0
  BY <1>3, Zenon DEF Tree!Entry, e
<1> QED
  BY <1>3, <1>5, <1>6, <1>7, Zenon DEF e

LEMMA IdOfDEnt == \A val : DEntDeVal(val).id = val.id
BY DEF DEntDeVal

LEMMA SameCardinality == \A S : Cardinality(S) = Tree!Cardinality(S)
BY Zenon DEF Cardinality, Tree!Cardinality

\* ListDEnts returns what the name space lists.
LEMMA SameListing ==
    ASSUME NNInv, NEW id, NEW start, NEW l
    PROVE  ListDEnts(id, start, l) = Tree!Listing(id, start, l)
<1> DEFINE names == {k[2] : k \in {d \in DOMAIN db.dent : InScan(id, start, d)}}
           first == {m \in names : Cardinality({x \in names : x < m}) < l}
<1>1. {k[2] : k \in {e \in DOMAIN Tree!now.entry : e[1] = id /\ e[2] >= start}} = names
  BY TreeViews, Zenon DEF InScan
<1>2. \A n \in names : ReadDEnt(db, id, n).id = Tree!Entry(id, n)
  <2> TAKE n \in names
  <2>1. PICK k \in DOMAIN db.dent : k[1] = id /\ k[2] = n
    BY DEF InScan
  <2>2. k = <<id, n>>
    <3>1. k \in ReqIds \X Names
      BY <2>1, Latest, Zenon DEF ClosedOK, DEntOK
    <3> QED
      BY <2>1, <3>1
  <2>3. ReadDEnt(db, id, n) = DEntDeVal(db.dent[<<id, n>>])
    BY <2>1, <2>2 DEF ReadDEnt
  <2>4. Tree!Entry(id, n) = db.dent[<<id, n>>].id
    <3>1. <<id, n>> \in DOMAIN db.dent
      BY <2>1, <2>2, Zenon
    <3> QED
      BY <3>1, TreeViews, Zenon
  <2> QED
    BY <2>3, <2>4, IdOfDEnt, Zenon
<1> HIDE DEF names
<1>3. ListDEnts(id, start, l) = {<<n, ReadDEnt(db, id, n).id>> : n \in first}
  BY Zenon DEF ListDEnts, names
<1>4. Tree!Listing(id, start, l) = {<<n, Tree!Entry(id, n)>> : n \in first}
  BY <1>1, SameCardinality, Zenon DEF Tree!Listing
<1> QED
  BY <1>2, <1>3, <1>4, Zenon

\* In the name space, state has one directory and its entry more than s.
Adds(state, s, p, n, id) ==
    TreeOf(state) = [dirs  |-> Tree!Put(TreeOf(s).dirs, id, [parent_id |-> p, name |-> n]),
                     entry |-> Tree!Put(TreeOf(s).entry, <<p, n>>, id)]

\* That is what Mkdirs writes.
LEMMA SameCreation ==
    ASSUME NEW s, NEW p, NEW n, NEW id, NEW acl, NEW t, NewDir(p, n, id, acl, t) \in Dirs
    PROVE  Adds(WriteDir(s, NoDir, NewDir(p, n, id, acl, t)), s, p, n, id)
<1> DEFINE dir == NewDir(p, n, id, acl, t)
           w == WriteDir(s, NoDir, dir)
           key == <<p, n>>
           row == [parent_id |-> p, name |-> n]
<1>1. /\ dir.id = id /\ dir.parent_id = p /\ dir.name = n
      /\ InodeSerVal(dir).parent_id = p /\ InodeSerVal(dir).name = n
      /\ DEntSerVal(dir).id = id
  BY Zenon DEF NewDir, InodeSerVal, DEntSerVal
<1> HIDE DEF dir
<1>2. /\ Puts(w.inode, s.inode, id, InodeSerVal(dir))
      /\ Puts(w.dent, s.dent, key, DEntSerVal(dir))
  BY <1>1, WriteNew, Zenon DEF dir
<1> HIDE DEF w, key
<1>3. [i \in DOMAIN w.inode |-> [parent_id |-> w.inode[i].parent_id, name |-> w.inode[i].name]]
        = Tree!Put(TreeOf(s).dirs, id, row)
  <2>1. /\ DOMAIN TreeOf(s).dirs = DOMAIN s.inode
        /\ \A i \in DOMAIN s.inode : TreeOf(s).dirs[i] =
              [parent_id |-> s.inode[i].parent_id, name |-> s.inode[i].name]
    BY DEF TreeOf
  <2>2. /\ DOMAIN w.inode = DOMAIN s.inode \cup {id}
        /\ \A i \in DOMAIN w.inode :
              [parent_id |-> w.inode[i].parent_id, name |-> w.inode[i].name] =
              IF i = id THEN row ELSE TreeOf(s).dirs[i]
    BY <1>1, <1>2, <2>1, Zenon DEF Puts
  <2> QED
    BY <2>1, <2>2, Zenon DEF Tree!Put
<1>4. [k \in DOMAIN w.dent |-> w.dent[k].id] = Tree!Put(TreeOf(s).entry, key, id)
  <2>1. /\ DOMAIN TreeOf(s).entry = DOMAIN s.dent
        /\ \A k \in DOMAIN s.dent : TreeOf(s).entry[k] = s.dent[k].id
    BY DEF TreeOf
  <2>2. /\ DOMAIN w.dent = DOMAIN s.dent \cup {key}
        /\ \A k \in DOMAIN w.dent :
              w.dent[k].id = IF k = key THEN id ELSE TreeOf(s).entry[k]
    BY <1>1, <1>2, <2>1, Zenon DEF Puts
  <2> QED
    BY <2>1, <2>2, Zenon DEF Tree!Put
<1>5. TreeOf(w) =
         [dirs  |-> [i \in DOMAIN w.inode |->
                       [parent_id |-> w.inode[i].parent_id, name |-> w.inode[i].name]],
          entry |-> [k \in DOMAIN w.dent |-> w.dent[k].id]]
  BY Zenon DEF TreeOf
<1> QED
  BY <1>3, <1>4, <1>5, Zenon DEF Adds, w, dir, key

\* The steps of the NameNode that answer without effect, draw an id or restart,
\* as steps of the name space.
LEMMA AnswerRefines ==
    ASSUME UNCHANGED <<log, alive, restarts, ids>>
    PROVE  tree' = tree /\ used' = used /\ unordered' = unordered
BY DEF tree, ids

LEMMA GiveRefines ==
    ASSUME NEW id, NextID(id)
    PROVE  Tree!Give(id)
BY Zenon DEF NextID, Tree!Give

LEMMA CreateRefines ==
    ASSUME NNInv, Ready, NEW p \in ReqIds, NEW n \in Names, NEW id \in NewIds, NextID(id),
           NEW state, MkdirsWrites(p, n, id, state)
    PROVE  Tree!Mkdirs(p, n)
<1>2. ClosedOK(db) /\ Len(log) \in Nat \ {0}
  BY Latest
<1>3. PICK acl \in [uid : Nat, gid : Nat, perm : SUBSET Nat], t \in Times :
         state = WriteDir(db, NoDir, NewDir(p, n, id, acl, t))
  BY DEF MkdirsWrites
<1>4. /\ p \in {kRootInodeID} \cup DOMAIN db.inode /\ log' = Append(log, state)
      /\ reply' = [req |-> <<"Mkdirs", p, n>>, code |-> "kOK", id |-> id]
  BY DEF MkdirsWrites
<1>5. NewDir(p, n, id, acl, t) \in Dirs
  BY <1>2, <1>3, <1>4, CreateClosed, Zenon
<1>6. TreeOf(state) = [dirs  |-> Tree!Put(TreeOf(db).dirs, id, [parent_id |-> p, name |-> n]),
                       entry |-> Tree!Put(TreeOf(db).entry, <<p, n>>, id)]
  <2>1. Adds(state, db, p, n, id)
    BY <1>3, <1>5, SameCreation
  <2> QED
    BY <2>1, Zenon DEF Adds
<1>7. tree' = Append(tree, TreeOf(state))
  <2>1. /\ Len(log') = Len(log) + 1
        /\ \A i \in 1..Len(log) : log'[i] = log[i]
        /\ log'[Len(log) + 1] = state
    BY <1>4, LogAppend, Zenon DEF NNInv
  <2>2. IsSeq(tree) /\ Len(tree) = Len(log) /\ \A i \in 1..Len(log) : tree[i] = TreeOf(log[i])
    BY TreeNow
  <2>3. PICK S : tree \in Seq(S)
    BY <2>2 DEF IsSeq
  <2>4. Append(tree, TreeOf(state)) =
           [i \in 1..Len(tree) + 1 |-> IF i = Len(tree) + 1 THEN TreeOf(state) ELSE tree[i]]
    <3> DEFINE new == TreeOf(state)
               R == S \cup {new}
               a == Append(tree, new)
    <3> HIDE DEF new
    <3>1. tree \in Seq(R) /\ new \in R
      BY <2>3
    <3> HIDE DEF R
    <3>2. /\ a \in Seq(R) /\ Len(a) = Len(tree) + 1 /\ Len(tree) \in Nat
          /\ \A i \in 1..Len(tree) : a[i] = tree[i]
          /\ a[Len(tree) + 1] = new
      BY <3>1, AppendProperties
    <3>3. a = [i \in 1..Len(a) |-> a[i]]
      <4> HIDE DEF a
      <4> QED
        BY <3>2
    <3> HIDE DEF a
    <3>4. a = [i \in 1..Len(tree) + 1 |-> IF i = Len(tree) + 1 THEN new ELSE tree[i]]
      BY <3>2, <3>3
    <3> QED
      BY <3>4, Zenon DEF a, new
  <2>5. tree' = [i \in 1..Len(log) + 1 |-> TreeOf(log'[i])]
    BY <2>1, Zenon DEF tree
  <2>6. \A i \in 1..Len(log) + 1 :
           TreeOf(log'[i]) = IF i = Len(log) + 1 THEN TreeOf(state) ELSE tree[i]
    <3> SUFFICES ASSUME NEW i \in 1..Len(log) + 1
                 PROVE  TreeOf(log'[i]) = IF i = Len(log) + 1 THEN TreeOf(state) ELSE tree[i]
      OBVIOUS
    <3>1. i = Len(log) + 1 \/ (i \in 1..Len(log) /\ i # Len(log) + 1)
      BY <1>2
    <3> QED
      BY <2>1, <2>2, <3>1, Zenon
  <2> QED
    BY <2>2, <2>4, <2>5, <2>6, Zenon
<1>8. Tree!now = TreeOf(db) /\ Tree!IsDir(p)
  BY <1>4, TreeNow, TreeViews, Zenon DEF IsStored
<1>9. id \in ReqIds \ {0} /\ Tree!Give(id)
  BY NewIdsTyped, GiveRefines, Zenon
<1>10. reply = Tree!NoAnswer
  BY DEF Ready, NoReply, Tree!NoAnswer
<1>11. Tree!Create(p, n, id)
  BY <1>4, <1>6, <1>7, <1>8, <1>9, <1>10, Zenon DEF Tree!Create
<1> QED
  BY <1>9, <1>11, Zenon DEF Tree!Mkdirs

\* LookupOp finds an entry of the name space, and its id.
LEMMA EntryRead ==
    ASSUME NNInv, NEW p, NEW n
    PROVE  /\ ReadDEnt(db, p, n) = NoDir => Tree!Entry(p, n) = 0
           /\ ReadDEnt(db, p, n) # NoDir =>
                 Tree!Entry(p, n) # 0 /\ ReadDEnt(db, p, n).id = Tree!Entry(p, n)
<1> DEFINE k == <<p, n>>
<1>1. CASE k \notin DOMAIN db.dent
  BY <1>1, TreeViews, Zenon DEF ReadDEnt
<1>2. CASE k \in DOMAIN db.dent
  <2>1. ReadDEnt(db, p, n) = DEntDeVal(db.dent[k]) /\ Tree!Entry(p, n) = db.dent[k].id
    BY <1>2, TreeViews, Zenon DEF ReadDEnt
  <2>2. ReadDEnt(db, p, n).id = db.dent[k].id
    BY <2>1, IdOfDEnt, Zenon
  <2>3. DEntOK(db, k) /\ db.dent[k].id \in NewIds
    BY <1>2, Latest, Zenon DEF ClosedOK, DEntOK
  <2>4. DEntDeVal(db.dent[k]) \in Dirs
    <3>1. db.dent[k].parent_id \in Nat /\ db.dent[k].name \in Nat /\ db.dent[k].id \in Nat
      BY <2>3, NameNodeAssumption, Zenon DEF DEntOK
    <3>2. NoAcl \in [uid : Nat, gid : Nat, perm : SUBSET Nat]
      BY DEF NoAcl
    <3> QED
      BY <3>1, <3>2, Zenon DEF DEntDeVal, Dirs
  <2> QED
    <3>1. db.dent[k].id # 0
      BY <2>3, NewIdsTyped, Zenon
    <3> QED
      BY <2>1, <2>2, <2>4, <3>1, NameNodeAssumption, Zenon
<1> QED
  BY <1>1, <1>2, Zenon

LEMMA RestartRefines ==
    ASSUME NNInv, NEW n \in 1..Len(log), Restart(n)
    PROVE  n \in 1..Len(tree) /\ Tree!Lose(n)
<1>1. /\ log' = SubSeq(log, 1, n) /\ UNCHANGED <<used, unordered>>
      /\ reply' = reply /\ reply = NoReply
  BY DEF Restart, ids
<1>2. /\ Len(log') = n /\ Len(log) \in Nat
      /\ \A i \in 1..n : log'[i] = log[i]
  BY <1>1, LogCut DEF NNInv
<1>3. IsSeq(tree) /\ Len(tree) = Len(log) /\ \A i \in 1..Len(log) : tree[i] = TreeOf(log[i])
  BY TreeNow
<1>4. PICK S : tree \in Seq(S)
  BY <1>3 DEF IsSeq
<1> DEFINE c == SubSeq(tree, 1, n)
<1>5. /\ c \in Seq(S) /\ Len(c) = n
      /\ \A i \in 1..n : c[i] = tree[i]
  BY <1>2, <1>3, <1>4, SubSeqProperties
<1>6. c = [i \in 1..n |-> c[i]]
  <2> HIDE DEF c
  <2> QED
    BY <1>5
<1>7. tree' = [i \in 1..n |-> TreeOf(log'[i])]
  BY <1>2, Zenon DEF tree
<1>8. \A i \in 1..n : TreeOf(log'[i]) = c[i]
  BY <1>2, <1>3, <1>5
<1>9. tree' = c
  <2> HIDE DEF c
  <2> QED
    BY <1>6, <1>7, <1>8
<1> QED
  BY <1>1, <1>3, <1>9 DEF Tree!Lose, NoReply, Tree!NoAnswer

\* Every step of the NameNode is a step of the name space, or changes nothing of it.
LEMMA StepRefines ==
    ASSUME NNInv, [Next]_vars
    PROVE  Tree!Next \/ UNCHANGED <<tree, used, unordered, reply>>
<1>1. NoReply = Tree!NoAnswer
  BY DEF NoReply, Tree!NoAnswer
<1>2. CASE Finish
  <2>1. tree' = tree /\ used' = used /\ unordered' = unordered
    BY <1>2, AnswerRefines DEF Finish
  <2> QED
    BY <1>1, <1>2, <2>1 DEF Finish, Tree!Sent, Tree!Next
<1>3. ASSUME NEW p \in ReqIds, NEW n \in Names, NEW u \in Users, NEW m \in Modes,
             Mkdirs(p, n, u, m)
      PROVE  Tree!Next \/ UNCHANGED <<tree, used, unordered, reply>>
  <2> DEFINE codes == {"kSystemError"} \cup {IF IsStored(p) THEN "kPermissionError"
                                            ELSE "kParentNotFoundError"}
  <2>1. CASE /\ Ready /\ UNCHANGED <<log, alive, restarts, ids>>
             /\ \E code \in codes : reply' = [req |-> <<"Mkdirs", p, n>>, code |-> code]
    <3>1. tree' = tree /\ used' = used /\ unordered' = unordered
      BY <2>1, AnswerRefines
    <3>2. \E code \in codes : Tree!Tell([req |-> <<"Mkdirs", p, n>>, code |-> code])
      BY <1>1, <2>1, <3>1 DEF Ready, Tree!Tell
    <3>3. Tree!Mkdirs(p, n)
      BY <3>2, TreeViews, Zenon DEF Tree!Mkdirs, Tree!Refuse
    <3> QED
      BY <3>3, Zenon DEF Tree!Next
  <2>2. CASE Stop
    BY <2>2, Zenon DEF Stop, ids, tree
  <2>3. ASSUME NEW id \in NewIds, Ready, MkdirsDraws(p, n, id)
        PROVE  Tree!Next
    <3>1. CASE alive' = FALSE /\ UNCHANGED <<log, reply>>
      <4>1. tree' = tree
        BY <3>1 DEF tree
      <4>2. id \in ReqIds \ {0} /\ Tree!Give(id)
        BY <2>3, NewIdsTyped, GiveRefines, Zenon DEF MkdirsDraws
      <4>3. Tree!Waste(id)
        BY <1>1, <2>3, <3>1, <4>1, <4>2 DEF Ready, Tree!Waste
      <4> QED
        BY <4>2, <4>3, Zenon DEF Tree!Next
    <3>2. ASSUME NEW state, MkdirsWrites(p, n, id, state)
          PROVE  Tree!Next
      <4>1. Tree!Mkdirs(p, n)
        BY <2>3, <3>2, CreateRefines, Zenon DEF MkdirsDraws
      <4> QED
        BY <4>1, Zenon DEF Tree!Next
    <3> QED
      BY <2>3, <3>1, <3>2, Zenon DEF MkdirsDraws
  <2>4. /\ Ready
        /\ \/ /\ UNCHANGED <<log, alive, restarts, ids>>
              /\ \E code \in codes : reply' = [req |-> <<"Mkdirs", p, n>>, code |-> code]
           \/ Stop
           \/ \E id \in NewIds : MkdirsDraws(p, n, id)
    BY <1>3, MkdirsCases, Zenon DEF IsStored
  <2> QED
    BY <2>1, <2>2, <2>3, <2>4, Zenon
<1>4. ASSUME NEW i \in ReqIds, GetInode(i) PROVE Tree!Next
  <2>1. tree' = tree /\ used' = used /\ unordered' = unordered
    BY <1>4, GetInodeCases, AnswerRefines
  <2>2. reply = Tree!NoAnswer
    BY <1>1, <1>4, GetInodeCases DEF Ready
  <2>3. Tree!GetInode(i)
    BY <1>4, <2>1, <2>2, GetInodeCases, TreeViews, Zenon DEF Tree!GetInode, Tree!Refuse, Tree!Tell
  <2> QED
    BY <2>3, Zenon DEF Tree!Next
<1>5. ASSUME NEW p \in ReqIds, NEW n \in Names, Lookup(p, n) PROVE Tree!Next
  <2>1. tree' = tree /\ used' = used /\ unordered' = unordered
    BY <1>5, LookupCases, AnswerRefines, Zenon
  <2>2. reply = Tree!NoAnswer
    BY <1>1, <1>5, LookupCases, Zenon DEF Ready
  <2> DEFINE e == Tree!Entry(p, n)
  <2>3. /\ ReadDEnt(db, p, n) = NoDir => e = 0
        /\ ReadDEnt(db, p, n) # NoDir => e # 0 /\ ReadDEnt(db, p, n).id = e
    BY EntryRead
  <2> HIDE DEF e
  <2>4. \/ reply' = [req |-> <<"Lookup", p, n>>, code |-> "kSystemError"]
        \/ e = 0 /\ reply' = [req |-> <<"Lookup", p, n>>, code |-> "kNotFoundError"]
        \/ e # 0 /\ reply' = [req |-> <<"Lookup", p, n>>, code |-> "kOK", id |-> e]
    BY <1>5, <2>3, LookupCases, Zenon
  <2>5. Tree!Lookup(p, n)
    BY <2>1, <2>2, <2>4, Zenon DEF Tree!Lookup, Tree!Refuse, Tree!Tell, e
  <2> QED
    BY <2>5, Zenon DEF Tree!Next
<1>6. ASSUME NEW i \in ReqIds, NEW u \in Users, NEW s \in Names \cup {0}, NEW l \in Limits,
             ListDir(i, u, s, l)
      PROVE  Tree!Next
  <2> DEFINE codes == {"kSystemError"} \cup {IF IsStored(i) THEN "kPermissionError"
                                            ELSE "kParentNotFoundError"}
             ents == ListDEnts(i, s, IF l > 0 THEN l ELSE list_dir_default_limit)
             req == <<"ListDir", i, s, l>>
  <2>1. tree' = tree /\ used' = used /\ unordered' = unordered
    BY <1>6, ListDirCases, AnswerRefines
  <2>2. reply = Tree!NoAnswer
    BY <1>1, <1>6, ListDirCases DEF Ready
  <2>3. ents = Tree!Listing(i, s, IF l > 0 THEN l ELSE list_dir_default_limit)
    BY SameListing
  <2> HIDE DEF ents
  <2>4. \/ \E code \in codes : reply' = [req |-> req, code |-> code]
        \/ IsStored(i) /\ reply' = ListedOK(i, s, l, ents)
    BY <1>6, ListDirCases, Zenon DEF ents
  <2>5. CASE \E code \in codes : reply' = [req |-> req, code |-> code]
    <3>1. \E code \in codes : Tree!Tell([req |-> req, code |-> code])
      BY <2>1, <2>2, <2>5 DEF Tree!Tell
    <3>2. Tree!ListDir(i, s, l)
      BY <3>1, TreeViews, Zenon DEF Tree!ListDir, Tree!Refuse
    <3> QED
      BY <3>2, Zenon DEF Tree!Next
  <2>6. CASE IsStored(i) /\ reply' = ListedOK(i, s, l, ents)
    <3>1. Tree!IsDir(i) /\ Tree!ParentOf(i) = StoredParent(i)
      BY <2>6, TreeViews, Zenon
    <3>2. Cardinality(ents) = Tree!Cardinality(ents)
      BY SameCardinality
    <3>3. reply' = [req         |-> req,
                    code        |-> "kOK",
                    parent_dent |-> IF s = 0 THEN Tree!ParentOf(i) ELSE 0,
                    ents        |-> ents,
                    has_more    |-> Tree!Cardinality(ents) = l]
      BY <2>6, <3>1, <3>2, Zenon DEF ListedOK
    <3>4. Tree!ListDir(i, s, l)
      BY <2>1, <2>2, <2>3, <3>1, <3>3, Zenon DEF Tree!ListDir, Tree!Tell
    <3> QED
      BY <3>4, Zenon DEF Tree!Next
  <2> QED
    BY <2>4, <2>5, <2>6
<1>8. CASE \E n \in 1..Len(log) : Restart(n)
  BY <1>8, RestartRefines, Zenon DEF Tree!Next
<1>9. CASE UNCHANGED vars
  BY <1>9, Zenon DEF vars, ids, tree
<1> QED
  BY <1>2, <1>3, <1>4, <1>5, <1>6, <1>8, <1>9, Zenon DEF Next

\* The NameNode implements the name space of DirTree, for every value of the
\* constants and whatever ids the generator returns.
THEOREM RefinesDirTree == Spec => ImplementsDirTree
<1>1. Init => Tree!Init
  <2> SUFFICES ASSUME Init PROVE Tree!Init
    OBVIOUS
  <2>1. log = <<EmptyDB>> /\ reply = NoReply /\ used = {} /\ unordered = {}
    BY DEF Init
  <2>3. TreeOf(EmptyDB) = [dirs |-> Tree!EmptyMap, entry |-> Tree!EmptyMap]
    <3>1. EmptyDB.inode = EmptyCF /\ EmptyDB.dent = EmptyCF /\ DOMAIN EmptyCF = {}
      BY DEF EmptyDB, EmptyCF
    <3>2. \A f : [id \in {} |-> f[id]] = Tree!EmptyMap
      BY DEF Tree!EmptyMap
    <3>3. /\ TreeOf(EmptyDB).dirs = Tree!EmptyMap
          /\ TreeOf(EmptyDB).entry = Tree!EmptyMap
      BY <3>1, Zenon DEF TreeOf, Tree!EmptyMap
    <3> QED
      BY <3>3, Zenon DEF TreeOf
  <2>4. tree = <<TreeOf(EmptyDB)>>
    <3>1. Len(log) = 1 /\ log[1] = EmptyDB
      BY <2>1
    <3>2. tree = [i \in 1..1 |-> TreeOf(log[i])]
      BY <3>1 DEF tree
    <3> QED
      BY <3>1, <3>2
  <2> QED
    BY <2>1, <2>3, <2>4 DEF Tree!Init, NoReply, Tree!NoAnswer
<1>2. NNInv /\ [Next]_vars => [Tree!Next]_(Tree!vars)
  BY StepRefines DEF Tree!vars
<1> QED
  BY <1>1, <1>2, NNAlways, PTL DEF Spec, Tree!Spec, ImplementsDirTree
=============================================================================
