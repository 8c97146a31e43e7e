------------------------------- MODULE Serde -------------------------------
(***************************************************************************)
(* How KVDirTable and KVDEntView lay directories out in the four column     *)
(* families of the key-value store: the serdes of table/kv/serde.{h,cc}     *)
(* and the point reads and the write of kv_dir_table.cc and kv_dent_view.cc.*)
(*                                                                          *)
(* A column family is a function from the keys that are present to their    *)
(* values.  A big-endian 64-bit id sorts like the id, and a DEnt key like   *)
(* the pair of parent id and name, so keys are ids and such pairs.  A name  *)
(* is a natural number, ordered as the strings are, 0 for the empty string.  *)
(* Only directories have a table, so only the Dir variants of the serdes    *)
(* are modelled.                                                            *)
(***************************************************************************)
EXTENDS Naturals

CONSTANTS
    NoDir,          \* std::nullopt
    CheckFailed     \* a CHECK in a read threw

kRootInodeID == 1
NoAcl == [uid |-> 0, gid |-> 0, perm |-> {}]
RootAcl == [uid |-> 0, gid |-> 0, perm |-> 0..11]

EmptyCF == [k \in {} |-> 0]
EmptyDB == [inode |-> EmptyCF, mtime |-> EmptyCF, atime |-> EmptyCF, dent |-> EmptyCF]

PutKey(cf, key, val) == [k \in DOMAIN cf \cup {key} |-> IF k = key THEN val ELSE cf[k]]
DelKeys(cf, keys) == [k \in DOMAIN cf \ keys |-> cf[k]]

----------------------------------------------------------------------------
\* InodeSerde.  SerVal leaves the Acl and the two other times out, and DeVal
\* leaves them zero.
InodeIsKeyChanged(orig, mod) == orig.id # mod.id
InodeIsValueChanged(orig, mod) ==
    \/ orig.parent_id # mod.parent_id \/ orig.name # mod.name \/ orig.id # mod.id
    \/ orig.acl # mod.acl \/ orig.ctime_in_ns # mod.ctime_in_ns
InodeSerKey(dir) == dir.id
InodeSerVal(dir) == [parent_id |-> dir.parent_id, name |-> dir.name, id |-> dir.id,
                     ctime_in_ns |-> dir.ctime_in_ns]
InodeDeVal(val) == [parent_id |-> val.parent_id, name |-> val.name, id |-> val.id,
                    acl |-> NoAcl, ctime_in_ns |-> val.ctime_in_ns,
                    mtime_in_ns |-> 0, atime_in_ns |-> 0]

\* Mutant: a directory that is only touched keeps its old time.
MTimeIsValueChangedNever(orig, mod) == FALSE

\* MTimeSerde and ATimeSerde.
MTimeIsKeyChanged(orig, mod) == orig.id # mod.id
MTimeIsValueChanged(orig, mod) == orig.mtime_in_ns # mod.mtime_in_ns
MTimeSerKey(dir) == dir.id
MTimeSerVal(dir) == dir.mtime_in_ns
ATimeIsKeyChanged(orig, mod) == orig.id # mod.id
ATimeIsValueChanged(orig, mod) == orig.atime_in_ns # mod.atime_in_ns
ATimeSerKey(dir) == dir.id
ATimeSerVal(dir) == dir.atime_in_ns

\* Mutant: a move to another parent under the same name is not seen.
DEntIsKeyChangedName(orig, mod) == orig.name # mod.name

\* DEntSerde.  SerVal keeps the ids and the name only.
DEntIsKeyChanged(orig, mod) == orig.parent_id # mod.parent_id \/ orig.name # mod.name
DEntIsValueChanged(orig, mod) == orig.id # mod.id
DEntSerKey(dir) == <<dir.parent_id, dir.name>>
DEntSerVal(dir) == [parent_id |-> dir.parent_id, name |-> dir.name, id |-> dir.id]
DEntDeVal(val) == [parent_id |-> val.parent_id, name |-> val.name, id |-> val.id,
                   acl |-> NoAcl, ctime_in_ns |-> 0, mtime_in_ns |-> 0, atime_in_ns |-> 0]

----------------------------------------------------------------------------
\* Mutant: the entry under the old key is left behind.
DelKeyOnlyIfRemoved(orig, mod, key_changed, key) == IF mod = NoDir THEN {key} ELSE {}

\* WriteOps::del_key of GetWriteOps, for an orig that has a value with this key.
DelKey(orig, mod, key_changed, key) == IF mod = NoDir \/ key_changed THEN {key} ELSE {}

\* Serde::Write: the operations GetWriteOps computes, the deletion first.  The
\* keys, the value and the two comparisons are those of the serde it is called
\* on; the ones that take a missing directory are not used.
SerdeWrite(cf, orig, mod, orig_key, mod_key, mod_val, key_changed, value_changed) ==
    LET changed == orig # NoDir /\ mod # NoDir /\ key_changed
        dels    == IF orig = NoDir THEN {} ELSE DelKey(orig, mod, changed, orig_key)
        puts    == mod # NoDir /\ (orig # NoDir => changed \/ value_changed)
    IN  IF puts THEN PutKey(DelKeys(cf, dels), mod_key, mod_val) ELSE DelKeys(cf, dels)

\* KVDirTable::Write(orig, mod).
WriteDir(db, orig, mod) ==
    [inode |-> SerdeWrite(db.inode, orig, mod, InodeSerKey(orig), InodeSerKey(mod), InodeSerVal(mod),
                          InodeIsKeyChanged(orig, mod), InodeIsValueChanged(orig, mod)),
     mtime |-> SerdeWrite(db.mtime, orig, mod, MTimeSerKey(orig), MTimeSerKey(mod), MTimeSerVal(mod),
                          MTimeIsKeyChanged(orig, mod), MTimeIsValueChanged(orig, mod)),
     atime |-> SerdeWrite(db.atime, orig, mod, ATimeSerKey(orig), ATimeSerKey(mod), ATimeSerVal(mod),
                          ATimeIsKeyChanged(orig, mod), ATimeIsValueChanged(orig, mod)),
     dent  |-> SerdeWrite(db.dent, orig, mod, DEntSerKey(orig), DEntSerKey(mod), DEntSerVal(mod),
                          DEntIsKeyChanged(orig, mod), DEntIsValueChanged(orig, mod))]

RootDir == [parent_id |-> kRootInodeID, name |-> 0, id |-> kRootInodeID, acl |-> RootAcl,
            ctime_in_ns |-> 0, mtime_in_ns |-> 0, atime_in_ns |-> 0]

\* KVDirTable::Read(id), when no Get of the store fails.
ReadDir(db, id) ==
    IF id \notin DOMAIN db.inode
    THEN IF id = kRootInodeID THEN RootDir ELSE NoDir
    ELSE IF id \notin DOMAIN db.mtime \/ id \notin DOMAIN db.atime
    THEN CheckFailed
    ELSE [InodeDeVal(db.inode[id]) EXCEPT !.mtime_in_ns = db.mtime[id],
                                          !.atime_in_ns = db.atime[id]]

\* KVDirTable::Read(parent_id, name) and KVDEntView::Read(parent_id, name).
ReadDEnt(db, parent_id, name) ==
    IF <<parent_id, name>> \in DOMAIN db.dent THEN DEntDeVal(db.dent[<<parent_id, name>>])
    ELSE NoDir
============================================================================
