------------------------------ MODULE DirTable ------------------------------
(***************************************************************************)
(* DirTableBase as KVDirTable implements it: a sequence of transactions,    *)
(* each of which creates, modifies or removes one directory with            *)
(* KVDirTable::Write(orig, mod), where orig is what Read returned.  The     *)
(* table keeps no row itself: what it knows is spread over the four column  *)
(* families, and Write only touches the ones that orig and mod differ in.   *)
(*                                                                          *)
(* The caller keeps the keys of the schema: it writes no id and no pair of  *)
(* parent and name that another row has.                                    *)
(***************************************************************************)
EXTENDS Serde

CONSTANTS Ids, Names, Acls, Times

ASSUME DirTableAssumption ==
    /\ Ids \subseteq Nat /\ Names \subseteq Nat /\ Times \subseteq Nat
    /\ 0 \in Times /\ NoAcl \in Acls

Dirs == [parent_id : Ids, name : Names, id : Ids, acl : Acls,
         ctime_in_ns : Times, mtime_in_ns : Times, atime_in_ns : Times]

ASSUME NoDirAssumption == NoDir \notin Dirs /\ CheckFailed \notin Dirs \cup {NoDir, RootDir}

VARIABLES
    db,     \* the column families
    rows    \* history variable: the rows the callers have written, by id

vars == <<db, rows>>

Init == db = EmptyDB /\ rows = EmptyCF

\* No row but the one with id except has the keys of dir.
KeysFree(dir, except) ==
    \A i \in DOMAIN rows \ except :
        dir.id # i /\ <<dir.parent_id, dir.name>> # <<rows[i].parent_id, rows[i].name>>

\* Write(std::nullopt, dir), as MkdirsOp does.
Create(dir) ==
    /\ KeysFree(dir, {})
    /\ db' = WriteDir(db, NoDir, dir)
    /\ rows' = PutKey(rows, dir.id, dir)

\* Write(orig, mod): a rename, a move, a chmod, new times, or several of them.
Modify(id, mod) ==
    /\ id \in DOMAIN rows
    /\ KeysFree(mod, {id})
    /\ db' = WriteDir(db, ReadDir(db, id), mod)
    /\ rows' = PutKey(DelKeys(rows, {id}), mod.id, mod)

\* Write(orig, std::nullopt).
Remove(id) ==
    /\ id \in DOMAIN rows
    /\ db' = WriteDir(db, ReadDir(db, id), NoDir)
    /\ rows' = DelKeys(rows, {id})

Next ==
    \/ \E dir \in Dirs : Create(dir)
    \/ \E id \in Ids, mod \in Dirs : Modify(id, mod)
    \/ \E id \in Ids : Remove(id)

Spec == Init /\ [][Next]_vars

----------------------------------------------------------------------------
CFTypeOK(cf, keys, vals) == DOMAIN cf \subseteq keys /\ \A k \in DOMAIN cf : cf[k] \in vals

TypeOK ==
    /\ DOMAIN db = {"inode", "mtime", "atime", "dent"}
    /\ CFTypeOK(db.inode, Ids,
                [parent_id : Ids, name : Names, id : Ids, ctime_in_ns : Times])
    /\ CFTypeOK(db.mtime, Ids, Times)
    /\ CFTypeOK(db.atime, Ids, Times)
    /\ CFTypeOK(db.dent, Ids \X Names, [parent_id : Ids, name : Names, id : Ids])
    /\ CFTypeOK(rows, Ids, Dirs)

\* Read(id) gives back the row last written for the id, but for its Acl, and
\* nothing for an id without a row, whatever changes Write was given before: no
\* column family misses a change, keeps a removed row or lacks the time that
\* Read CHECKs for.
ReadsBack ==
    \A i \in Ids \ {kRootInodeID} :
        ReadDir(db, i) = IF i \in DOMAIN rows THEN [rows[i] EXCEPT !.acl = NoAcl] ELSE NoDir

\* The index is exact: Read(parent_id, name) finds the one row with that parent
\* and name, and no entry outlives a rename, a move or a removal.
IndexExact ==
    \A p \in Ids, n \in Names :
        LET dent == ReadDEnt(db, p, n)
            here == {i \in DOMAIN rows : rows[i].parent_id = p /\ rows[i].name = n}
        IN  IF here = {} THEN dent = NoDir ELSE dent # NoDir /\ here = {dent.id}

\* No column family holds a key of a row that is gone.
NoGarbage ==
    /\ DOMAIN db.inode = DOMAIN rows
    /\ DOMAIN db.mtime = DOMAIN rows
    /\ DOMAIN db.atime = DOMAIN rows
=============================================================================
