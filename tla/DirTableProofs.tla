--------------------------- MODULE DirTableProofs ---------------------------
(***************************************************************************)
(* For any sets of ids, names, Acls and times: what KVDirTable::Write leaves *)
(* in the four column families reads back as the rows it was given, and the *)
(* index of entries is exact.  The inductive invariant Encoded says what     *)
(* each family holds, as a function of the rows.                            *)
(***************************************************************************)
EXTENDS DirTable, TLAPS

RowsOK ==
    /\ DOMAIN rows \subseteq Ids
    /\ \A i \in DOMAIN rows : rows[i] \in Dirs /\ rows[i].id = i
    /\ \A i, j \in DOMAIN rows :
          i # j => <<rows[i].parent_id, rows[i].name>> # <<rows[j].parent_id, rows[j].name>>

Encoded ==
    /\ DOMAIN db = {"inode", "mtime", "atime", "dent"}
    /\ DOMAIN db.inode = DOMAIN rows
    /\ DOMAIN db.mtime = DOMAIN rows
    /\ DOMAIN db.atime = DOMAIN rows
    /\ \A i \in DOMAIN rows :
          /\ db.inode[i] = InodeSerVal(rows[i])
          /\ db.mtime[i] = rows[i].mtime_in_ns
          /\ db.atime[i] = rows[i].atime_in_ns
    /\ DOMAIN db.dent = {DEntSerKey(rows[i]) : i \in DOMAIN rows}
    /\ \A i \in DOMAIN rows : db.dent[DEntSerKey(rows[i])] = DEntSerVal(rows[i])

IInv == RowsOK /\ Encoded

\* What Read(id) returns for a row, from the encoding.
LEMMA ReadOfRow ==
    ASSUME IInv, NEW id \in DOMAIN rows
    PROVE  ReadDir(db, id) = [rows[id] EXCEPT !.acl = NoAcl]
<1>1. rows[id] \in Dirs /\ rows[id].id = id
  BY DEF IInv, RowsOK
<1>2. /\ id \in DOMAIN db.inode /\ id \in DOMAIN db.mtime /\ id \in DOMAIN db.atime
      /\ db.inode[id] = InodeSerVal(rows[id])
      /\ db.mtime[id] = rows[id].mtime_in_ns
      /\ db.atime[id] = rows[id].atime_in_ns
  BY DEF IInv, Encoded
<1> DEFINE r == rows[id]
           read == [parent_id |-> r.parent_id, name |-> r.name, id |-> r.id, acl |-> NoAcl,
                    ctime_in_ns |-> r.ctime_in_ns, mtime_in_ns |-> r.mtime_in_ns,
                    atime_in_ns |-> r.atime_in_ns]
<1>3. [r EXCEPT !.acl = NoAcl] = read
  BY <1>1 DEF Dirs
<1>4. [InodeDeVal(InodeSerVal(r)) EXCEPT !.mtime_in_ns = r.mtime_in_ns,
                                         !.atime_in_ns = r.atime_in_ns] = read
  <2> HIDE DEF r
  <2>1. InodeDeVal(InodeSerVal(r)) =
           [parent_id |-> r.parent_id, name |-> r.name, id |-> r.id, acl |-> NoAcl,
            ctime_in_ns |-> r.ctime_in_ns, mtime_in_ns |-> 0, atime_in_ns |-> 0]
    BY DEF InodeDeVal, InodeSerVal
  <2> DEFINE zero == [parent_id |-> r.parent_id, name |-> r.name, id |-> r.id, acl |-> NoAcl,
                      ctime_in_ns |-> r.ctime_in_ns, mtime_in_ns |-> 0, atime_in_ns |-> 0]
             half == [parent_id |-> r.parent_id, name |-> r.name, id |-> r.id, acl |-> NoAcl,
                      ctime_in_ns |-> r.ctime_in_ns, mtime_in_ns |-> r.mtime_in_ns,
                      atime_in_ns |-> 0]
  <2>2. [zero EXCEPT !.mtime_in_ns = r.mtime_in_ns] = half
    OBVIOUS
  <2>3. [half EXCEPT !.atime_in_ns = r.atime_in_ns] = read
    OBVIOUS
  <2>4. InodeDeVal(InodeSerVal(r)) = zero
    BY <2>1
  <2> HIDE DEF zero, half
  <2>5. [zero EXCEPT !.mtime_in_ns = r.mtime_in_ns, !.atime_in_ns = r.atime_in_ns]
           = [[zero EXCEPT !.mtime_in_ns = r.mtime_in_ns] EXCEPT !.atime_in_ns = r.atime_in_ns]
    OBVIOUS
  <2> QED
    BY <2>2, <2>3, <2>4, <2>5, Zenon
<1> QED
  BY <1>2, <1>3, <1>4 DEF ReadDir

\* Write(std::nullopt, dir) keeps the encoding.
LEMMA CreateWrites ==
    ASSUME IInv, NEW dir \in Dirs, KeysFree(dir, {}),
           db' = WriteDir(db, NoDir, dir), rows' = PutKey(rows, dir.id, dir)
    PROVE  IInv'
<1>1. /\ DOMAIN rows' = DOMAIN rows \cup {dir.id}
      /\ \A i \in DOMAIN rows' : rows'[i] = IF i = dir.id THEN dir ELSE rows[i]
  BY DEF PutKey
<1>2. \A i \in DOMAIN rows : dir.id # i /\ DEntSerKey(dir) # DEntSerKey(rows[i])
  BY DEF KeysFree, DEntSerKey
<1>3. dir # NoDir
  BY NoDirAssumption
<1>4. RowsOK'
  BY <1>1, <1>2 DEF IInv, RowsOK, Dirs, DEntSerKey
<1>5. db' = [inode |-> PutKey(DelKeys(db.inode, {}), dir.id, InodeSerVal(dir)),
             mtime |-> PutKey(DelKeys(db.mtime, {}), dir.id, dir.mtime_in_ns),
             atime |-> PutKey(DelKeys(db.atime, {}), dir.id, dir.atime_in_ns),
             dent  |-> PutKey(DelKeys(db.dent, {}), DEntSerKey(dir), DEntSerVal(dir))]
  BY <1>3 DEF WriteDir, SerdeWrite, InodeSerKey, MTimeSerKey, ATimeSerKey, MTimeSerVal, ATimeSerVal
<1>6. /\ DOMAIN db'.inode = DOMAIN db.inode \cup {dir.id}
      /\ DOMAIN db'.mtime = DOMAIN db.mtime \cup {dir.id}
      /\ DOMAIN db'.atime = DOMAIN db.atime \cup {dir.id}
      /\ DOMAIN db'.dent = DOMAIN db.dent \cup {DEntSerKey(dir)}
  BY <1>5 DEF PutKey, DelKeys
<1>7. \A i \in DOMAIN rows' :
          /\ db'.inode[i] = InodeSerVal(rows'[i])
          /\ db'.mtime[i] = rows'[i].mtime_in_ns
          /\ db'.atime[i] = rows'[i].atime_in_ns
  BY <1>1, <1>2, <1>5 DEF IInv, Encoded, PutKey, DelKeys
<1>8. DOMAIN db'.dent = {DEntSerKey(rows'[i]) : i \in DOMAIN rows'}
  BY <1>1, <1>2, <1>6, SMTT(30) DEF IInv, Encoded
<1>9. \A i \in DOMAIN rows' : db'.dent[DEntSerKey(rows'[i])] = DEntSerVal(rows'[i])
  BY <1>1, <1>2, <1>5 DEF IInv, Encoded, PutKey, DelKeys
<1>10. DOMAIN db' = {"inode", "mtime", "atime", "dent"}
  BY <1>5
<1> QED
  BY <1>1, <1>4, <1>6, <1>7, <1>8, <1>9, <1>10, Zenon DEF IInv, Encoded

\* Write(orig, std::nullopt) keeps the encoding.
LEMMA RemoveWrites ==
    ASSUME IInv, NEW id \in DOMAIN rows,
           db' = WriteDir(db, ReadDir(db, id), NoDir), rows' = DelKeys(rows, {id})
    PROVE  IInv'
<1> DEFINE orig == [rows[id] EXCEPT !.acl = NoAcl]
<1>1. /\ DOMAIN rows' = DOMAIN rows \ {id}
      /\ \A i \in DOMAIN rows' : rows'[i] = rows[i]
  BY DEF DelKeys
<1>2. /\ rows[id] \in Dirs /\ rows[id].id = id /\ orig \in Dirs
      /\ orig.id = id /\ DEntSerKey(orig) = DEntSerKey(rows[id])
  BY DirTableAssumption DEF IInv, RowsOK, Dirs, DEntSerKey
<1>3. orig # NoDir
  BY <1>2, NoDirAssumption
<1>4. \A i \in DOMAIN rows' : i # id /\ DEntSerKey(rows[i]) # DEntSerKey(rows[id])
  BY <1>1 DEF IInv, RowsOK, DEntSerKey
<1>6. db' = WriteDir(db, orig, NoDir)
  BY ReadOfRow
<1> HIDE DEF orig
<1>5. RowsOK'
  <2>1. DOMAIN rows' \subseteq DOMAIN rows
    BY <1>1
  <2>2. DOMAIN rows' \subseteq Ids
    <3>1. DOMAIN rows \subseteq Ids
      BY DEF IInv, RowsOK
    <3> HIDE DEF IInv, RowsOK
    <3> QED
      BY <2>1, <3>1
  <2>3. \A i \in DOMAIN rows' : rows'[i] \in Dirs /\ rows'[i].id = i
    BY <1>1, <2>1, SMTT(30) DEF IInv, RowsOK
  <2>4. \A i, j \in DOMAIN rows' : i # j =>
           <<rows'[i].parent_id, rows'[i].name>> # <<rows'[j].parent_id, rows'[j].name>>
    <3> SUFFICES ASSUME NEW i \in DOMAIN rows', NEW j \in DOMAIN rows', i # j
                 PROVE  <<rows'[i].parent_id, rows'[i].name>> # <<rows'[j].parent_id, rows'[j].name>>
      OBVIOUS
    <3>1. i \in DOMAIN rows /\ j \in DOMAIN rows /\ rows'[i] = rows[i] /\ rows'[j] = rows[j]
      BY <1>1
    <3> QED
      BY <3>1 DEF IInv, RowsOK
  <2> QED
    BY <2>2, <2>3, <2>4, Zenon DEF RowsOK
<1>7. db' = [inode |-> DelKeys(db.inode, {id}),
             mtime |-> DelKeys(db.mtime, {id}),
             atime |-> DelKeys(db.atime, {id}),
             dent  |-> DelKeys(db.dent, {DEntSerKey(rows[id])})]
  BY <1>2, <1>3, <1>6, Zenon
     DEF WriteDir, SerdeWrite, DelKey, InodeSerKey, MTimeSerKey, ATimeSerKey
<1>8. /\ DOMAIN db'.inode = DOMAIN rows'
      /\ DOMAIN db'.mtime = DOMAIN rows'
      /\ DOMAIN db'.atime = DOMAIN rows'
      /\ DOMAIN db'.dent = DOMAIN db.dent \ {DEntSerKey(rows[id])}
  BY <1>1, <1>7 DEF DelKeys, IInv, Encoded
<1>9. \A i \in DOMAIN rows' :
          /\ db'.inode[i] = InodeSerVal(rows'[i])
          /\ db'.mtime[i] = rows'[i].mtime_in_ns
          /\ db'.atime[i] = rows'[i].atime_in_ns
  BY <1>1, <1>7 DEF IInv, Encoded, DelKeys
<1>10. DOMAIN db'.dent = {DEntSerKey(rows'[i]) : i \in DOMAIN rows'}
  <2>1. DOMAIN db.dent = {DEntSerKey(rows[i]) : i \in DOMAIN rows}
    BY DEF IInv, Encoded
  <2>2. {DEntSerKey(rows'[i]) : i \in DOMAIN rows'} = {DEntSerKey(rows[i]) : i \in DOMAIN rows'}
    BY <1>1
  <2> QED
    BY <1>1, <1>4, <1>8, <2>1, <2>2
<1>11. \A i \in DOMAIN rows' : db'.dent[DEntSerKey(rows'[i])] = DEntSerVal(rows'[i])
  BY <1>1, <1>4, <1>7 DEF IInv, Encoded, DelKeys
<1>12. DOMAIN db' = {"inode", "mtime", "atime", "dent"}
  BY <1>7
<1> QED
  BY <1>5, <1>8, <1>9, <1>10, <1>11, <1>12, Zenon DEF IInv, Encoded

\* The three ways Serde::Write can treat a key and its value.
Rewritten(cf, cf2, k0, k1, v) ==
    \/ k1 # k0 /\ cf2 = PutKey(DelKeys(cf, {k0}), k1, v)
    \/ k1 = k0 /\ cf2 = PutKey(DelKeys(cf, {}), k1, v)
    \/ k1 = k0 /\ cf2 = DelKeys(cf, {}) /\ cf[k0] = v

\* The value sits under the new key, the old key is gone if it differs, and
\* the other keys are untouched.
Moved(cf, cf2, k0, k1, v) ==
    /\ DOMAIN cf2 = (DOMAIN cf \ {k0}) \cup {k1}
    /\ cf2[k1] = v
    /\ \A k \in DOMAIN cf \ {k0} : k # k1 => cf2[k] = cf[k]

\* All three of them come to the same.
LEMMA Rekeyed ==
    ASSUME NEW cf, NEW cf2, NEW k0 \in DOMAIN cf, NEW k1, NEW v, Rewritten(cf, cf2, k0, k1, v)
    PROVE  Moved(cf, cf2, k0, k1, v)
<1>1. CASE k1 # k0 /\ cf2 = PutKey(DelKeys(cf, {k0}), k1, v)
  BY <1>1, Zenon DEF PutKey, DelKeys, Moved
<1>2. CASE k1 = k0 /\ cf2 = PutKey(DelKeys(cf, {}), k1, v)
  BY <1>2 DEF PutKey, DelKeys, Moved
<1>3. CASE k1 = k0 /\ cf2 = DelKeys(cf, {}) /\ cf[k0] = v
  BY <1>3 DEF DelKeys, Moved
<1> QED
  BY <1>1, <1>2, <1>3 DEF Rewritten

\* Write(orig, mod) keeps the encoding, whichever fields differ.
LEMMA ModifyWrites ==
    ASSUME IInv, NEW id \in DOMAIN rows, NEW mod \in Dirs, KeysFree(mod, {id}),
           db' = WriteDir(db, ReadDir(db, id), mod),
           rows' = PutKey(DelKeys(rows, {id}), mod.id, mod)
    PROVE  IInv'
<1> DEFINE orig == [rows[id] EXCEPT !.acl = NoAcl]
           others == DOMAIN rows \ {id}
<1>1. /\ DOMAIN rows' = others \cup {mod.id}
      /\ rows'[mod.id] = mod
      /\ \A i \in others : i # mod.id => rows'[i] = rows[i]
  BY DEF PutKey, DelKeys
<1>2. /\ rows[id] \in Dirs /\ rows[id].id = id /\ orig \in Dirs /\ orig.id = id
      /\ DEntSerKey(orig) = DEntSerKey(rows[id]) /\ DEntSerVal(orig) = DEntSerVal(rows[id])
      /\ InodeSerVal(orig) = InodeSerVal(rows[id])
      /\ orig.mtime_in_ns = rows[id].mtime_in_ns /\ orig.atime_in_ns = rows[id].atime_in_ns
  BY DirTableAssumption DEF IInv, RowsOK, Dirs, DEntSerKey, DEntSerVal, InodeSerVal
<1>3. orig # NoDir /\ mod # NoDir
  BY <1>2, NoDirAssumption
<1>4. db' = WriteDir(db, orig, mod)
  BY ReadOfRow
<1> HIDE DEF orig
<1>5. \A i \in others : /\ i # mod.id
                        /\ DEntSerKey(rows[i]) # DEntSerKey(mod)
                        /\ DEntSerKey(rows[i]) # DEntSerKey(rows[id])
  BY DEF KeysFree, DEntSerKey, IInv, RowsOK
<1>6. /\ id \in DOMAIN db.inode /\ db.inode[id] = InodeSerVal(orig)
      /\ id \in DOMAIN db.mtime /\ db.mtime[id] = orig.mtime_in_ns
      /\ id \in DOMAIN db.atime /\ db.atime[id] = orig.atime_in_ns
      /\ DEntSerKey(orig) \in DOMAIN db.dent /\ db.dent[DEntSerKey(orig)] = DEntSerVal(orig)
  BY <1>2 DEF IInv, Encoded
<1>7. Moved(db.inode, db'.inode, id, mod.id, InodeSerVal(mod))
  <2>1. db'.inode = SerdeWrite(db.inode, orig, mod, InodeSerKey(orig), InodeSerKey(mod), InodeSerVal(mod),
                          InodeIsKeyChanged(orig, mod), InodeIsValueChanged(orig, mod))
    BY <1>4 DEF WriteDir
  <2>2. ~InodeIsValueChanged(orig, mod) => InodeSerVal(orig) = InodeSerVal(mod)
    BY DEF InodeIsValueChanged, InodeSerVal
  <2>3. Rewritten(db.inode, db'.inode, id, mod.id, InodeSerVal(mod))
    BY <1>2, <1>3, <1>6, <2>1, <2>2
       DEF SerdeWrite, DelKey, InodeSerKey, InodeIsKeyChanged, Rewritten
  <2> QED
    BY <1>6, <2>3, Rekeyed
<1>8. Moved(db.mtime, db'.mtime, id, mod.id, mod.mtime_in_ns)
  <2>1. db'.mtime = SerdeWrite(db.mtime, orig, mod, MTimeSerKey(orig), MTimeSerKey(mod), MTimeSerVal(mod),
                          MTimeIsKeyChanged(orig, mod), MTimeIsValueChanged(orig, mod))
    BY <1>4 DEF WriteDir
  <2>2. Rewritten(db.mtime, db'.mtime, id, mod.id, mod.mtime_in_ns)
    BY <1>2, <1>3, <1>6, <2>1
       DEF SerdeWrite, DelKey, MTimeSerKey, MTimeSerVal, MTimeIsKeyChanged, MTimeIsValueChanged,
           Rewritten
  <2> QED
    BY <1>6, <2>2, Rekeyed
<1>9. Moved(db.atime, db'.atime, id, mod.id, mod.atime_in_ns)
  <2>1. db'.atime = SerdeWrite(db.atime, orig, mod, ATimeSerKey(orig), ATimeSerKey(mod), ATimeSerVal(mod),
                          ATimeIsKeyChanged(orig, mod), ATimeIsValueChanged(orig, mod))
    BY <1>4 DEF WriteDir
  <2>2. Rewritten(db.atime, db'.atime, id, mod.id, mod.atime_in_ns)
    BY <1>2, <1>3, <1>6, <2>1
       DEF SerdeWrite, DelKey, ATimeSerKey, ATimeSerVal, ATimeIsKeyChanged, ATimeIsValueChanged,
           Rewritten
  <2> QED
    BY <1>6, <2>2, Rekeyed
<1>10. Moved(db.dent, db'.dent, DEntSerKey(orig), DEntSerKey(mod), DEntSerVal(mod))
  <2> DEFINE k0 == DEntSerKey(orig)
             k1 == DEntSerKey(mod)
  <2>1. db'.dent = SerdeWrite(db.dent, orig, mod, DEntSerKey(orig), DEntSerKey(mod), DEntSerVal(mod),
                          DEntIsKeyChanged(orig, mod), DEntIsValueChanged(orig, mod))
    BY <1>4 DEF WriteDir
  <2>2. DEntIsKeyChanged(orig, mod) <=> k1 # k0
    BY DEF DEntIsKeyChanged, DEntSerKey
  <2>3. k1 = k0 /\ ~DEntIsValueChanged(orig, mod) => DEntSerVal(orig) = DEntSerVal(mod)
    BY DEF DEntIsValueChanged, DEntSerKey, DEntSerVal
  <2>4. Rewritten(db.dent, db'.dent, k0, k1, DEntSerVal(mod))
    BY <1>3, <1>6, <2>1, <2>2, <2>3 DEF SerdeWrite, DelKey, Rewritten
  <2> QED
    BY <1>6, <2>4, Rekeyed
<1>11. RowsOK'
  <2>1. DOMAIN rows' \subseteq Ids
    BY <1>1 DEF IInv, RowsOK, Dirs
  <2>2. \A i \in DOMAIN rows' : rows'[i] \in Dirs /\ rows'[i].id = i
    BY <1>1, <1>5 DEF IInv, RowsOK
  <2>3. \A i, j \in DOMAIN rows' : i # j => DEntSerKey(rows'[i]) # DEntSerKey(rows'[j])
    <3> SUFFICES ASSUME NEW i \in DOMAIN rows', NEW j \in DOMAIN rows', i # j
                 PROVE  DEntSerKey(rows'[i]) # DEntSerKey(rows'[j])
      OBVIOUS
    <3>1. CASE i \in others /\ j \in others
      <4>1. rows'[i] = rows[i] /\ rows'[j] = rows[j]
        BY <1>1, <1>5, <3>1
      <4> QED
        BY <3>1, <4>1 DEF IInv, RowsOK, DEntSerKey
    <3>2. CASE i = mod.id /\ j \in others
      BY <1>1, <1>5, <3>2
    <3>3. CASE j = mod.id /\ i \in others
      BY <1>1, <1>5, <3>3
    <3> QED
      BY <1>1, <3>1, <3>2, <3>3
  <2> QED
    BY <2>1, <2>2, <2>3, Zenon DEF RowsOK, DEntSerKey
<1>12. /\ DOMAIN db'.inode = DOMAIN rows'
       /\ DOMAIN db'.mtime = DOMAIN rows'
       /\ DOMAIN db'.atime = DOMAIN rows'
  BY <1>1, <1>7, <1>8, <1>9 DEF IInv, Encoded, Moved
<1>13. \A i \in DOMAIN rows' :
          /\ db'.inode[i] = InodeSerVal(rows'[i])
          /\ db'.mtime[i] = rows'[i].mtime_in_ns
          /\ db'.atime[i] = rows'[i].atime_in_ns
  <2>1. ASSUME NEW i \in others
        PROVE  /\ i # mod.id /\ rows'[i] = rows[i]
               /\ i \in DOMAIN db.inode \ {id} /\ db.inode[i] = InodeSerVal(rows[i])
               /\ i \in DOMAIN db.mtime \ {id} /\ db.mtime[i] = rows[i].mtime_in_ns
               /\ i \in DOMAIN db.atime \ {id} /\ db.atime[i] = rows[i].atime_in_ns
    BY <1>1, <1>5, Zenon DEF IInv, Encoded
  <2>2. ASSUME NEW i \in others
        PROVE  /\ db'.inode[i] = InodeSerVal(rows'[i])
               /\ db'.mtime[i] = rows'[i].mtime_in_ns
               /\ db'.atime[i] = rows'[i].atime_in_ns
    <3>1. db'.inode[i] = db.inode[i]
      BY <1>7, <2>1 DEF Moved
    <3>2. db'.mtime[i] = db.mtime[i]
      BY <1>8, <2>1 DEF Moved
    <3>3. db'.atime[i] = db.atime[i]
      BY <1>9, <2>1 DEF Moved
    <3> HIDE DEF others
    <3> QED
      BY <2>1, <3>1, <3>2, <3>3, Zenon
  <2>3. /\ db'.inode[mod.id] = InodeSerVal(mod)
        /\ db'.mtime[mod.id] = mod.mtime_in_ns
        /\ db'.atime[mod.id] = mod.atime_in_ns
    BY <1>7, <1>8, <1>9 DEF Moved
  <2> QED
    BY <1>1, <2>2, <2>3, SMTT(30)
<1>14. DOMAIN db'.dent = {DEntSerKey(rows'[i]) : i \in DOMAIN rows'}
  <2>1. DOMAIN db.dent = {DEntSerKey(rows[i]) : i \in DOMAIN rows}
    BY DEF IInv, Encoded
  <2>2. DOMAIN db.dent \ {DEntSerKey(rows[id])} = {DEntSerKey(rows[i]) : i \in others}
    BY <1>5, <2>1
  <2>3. {DEntSerKey(rows'[i]) : i \in others} = {DEntSerKey(rows[i]) : i \in others}
    BY <1>1, <1>5
  <2>4. {DEntSerKey(rows'[i]) : i \in DOMAIN rows'}
           = {DEntSerKey(rows'[i]) : i \in others} \cup {DEntSerKey(mod)}
    BY <1>1
  <2> QED
    BY <1>2, <1>10, <2>2, <2>3, <2>4, Zenon DEF Moved
<1>15. \A i \in DOMAIN rows' : db'.dent[DEntSerKey(rows'[i])] = DEntSerVal(rows'[i])
  <2>1. ASSUME NEW i \in others
        PROVE  db'.dent[DEntSerKey(rows[i])] = DEntSerVal(rows[i])
    <3>1. DEntSerKey(rows[i]) \in DOMAIN db.dent \ {DEntSerKey(orig)}
      BY <1>2, <1>5 DEF IInv, Encoded
    <3>2. db'.dent[DEntSerKey(rows[i])] = db.dent[DEntSerKey(rows[i])]
      BY <1>5, <1>10, <3>1, SMTT(30) DEF Moved
    <3> QED
      BY <3>2 DEF IInv, Encoded
  <2> QED
    BY <1>1, <1>5, <1>10, <2>1 DEF Moved
<1>16. DOMAIN db' = {"inode", "mtime", "atime", "dent"}
  BY <1>4 DEF WriteDir
<1> QED
  BY <1>11, <1>12, <1>13, <1>14, <1>15, <1>16, Zenon DEF IInv, Encoded

------------------------------------------------------------------------------
\* The encoding holds from the empty store on, whatever is written.
LEMMA EncodedAlways == Spec => []IInv
<1>1. Init => IInv
  <2> SUFFICES ASSUME Init PROVE IInv
    OBVIOUS
  <2>1. /\ DOMAIN rows = {} /\ DOMAIN db = {"inode", "mtime", "atime", "dent"}
        /\ DOMAIN db.inode = {} /\ DOMAIN db.mtime = {} /\ DOMAIN db.atime = {}
        /\ DOMAIN db.dent = {}
    BY DEF Init, EmptyDB, EmptyCF
  <2> QED
    BY <2>1 DEF IInv, RowsOK, Encoded
<1>2. IInv /\ [Next]_vars => IInv'
  <2> SUFFICES ASSUME IInv, [Next]_vars PROVE IInv'
    OBVIOUS
  <2>1. ASSUME NEW dir \in Dirs, Create(dir) PROVE IInv'
    BY <2>1, CreateWrites DEF Create
  <2>2. ASSUME NEW id \in Ids, NEW mod \in Dirs, Modify(id, mod) PROVE IInv'
    BY <2>2, ModifyWrites DEF Modify
  <2>3. ASSUME NEW id \in Ids, Remove(id) PROVE IInv'
    BY <2>3, RemoveWrites DEF Remove
  <2>4. CASE UNCHANGED vars
    BY <2>4 DEF vars, IInv, RowsOK, Encoded
  <2> QED
    BY <2>1, <2>2, <2>3, <2>4, Zenon DEF Next
<1> QED
  BY <1>1, <1>2, PTL DEF Spec

\* No column family ever holds a key or a value of another type.
THEOREM TypeCorrect == Spec => []TypeOK
<1>1. IInv => TypeOK
  <2> SUFFICES ASSUME IInv PROVE TypeOK
    OBVIOUS
  <2>1. DOMAIN rows \subseteq Ids /\ \A i \in DOMAIN rows : rows[i] \in Dirs
    BY DEF IInv, RowsOK
  <2>2. CFTypeOK(rows, Ids, Dirs)
    BY <2>1 DEF CFTypeOK
  <2>3. CFTypeOK(db.inode, Ids, [parent_id : Ids, name : Names, id : Ids, ctime_in_ns : Times])
    <3>1. \A d \in Dirs : InodeSerVal(d) \in [parent_id : Ids, name : Names, id : Ids,
                                              ctime_in_ns : Times]
      BY DEF InodeSerVal, Dirs
    <3> QED
      BY <2>1, <3>1 DEF IInv, Encoded, CFTypeOK
  <2>4. CFTypeOK(db.mtime, Ids, Times) /\ CFTypeOK(db.atime, Ids, Times)
    BY <2>1 DEF IInv, Encoded, CFTypeOK, Dirs
  <2>5. CFTypeOK(db.dent, Ids \X Names, [parent_id : Ids, name : Names, id : Ids])
    <3>1. \A d \in Dirs : /\ DEntSerKey(d) \in Ids \X Names
                          /\ DEntSerVal(d) \in [parent_id : Ids, name : Names, id : Ids]
      BY DEF DEntSerKey, DEntSerVal, Dirs
    <3>2. /\ DOMAIN db.dent = {DEntSerKey(rows[i]) : i \in DOMAIN rows}
          /\ \A i \in DOMAIN rows : db.dent[DEntSerKey(rows[i])] = DEntSerVal(rows[i])
      BY DEF IInv, Encoded
    <3>3. \A i \in DOMAIN rows : /\ DEntSerKey(rows[i]) \in Ids \X Names
                                 /\ db.dent[DEntSerKey(rows[i])]
                                       \in [parent_id : Ids, name : Names, id : Ids]
      BY <2>1, <3>1, <3>2
    <3> QED
      BY <3>2, <3>3 DEF CFTypeOK
  <2>6. DOMAIN db = {"inode", "mtime", "atime", "dent"}
    BY DEF IInv, Encoded
  <2> QED
    BY <2>2, <2>3, <2>4, <2>5, <2>6 DEF TypeOK
<1> QED
  BY <1>1, EncodedAlways, PTL

\* What Write stored reads back, whatever sequence of rows it was given.
THEOREM WritesReadBack == Spec => []ReadsBack
<1>1. IInv => ReadsBack
  <2> SUFFICES ASSUME IInv, NEW i \in Ids \ {kRootInodeID}
               PROVE  ReadDir(db, i) = IF i \in DOMAIN rows THEN [rows[i] EXCEPT !.acl = NoAcl]
                                       ELSE NoDir
    BY DEF ReadsBack
  <2>1. CASE i \in DOMAIN rows
    BY <2>1, ReadOfRow
  <2>2. CASE i \notin DOMAIN rows
    BY <2>2 DEF ReadDir, IInv, Encoded
  <2> QED
    BY <2>1, <2>2
<1> QED
  BY <1>1, EncodedAlways, PTL

\* The entry index finds exactly the row with the parent and the name.
THEOREM IndexIsExact == Spec => []IndexExact
<1>1. IInv => IndexExact
  <2> SUFFICES ASSUME IInv, NEW p \in Ids, NEW n \in Names
               PROVE  LET dent == ReadDEnt(db, p, n)
                          here == {i \in DOMAIN rows : rows[i].parent_id = p /\ rows[i].name = n}
                      IN  IF here = {} THEN dent = NoDir ELSE dent # NoDir /\ here = {dent.id}
    BY DEF IndexExact
  <2> DEFINE dent == ReadDEnt(db, p, n)
             here == {i \in DOMAIN rows : rows[i].parent_id = p /\ rows[i].name = n}
  <2>1. DOMAIN db.dent = {DEntSerKey(rows[i]) : i \in DOMAIN rows}
    BY DEF IInv, Encoded
  <2>2. CASE here = {}
    <3>1. <<p, n>> \notin DOMAIN db.dent
      BY <2>1, <2>2 DEF DEntSerKey
    <3> QED
      BY <2>2, <3>1 DEF ReadDEnt
  <2>3. CASE here # {}
    <3>1. PICK i \in DOMAIN rows : rows[i].parent_id = p /\ rows[i].name = n
      BY <2>3
    <3>2. here = {i}
      BY <3>1 DEF IInv, RowsOK
    <3>3. DEntSerKey(rows[i]) = <<p, n>> /\ <<p, n>> \in DOMAIN db.dent
      BY <2>1, <3>1 DEF DEntSerKey
    <3>4. db.dent[<<p, n>>] = DEntSerVal(rows[i])
      BY <3>3 DEF IInv, Encoded
    <3>5. rows[i] \in Dirs /\ rows[i].id = i
      BY DEF IInv, RowsOK
    <3>6. dent = DEntDeVal(DEntSerVal(rows[i]))
      BY <3>3, <3>4 DEF ReadDEnt
    <3>7. dent.id = i /\ dent \in Dirs
      BY <3>5, <3>6, DirTableAssumption DEF DEntDeVal, DEntSerVal, Dirs
    <3> QED
      BY <2>3, <3>2, <3>7, NoDirAssumption
  <2> QED
    BY <2>2, <2>3
<1> QED
  BY <1>1, EncodedAlways, PTL

\* No column family keeps a key of a row that is gone.
THEOREM NothingLeftBehind == Spec => []NoGarbage
<1>1. IInv => NoGarbage
  BY DEF IInv, Encoded, NoGarbage
<1> QED
  BY <1>1, EncodedAlways, PTL
=============================================================================
