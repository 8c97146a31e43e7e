---------------------------- MODULE KVStoreProofs ----------------------------
(***************************************************************************)
(* Machine-checked proofs about KVStore, for any number of transactions,    *)
(* keys, values and restarts.                                               *)
(***************************************************************************)
EXTENDS KVStore, FiniteSetTheorems, SequenceTheorems, TLAPS

\* The constants are well typed: an empty database, an empty write_set_ and a
\* batch applied to a state.
LEMMA EmptyTyped == Empty \in State /\ NoEntries \in [Keys -> Contents \cup {Untouched}]
BY DEF Empty, State, NoEntries, Contents

\* Applying a write_set_ to the contents of RocksDB gives contents of RocksDB:
\* the marker of an untouched key never reaches the database.
LEMMA ApplyTyped ==
    ASSUME NEW s \in State, NEW w \in [Keys -> Contents \cup {Untouched}]
    PROVE  Apply(s, w) \in State
BY DEF Apply, State

\* RocksDB has contents at any time, and a snapshot of them is well typed.
LEMMA DbTyped == TypeOK => db \in State
<1> SUFFICES ASSUME TypeOK PROVE db \in State
  OBVIOUS
<1>1. history \in Seq(CommitRecord) /\ Len(history) \in 1..Len(history)
  BY DEF TypeOK
<1>2. history[Len(history)] \in CommitRecord
  BY <1>1, ElementOfSeq
<1> QED
  BY <1>2 DEF db, CommitRecord

\* Every operation keeps the store and the transactions well typed.
LEMMA TypeStep == TypeOK /\ [Next]_vars => TypeOK'
<1> SUFFICES ASSUME TypeOK, [Next]_vars PROVE TypeOK'
  OBVIOUS
<1> USE KVAssumption DEF TypeOK
<1>1. ASSUME NEW t \in Txns, StartTxn(t) PROVE TypeOK'
  BY <1>1 DEF StartTxn, FetchAdd, InTxn
<1>2. ASSUME NEW t \in Txns, TakeSnapshot(t) PROVE TypeOK'
  <2>1. db \in State
    BY DbTyped
  <2> QED
    BY <1>2, <2>1 DEF TakeSnapshot, store, ghost, InTxn
<1>3. ASSUME NEW t \in Txns, NEW k \in Keys, NEW exclude \in BOOLEAN, Get(t, k, exclude)
      PROVE  TypeOK'
  <2>1. ReadValue(t, k) \in Contents
    BY DEF ReadValue, State
  <2>2. seen' \in [Txns -> SUBSET (Keys \X Contents)]
    BY <1>3, <2>1 DEF Get
  <2>3. read_set_' \in [Txns -> [Keys -> Contents \cup {Untouched}]]
    BY <1>3, <2>1 DEF Get
  <2> QED
    BY <1>3, <2>2, <2>3 DEF Get, store
<1>4. ASSUME NEW t \in Txns, NEW a \in Keys, NEW b \in Keys, NEW n \in 1..Cardinality(Keys),
             GetRange(t, a, b + 1, n)
      PROVE  TypeOK'
  <2> DEFINE R == RangeKeys(snapshot_[t], a, b + 1, n)
  <2>1. R \subseteq Keys
    BY DEF RangeKeys
  <2>2. \A k \in Keys : ReadValue(t, k) \in Contents
    BY DEF ReadValue, State
  <2> HIDE DEF R
  <2>3. {<<k, ReadValue(t, k)>> : k \in R} \subseteq Keys \X Contents
    BY <2>1, <2>2
  <2>4. seen' = [seen EXCEPT ![t] = @ \cup {<<k, ReadValue(t, k)>> : k \in R}]
    BY <1>4 DEF GetRange, R
  <2>5. seen' \in [Txns -> SUBSET (Keys \X Contents)]
    BY <2>3, <2>4
  <2> QED
    BY <1>4, <2>5, SMTT(30) DEF GetRange, store, txn
<1>5. ASSUME NEW t \in Txns, NEW k \in Keys, NEW c \in Contents, Put(t, k, c) PROVE TypeOK'
  <2>1. write_set_' \in [Txns -> [Keys -> Contents \cup {Untouched}]]
    BY <1>5 DEF Put
  <2> QED
    BY <1>5, <2>1 DEF Put, store, ghost
<1>6. ASSUME NEW t \in Txns, Release(t) PROVE TypeOK'
  BY <1>6 DEF Release, store, txn, ghost, Finished
<1>7. ASSUME NEW t \in Txns, AssignCommitVersion(t) PROVE TypeOK'
  BY <1>7 DEF AssignCommitVersion, FetchAdd, ghost, InTxn
<1>8. ASSUME NEW t \in Txns, CheckConflicts(t) PROVE TypeOK'
  BY <1>8 DEF CheckConflicts, store, txn, InTxn, Finished
<1>9. ASSUME NEW t \in Txns, WriteBatch(t) PROVE TypeOK'
  <2>1. db \in State
    BY DbTyped
  <2>2. Apply(db, write_set_[t]) \in State
    BY <2>1, ApplyTyped
  <2>3. Written(t) \in SUBSET Keys
    BY DEF Written
  <2>4. history' \in Seq(CommitRecord) /\ Len(history') > 0
    BY <1>9, <2>2, <2>3, AppendProperties DEF WriteBatch, CommitRecord
  <2> QED
    BY <1>9, <2>4 DEF WriteBatch, store, txn, ghost, Finished
<1>10. ASSUME NEW n \in 1..Len(history), Restart(n) PROVE TypeOK'
  <2>1. history' \in Seq(CommitRecord) /\ Len(history') > 0
    BY <1>10, SubSeqProperties DEF Restart
  <2>2. restarts' \in 0..MaxRestarts
    BY <1>10 DEF Restart
  <2>3. /\ snapshot_' \in [Txns -> State]
        /\ read_set_' \in [Txns -> [Keys -> Contents \cup {Untouched}]]
        /\ write_set_' \in [Txns -> [Keys -> Contents \cup {Untouched}]]
    BY <1>10, EmptyTyped, Zenon DEF Restart
  <2>4. /\ version_' \in Nat \ {0}
        /\ committed_txns_' \subseteq Txns
        /\ latest_purged_version_' \in Nat
        /\ start_version_' \in [Txns -> Nat]
        /\ commit_version_' \in [Txns -> Nat]
        /\ began' \in [Txns -> Nat]
        /\ ended' \in [Txns -> Nat]
    BY <1>10 DEF Restart
  <2>5. /\ pc' \in [Txns -> {"idle"} \cup InTxn \cup Finished]
        /\ seen' \in [Txns -> SUBSET (Keys \X Contents)]
    BY <1>10 DEF Restart
  <2> QED
    BY <2>1, <2>2, <2>3, <2>4, <2>5, SMTT(30)
<1>11. CASE UNCHANGED vars
  BY <1>11 DEF vars, store, txn, ghost
<1> HIDE DEF TypeOK
<1> QED
  BY <1>1, <1>2, <1>3, <1>4, <1>5, <1>6, <1>7, <1>8, <1>9, <1>10, <1>11, SMTT(30)
  DEF Next, Step, Quiescent

\* The store keeps its types: in particular no deletion marker or untouched
\* marker is ever stored in RocksDB, whatever transactions commit.
THEOREM TypeCorrect == Spec => []TypeOK
<1>1. ASSUME Init PROVE TypeOK
  <2>1. [state |-> Empty, keys |-> {}] \in CommitRecord
    BY EmptyTyped DEF CommitRecord
  <2>2. history \in Seq(CommitRecord) /\ Len(history) > 0
    BY <1>1, <2>1 DEF Init
  <2>3. /\ snapshot_ \in [Txns -> State]
        /\ read_set_ \in [Txns -> [Keys -> Contents \cup {Untouched}]]
        /\ write_set_ \in [Txns -> [Keys -> Contents \cup {Untouched}]]
    BY <1>1, EmptyTyped, Zenon DEF Init
  <2> QED
    BY <1>1, <2>2, <2>3, KVAssumption DEF Init, TypeOK
<1> QED
  BY <1>1, TypeStep, PTL DEF Spec

------------------------------------------------------------------------------
\* The strengthening of UniqueVersions: version_ is above every version handed
\* out, and a transaction has exactly the versions its progress calls for.
VersionInv ==
    /\ \A t \in Txns : start_version_[t] < version_ /\ commit_version_[t] < version_
    /\ \A t \in Txns : pc[t] = "idle" <=> start_version_[t] = 0
    /\ \A t \in Txns : IF pc[t] \in {"idle", "starting", "active", "released"}
                        THEN commit_version_[t] = 0
                        ELSE commit_version_[t] > start_version_[t]
    /\ UniqueVersions

\* No operation hands out a version twice.
LEMMA VersionStep == TypeOK /\ VersionInv /\ [Next]_vars => VersionInv'
<1> SUFFICES ASSUME TypeOK, VersionInv, [Next]_vars PROVE VersionInv'
  OBVIOUS
<1> USE DEF VersionInv, UniqueVersions
<1>0. /\ version_ \in Nat \ {0}
      /\ pc \in [Txns -> {"idle"} \cup InTxn \cup Finished]
      /\ start_version_ \in [Txns -> Nat]
      /\ commit_version_ \in [Txns -> Nat]
  BY DEF TypeOK
<1>1. ASSUME NEW t \in Txns, StartTxn(t) PROVE VersionInv'
  BY <1>0, <1>1 DEF StartTxn, FetchAdd
<1>2. ASSUME NEW t \in Txns, TakeSnapshot(t) PROVE VersionInv'
  BY <1>0, <1>2 DEF TakeSnapshot, store
<1>3. ASSUME NEW t \in Txns, AssignCommitVersion(t) PROVE VersionInv'
  BY <1>0, <1>3 DEF AssignCommitVersion, FetchAdd
<1>4. ASSUME NEW t \in Txns, CheckConflicts(t) \/ WriteBatch(t) \/ Release(t)
      PROVE  VersionInv'
  <2>1. CASE CheckConflicts(t)
    BY <1>0, <2>1, SMTT(30) DEF CheckConflicts, Release, store, txn
  <2>2. CASE WriteBatch(t)
    BY <1>0, <2>2, SMTT(30) DEF WriteBatch, store, txn
  <2>3. CASE Release(t)
    BY <1>0, <2>3, SMTT(30) DEF Release, store, txn
  <2> QED
    BY <1>4, <2>1, <2>2, <2>3
<1>5. ASSUME UNCHANGED <<version_, pc, start_version_, commit_version_>> PROVE VersionInv'
  <2>1. version_' = version_ /\ pc' = pc
    BY <1>5
  <2>2. start_version_' = start_version_ /\ commit_version_' = commit_version_
    BY <1>5
  <2> QED
    BY <2>1, <2>2, SMTT(30)
<1>6. ASSUME NEW n \in 1..Len(history), Restart(n) PROVE VersionInv'
  BY <1>6 DEF Restart
<1> HIDE DEF VersionInv, UniqueVersions
<1>7. ASSUME NEW t \in Txns, Step(t) PROVE VersionInv'
  <2>1. CASE \E k \in Keys, exclude \in BOOLEAN : Get(t, k, exclude)
    BY <1>5, <2>1 DEF Get, store
  <2>2. CASE \E a, b \in Keys, n \in 1..Cardinality(Keys) : GetRange(t, a, b + 1, n)
    BY <1>5, <2>2 DEF GetRange, store, txn
  <2>3. CASE \E k \in Keys, c \in Contents : Put(t, k, c)
    BY <1>5, <2>3 DEF Put, store
  <2> QED
    BY <1>1, <1>2, <1>3, <1>4, <1>7, <2>1, <2>2, <2>3 DEF Step
<1>8. CASE UNCHANGED vars
  BY <1>5, <1>8 DEF vars, store, txn
<1> QED
  BY <1>6, <1>7, <1>8 DEF Next, Quiescent

\* StartTxn and CommitTxn never hand out the same version twice between two
\* restarts, and the CHECKs of IsConflictFree never fail.
THEOREM VersionsUnique == Spec => []UniqueVersions
<1>1. Init => VersionInv
  BY DEF Init, VersionInv, UniqueVersions
<1>2. VersionInv => UniqueVersions
  BY DEF VersionInv
<1> QED
  BY <1>1, <1>2, TypeCorrect, VersionStep, PTL DEF Spec

------------------------------------------------------------------------------
\* The strengthening of ReadsFromOneState: what a transaction has seen agrees
\* with its snapshot, and its snapshot is a state of RocksDB not older than the
\* call of StartTxn.
SnapshotOf(t) == \E i \in began[t]..Len(history) : history[i].state = snapshot_[t]

ReadInv ==
    \A t \in Txns :
        /\ pc[t] # "idle" => began[t] \in 1..Len(history)
        /\ pc[t] \in {"idle", "starting"} => seen[t] = {}
        /\ \A p \in seen[t] : snapshot_[t][p[1]] = p[2]
        /\ pc[t] \notin {"idle", "starting"} => SnapshotOf(t)

\* A batch leaves the earlier states of RocksDB where they were.
LEMMA BatchAppends ==
    ASSUME TypeOK, NEW t \in Txns, WriteBatch(t)
    PROVE  /\ Len(history') = Len(history) + 1
           /\ \A i \in 1..Len(history) : history'[i] = history[i]
<1> DEFINE r == [state |-> Apply(db, write_set_[t]), keys |-> Written(t)]
<1>1. history \in Seq(CommitRecord)
  BY DEF TypeOK
<1>2. r \in CommitRecord
  BY DbTyped, ApplyTyped DEF TypeOK, Written, CommitRecord
<1>3. history' = Append(history, r)
  BY Zenon DEF WriteBatch
<1> HIDE DEF r
<1>4. /\ Len(Append(history, r)) = Len(history) + 1
      /\ \A i \in 1..Len(history) : Append(history, r)[i] = history[i]
  BY <1>1, <1>2, AppendProperties
<1> QED
  BY <1>3, <1>4, Zenon

\* No operation changes a snapshot that is being read.
LEMMA ReadStep == TypeOK /\ ReadInv /\ [Next]_vars => ReadInv'
<1> SUFFICES ASSUME TypeOK, ReadInv, [Next]_vars PROVE ReadInv'
  OBVIOUS
<1> USE DEF ReadInv, SnapshotOf
<1>0. /\ pc \in [Txns -> {"idle"} \cup InTxn \cup Finished]
      /\ snapshot_ \in [Txns -> State]
      /\ history \in Seq(CommitRecord)
      /\ Len(history) \in Nat \ {0}
      /\ seen \in [Txns -> SUBSET (Keys \X Contents)]
      /\ began \in [Txns -> Nat]
  BY DEF TypeOK
<1>1. ASSUME NEW t \in Txns, StartTxn(t) PROVE ReadInv'
  BY <1>0, <1>1 DEF StartTxn
<1>2. ASSUME NEW t \in Txns, TakeSnapshot(t) PROVE ReadInv'
  BY <1>0, <1>2 DEF TakeSnapshot, ghost, db
<1>3. ASSUME NEW t \in Txns, NEW R \in SUBSET Keys, pc[t] = "active",
             seen' = [seen EXCEPT ![t] = @ \cup {<<k, ReadValue(t, k)>> : k \in R}],
             UNCHANGED <<pc, snapshot_, history, began>>
      PROVE  ReadInv'
  <2>1. \A p \in {<<k, ReadValue(t, k)>> : k \in R} : snapshot_[t][p[1]] = p[2]
    BY DEF ReadValue
  <2>2. \A u \in Txns : \A p \in seen'[u] : snapshot_[u][p[1]] = p[2]
    BY <1>0, <1>3, <2>1
  <2>3. \A u \in Txns : u # t => seen'[u] = seen[u]
    BY <1>0, <1>3, SMTT(30)
  <2> QED
    BY <1>3, <2>2, <2>3
<1>4. ASSUME NEW t \in Txns, CheckConflicts(t) \/ Release(t) \/ AssignCommitVersion(t)
      PROVE  ReadInv'
  <2>1. UNCHANGED <<snapshot_, history, seen, began>>
    BY <1>4 DEF CheckConflicts, Release, AssignCommitVersion, txn, ghost
  <2>2. \A u \in Txns : /\ pc'[u] \in {"idle", "starting"} <=> pc[u] \in {"idle", "starting"}
                        /\ pc'[u] = "idle" <=> pc[u] = "idle"
    BY <1>0, <1>4, SMTT(30) DEF CheckConflicts, Release, AssignCommitVersion
  <2> QED
    BY <2>1, <2>2
<1>5. ASSUME NEW t \in Txns, WriteBatch(t) PROVE ReadInv'
  <2>2. /\ Len(history') = Len(history) + 1
        /\ \A i \in 1..Len(history) : history'[i] = history[i]
    BY <1>5, BatchAppends, Zenon
  <2>3. UNCHANGED <<snapshot_, seen, began>>
    BY <1>5 DEF WriteBatch, txn, ghost
  <2>4. \A u \in Txns : pc'[u] \in {"idle", "starting"} <=> pc[u] \in {"idle", "starting"}
    BY <1>0, <1>5 DEF WriteBatch
  <2>5. \A u \in Txns : pc'[u] = "idle" <=> pc[u] = "idle"
    BY <1>0, <1>5 DEF WriteBatch
  <2>6. ASSUME NEW u \in Txns
        PROVE  /\ pc'[u] # "idle" => began'[u] \in 1..Len(history')
               /\ pc'[u] \in {"idle", "starting"} => seen'[u] = {}
               /\ \A p \in seen'[u] : snapshot_'[u][p[1]] = p[2]
    <3>1. began[u] \in Nat
      BY <1>0
    <3> QED
      BY <1>0, <2>2, <2>3, <2>4, <2>5, <3>1, SMTT(30)
  <2>7. ASSUME NEW u \in Txns, pc'[u] \notin {"idle", "starting"} PROVE SnapshotOf(u)'
    <3>1. PICK i \in began[u]..Len(history) : history[i].state = snapshot_[u]
      BY <2>4, <2>7
    <3>2. began[u] \in 1..Len(history)
      BY <2>4, <2>7
    <3>3. i \in 1..Len(history) /\ i \in began[u]..Len(history')
      BY <1>0, <2>2, <3>2
    <3>4. history'[i].state = snapshot_[u]
      BY <2>2, <3>1, <3>3
    <3> QED
      BY <2>3, <3>3, <3>4
  <2> QED
    BY <2>6, <2>7, Zenon
<1>6. ASSUME NEW n \in 1..Len(history), Restart(n) PROVE ReadInv'
  BY <1>6 DEF Restart
<1>7. ASSUME UNCHANGED <<pc, snapshot_, history, began, seen>> PROVE ReadInv'
  BY <1>7
<1> HIDE DEF ReadInv, SnapshotOf
<1>8. ASSUME NEW t \in Txns, Step(t) PROVE ReadInv'
  <2>1. ASSUME NEW k \in Keys, NEW exclude \in BOOLEAN, Get(t, k, exclude) PROVE ReadInv'
    <3> DEFINE R == {k}
    <3>1. R \in SUBSET Keys /\ {<<k, ReadValue(t, k)>>} = {<<j, ReadValue(t, j)>> : j \in R}
      OBVIOUS
    <3>2. /\ pc[t] = "active"
          /\ seen' = [seen EXCEPT ![t] = @ \cup {<<j, ReadValue(t, j)>> : j \in R}]
          /\ UNCHANGED <<pc, snapshot_, history, began>>
      BY <2>1, <3>1, Zenon DEF Get
    <3> HIDE DEF R
    <3> QED
      BY <1>3, <3>1, <3>2
  <2>2. ASSUME NEW a \in Keys, NEW b \in Keys, NEW n \in 1..Cardinality(Keys),
               GetRange(t, a, b + 1, n)
        PROVE  ReadInv'
    <3> DEFINE R == RangeKeys(snapshot_[t], a, b + 1, n)
    <3>1. R \in SUBSET Keys
      BY DEF RangeKeys
    <3>2. /\ pc[t] = "active"
          /\ seen' = [seen EXCEPT ![t] = @ \cup {<<k, ReadValue(t, k)>> : k \in R}]
          /\ UNCHANGED <<pc, snapshot_, history, began>>
      BY <2>2 DEF GetRange, txn
    <3> HIDE DEF R
    <3> QED
      BY <1>3, <3>1, <3>2
  <2>3. ASSUME NEW k \in Keys, NEW c \in Contents, Put(t, k, c) PROVE ReadInv'
    BY <1>7, <2>3 DEF Put, ghost
  <2> QED
    BY <1>1, <1>2, <1>4, <1>5, <1>8, <2>1, <2>2, <2>3, SMTT(30) DEF Step
<1>9. CASE UNCHANGED vars
  BY <1>7, <1>9 DEF vars, txn, ghost
<1> QED
  BY <1>6, <1>8, <1>9 DEF Next, Quiescent

LEMMA ReadAlways == Spec => []ReadInv
<1>1. Init => ReadInv
  BY SMTT(30) DEF Init, ReadInv
<1> QED
  BY <1>1, TypeCorrect, ReadStep, PTL DEF Spec

\* Whatever commits while a transaction is open, all it has read was true
\* together in one state of the store, not older than its StartTxn.
THEOREM ReadsAreSnapshots == Spec => []ReadsFromOneState
<1>1. ReadInv => ReadsFromOneState
  BY DEF ReadInv, ReadsFromOneState, SnapshotOf
<1> QED
  BY <1>1, ReadAlways, PTL

------------------------------------------------------------------------------
\* A transaction's phase follows its pc, and only its own.
LEMMA PhaseFollows ==
    ASSUME TypeOK, NEW t \in Txns, NEW p \in {"idle"} \cup InTxn \cup Finished,
           pc' = [pc EXCEPT ![t] = p]
    PROVE  /\ p \in {"active", "committing", "checked"} => Phase' = [Phase EXCEPT ![t] = "open"]
           /\ p = "starting" => Phase' = [Phase EXCEPT ![t] = "idle"]
           /\ p \in Finished => Phase' = [Phase EXCEPT ![t] = "closed"]
<1> USE DEF TypeOK, Phase
<1>1. p \in {"active", "committing", "checked"} => Phase' = [Phase EXCEPT ![t] = "open"]
  BY Zenon
<1>2. p = "starting" => Phase' = [Phase EXCEPT ![t] = "idle"]
  BY Zenon
<1>3. p \in Finished => Phase' = [Phase EXCEPT ![t] = "closed"]
  BY Zenon DEF Finished
<1> QED
  BY <1>1, <1>2, <1>3

\* Every step of the store is a step of SnapshotStore or changes nothing it has.
LEMMA StepImplements == TypeOK /\ [Next]_vars => [SS!Next]_(SS!vars)
<1> SUFFICES ASSUME TypeOK, [Next]_vars PROVE [SS!Next]_(SS!vars)
  OBVIOUS
<1>0. \A t \in Txns : (pc[t] = "idle" \/ pc[t] = "starting") => Phase[t] = "idle"
  BY DEF Phase
<1>a. \A t \in Txns : pc[t] \in {"active", "committing", "checked"} => Phase[t] = "open"
  BY DEF Phase
<1>1. ASSUME NEW t \in Txns, StartTxn(t) PROVE UNCHANGED SS!vars
  <2>1. Phase' = Phase
    BY <1>0, <1>1, PhaseFollows DEF StartTxn, InTxn, Phase
  <2> QED
    BY <1>1, <2>1 DEF StartTxn, SS!vars
<1>2. ASSUME NEW t \in Txns, TakeSnapshot(t) PROVE SS!Begin(t)
  <2>1. Phase' = [Phase EXCEPT ![t] = "open"]
    BY <1>2, PhaseFollows, Zenon DEF TakeSnapshot, InTxn
  <2> QED
    BY <1>0, <1>2, <2>1 DEF TakeSnapshot, ghost, db, SS!Begin, SS!Latest
<1>3. ASSUME NEW t \in Txns, NEW R \in SUBSET Keys, pc[t] = "active",
             seen' = [seen EXCEPT ![t] = @ \cup {<<k, ReadValue(t, k)>> : k \in R}],
             UNCHANGED <<pc, snapshot_, history, write_set_>>
      PROVE  SS!Read(t, R)
  BY <1>a, <1>3 DEF SS!Read, ReadValue, Phase
<1>4. ASSUME NEW t \in Txns, NEW k \in Keys, NEW exclude \in BOOLEAN, Get(t, k, exclude)
      PROVE  SS!Read(t, {k})
  <2> DEFINE R == {k}
  <2>1. R \in SUBSET Keys /\ {<<k, ReadValue(t, k)>>} = {<<j, ReadValue(t, j)>> : j \in R}
    OBVIOUS
  <2>2. /\ pc[t] = "active"
        /\ seen' = [seen EXCEPT ![t] = @ \cup {<<j, ReadValue(t, j)>> : j \in R}]
        /\ UNCHANGED <<pc, snapshot_, history, write_set_>>
    BY <1>4, <2>1, Zenon DEF Get
  <2> HIDE DEF R
  <2>3. SS!Read(t, R)
    BY <1>3, <2>1, <2>2
  <2> QED
    BY <2>3 DEF R
<1>5. ASSUME NEW t \in Txns, NEW a \in Keys, NEW b \in Keys, NEW n \in 1..Cardinality(Keys),
             GetRange(t, a, b + 1, n)
      PROVE  \E R \in SUBSET Keys : SS!Read(t, R)
  <2> DEFINE R == RangeKeys(snapshot_[t], a, b + 1, n)
  <2>1. R \in SUBSET Keys
    BY DEF RangeKeys
  <2>2. /\ pc[t] = "active"
        /\ seen' = [seen EXCEPT ![t] = @ \cup {<<k, ReadValue(t, k)>> : k \in R}]
        /\ UNCHANGED <<pc, snapshot_, history, write_set_>>
    BY <1>5 DEF GetRange, txn
  <2> HIDE DEF R
  <2> QED
    BY <1>3, <2>1, <2>2
<1>6. ASSUME NEW t \in Txns, NEW k \in Keys, NEW c \in Contents, Put(t, k, c)
      PROVE  SS!Write(t, k, c)
  BY <1>a, <1>6 DEF Put, ghost, SS!Write, Phase
<1>7. ASSUME NEW t \in Txns, Release(t) PROVE SS!Discard(t)
  <2>1. Phase' = [Phase EXCEPT ![t] = "closed"]
    BY <1>7, PhaseFollows, Zenon DEF Release, Finished
  <2> QED
    BY <1>a, <1>7, <2>1 DEF Release, txn, ghost, SS!Discard
<1>8. ASSUME NEW t \in Txns, AssignCommitVersion(t) PROVE UNCHANGED SS!vars
  <2>1. Phase' = Phase
    BY <1>a, <1>8, PhaseFollows DEF AssignCommitVersion, InTxn, Phase
  <2> QED
    BY <1>8, <2>1 DEF AssignCommitVersion, ghost, SS!vars
<1>9. ASSUME NEW t \in Txns, CheckConflicts(t) PROVE SS!Discard(t) \/ UNCHANGED SS!vars
  <2>1. CASE IsConflictFree(t)
    <3>1. Phase' = Phase
      BY <1>a, <1>9, <2>1, PhaseFollows DEF CheckConflicts, InTxn, Phase
    <3> QED
      BY <1>9, <3>1 DEF CheckConflicts, txn, SS!vars
  <2>2. CASE ~IsConflictFree(t)
    <3>1. Phase' = [Phase EXCEPT ![t] = "closed"]
      BY <1>9, <2>2, PhaseFollows, Zenon DEF CheckConflicts, Finished
    <3> QED
      BY <1>a, <1>9, <3>1 DEF CheckConflicts, txn, SS!Discard
  <2> QED
    BY <2>1, <2>2
<1>10. ASSUME NEW t \in Txns, WriteBatch(t) PROVE SS!Commit(t)
  <2>1. Phase' = [Phase EXCEPT ![t] = "closed"]
    BY <1>10, PhaseFollows, Zenon DEF WriteBatch, Finished
  <2> QED
    BY <1>a, <1>10, <2>1
    DEF WriteBatch, txn, ghost, db, Apply, Written,
        SS!Commit, SS!Latest, SS!Apply, SS!Written
<1>11. ASSUME NEW n \in 1..Len(history), Restart(n) PROVE SS!Recover(n)
  <2>1. Phase' = [t \in Txns |-> "idle"]
    BY <1>11 DEF Restart, Phase
  <2> QED
    BY <1>11, <2>1 DEF Restart, Empty, NoEntries, SS!Recover, SS!Empty, SS!NoWrites
<1>12. CASE UNCHANGED vars
  BY <1>12 DEF vars, txn, ghost, SS!vars, Phase
<1>13. ASSUME NEW t \in Txns, Step(t) PROVE [SS!Next]_(SS!vars)
  <2>1. \A k \in Keys : {k} \in SUBSET Keys
    OBVIOUS
  <2>2. SS!Contents = Contents
    BY DEF SS!Contents, Contents
  <2> QED
    BY <1>1, <1>2, <1>4, <1>5, <1>6, <1>7, <1>8, <1>9, <1>10, <1>13, <2>1, <2>2, Zenon
    DEF Step, SS!Next
<1> QED
  BY <1>11, <1>12, <1>13 DEF Next, Quiescent, SS!Next

\* RocksDBKVStore gives what SnapshotStore promises: snapshot reads, commits
\* that are all or nothing, and recovery to a prefix of the commits.
THEOREM StoreImplementsSnapshots == Spec => ImplementsSnapshotStore
<1>1. Init => SS!Init
  BY DEF Init, Phase, Empty, NoEntries, SS!Init, SS!Empty, SS!NoWrites
<1> QED
  BY <1>1, TypeCorrect, StepImplements, PTL DEF Spec, ImplementsSnapshotStore, SS!Spec

------------------------------------------------------------------------------
\* The server as it is deployed: one handler at a time (MaxOpen = 1).  Then no
\* batch is written between a transaction's StartTxn and its own batch.
SerialInv ==
    /\ \A t, u \in Txns : pc[t] \in InTxn /\ pc[u] \in InTxn => t = u
    /\ \A t \in Txns : pc[t] \in {"active", "committing", "checked"} => snapshot_[t] = db

\* A handler is admitted only when no other one is in a transaction.
LEMMA AdmitsOne ==
    MaxOpen = 1 /\ AdmitHandler => \A t \in Txns : pc[t] \notin InTxn
<1> SUFFICES ASSUME MaxOpen = 1, AdmitHandler PROVE {t \in Txns : pc[t] \in InTxn} = {}
  OBVIOUS
<1> DEFINE Open == {t \in Txns : pc[t] \in InTxn}
<1>1. IsFiniteSet(Open)
  BY KVAssumption, FS_Subset
<1>2. Cardinality(Open) \in Nat /\ Cardinality(Open) < 1
  BY <1>1, FS_CardinalityType DEF AdmitHandler
<1> HIDE DEF Open
<1>3. Open = {}
  BY <1>1, <1>2, FS_EmptySet
<1> QED
  BY <1>3 DEF Open

\* With one handler at a time the serial invariant is kept by every step.
LEMMA SerialStep == MaxOpen = 1 /\ TypeOK /\ SerialInv /\ [Next]_vars => SerialInv'
<1> SUFFICES ASSUME MaxOpen = 1, TypeOK, SerialInv, [Next]_vars PROVE SerialInv'
  OBVIOUS
<1> USE DEF SerialInv, InTxn
<1>0. /\ pc \in [Txns -> {"idle"} \cup InTxn \cup Finished]
      /\ snapshot_ \in [Txns -> State]
      /\ history \in Seq(CommitRecord)
  BY DEF TypeOK
<1>1. ASSUME NEW t \in Txns, StartTxn(t) PROVE SerialInv'
  <2>1. \A u \in Txns : pc[u] \notin InTxn
    BY <1>1, AdmitsOne, SMTT(30) DEF StartTxn
  <2> QED
    BY <1>0, <1>1, <2>1, SMTT(30) DEF StartTxn
<1>2. ASSUME NEW t \in Txns, TakeSnapshot(t) PROVE SerialInv'
  BY <1>0, <1>2, SMTT(30) DEF TakeSnapshot, store, ghost, db
<1>3. ASSUME NEW t \in Txns, AssignCommitVersion(t) PROVE SerialInv'
  BY <1>0, <1>3, SMTT(30) DEF AssignCommitVersion, ghost, db
<1>4. ASSUME NEW t \in Txns, CheckConflicts(t) PROVE SerialInv'
  BY <1>0, <1>4, SMTT(30) DEF CheckConflicts, store, txn, db
<1>5. ASSUME NEW t \in Txns, Release(t) PROVE SerialInv'
  BY <1>0, <1>5, SMTT(30) DEF Release, store, txn, ghost, db
<1>6. ASSUME NEW t \in Txns, WriteBatch(t) PROVE SerialInv'
  <2>1. \A u \in Txns : u # t => pc[u] \notin InTxn
    BY <1>6, SMTT(30) DEF WriteBatch
  <2> QED
    BY <1>0, <1>6, <2>1, SMTT(30) DEF WriteBatch, store, txn, ghost
<1>7. ASSUME NEW n \in 1..Len(history), Restart(n) PROVE SerialInv'
  BY <1>7, SMTT(30) DEF Restart
<1>8. ASSUME UNCHANGED <<store, pc, snapshot_, history>> PROVE SerialInv'
  BY <1>8 DEF store, db
<1> HIDE DEF SerialInv
<1>9. ASSUME NEW t \in Txns, Step(t) PROVE SerialInv'
  <2>1. CASE \E k \in Keys, exclude \in BOOLEAN : Get(t, k, exclude)
    BY <1>8, <2>1, SMTT(30) DEF Get
  <2>2. CASE \E a, b \in Keys, n \in 1..Cardinality(Keys) : GetRange(t, a, b + 1, n)
    BY <1>8, <2>2 DEF GetRange, txn
  <2>3. CASE \E k \in Keys, c \in Contents : Put(t, k, c)
    BY <1>8, <2>3 DEF Put, ghost
  <2> QED
    BY <1>1, <1>2, <1>3, <1>4, <1>5, <1>6, <1>9, <2>1, <2>2, <2>3, SMTT(30) DEF Step
<1>10. CASE UNCHANGED vars
  BY <1>8, <1>10 DEF vars, txn, ghost
<1> QED
  BY <1>7, <1>9, <1>10 DEF Next, Quiescent

\* The serial invariant holds of the deployed server.
LEMMA SerialAlways == MaxOpen = 1 => (Spec => []SerialInv)
<1> SUFFICES ASSUME MaxOpen = 1 PROVE Spec => []SerialInv
  OBVIOUS
<1>1. Init => SerialInv
  BY DEF Init, SerialInv, InTxn
<1>2. TypeOK /\ SerialInv /\ [Next]_vars => SerialInv'
  BY SerialStep
<1> QED
  BY <1>1, <1>2, TypeCorrect, PTL DEF Spec

\* With one handler at a time, a batch is written on the very state its
\* transaction read: the deployed server is serialisable.
THEOREM ServerSerial == MaxOpen = 1 => (Spec => CommitsAreSerial)
<1> SUFFICES ASSUME MaxOpen = 1 PROVE Spec => CommitsAreSerial
  OBVIOUS
<1>1. SerialInv =>
        [\A t \in Txns : pc[t] = "checked" /\ pc'[t] = "committed" => snapshot_[t] = db]_vars
  BY DEF SerialInv
<1> QED
  BY <1>1, SerialAlways, PTL DEF CommitsAreSerial, Spec

\* With one handler at a time, what a handler has read is the latest state of the
\* store until the handler ends, also when it only reads: NameNode may take each
\* handler of the server as one step.
THEOREM ServerReadsCurrent == MaxOpen = 1 => (Spec => []ReadsAreCurrent)
<1> SUFFICES ASSUME MaxOpen = 1 PROVE Spec => []ReadsAreCurrent
  OBVIOUS
<1>1. ASSUME SerialInv, ReadInv PROVE ReadsAreCurrent
  <2> SUFFICES ASSUME NEW t \in Txns, pc[t] \in InTxn, NEW p \in seen[t]
               PROVE  db[p[1]] = p[2]
    BY Zenon DEF ReadsAreCurrent
  <2>1. pc[t] # "starting" /\ snapshot_[t][p[1]] = p[2]
    BY <1>1, Zenon DEF ReadInv
  <2>2. snapshot_[t] = db
    BY <1>1, <2>1 DEF SerialInv, InTxn
  <2> QED
    BY <2>1, <2>2, Zenon
<1> QED
  BY <1>1, SerialAlways, ReadAlways, PTL
==============================================================================
