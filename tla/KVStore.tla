------------------------------ MODULE KVStore ------------------------------
(***************************************************************************)
(* The NameNode's transactional store: RocksDBKVStore, RocksDBTxn and       *)
(* RocksDBConflictDetector (namenode/table/kv/rocksdb_kv_store.{h,cc}).     *)
(*                                                                          *)
(* Keys stands for the (CFIndex, key bytes) pairs, in their byte order.     *)
(* The code's maps read_set_ and write_set_ are total functions here, with  *)
(* Untouched for a key that is not in the map.  RocksDB itself (the current *)
(* contents, snapshots, atomic write batches, recovery of a prefix of the   *)
(* write-ahead log) is external and modelled from its use: db, history.     *)
(*                                                                          *)
(* RocksDBConflictDetector::PurgeTo is private and called nowhere, and no   *)
(* code inserts into committed_txns_: both keep their initial value.        *)
(***************************************************************************)
EXTENDS Naturals, Sequences, FiniteSets

CONSTANTS
    Txns,         \* one per request handler that may run
    Keys,         \* a set of naturals: the keys in byte order
    Values,
    NoValue,
    Untouched,
    MaxOpen,      \* how many transactions may be open at a time
    MaxFootprint, \* bound on the pairs a transaction has read plus the keys it has written
    MaxRestarts   \* bound on the restarts of a behaviour

ASSUME KVAssumption ==
    /\ Keys \subseteq Nat
    /\ IsFiniteSet(Keys)
    /\ IsFiniteSet(Txns)
    /\ NoValue \notin Values
    /\ Untouched \notin Values \cup {NoValue}
    /\ MaxOpen \in Nat \ {0}
    /\ MaxFootprint \in Nat
    /\ MaxRestarts \in Nat

VARIABLES
    version_,                \* RocksDBKVStore::version_
    committed_txns_,         \* RocksDBConflictDetector::committed_txns_, as a set of transactions
    latest_purged_version_,  \* RocksDBConflictDetector::latest_purged_version_
    pc,                      \* where the handler of each transaction is
    start_version_, commit_version_, snapshot_, read_set_, write_set_,  \* RocksDBTxn
    history,                 \* states of RocksDB, oldest first, with the keys each batch wrote
    seen,                    \* history variable: (key, value) pairs returned to the handler
    began,                   \* history variable: Len(history) when StartTxn was called
    ended,                   \* history variable: Len(history) when IsConflictFree answered
    restarts                 \* how often the server was restarted

store == <<version_, committed_txns_, latest_purged_version_>>
txn == <<start_version_, commit_version_, snapshot_, read_set_, write_set_>>
ghost == <<seen, began, ended>>
vars == <<store, pc, txn, history, ghost, restarts>>

Contents == Values \cup {NoValue}
State == [Keys -> Contents]
CommitRecord == [state : State, keys : SUBSET Keys]
Empty == [k \in Keys |-> NoValue]
NoEntries == [k \in Keys |-> Untouched]
db == history[Len(history)].state

InTxn == {"starting", "active", "committing", "checked"}
Finished == {"committed", "aborted", "released"}

----------------------------------------------------------------------------
\* The RocksDBKVStore constructor, on an empty database.
Init ==
    /\ version_ = 1
    /\ committed_txns_ = {}
    /\ latest_purged_version_ = 0
    /\ pc = [t \in Txns |-> "idle"]
    /\ start_version_ = [t \in Txns |-> 0]
    /\ commit_version_ = [t \in Txns |-> 0]
    /\ snapshot_ = [t \in Txns |-> Empty]
    /\ read_set_ = [t \in Txns |-> NoEntries]
    /\ write_set_ = [t \in Txns |-> NoEntries]
    /\ seen = [t \in Txns |-> {}]
    /\ began = [t \in Txns |-> 0]
    /\ ended = [t \in Txns |-> 0]
    /\ history = <<[state |-> Empty, keys |-> {}]>>
    /\ restarts = 0

\* Mutant: a server that runs handlers without waiting for one another.
AdmitHandlerAlways == TRUE

\* The server admits a handler: one at a time when MaxOpen = 1, as the single
\* thread that runs every handler to its end does.
AdmitHandler == Cardinality({t \in Txns : pc[t] \in InTxn}) < MaxOpen

\* Mutant: a load and a store that lose another thread's increment.
FetchAddLost == version_

\* What version_.fetch_add(1) leaves in version_.
FetchAdd == version_ + 1

\* StartTxn: version_.fetch_add(1) is evaluated before the constructor runs.
StartTxn(t) ==
    /\ pc[t] = "idle"
    /\ AdmitHandler
    /\ pc' = [pc EXCEPT ![t] = "starting"]
    /\ start_version_' = [start_version_ EXCEPT ![t] = version_]
    /\ version_' = FetchAdd
    /\ began' = [began EXCEPT ![t] = Len(history)]
    /\ UNCHANGED <<committed_txns_, latest_purged_version_, commit_version_, snapshot_,
                   read_set_, write_set_, history, seen, ended, restarts>>

\* The RocksDBTxn constructor: GetSnapshot, commit_version_ stays unset.
TakeSnapshot(t) ==
    /\ pc[t] = "starting"
    /\ pc' = [pc EXCEPT ![t] = "active"]
    /\ snapshot_' = [snapshot_ EXCEPT ![t] = db]
    /\ UNCHANGED <<store, start_version_, commit_version_, read_set_, write_set_,
                   history, ghost, restarts>>

Written(t) == {k \in Keys : write_set_[t][k] # Untouched}
WithinFootprint(t) == Cardinality(seen[t]) + Cardinality(Written(t)) < MaxFootprint

\* Mutant: read_options.snapshot is not set.
ReadLatest(t, k) == db[k]

\* Get reads the snapshot, never the transaction's own writes, and enters the
\* key into read_set_ unless the caller excludes it.
ReadValue(t, k) == snapshot_[t][k]

Get(t, k, exclude) ==
    /\ pc[t] = "active"
    /\ WithinFootprint(t)
    /\ read_set_' = IF exclude THEN read_set_
                    ELSE [read_set_ EXCEPT ![t][k] = ReadValue(t, k)]
    /\ seen' = [seen EXCEPT ![t] = @ \cup {<<k, ReadValue(t, k)>>}]
    /\ UNCHANGED <<store, pc, start_version_, commit_version_, snapshot_, write_set_,
                   history, began, ended, restarts>>

\* The keys GetRange visits: the first limit present ones of [start, end).
RangeKeys(state, start, end, limit) ==
    LET present == {k \in Keys : start <= k /\ k < end /\ state[k] # NoValue}
    IN  {k \in present : Cardinality({j \in present : j < k}) < limit}

\* AddReadConflictKeyRange has an empty body: read_set_ does not change.
GetRange(t, start, end, limit) ==
    /\ pc[t] = "active"
    /\ WithinFootprint(t)
    /\ seen' = [seen EXCEPT ![t] = @ \cup
                   {<<k, ReadValue(t, k)>> : k \in RangeKeys(snapshot_[t], start, end, limit)}]
    /\ UNCHANGED <<store, pc, txn, history, began, ended, restarts>>

\* Put and Del (c = NoValue) overwrite the transaction's entry for the key.
Put(t, k, c) ==
    /\ pc[t] = "active"
    /\ WithinFootprint(t)
    /\ write_set_' = [write_set_ EXCEPT ![t][k] = c]
    /\ UNCHANGED <<store, pc, start_version_, commit_version_, snapshot_, read_set_,
                   history, ghost, restarts>>

\* The handler ends without committing; the destructor releases the snapshot.
Release(t) ==
    /\ pc[t] = "active"
    /\ pc' = [pc EXCEPT ![t] = "released"]
    /\ UNCHANGED <<store, txn, history, ghost, restarts>>

----------------------------------------------------------------------------
\* CommitTxn, in three steps: the version, the check, the write batch.
AssignCommitVersion(t) ==
    /\ pc[t] = "active"
    /\ pc' = [pc EXCEPT ![t] = "committing"]
    /\ commit_version_' = [commit_version_ EXCEPT ![t] = version_]
    /\ version_' = FetchAdd
    /\ UNCHANGED <<committed_txns_, latest_purged_version_, start_version_, snapshot_,
                   read_set_, write_set_, history, ghost, restarts>>

HasConflict(t, c) ==
    \E k \in Keys : write_set_[c][k] # Untouched /\ read_set_[t][k] # Untouched

IsConflictFree(t) ==
    /\ start_version_[t] >= latest_purged_version_
    /\ \A c \in committed_txns_ :
          commit_version_[c] \in start_version_[t]..commit_version_[t] => ~HasConflict(t, c)

\* IsConflictFree runs under mutex_ and reads only what mutex_ guards and the
\* transaction's own fields, so the critical section is one step.
CheckConflicts(t) ==
    /\ pc[t] = "committing"
    /\ pc' = [pc EXCEPT ![t] = IF IsConflictFree(t) THEN "checked" ELSE "aborted"]
    /\ ended' = [ended EXCEPT ![t] = Len(history)]
    /\ UNCHANGED <<store, txn, history, seen, began, restarts>>

\* Mutant: deletions are left out of the batch.
ApplyPutsOnly(state, writes) ==
    [k \in Keys |-> IF writes[k] \in {Untouched, NoValue} THEN state[k] ELSE writes[k]]

Apply(state, writes) ==
    [k \in Keys |-> IF writes[k] = Untouched THEN state[k] ELSE writes[k]]

\* One WriteBatch with every entry of write_set_, applied by a single Write.
WriteBatch(t) ==
    /\ pc[t] = "checked"
    /\ pc' = [pc EXCEPT ![t] = "committed"]
    /\ history' = Append(history,
                         [state |-> Apply(db, write_set_[t]),
                          keys  |-> Written(t)])
    /\ UNCHANGED <<store, txn, ghost, restarts>>

\* The process or the machine stops and the server is started again.  Writes
\* use the default WriteOptions (sync = false): a machine that stops may lose
\* the latest batches, and recovery restores a prefix of them.
Restart(n) ==
    /\ restarts < MaxRestarts
    /\ restarts' = restarts + 1
    /\ history' = SubSeq(history, 1, n)
    /\ version_' = 1
    /\ committed_txns_' = {}
    /\ latest_purged_version_' = 0
    /\ pc' = [t \in Txns |-> "idle"]
    /\ start_version_' = [t \in Txns |-> 0]
    /\ commit_version_' = [t \in Txns |-> 0]
    /\ snapshot_' = [t \in Txns |-> Empty]
    /\ read_set_' = [t \in Txns |-> NoEntries]
    /\ write_set_' = [t \in Txns |-> NoEntries]
    /\ seen' = [t \in Txns |-> {}]
    /\ began' = [t \in Txns |-> 0]
    /\ ended' = [t \in Txns |-> 0]

Step(t) ==
    \/ StartTxn(t)
    \/ TakeSnapshot(t)
    \/ \E k \in Keys, exclude \in BOOLEAN : Get(t, k, exclude)
    \/ \E start, last \in Keys, limit \in 1..Cardinality(Keys) :
          GetRange(t, start, last + 1, limit)
    \/ \E k \in Keys, c \in Contents : Put(t, k, c)
    \/ Release(t)
    \/ AssignCommitVersion(t)
    \/ CheckConflicts(t)
    \/ WriteBatch(t)

\* Every request has been served and the server waits for the next one.  This
\* is the only state a behaviour may stop in, so that TLC's deadlock check
\* finds a transaction that is stuck half-way.
Quiescent ==
    /\ \A t \in Txns : pc[t] \in Finished
    /\ UNCHANGED vars

Next ==
    \/ \E t \in Txns : Step(t)
    \/ \E n \in 1..Len(history) : Restart(n)
    \/ Quiescent

Spec == Init /\ [][Next]_vars

----------------------------------------------------------------------------
TypeOK ==
    /\ version_ \in Nat \ {0}
    /\ committed_txns_ \subseteq Txns
    /\ latest_purged_version_ \in Nat
    /\ pc \in [Txns -> {"idle"} \cup InTxn \cup Finished]
    /\ start_version_ \in [Txns -> Nat]
    /\ commit_version_ \in [Txns -> Nat]
    /\ snapshot_ \in [Txns -> State]
    /\ read_set_ \in [Txns -> [Keys -> Contents \cup {Untouched}]]
    /\ write_set_ \in [Txns -> [Keys -> Contents \cup {Untouched}]]
    /\ history \in Seq(CommitRecord)
    /\ Len(history) > 0
    /\ seen \in [Txns -> SUBSET (Keys \X Contents)]
    /\ began \in [Txns -> Nat]
    /\ ended \in [Txns -> Nat]
    /\ restarts \in 0..MaxRestarts

\* Everything a transaction has read, by Get and by GetRange, before and after
\* other transactions committed, was true together in one state of the store,
\* and that state is not older than the call of StartTxn.
ReadsFromOneState ==
    \A t \in Txns : pc[t] \notin {"idle", "starting"} =>
        \E i \in began[t]..Len(history) :
            \A p \in seen[t] : history[i].state[p[1]] = p[2]

\* The versions that key committed_txns_ and delimit the conflict window are
\* never handed out twice, by StartTxn or by CommitTxn, and the CHECKs of
\* IsConflictFree (start > 0, commit > start) hold when a commit reaches them.
UniqueVersions ==
    /\ \A t, u \in Txns : t # u =>
          /\ start_version_[t] = start_version_[u] => start_version_[t] = 0
          /\ commit_version_[t] = commit_version_[u] => commit_version_[t] = 0
          /\ start_version_[t] = commit_version_[u] => start_version_[t] = 0
    /\ \A t \in Txns : pc[t] = "committing" =>
          start_version_[t] > 0 /\ commit_version_[t] > start_version_[t]

\* "A txn is conflict free if and only if there have been no writes to any key
\* that was read by that txn between the time the txn started and the commit
\* time" (the comment in IsConflictFree), of the answer IsConflictFree gave.
ConflictFreeIffUnwritten ==
    \A t \in Txns : pc[t] \in {"checked", "committed", "aborted"} =>
        (pc[t] # "aborted"
           <=> \A i \in began[t] + 1..ended[t] : \A k \in history[i].keys :
                  read_set_[t][k] = Untouched)

\* When a batch is written, the store is still in the state the transaction
\* read: the commits are serial, in the order of the batches.
CommitsAreSerial ==
    [][\A t \in Txns : pc[t] = "checked" /\ pc'[t] = "committed" => snapshot_[t] = db]_vars

\* What an open transaction has read is still so, whether it will commit or only
\* answer: until its batch is written a handler of the server sees no other one,
\* and may be taken as a single step.
ReadsAreCurrent ==
    \A t \in Txns : pc[t] \in InTxn => \A p \in seen[t] : db[p[1]] = p[2]

\* KVStore implements SnapshotStore: a transaction begins when its snapshot is
\* taken and commits when its batch is written.
Phase == [t \in Txns |-> CASE pc[t] \in {"idle", "starting"} -> "idle"
                          [] pc[t] \in {"active", "committing", "checked"} -> "open"
                          [] OTHER -> "closed"]

SS == INSTANCE SnapshotStore WITH phase <- Phase, view <- snapshot_, pending <- write_set_

\* Every behaviour of the store, with its versions, its three-step commit and
\* its restarts, is one of SnapshotStore: snapshot reads, all-or-nothing
\* commits, and recovery to a prefix of the commits.
ImplementsSnapshotStore == SS!Spec
============================================================================
