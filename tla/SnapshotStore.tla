--------------------------- MODULE SnapshotStore ---------------------------
(***************************************************************************)
(* What the transactional key-value interface of the NameNode promises     *)
(* (TxnBase and KVStoreBase, namenode/table/kv/kv_store_base.h), without    *)
(* versions, conflict detection or the order of the internal steps:         *)
(*                                                                          *)
(*  - a transaction reads one committed state of the store, the latest one  *)
(*    at the moment it begins, whatever commits later;                      *)
(*  - its writes are buffered and appear all together, in one commit, or    *)
(*    not at all;                                                           *)
(*  - a restart keeps a prefix of the commits and no part of a transaction. *)
(*                                                                          *)
(* Nothing is promised about two transactions that overlap: that is what    *)
(* conflict detection is for, see KVStore.                                  *)
(***************************************************************************)
EXTENDS Naturals, Sequences

CONSTANTS
    Txns,       \* transactions that clients may run
    Keys,       \* (column family, key) pairs, ordered like the key bytes
    Values,     \* values a key can hold
    NoValue,    \* "the key is absent"; buffered by Del
    Untouched   \* "the transaction did not write this key"

VARIABLES
    history,    \* every committed state, oldest first, with the keys its commit wrote
    phase,      \* idle, open or closed, for each transaction
    view,       \* the state a transaction reads
    seen,       \* the (key, value) pairs its reads returned
    pending     \* its buffered writes

vars == <<history, phase, view, seen, pending>>

Contents == Values \cup {NoValue}
State == [Keys -> Contents]
Empty == [k \in Keys |-> NoValue]
NoWrites == [k \in Keys |-> Untouched]

\* The state the store is in after all the commits so far.
Latest(h) == h[Len(h)].state
Apply(state, writes) ==
    [k \in Keys |-> IF writes[k] = Untouched THEN state[k] ELSE writes[k]]
Written(writes) == {k \in Keys : writes[k] # Untouched}

Init ==
    /\ history = <<[state |-> Empty, keys |-> {}]>>
    /\ phase = [t \in Txns |-> "idle"]
    /\ view = [t \in Txns |-> Empty]
    /\ seen = [t \in Txns |-> {}]
    /\ pending = [t \in Txns |-> NoWrites]

Begin(t) ==
    /\ phase[t] = "idle"
    /\ phase' = [phase EXCEPT ![t] = "open"]
    /\ view' = [view EXCEPT ![t] = Latest(history)]
    /\ UNCHANGED <<history, seen, pending>>

\* A read of any set of keys, point lookups and range scans alike.
Read(t, K) ==
    /\ phase[t] = "open"
    /\ seen' = [seen EXCEPT ![t] = @ \cup {<<k, view[t][k]>> : k \in K}]
    /\ UNCHANGED <<history, phase, view, pending>>

Write(t, k, c) ==
    /\ phase[t] = "open"
    /\ pending' = [pending EXCEPT ![t][k] = c]
    /\ UNCHANGED <<history, phase, view, seen>>

Commit(t) ==
    /\ phase[t] = "open"
    /\ phase' = [phase EXCEPT ![t] = "closed"]
    /\ history' = Append(history, [state |-> Apply(Latest(history), pending[t]),
                                   keys  |-> Written(pending[t])])
    /\ UNCHANGED <<view, seen, pending>>

\* The transaction is dropped or aborted: none of its writes ever appears.
Discard(t) ==
    /\ phase[t] = "open"
    /\ phase' = [phase EXCEPT ![t] = "closed"]
    /\ UNCHANGED <<history, view, seen, pending>>

\* The server restarts from the first n committed states.
Recover(n) ==
    /\ history' = SubSeq(history, 1, n)
    /\ phase' = [t \in Txns |-> "idle"]
    /\ view' = [t \in Txns |-> Empty]
    /\ seen' = [t \in Txns |-> {}]
    /\ pending' = [t \in Txns |-> NoWrites]

Next ==
    \/ \E t \in Txns :
        \/ Begin(t)
        \/ \E K \in SUBSET Keys : Read(t, K)
        \/ \E k \in Keys, c \in Contents : Write(t, k, c)
        \/ Commit(t)
        \/ Discard(t)
    \/ \E n \in 1..Len(history) : Recover(n)

Spec == Init /\ [][Next]_vars
============================================================================
