------------------------------ MODULE MCKVStore ------------------------------
\* KVStore for TLC: handlers and values are interchangeable model values.
EXTENDS KVStore, TLC

Symmetry == Permutations(Txns) \cup Permutations(Values)
==============================================================================
