----------------------------- MODULE MCKVStore -----------------------------
(* Instance of KVStore: cache keys and goroutines are model values.        *)
EXTENDS KVStore

CONSTANTS k1, k2, s1, s2
=============================================================================
