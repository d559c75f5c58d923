---------------------------- MODULE MCHashTable ----------------------------
(* Small instances of HashTable: hashes of three bits.                     *)
EXTENDS HashTable, TLC

Callers == Permutations(Threads)

(* Keys are numbers: the hash in tens, units tell apart keys of one hash.  *)
HashOf == [k \in Keys |-> k \div 10]
=============================================================================
