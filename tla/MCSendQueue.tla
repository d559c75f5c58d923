---------------------------- MODULE MCSendQueue ----------------------------
(* Small instances of SendQueue.                                           *)
EXTENDS SendQueue, TLC

Workers == Permutations(Threads)
=============================================================================
