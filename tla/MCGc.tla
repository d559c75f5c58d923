------------------------------- MODULE MCGc -------------------------------
(* Small instances of Gc.                                                  *)
EXTENDS Gc, TLC, FiniteSets

Interchangeable ==
  Permutations(Users) \cup Permutations(Addrs) \cup Permutations(Sets)

(* What follows an uninitialised pointer is looked at only as long as one  *)
(* block at most is allocated, and up to the free() of what is listed then.*)
Contained == wild => Cardinality(heap) <= 1 \/ gpc = "free"
=============================================================================
