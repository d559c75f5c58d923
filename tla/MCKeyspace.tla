----------------------------- MODULE MCKeyspace -----------------------------
(* Small instances of Keyspace.                                            *)
EXTENDS Keyspace
=============================================================================
