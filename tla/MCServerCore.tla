---------------------------- MODULE MCServerCore ----------------------------
(* ServerCore for TLC.  Heap addresses are interchangeable in safety runs. *)
EXTENDS ServerCoreService, TLC

Addresses == Permutations(Conns)
=============================================================================
