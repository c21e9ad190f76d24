---------------------------- MODULE MCConnection ----------------------------
(* OutgoingConnection for TLC: a GET that keeps the connection, one that   *)
(* ends it, and another method.                                            *)
EXTENDS OutgoingConnection

Kinds == {[get |-> TRUE, keep |-> TRUE], [get |-> TRUE, keep |-> FALSE],
          [get |-> FALSE, keep |-> TRUE]}
=============================================================================
