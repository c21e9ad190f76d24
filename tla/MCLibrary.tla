------------------------------ MODULE MCLibrary ------------------------------
(***************************************************************************)
(* The stand-alone parts of the library, for TLC.                          *)
(***************************************************************************)
EXTENDS Library

(* The value of SizeXor, in a module of its own that only TLC reads.        *)
LOCAL INSTANCE Bitwise

BitXor(a, b) == a ^^ b
=============================================================================
