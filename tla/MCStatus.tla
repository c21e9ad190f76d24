------------------------------ MODULE MCStatus ------------------------------
(* Status for TLC: windows of one, two and four seconds.                   *)
EXTENDS Status

SmallWindows == <<1, 2, 4>>
=============================================================================
