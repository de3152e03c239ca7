------------------------------ MODULE MCUidgen ------------------------------
(* Instances of Uidgen: concurrent callers, and one caller over midnight.   *)
EXTENDS Uidgen

CONSTANTS p1, p2, p3
=============================================================================
