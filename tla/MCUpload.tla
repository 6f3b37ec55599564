------------------------------ MODULE MCUpload ------------------------------
(***************************************************************************)
(* Upload for TLC.                                                         *)
(***************************************************************************)
EXTENDS Upload

LockstepWrites == [type : {"write"}, any : BOOLEAN, windowsize : {1}]

NoFaults == {}
=============================================================================
