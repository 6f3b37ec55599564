----------------------------- MODULE MCLockstep -----------------------------
(***************************************************************************)
(* Lockstep for TLC.                                                       *)
(***************************************************************************)
EXTENDS Lockstep

LockstepRequests ==
  [type : {"read", "write"}, any : BOOLEAN, windowsize : {1}]

LockstepFaults == {"disk", "socket", "manager"}
=============================================================================
