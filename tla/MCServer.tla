------------------------------ MODULE MCServer ------------------------------
(***************************************************************************)
(* Server for TLC.                                                         *)
(***************************************************************************)
EXTENDS Server

PlainDescriptor == {3}
=============================================================================
