----------------------------- MODULE MCDownload -----------------------------
(***************************************************************************)
(* Download for TLC.                                                       *)
(***************************************************************************)
EXTENDS Download

OptionReads == [type : {"read"}, any : {TRUE}, windowsize : {1}]

NoFaults == {}
=============================================================================
