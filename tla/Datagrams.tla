----------------------------- MODULE Datagrams -----------------------------
(***************************************************************************)
(* A session whose packets cross a network that loses, repeats, delays and *)
(* reorders them. A packet once sent can arrive any number of times, or    *)
(* never, so that the network needs no state beyond what was sent; the one *)
(* limit is Lag: a packet is gone before its 16-bit number comes around    *)
(* again.                                                                  *)
(***************************************************************************)
EXTENDS Session

CONSTANT
  Lag   (* how many blocks behind the receiver a packet may still arrive   *)

ASSUME LagAssumption == Lag \in 0 .. BlkMod - 2

(* The file has the blocks 1 .. LastBlock, the last of them short or empty. *)
LastBlock == FullBlocks + 1

(* The session's thread and its clock.                                     *)
ServerStep == fate = "running" /\ (Step \/ Environment)
=============================================================================
