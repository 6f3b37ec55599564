------------------------------ MODULE AnyPeer ------------------------------
(***************************************************************************)
(* A session whose peer may send any packet at any time: wrong numbers,    *)
(* repeated, skipped and early blocks, acknowledgements nobody asked for.  *)
(***************************************************************************)
EXTENDS Session

CONSTANT
  MaxStage   (* bound: no packet is taken once stage_ is past this         *)

ASSUME MaxStageAssumption == MaxStage \in Nat

(* Any peer: every number on the wire, every size.                         *)
AnyPacket ==
  {DATA(n, size, n) : n \in 0 .. BlkMod - 1, size \in Sizes}
  \cup {ACK(n) : n \in 0 .. BlkMod - 1}

ReceiveAny == stage <= MaxStage /\ \E p \in AnyPacket : Receive(p)

Next == fate = "running" /\ (Step \/ Environment \/ ReceiveAny)

Spec == Init /\ [][Next]_vars

(* The operating system runs the thread, and the clock advances.           *)
FairSpec ==
  /\ Spec
  /\ WF_vars(fate = "running" /\ Step)
  /\ WF_vars(fate = "running" /\ Tick)

-----------------------------------------------------------------------------
(* Once nothing more comes from the peer the retransmit counter ends the   *)
(* session, whatever state it is in, and the thread returns from run() (or *)
(* takes the process down).  Packets of other senders, and of other kinds, *)
(* may go on arriving for ever: run() looks at the timeout after each, and *)
(* they do not set it back.                                                *)
SilentPeerEnds ==
  <>[][~ReceiveAny]_vars => <>(fate # "running")

=============================================================================
