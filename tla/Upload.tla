------------------------------- MODULE Upload -------------------------------
(***************************************************************************)
(* A write session and the client that uploads to it, over a network that  *)
(* loses, repeats, delays and reorders packets.                            *)
(*                                                                         *)
(* The client is the one of tests/tftpSrv_test.h, which sends block after  *)
(* block, each once the one before is acknowledged; with a negotiated      *)
(* window it keeps up to windowsize blocks unacknowledged.  Replies it     *)
(* does not expect are ignored.                                            *)
(***************************************************************************)
EXTENDS Datagrams

VARIABLES
  acked,  \* the block the client knows acknowledged, -1 before any reply
  step    \* the last block the client has sent

uploader == <<acked, step>>
uvars == <<vars, uploader>>

(* make_tx(): block n as the client sends it.                              *)
ClientData(n) ==
  DATA(n, IF n <= FullBlocks THEN "full" ELSE IF HasTail THEN "part" ELSE "none", n)

-----------------------------------------------------------------------------
(* make_tx() and tx(): the next block, once the window allows it.          *)
ClientSend ==
  /\ acked >= 0
  /\ step < LastBlock
  /\ step < acked + windowsize
  /\ step' = step + 1
  /\ UNCHANGED <<vars, acked>>

(* make_et(): the reply that acknowledges block n, by its 16-bit number;   *)
(* the request itself is answered by an OACK when it had options.          *)
Acknowledges(m, n) ==
  IF n = 0 /\ opt.any THEN m.op = "OACK"
  ELSE m.op = "ACK" /\ blk_num(m.num) = blk_num(n) /\ m.num >= n - Lag

(* rx(): an expected reply.                                                *)
ClientReceive ==
  /\ \E m \in sent, n \in acked + 1 .. step :
        Acknowledges(m, n) /\ acked' = n
  /\ UNCHANGED <<vars, step>>

(* One of the blocks sent arrives at the session.                          *)
DeliverData ==
  /\ fate = "running"
  /\ \E n \in 1 .. step : n >= stage - Lag /\ Receive(ClientData(n))
  /\ UNCHANGED uploader

UploadInit == Init /\ acked = -1 /\ step = 0

UploadNext == ClientSend \/ ClientReceive \/ DeliverData \/ (ServerStep /\ UNCHANGED uploader)

UploadSpec == UploadInit /\ [][UploadNext]_uvars

-----------------------------------------------------------------------------
UploadTypeOK ==
  /\ TypeOK
  /\ acked \in -1 .. LastBlock
  /\ step \in 0 .. LastBlock

(* Every block that is stored lies at its own place in the file, with the  *)
(* bytes the client sent for it: stale and repeated packets never pass for *)
(* another block, the wrap of the 16-bit number included.                  *)
BlocksInPlace == \A b \in file : b.body = b.num

(* What the client knows acknowledged, the whole prefix of the file up to  *)
(* acked, is stored.                                                       *)
AckedPrefixStored ==
  \A n \in 1 .. acked : [num |-> n, body |-> n] \in file

(* An upload is intact, as long as the session did not go through its      *)
(* retransmit state: the acknowledged prefix is stored, and a session that *)
(* ended without an error has stored the whole file.                       *)
UploadIntact ==
  opt.type = "write" /\ retr = 0 =>
    /\ AckedPrefixStored
    /\ fate = "closed" /\ err = "none" /\ "recv" \notin Faults =>
         \A n \in 1 .. LastBlock : [num |-> n, body |-> n] \in file

(* No packet of a conforming client, however late, is taken for block 0,   *)
(* whose negative position in the file makes seekp() throw.                *)
NoNegativeSeek == fate = "crashed" /\ stat = "data_rx" => stage > 0

=============================================================================
