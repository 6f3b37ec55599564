------------------------------ MODULE Download ------------------------------
(***************************************************************************)
(* A read session and the client that downloads from it, over a network    *)
(* that loses, repeats, delays and reorders packets.                       *)
(*                                                                         *)
(* The repository has no downloading client; this one does what            *)
(* Session::run() waits for: it answers an OACK with ACK 0, takes the      *)
(* blocks in their order, answers each with its ACK and ignores the        *)
(* others.                                                                 *)
(***************************************************************************)
EXTENDS Datagrams, Sequences

VARIABLES
  got,   \* what the client has taken, block after block
  acks,  \* numbers the client has acknowledged
  done   \* the client has taken a short block: the file is complete for it

downloader == <<got, acks, done>>
dvars == <<vars, downloader>>

Expected == Len(got) + 1

-----------------------------------------------------------------------------
ClientOack ==
  /\ OACK \in sent
  /\ got = <<>>
  /\ acks' = acks \cup {0}
  /\ UNCHANGED <<vars, got, done>>

ClientTakes ==
  /\ ~done
  /\ \E m \in sent :
        /\ m.op = "DATA"
        /\ blk_num(m.num) = blk_num(Expected)
        /\ m.num >= Expected - Lag
        /\ got' = Append(got, m.body)
        /\ done' = (m.size # "full")
  /\ acks' = acks \cup {Expected}
  /\ UNCHANGED vars

(* An acknowledgement arrives at the session.                              *)
DeliverAck ==
  /\ fate = "running"
  /\ \E n \in acks : n >= stage - Lag /\ Receive(ACK(n))
  /\ UNCHANGED downloader

DownloadInit == Init /\ got = <<>> /\ acks = {} /\ done = FALSE

DownloadNext == ClientOack \/ ClientTakes \/ DeliverAck \/ (ServerStep /\ UNCHANGED downloader)

DownloadSpec == DownloadInit /\ [][DownloadNext]_dvars

-----------------------------------------------------------------------------
DownloadTypeOK ==
  /\ TypeOK
  /\ got \in Seq(0 .. LastBlock)
  /\ acks \subseteq 0 .. LastBlock
  /\ done \in BOOLEAN

(* What the client has taken is a prefix of the file, and the whole file   *)
(* when it takes the transfer for complete.                                *)
ClientHasPrefix ==
  /\ \A i \in 1 .. Len(got) : got[i] = i
  /\ done => Len(got) = LastBlock

(* ClientHasPrefix holds whatever is lost, repeated, late or retransmitted *)
(* for a request without options; with options it holds until the timeout  *)
(* of the OACK sends a block 0.                                            *)
DownloadIntact == ~DataZeroSent => ClientHasPrefix

(* The session sends block n only to a client that has taken the blocks    *)
(* before n: no stale or repeated acknowledgement, around the wrap of the  *)
(* 16-bit number too, makes it skip a block.                               *)
NeverAhead == \A m \in sent : m.op = "DATA" => m.num <= Expected

(* A session that ends without an error and with retransmissions left may  *)
(* leave its client without the last block, when a repeated old            *)
(* acknowledgement passes for that of the last block, but never without a  *)
(* block before it.                                                        *)
ShortByOneAtMost ==
  opt.type = "read" /\ fate = "closed" /\ err = "none"
    /\ retr <= RetransmitCount /\ "recv" \notin Faults
  => Len(got) >= FullBlocks

=============================================================================
