--------------------------- MODULE DownloadProofs ---------------------------
(***************************************************************************)
(* Theorems about a read session and the client that downloads from it,    *)
(* for every length of the file, every window, every modulus of the block  *)
(* number and every lag of the network below one wrap of that number.      *)
(***************************************************************************)
EXTENDS Download, SessionProofs

(* The client's own variables.                                             *)
DownloaderOK ==
  /\ got \in Seq(Nat)
  /\ acks \subseteq 0 .. Len(got)
  /\ done \in BOOLEAN

(* Acknowledgements are packets that a session looks into.                 *)
LEMMA AckFields ==
  ASSUME NEW n \in Nat
  PROVE  ACK(n) \in Packet /\ ACK(n).op = "ACK" /\ ACK(n).num = n
<1>1. ACK(n).op = "ACK" /\ ACK(n).num = n
  BY DEF ACK
<1> QED BY <1>1, MessageType DEF Packet

(* Appending one block to what the client has taken.                       *)
LEMMA OneMore ==
  ASSUME NEW s \in Seq(Nat), NEW b \in Nat
  PROVE  /\ Append(s, b) \in Seq(Nat)
         /\ Len(Append(s, b)) = Len(s) + 1
         /\ Append(s, b)[Len(s) + 1] = b
         /\ \A i \in 1 .. Len(s) : Append(s, b)[i] = s[i]
  OBVIOUS

(* The client's variables keep their types.                                *)
LEMMA DownloaderInit ==
  ASSUME DownloadInit
  PROVE  DownloaderOK
<1>1. got = <<>> /\ acks = {} /\ done \in BOOLEAN
  BY Zenon DEF DownloadInit
<1>2. <<>> \in Seq(Nat)
  OBVIOUS
<1> QED BY <1>1, <1>2 DEF DownloaderOK

(* The client takes one block at a time and acknowledges what it has       *)
(* taken.                                                                  *)
LEMMA DownloaderStep ==
  ASSUME TypeOK, DownloaderOK, [DownloadNext]_dvars
  PROVE  DownloaderOK'
<1>1. CASE ClientOack
  <2>1. UNCHANGED <<got, done>> /\ acks' = acks \cup {0} /\ Len(got) = 0
    BY <1>1 DEF ClientOack
  <2> QED BY <2>1 DEF DownloaderOK
<1>2. CASE ClientTakes
  <2>1. PICK m \in sent :
          m.op = "DATA" /\ got' = Append(got, m.body) /\ done' = (m.size # "full")
    BY <1>2 DEF ClientTakes
  <2>2. m.body \in Nat /\ got \in Seq(Nat) /\ Len(got) \in Nat
    BY <2>1 DEF TypeOK, Message, DownloaderOK
  <2>3. got' \in Seq(Nat) /\ Len(got') = Len(got) + 1
    BY <2>1, <2>2, OneMore
  <2>4. done' \in BOOLEAN
    BY Zenon, <2>1
  <2>5. acks' = acks \cup {Len(got) + 1}
    BY <1>2 DEF ClientTakes, Expected
  <2>6. acks' \subseteq 0 .. Len(got')
    <3>1. \A n \in 0 .. Len(got) : n \in 0 .. Len(got) + 1
      BY <2>2
    <3>2. Len(got) + 1 \in 0 .. Len(got) + 1
      BY <2>2
    <3>3. acks \cup {Len(got) + 1} \subseteq 0 .. Len(got) + 1
      BY Zenon, <3>1, <3>2 DEF DownloaderOK
    <3> QED BY Zenon, <2>3, <2>5, <3>3
  <2> QED BY <2>3, <2>4, <2>6 DEF DownloaderOK
<1>3. CASE UNCHANGED downloader
  BY <1>3 DEF downloader, DownloaderOK
<1> QED BY <1>1, <1>2, <1>3 DEF DownloadNext, DeliverAck, dvars

(* A step of the download is a step of the session or leaves it alone.     *)
LEMMA DownloadStepIsSessionStep ==
  ASSUME DownloaderOK, [DownloadNext]_dvars
  PROVE  [SessionNext]_vars
<1>1. CASE ClientOack \/ ClientTakes \/ UNCHANGED dvars
  BY <1>1 DEF ClientOack, ClientTakes, dvars
<1>2. CASE DeliverAck
  <2>1. PICK n \in acks : Receive(ACK(n))
    BY <1>2 DEF DeliverAck
  <2>2. ACK(n) \in Packet
    BY AckFields DEF DownloaderOK
  <2> QED BY <1>2, <2>1, <2>2 DEF DeliverAck, SessionNext
<1>3. CASE ServerStep
  BY <1>3 DEF ServerStep, SessionNext
<1> QED BY <1>1, <1>2, <1>3 DEF DownloadNext

(* The client of a download is one of the peers that SessionSpec allows.   *)
LEMMA DownloadIsSession == DownloadSpec => SessionSpec /\ []DownloaderOK
<1>1. DownloadInit => Init /\ TypeOK /\ DownloaderOK
  BY Zenon, DownloaderInit, TypeInit DEF DownloadInit
<1>2. TypeOK /\ DownloaderOK /\ [DownloadNext]_dvars
      => TypeOK' /\ DownloaderOK' /\ [SessionNext]_vars
  BY DownloaderStep, DownloadStepIsSessionStep, TypeStep
<1> QED
  BY <1>1, <1>2, PTL DEF DownloadSpec, SessionSpec

-----------------------------------------------------------------------------
(* The session is at most one block ahead of what its client has taken.    *)
DownloadOrder ==
  /\ NeverAhead
  /\ opt.type = "read" /\ stat \in {"data_tx", "ack_rx", "retransmit"}
     => stage <= Expected

(* An acknowledgement that is in range is taken for its own number or for  *)
(* a lower one.                                                            *)
LEMMA AckNumber ==
  ASSUME TypeOK, NEW n \in Nat, n >= stage - Lag, InRange(rx_stage(ACK(n)))
  PROVE  rx_stage(ACK(n)) \in Nat /\ rx_stage(ACK(n)) <= n
<1> DEFINE p == ACK(n)
<1>1. /\ p.num = n /\ stage \in Nat
      /\ Epoch(n) \in Nat /\ Epoch(stage) \in Nat
  BY AckFields, EpochNumber DEF TypeOK
<1>2. rx_stage(p) \in Int /\ 0 <= rx_stage(p) /\ rx_stage(p) <= stage + 1
  BY <1>1, StageType DEF InRange
<1>3. /\ Epoch(n) = Epoch(stage) => rx_stage(p) = n
      /\ Epoch(n) < Epoch(stage) => rx_stage(p) >= n + BlkMod
      /\ Epoch(n) > Epoch(stage) => rx_stage(p) <= n - BlkMod
  BY <1>1, RxStage
<1>4. ~(rx_stage(p) >= n + BlkMod)
  BY <1>1, <1>2, LagAssumption, NumbersAssumption
<1>5. rx_stage(p) = n \/ rx_stage(p) <= n - BlkMod
  BY <1>1, <1>3, <1>4
<1> QED BY <1>2, <1>5, NumbersAssumption

(* The packet that the client takes is the block that it expects.          *)
LEMMA TakesExpected ==
  ASSUME TypeOK, DownloaderOK, NeverAhead, NEW m \in sent, m.op = "DATA",
         blk_num(m.num) = blk_num(Expected), m.num >= Expected - Lag
  PROVE  m.num = Expected
<1>1. m.num \in Nat /\ Expected \in Nat /\ m.num <= Expected
  BY DEF TypeOK, Message, DownloaderOK, Expected, NeverAhead
<1>2. m.num > Expected - BlkMod
  BY <1>1, LagAssumption, NumbersAssumption
<1>3. m.num >= Expected
  BY <1>1, <1>2, SameNumber
<1> QED BY <1>1, <1>3

(* What the session does of its own accord keeps that order.               *)
LEMMA ServerOrder ==
  ASSUME TypeOK, Sides, DownloadOrder, ServerStep, Expected' = Expected,
         Expected \in Nat, Expected >= 1
  PROVE  DownloadOrder'
<1>0. ServerStep => [SessionNext]_vars
  BY DEF ServerStep, SessionNext
<1>1. opt' = opt
  BY <1>0, RequestFixed
<1>2. CASE DataTx
  <2> DEFINE msg == DATA(stage, ReadSize(stage), Body(stage))
  <2>1. /\ stat = "data_tx" /\ stage' = stage
        /\ sent' \subseteq sent \cup {msg}
    BY Zenon, <1>2 DEF DataTx, transmit_no_wait
  <2>2. opt.type = "read" /\ stage <= Expected
    BY <2>1 DEF Sides, DownloadOrder
  <2>3. msg.num = stage
    BY DEF DATA
  <2> QED BY <1>1, <2>1, <2>2, <2>3 DEF DownloadOrder, NeverAhead
<1>3. CASE ~DataTx
  <2>1. \A m \in sent' : m \in sent \/ m.op # "DATA"
    BY <1>0, <1>3, OnlyDataTxSendsData
  <2>2. NeverAhead'
    BY <2>1 DEF DownloadOrder, NeverAhead
  <2>3. CASE AckOptions
    <3>1. stage' \in {0, 1}
      BY <2>3 DEF AckOptions
    <3>2. stage' <= Expected
      BY <3>1
    <3> QED BY <2>2, <3>2 DEF DownloadOrder
  <2>4. CASE NeedInit \/ OpenThrows \/ ErrorAndStop
    <3>1. stat' \notin {"data_tx", "ack_rx", "retransmit"}
      BY Zenon, <2>4 DEF NeedInit, OpenThrows, ErrorAndStop, switch_to
    <3> QED BY <2>2, <3>1 DEF DownloadOrder
  <2>5. CASE Retransmit \/ Timeout \/ Ignore \/ RecvFault
    <3>1. stage' = stage /\ stat \in {"retransmit", "ack_rx", "data_rx"}
      BY Zenon, <2>5 DEF Retransmit, Timeout, Ignore, RecvFault, Waiting, session
    <3>2. opt.type = "read" => stat # "data_rx"
      BY Zenon DEF Sides
    <3> QED BY <1>1, <2>2, <3>1, <3>2 DEF DownloadOrder
  <2>6. CASE Tick \/ Close
    <3>1. stage' = stage /\ stat' = stat
      BY <2>6 DEF Tick, Close, session
    <3> QED BY <1>1, <2>2, <3>1 DEF DownloadOrder
  <2>7. CASE AckTx
    <3>1. opt.type = "write"
      BY <2>7 DEF AckTx, Sides
    <3> QED BY <1>1, <2>2, <3>1 DEF DownloadOrder
  <2> QED
    BY <1>3, <2>3, <2>4, <2>5, <2>6, <2>7, ServerStep DEF ServerStep, Step, Environment
<1> QED BY <1>2, <1>3

(* No step of the session or of its client breaks this order: data_tx()    *)
(* sends the next block only after ack_rx() has moved stage_.              *)
LEMMA DownloadOrderStep ==
  ASSUME TypeOK, TypeOK', Sides, DownloaderOK, DownloadOrder,
         [DownloadNext]_dvars
  PROVE  DownloadOrder'
<1>1. Expected \in Nat /\ Expected >= 1 /\ stage \in Nat
  BY DEF DownloaderOK, Expected, TypeOK
<1>2. CASE ClientOack \/ UNCHANGED dvars
  BY <1>2 DEF ClientOack, dvars, downloader, vars, session, DownloadOrder,
     NeverAhead, Expected
<1>3. CASE ClientTakes
  <2>1. PICK m \in sent : m.op = "DATA" /\ got' = Append(got, m.body)
    BY <1>3 DEF ClientTakes
  <2>2. m.body \in Nat /\ got \in Seq(Nat) /\ Len(got) \in Nat
    BY SMTT(30), <2>1 DEF TypeOK, Message, DownloaderOK
  <2>3. Len(got') = Len(got) + 1
    BY <2>1, <2>2, OneMore
  <2>4. Expected' = Expected + 1
    BY <2>2, <2>3 DEF Expected
  <2>5. UNCHANGED <<opt, stat, stage, sent>>
    BY <1>3 DEF ClientTakes, vars, session
  <2>6. \A k \in Nat : k <= Expected => k <= Expected + 1
    BY <1>1
  <2>7. \A k \in sent : k.op = "DATA" => k.num \in Nat
    BY DEF TypeOK, Message
  <2> QED BY <1>1, <2>4, <2>5, <2>6, <2>7 DEF DownloadOrder, NeverAhead
<1>4. CASE DeliverAck
  <2>1. PICK n \in acks : n >= stage - Lag /\ Receive(ACK(n))
    BY <1>4 DEF DeliverAck
  <2>2. n \in Nat /\ n + 1 <= Expected /\ ACK(n).op = "ACK"
    BY AckFields DEF DownloaderOK, Expected
  <2>3. sent' = sent /\ Expected' = Expected /\ opt' = opt
    BY Zenon, <1>4, <2>1 DEF DeliverAck, downloader, Expected, Receive, WrongNumber, DataRx,
       DataRxThrows, DataRxDiskFault, AckRx
  <2>4. CASE WrongNumber(ACK(n))
    <3>1. stat' \in {"error_and_stop", "finish"}
      BY Zenon, <2>4 DEF WrongNumber, switch_to
    <3> QED BY <2>3, <3>1 DEF DownloadOrder, NeverAhead
  <2>5. CASE AckRx(ACK(n))
    <3>1. InRange(rx_stage(ACK(n)))
      BY <2>5 DEF AckRx
    <3>2. rx_stage(ACK(n)) + 1 <= Expected
      BY SMTT(30), <1>1, <2>1, <2>2, <3>1, AckNumber
    <3>3. stat' = "finish" \/ stage' = rx_stage(ACK(n)) + 1
      BY <2>5 DEF AckRx, switch_to, Admitted
    <3> QED BY <2>3, <3>2, <3>3 DEF DownloadOrder, NeverAhead
  <2> QED
    BY <2>1, <2>2, <2>4, <2>5 DEF Receive, DataRx, DataRxThrows, DataRxDiskFault
<1>5. CASE ServerStep /\ UNCHANGED downloader
  <2>1. Expected' = Expected
    BY <1>5 DEF downloader, Expected
  <2> QED BY <1>1, <1>5, <2>1, ServerOrder
<1> QED BY <1>2, <1>3, <1>4, <1>5 DEF DownloadNext

(* The session sends block n only to a client that has taken the blocks    *)
(* before n (NeverAhead): no stale, repeated or late acknowledgement makes *)
(* it skip a block, however often the 16-bit number wraps.                 *)
THEOREM DownloadNeverAhead == DownloadSpec => []NeverAhead
<1>1. DownloadInit => DownloadOrder
  BY DEF DownloadInit, Init, DownloadOrder, NeverAhead
<1>2. TypeOK /\ TypeOK' /\ Sides /\ DownloaderOK /\ DownloadOrder
      /\ [DownloadNext]_dvars => DownloadOrder'
  BY DownloadOrderStep
<1>3. DownloadSpec => [](TypeOK /\ Sides /\ DownloaderOK)
  BY DownloadIsSession, TypeCorrect, SidesKept, PTL
<1>4. DownloadOrder => NeverAhead
  BY DEF DownloadOrder
<1> QED
  BY <1>1, <1>2, <1>3, <1>4, PTL DEF DownloadSpec

-----------------------------------------------------------------------------
(* The client has taken blocks of the file and no more than there are.     *)
GotBlocks == got \in Seq(0 .. LastBlock) /\ Len(got) <= LastBlock

(* The client takes only what data_tx() has read from the file.            *)
LEMMA GotBlocksStep ==
  ASSUME TypeOK, DataSent, DownloaderOK, NeverAhead, GotBlocks,
         [DownloadNext]_dvars
  PROVE  GotBlocks'
<1>1. CASE ClientTakes
  <2>1. PICK m \in sent :
          /\ m.op = "DATA" /\ got' = Append(got, m.body)
          /\ blk_num(m.num) = blk_num(Expected) /\ m.num >= Expected - Lag
    BY <1>1 DEF ClientTakes
  <2>2. m.body \in 0 .. LastBlock /\ m.num <= LastBlock
    BY <2>1, NumbersAssumption DEF TypeOK, Message, DataSent, LastBlock
  <2>3. m.num = Len(got) + 1
    BY <2>1, TakesExpected DEF Expected
  <2>4. got' \in Seq(0 .. LastBlock)
    BY <2>1, <2>2 DEF GotBlocks
  <2>5. Len(got') = Len(got) + 1
    BY <2>1 DEF GotBlocks
  <2> QED BY <2>2, <2>3, <2>4, <2>5 DEF GotBlocks
<1>2. CASE UNCHANGED got
  BY <1>2 DEF GotBlocks
<1> QED
  BY <1>1, <1>2 DEF DownloadNext, ClientOack, DeliverAck, dvars, downloader

(* The full blocks that the client has taken are those of the file, as     *)
(* long as no block 0 was sent.                                            *)
FullPrefix ==
  ~DataZeroSent => \A i \in 1 .. Len(got) : i <= FullBlocks => got[i] = i

(* The client takes full blocks as data_tx() has read them.                *)
LEMMA FullPrefixStep ==
  ASSUME TypeOK, SentFromFile, DownloaderOK, NeverAhead, FullPrefix,
         [DownloadNext]_dvars
  PROVE  FullPrefix'
<1>1. sent \subseteq sent'
  BY DownloadStepIsSessionStep, RequestFixed
<1> SUFFICES ASSUME ~DataZeroSent'
             PROVE  (\A i \in 1 .. Len(got) : i <= FullBlocks => got[i] = i)'
  BY DEF FullPrefix
<1>2. ~DataZeroSent
  BY <1>1 DEF DataZeroSent
<1>3. \A i \in 1 .. Len(got) : i <= FullBlocks => got[i] = i
  BY <1>2 DEF FullPrefix
<1>4. CASE ClientTakes
  <2>1. PICK m \in sent :
          /\ m.op = "DATA" /\ got' = Append(got, m.body)
          /\ blk_num(m.num) = blk_num(Expected) /\ m.num >= Expected - Lag
    BY <1>4 DEF ClientTakes
  <2>2. got \in Seq(Nat) /\ Len(got) \in Nat /\ m.body \in Nat
    BY <2>1 DEF DownloaderOK, TypeOK, Message
  <2>3. m.num = Len(got) + 1
    BY <2>1, TakesExpected DEF Expected
  <2>4. m.num <= FullBlocks => m.body = m.num
    BY <1>2, <2>1 DEF SentFromFile, FullBlocksSent
  <2>5. /\ Len(got') = Len(got) + 1
        /\ got'[Len(got) + 1] = m.body
        /\ \A i \in 1 .. Len(got) : got'[i] = got[i]
    BY <2>1, <2>2, OneMore
  <2>6. \A i \in 1 .. Len(got) + 1 : i \in 1 .. Len(got) \/ i = Len(got) + 1
    BY <2>2
  <2> QED BY <1>3, <2>3, <2>4, <2>5, <2>6
<1>5. CASE UNCHANGED got
  BY <1>3, <1>5
<1> QED
  BY <1>4, <1>5 DEF DownloadNext, ClientOack, DeliverAck, dvars, downloader

(* What the client holds is a prefix of the file, as long as no block 0    *)
(* was sent.                                                               *)
LEMMA DownloadIntactStep ==
  ASSUME TypeOK, DataSent, DownloadIsFile, "stray" \notin Faults, DownloaderOK,
         NeverAhead, DownloadIntact, [DownloadNext]_dvars
  PROVE  DownloadIntact'
<1>1. sent \subseteq sent'
  BY DownloadStepIsSessionStep, RequestFixed
<1> SUFFICES ASSUME ~DataZeroSent' PROVE ClientHasPrefix'
  BY DEF DownloadIntact
<1>2. ~DataZeroSent
  BY <1>1 DEF DataZeroSent
<1>3. ClientHasPrefix
  BY <1>2 DEF DownloadIntact
<1>4. CASE ClientTakes
  <2>1. PICK m \in sent :
          /\ m.op = "DATA" /\ got' = Append(got, m.body)
          /\ done' = (m.size # "full")
          /\ blk_num(m.num) = blk_num(Expected) /\ m.num >= Expected - Lag
    BY <1>4 DEF ClientTakes
  <2>2. got \in Seq(Nat) /\ Len(got) \in Nat
    BY DEF DownloaderOK
  <2>3. m.num = Len(got) + 1
    BY <2>1, TakesExpected DEF Expected
  <2>4. m.body = m.num
    BY <1>2, <2>1 DEF DownloadIsFile, DataIsFileBlock
  <2>5. m.body \in Nat
    BY <2>2, <2>3, <2>4
  <2>6. /\ Len(got') = Len(got) + 1
        /\ got'[Len(got) + 1] = m.body
        /\ \A i \in 1 .. Len(got) : got'[i] = got[i]
    BY <2>1, <2>2, <2>5, OneMore
  <2>7. \A i \in 1 .. Len(got) + 1 : got'[i] = i
    <3>1. \A i \in 1 .. Len(got) + 1 : i \in 1 .. Len(got) \/ i = Len(got) + 1
      BY <2>2
    <3> QED BY <1>3, <2>3, <2>4, <2>6, <3>1 DEF ClientHasPrefix
  <2>8. m.size # "full" => m.num = LastBlock
    BY <2>1, <2>2, <2>3, NumbersAssumption DEF DataSent, ReadSize, LastBlock
  <2> QED BY Zenon, <2>1, <2>3, <2>6, <2>7, <2>8 DEF ClientHasPrefix
<1>5. CASE UNCHANGED <<got, done>>
  BY <1>3, <1>5 DEF ClientHasPrefix
<1> QED
  BY <1>4, <1>5 DEF DownloadNext, ClientOack, DeliverAck, dvars, downloader

(* What the client holds and acknowledges are numbers of blocks of the     *)
(* file.                                                                   *)
LEMMA DownloadTyped ==
  ASSUME TypeOK, DownloaderOK, GotBlocks
  PROVE  DownloadTypeOK
<1>1. Len(got) \in Nat /\ LastBlock \in Nat /\ Len(got) <= LastBlock
  BY NumbersAssumption DEF DownloaderOK, GotBlocks, LastBlock
<1>2. acks \subseteq 0 .. LastBlock
  BY <1>1 DEF DownloaderOK
<1> QED BY <1>2 DEF DownloadTypeOK, DownloaderOK, GotBlocks

(* The client takes blocks of the file and acknowledges no others, and the *)
(* session's fields keep their types (DownloadTypeOK).                     *)
THEOREM DownloadTypes == DownloadSpec => []DownloadTypeOK
<1>1. DownloadInit => GotBlocks
  BY NumbersAssumption DEF DownloadInit, GotBlocks, LastBlock
<1>2. TypeOK /\ DataSent /\ DownloaderOK /\ NeverAhead /\ GotBlocks
      /\ [DownloadNext]_dvars => GotBlocks'
  BY GotBlocksStep
<1>3. DownloadSpec => [](TypeOK /\ DataSent /\ DownloaderOK /\ NeverAhead)
  BY DownloadIsSession, TypeCorrect, DataSentKept, DownloadNeverAhead, PTL
<1>4. TypeOK /\ DownloaderOK /\ GotBlocks => DownloadTypeOK
  BY DownloadTyped
<1> QED
  BY <1>1, <1>2, <1>3, <1>4, PTL DEF DownloadSpec

(* What the client has taken is a prefix of the file, and the whole file   *)
(* when it takes the transfer for complete (DownloadIntact): whatever is   *)
(* lost, repeated, late or retransmitted, until the timeout of an OACK     *)
(* makes run() send a block 0.  Packets of strangers are excluded: they    *)
(* are read into the buffer that the next block is sent from.              *)
THEOREM DownloadWhole ==
  ASSUME "stray" \notin Faults
  PROVE  DownloadSpec => []DownloadIntact
<1>1. DownloadInit => DownloadIntact
  BY DEF DownloadInit, DownloadIntact, ClientHasPrefix
<1>2. TypeOK /\ DataSent /\ DownloadIsFile /\ DownloaderOK /\ NeverAhead
      /\ DownloadIntact /\ [DownloadNext]_dvars => DownloadIntact'
  BY DownloadIntactStep
<1>3. DownloadSpec => [](TypeOK /\ DataSent /\ DownloadIsFile /\ DownloaderOK
                         /\ NeverAhead)
  BY DownloadIsSession, TypeCorrect, DataSentKept, DownloadSafe,
     DownloadNeverAhead, PTL
<1> QED
  BY <1>1, <1>2, <1>3, PTL DEF DownloadSpec

(* A session that ends after its last block has had all others             *)
(* acknowledged.                                                           *)
LEMMA OnlyLastMissing ==
  ASSUME DownloaderOK, NeverAhead, EndsAfterLastBlock
  PROVE  ShortByOneAtMost
<1>1. Len(got) \in Nat
  BY DEF DownloaderOK
<1> QED
  BY <1>1, NumbersAssumption
  DEF ShortByOneAtMost, EndsAfterLastBlock, NeverAhead, Expected

(* A session that ends without an error and with retransmissions left      *)
(* leaves its client without the last block at most (ShortByOneAtMost).    *)
THEOREM DownloadEnds == DownloadSpec => []ShortByOneAtMost
<1>1. DownloaderOK /\ NeverAhead /\ EndsAfterLastBlock => ShortByOneAtMost
  BY OnlyLastMissing
<1> QED
  BY <1>1, DownloadIsSession, DownloadNeverAhead, EndsWhole, PTL
=============================================================================
