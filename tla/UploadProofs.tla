---------------------------- MODULE UploadProofs ----------------------------
(***************************************************************************)
(* Theorems about a write session and the client that uploads to it, for   *)
(* every length of the file, every modulus of the block number and every   *)
(* lag of the network below one wrap of that number.  The client sends a   *)
(* block once the one before is acknowledged: with windows of more blocks  *)
(* the theorems are false.                                                 *)
(***************************************************************************)
EXTENDS Upload, SessionProofs

(* Nobody uploads with a window.                                          *)
OneBlockUploads ==
  \A r \in Requests : r.type = "write" => r.windowsize <= 1

(* The client's own variables.                                             *)
UploaderOK == step \in 0 .. LastBlock /\ acked \in -1 .. step

(* The blocks the client sends are packets that a session looks into.      *)
LEMMA ClientDataFields ==
  ASSUME NEW n \in Nat
  PROVE  /\ ClientData(n) \in Packet
         /\ ClientData(n).op = "DATA" /\ ClientData(n).num = n
         /\ ClientData(n).body = n
         /\ ClientData(n).size # "full" <=> n > FullBlocks
<1> DEFINE z == IF n <= FullBlocks THEN "full" ELSE IF HasTail THEN "part" ELSE "none"
<1>1. z \in Sizes /\ (z # "full" <=> n > FullBlocks)
  BY NumbersAssumption DEF Sizes
<1>2. ClientData(n) = DATA(n, z, n)
  BY DEF ClientData
<1>3. DATA(n, z, n) \in Message
  BY <1>1, MessageType
<1> HIDE DEF z
<1>4. /\ DATA(n, z, n).op = "DATA" /\ DATA(n, z, n).num = n
      /\ DATA(n, z, n).body = n /\ DATA(n, z, n).size = z
  BY DEF DATA
<1> QED BY <1>1, <1>2, <1>3, <1>4 DEF Packet

(* The client's variables keep their types.                                *)
LEMMA UploaderInit ==
  ASSUME UploadInit
  PROVE  UploaderOK
  BY NumbersAssumption DEF UploadInit, UploaderOK, LastBlock

(* The client sends the blocks of its file in their order.                 *)
LEMMA UploaderStep ==
  ASSUME UploaderOK, [UploadNext]_uvars
  PROVE  UploaderOK'
<1>1. CASE ClientSend
  BY <1>1, NumbersAssumption DEF ClientSend, UploaderOK, LastBlock
<1>2. CASE ClientReceive
  BY <1>2, NumbersAssumption DEF ClientReceive, UploaderOK, LastBlock
<1>3. CASE UNCHANGED uploader
  BY <1>3 DEF uploader, UploaderOK
<1> QED BY <1>1, <1>2, <1>3 DEF UploadNext, DeliverData, uvars

(* A step of the upload is a step of the session or leaves it alone.       *)
LEMMA UploadStepIsSessionStep ==
  ASSUME UploaderOK, [UploadNext]_uvars
  PROVE  [SessionNext]_vars
<1>1. CASE ClientSend \/ ClientReceive \/ UNCHANGED uvars
  BY <1>1 DEF ClientSend, ClientReceive, uvars
<1>2. CASE DeliverData
  <2>1. PICK n \in 1 .. step : Receive(ClientData(n))
    BY <1>2 DEF DeliverData
  <2>2. n \in Nat
    BY DEF UploaderOK
  <2>3. ClientData(n) \in Packet
    BY <2>2, ClientDataFields
  <2> QED BY <1>2, <2>1, <2>3 DEF DeliverData, SessionNext
<1>3. CASE ServerStep
  BY <1>3 DEF ServerStep, SessionNext
<1> QED BY <1>1, <1>2, <1>3 DEF UploadNext

(* The client of an upload is one of the peers that SessionSpec allows.    *)
LEMMA UploadIsSession == UploadSpec => SessionSpec /\ []UploaderOK
<1>1. UploadInit => Init /\ UploaderOK
  BY UploaderInit DEF UploadInit
<1>2. UploaderOK /\ [UploadNext]_uvars => UploaderOK' /\ [SessionNext]_vars
  BY UploaderStep, UploadStepIsSessionStep
<1> QED
  BY <1>1, <1>2, PTL DEF UploadSpec, SessionSpec

(* acked and step are numbers of blocks, and the session's fields keep     *)
(* their types (UploadTypeOK).                                             *)
THEOREM UploadTypes == UploadSpec => []UploadTypeOK
<1>1. TypeOK /\ UploaderOK => UploadTypeOK
  BY NumbersAssumption DEF UploaderOK, UploadTypeOK, LastBlock
<1> QED
  BY <1>1, UploadIsSession, TypeCorrect, PTL

-----------------------------------------------------------------------------
(* The block that the session awaits, or will await after its next ACK.    *)
Reach == IF stat = "ack_tx" THEN stage + 1 ELSE stage

(* The client is never in a later epoch than the session: it is one block  *)
(* ahead of what was acknowledged, and after ACK m the session has been at *)
(* block m + 1 and can fall back only within the epoch of that block.      *)
UploadOrder ==
  opt.type = "write" =>
    /\ step <= acked + 1
    /\ \A m \in sent : m.op = "ACK" => Epoch(m.num + 1) <= Epoch(Reach)
    /\ acked > 0 => \E m \in sent : m.op = "ACK" /\ acked <= m.num

(* A block that was sent belongs to the epoch of the block that is awaited *)
(* or to an earlier one.                                                   *)
LEMMA SentBefore ==
  ASSUME TypeOK, UploaderOK, UploadOrder, opt.type = "write",
         stat = "data_rx", NEW n \in 1 .. step
  PROVE  Epoch(n) <= Epoch(stage)
<1>1. /\ n \in Nat /\ stage \in Nat /\ n <= acked + 1 /\ acked \in Int
      /\ Epoch(n) \in Int /\ Epoch(stage) \in Int
  BY EpochNumber DEF TypeOK, UploaderOK, UploadOrder
<1>2. CASE acked > 0
  <2>1. PICK m \in sent : m.op = "ACK" /\ acked <= m.num
    BY <1>2 DEF UploadOrder
  <2>2. m.num \in Nat
    BY <2>1 DEF TypeOK, Message
  <2>3. Epoch(m.num + 1) <= Epoch(stage)
    BY <2>1 DEF UploadOrder, Reach
  <2>4. Epoch(n) <= Epoch(m.num + 1) /\ Epoch(m.num + 1) \in Int
    BY <1>1, <2>1, <2>2, EpochOrder, EpochNumber
  <2> QED BY <1>1, <2>3, <2>4
<1>3. CASE ~(acked > 0)
  <2>1. n = 1
    BY <1>1, <1>3
  <2>2. Epoch(0) \in Nat /\ Epoch(1) \in Nat
    BY EpochNumber
  <2>3. ~(Epoch(0) < Epoch(1))
    <3>1. blk_num(0) = 0 /\ blk_num(1) \in Nat
      BY BlkNumType, NumbersAssumption DEF blk_num
    <3>2. BlkMod \in Nat /\ BlkMod >= 2
      BY LagAssumption, NumbersAssumption
    <3> QED BY <2>2, <3>1, <3>2, EpochApart
  <2>4. Epoch(0) <= Epoch(stage)
    BY <1>1, EpochOrder
  <2> QED BY <1>1, <2>1, <2>2, <2>3, <2>4
<1> QED BY <1>2, <1>3

(* receive_no_wait() gives every block of the client its own number, or    *)
(* one that is out of range.                                               *)
LEMMA OwnNumber ==
  ASSUME TypeOK, UploaderOK, UploadOrder, opt.type = "write",
         stat = "data_rx", NEW n \in 1 .. step, n >= stage - Lag,
         InRange(rx_stage(ClientData(n)))
  PROVE  /\ rx_stage(ClientData(n)) = n
         /\ Epoch(n) = Epoch(stage)
<1> DEFINE p == ClientData(n)
<1>1. /\ n \in Nat /\ stage \in Nat /\ p.num = n
      /\ Epoch(n) \in Nat /\ Epoch(stage) \in Nat
  BY ClientDataFields, EpochNumber DEF TypeOK, UploaderOK
<1>2. rx_stage(p) \in Int /\ rx_stage(p) <= stage + 1
  BY <1>1, StageType DEF InRange
<1>3. /\ Epoch(n) = Epoch(stage) => rx_stage(p) = n
      /\ Epoch(n) < Epoch(stage) => rx_stage(p) >= n + BlkMod
  BY <1>1, RxStage
<1>4. Epoch(n) <= Epoch(stage)
  BY SentBefore
<1>5. ~(rx_stage(p) >= n + BlkMod)
  BY <1>1, <1>2, LagAssumption, NumbersAssumption
<1> QED BY <1>1, <1>3, <1>4, <1>5

(* It is a number.                                                         *)
LEMMA ReachType ==
  ASSUME TypeOK, TypeOK'
  PROVE  Reach \in Nat /\ Reach' \in Nat
<1>1. \A n \in Nat : n + 1 \in Nat
  OBVIOUS
<1> QED BY Zenon, <1>1 DEF TypeOK, Reach

(* Of its own accord the session only goes forward.                        *)
LEMMA ServerGoesForward ==
  ASSUME TypeOK, TypeOK', Fresh, ServerStep
  PROVE  /\ Reach <= Reach'
         /\ \A m \in sent' : m \in sent \/ m.op # "ACK" \/ m.num < Reach'
<1>1. stage \in Nat /\ stage' \in Nat
  BY DEF TypeOK
<1>2. CASE NeedInit \/ OpenThrows \/ Retransmit \/ Timeout \/ Ignore \/ RecvFault
  <2>1. stat # "ack_tx" /\ stage' = stage /\ sent' = sent
    BY Zenon, <1>2 DEF NeedInit, OpenThrows, Retransmit, Timeout, Ignore,
       RecvFault, Waiting, session
  <2> QED BY <1>1, <2>1 DEF Reach
<1>3. CASE Tick \/ Close
  <2>1. stat' = stat /\ stage' = stage /\ sent' = sent
    BY <1>3 DEF Tick, Close, session
  <2> QED BY <1>1, <2>1 DEF Reach
<1>4. CASE ErrorAndStop
  <2>1. /\ stat # "ack_tx" /\ stage' = stage
        /\ \A m \in sent' : m \in sent \/ m.op # "ACK"
    BY <1>4 DEF ErrorAndStop, session, transmit_no_wait, ERROR
  <2> QED BY <1>1, <2>1 DEF Reach
<1>5. CASE AckOptions
  <2>1. /\ stat # "ack_tx" /\ stage = 0
        /\ \A m \in sent' : m \in sent \/ m.op # "ACK"
    BY <1>5 DEF AckOptions, Fresh, transmit_no_wait, OACK
  <2>2. Reach = 0
    BY <2>1 DEF Reach
  <2> QED BY <2>1, <2>2, ReachType
<1>6. CASE DataTx
  <2>1. DATA(stage, ReadSize(stage), Body(stage)).op # "ACK"
    BY DEF DATA
  <2>2. /\ stat # "ack_tx" /\ stage' = stage
        /\ \A m \in sent' : m \in sent \/ m.op # "ACK"
    BY Zenon, <1>6, <2>1 DEF DataTx, transmit_no_wait
  <2> QED BY <1>1, <2>2 DEF Reach
<1>7. CASE AckTx
  <2>1. /\ stat = "ack_tx" /\ stat' # "ack_tx" /\ stage' = stage + 1
        /\ \A m \in sent' : m \in sent \/ m.num = stage
    BY <1>7 DEF AckTx, switch_to, transmit_no_wait, ACK
  <2> QED BY <1>1, <2>1 DEF Reach
<1> QED
  BY <1>2, <1>3, <1>4, <1>5, <1>6, <1>7 DEF ServerStep, Step, Environment

(* A block that arrives is refused, or stored in its place; and it takes   *)
(* the session back, if at all, within the epoch.                          *)
LEMMA BlockArrives ==
  ASSUME TypeOK, TypeOK', Sides, UploaderOK, UploadOrder, DeliverData,
         opt.type = "write"
  PROVE  /\ Epoch(Reach) <= Epoch(Reach')
         /\ sent' = sent /\ retr' = retr /\ opt' = opt /\ fate' # "closed"
         /\ \/ \E n \in 1 .. step :
                 /\ DataMgrWrite(n, ClientData(n))
                 /\ last' = (ClientData(n).size # "full")
                 /\ stat' = "ack_tx" => stage' = n
                 /\ stat' \in {"data_rx", "ack_tx"} /\ fate' = fate
            \/ /\ file' = file /\ last' = last /\ stat' # "ack_tx"
               /\ fate' = "crashed" => stage' > 0
<1>1. PICK n \in 1 .. step : n >= stage - Lag /\ Receive(ClientData(n))
  BY DEF DeliverData
<1> DEFINE p == ClientData(n)
<1>2. /\ n \in Nat /\ n > 0 /\ stage \in Nat /\ stage' \in Nat
      /\ p.op = "DATA"
  BY ClientDataFields DEF TypeOK, UploaderOK
<1>3. stat = "data_rx"
  BY Zenon, <1>1, <1>2 DEF Receive, WrongNumber, DataRx, DataRxThrows,
     DataRxDiskFault, AckRx, Waiting, Sides
<1>4. InRange(rx_stage(p)) => rx_stage(p) = n /\ Epoch(n) = Epoch(stage)
  BY <1>1, <1>3, OwnNumber
<1>5. Epoch(n) <= Epoch(n + 1) /\ Epoch(n) \in Int /\ Epoch(n + 1) \in Int
  BY <1>2, EpochOrder, EpochNumber
<1>6. sent' = sent /\ retr' = retr /\ opt' = opt /\ fate' # "closed"
  BY Zenon, <1>1, DeliverData DEF DeliverData, Receive, WrongNumber, DataRx,
     DataRxThrows, DataRxDiskFault, AckRx
<1> HIDE DEF p
<1>7. CASE WrongNumber(p)
  <2>1. /\ stat' = "finish" /\ stage' = stage /\ file' = file /\ last' = last
        /\ fate' = fate /\ fate = "running"
    BY Zenon, <1>3, <1>7, DeliverData DEF DeliverData, WrongNumber, switch_to, Admitted,
       manager
  <2>2. Epoch(Reach) <= Epoch(Reach')
    BY <1>2, <1>3, <2>1, EpochNumber DEF Reach
  <2> QED BY <1>6, <2>1, <2>2
<1>8. CASE DataRx(p)
  <2>1. /\ rx_stage(p) = n /\ Epoch(n) = Epoch(stage)
        /\ DataMgrWrite(n, p) /\ last' = (p.size # "full")
        /\ fate' = fate
    BY <1>4, <1>8 DEF DataRx
  <2>2. \/ stat' = "ack_tx" /\ stage' = n
        \/ stat' = "data_rx" /\ stage' = n + 1
    BY <1>3, <1>8, <2>1, Switches DEF DataRx
  <2>3. Reach' = n + 1
    BY <2>2 DEF Reach
  <2>4. Epoch(Reach) <= Epoch(Reach')
    BY <1>3, <1>5, <2>1, <2>3 DEF Reach
  <2> QED BY <1>6, <2>1, <2>2, <2>4 DEF p
<1>9. CASE DataRxThrows(p) \/ DataRxDiskFault(p)
  <2>1. InRange(rx_stage(p)) /\ stage' = rx_stage(p) /\ file' = file /\ last' = last
    BY Zenon, <1>9 DEF DataRxThrows, DataRxDiskFault, manager
  <2>2. stat' # "ack_tx"
    BY Zenon, <1>3, <1>9 DEF DataRxThrows, DataRxDiskFault, switch_to
  <2>3. stage' = n /\ Epoch(n) = Epoch(stage)
    BY <1>4, <2>1
  <2>4. Epoch(Reach) <= Epoch(Reach')
    BY <1>3, <1>5, <2>2, <2>3 DEF Reach
  <2> QED BY <1>2, <1>6, <2>1, <2>2, <2>3, <2>4
<1>10. CASE AckRx(p)
  BY <1>3, <1>10 DEF AckRx
<1> QED BY <1>1, <1>7, <1>8, <1>9, <1>10 DEF Receive, p

(* An upload that asks for no window is acknowledged block by block.       *)
LEMMA WindowOfOne ==
  ASSUME OneBlockUploads, TypeOK, opt.type = "write"
  PROVE  windowsize = 1
<1>1. opt.windowsize \in Int /\ opt.windowsize <= 1
  BY RequestsAssumption DEF TypeOK, OneBlockUploads
<1> QED BY <1>1 DEF windowsize

(* No step of the session or of its client breaks this order: data_rx()    *)
(* moves stage_ only with the block it waits for.                          *)
LEMMA UploadOrderStep ==
  ASSUME OneBlockUploads, TypeOK, TypeOK', Sides, Fresh, UploaderOK,
         UploadOrder, [UploadNext]_uvars
  PROVE  UploadOrder'
<1>1. opt' = opt /\ sent \subseteq sent'
  BY UploadStepIsSessionStep, RequestFixed
<1> SUFFICES ASSUME opt.type = "write" PROVE UploadOrder'
  BY <1>1 DEF UploadOrder
<1>2. /\ step <= acked + 1 /\ step \in Int /\ acked \in Int
      /\ \A m \in sent : m.op = "ACK" => Epoch(m.num + 1) <= Epoch(Reach)
      /\ acked > 0 => \E m \in sent : m.op = "ACK" /\ acked <= m.num
  BY DEF UploadOrder, UploaderOK
<1>3. \A m \in sent : m.op = "ACK" => m.num \in Nat
  BY DEF TypeOK, Message
<1>4. CASE ClientSend
  <2>1. /\ step' = step + 1 /\ step < acked + windowsize
        /\ UNCHANGED <<sent, stat, stage, opt, acked>>
    BY <1>4 DEF ClientSend, vars, session
  <2>2. step' <= acked' + 1
    BY <1>2, <2>1, WindowOfOne
  <2> QED BY <1>2, <2>1, <2>2 DEF UploadOrder, Reach
<1>5. CASE ClientReceive
  <2>1. PICK m \in sent, n \in acked + 1 .. step : Acknowledges(m, n) /\ acked' = n
    BY <1>5 DEF ClientReceive
  <2>2. UNCHANGED <<sent, stat, stage, opt, step>>
    BY <1>5 DEF ClientReceive, vars, session
  <2>3. n \in Nat
    BY <1>2 DEF UploaderOK
  <2>4. n > 0 => m.op = "ACK" /\ blk_num(m.num) = blk_num(n) /\ m.num >= n - Lag
    BY <2>1 DEF Acknowledges
  <2>5. n > 0 => n <= m.num
    <3> SUFFICES ASSUME n > 0 PROVE n <= m.num
      OBVIOUS
    <3>1. m.num \in Nat /\ m.num > n - BlkMod
      BY <1>3, <2>3, <2>4, LagAssumption, NumbersAssumption
    <3> QED BY <2>3, <2>4, <3>1, SameNumber
  <2>6. step' <= acked' + 1
    BY <1>2, <2>1, <2>2, <2>3
  <2> QED BY <1>2, <2>1, <2>2, <2>4, <2>5, <2>6 DEF UploadOrder, Reach
<1>6. CASE DeliverData
  <2>1. Epoch(Reach) <= Epoch(Reach') /\ sent' = sent
    BY <1>6, BlockArrives
  <2>2. UNCHANGED uploader
    BY <1>6 DEF DeliverData
  <2>3. Epoch(Reach) \in Int /\ Epoch(Reach') \in Int
    BY EpochNumber, ReachType
  <2>4. \A m \in sent' : m.op = "ACK" => Epoch(m.num + 1) <= Epoch(Reach')
    BY <1>2, <1>3, <2>1, <2>3, EpochNumber
  <2> QED BY <1>2, <2>1, <2>2, <2>4 DEF UploadOrder, uploader
<1>7. CASE ServerStep /\ UNCHANGED uploader
  <2>1. /\ Reach <= Reach'
        /\ \A m \in sent' : m \in sent \/ m.op # "ACK" \/ m.num < Reach'
    BY <1>7, ServerGoesForward
  <2>2. /\ Reach \in Nat /\ Reach' \in Nat
        /\ Epoch(Reach) \in Int /\ Epoch(Reach') \in Int
    BY EpochNumber, ReachType
  <2>3. ASSUME NEW m \in sent', m.op = "ACK"
        PROVE  Epoch(m.num + 1) <= Epoch(Reach')
    <3>1. m.num \in Nat
      BY <2>3 DEF TypeOK, Message
    <3>2. Epoch(m.num + 1) \in Int
      BY <3>1, EpochNumber
    <3>3. CASE m \in sent
      <4>1. Epoch(m.num + 1) <= Epoch(Reach)
        BY <1>2, <2>3, <3>3
      <4>2. Epoch(Reach) <= Epoch(Reach')
        BY <2>1, <2>2, EpochOrder
      <4> QED BY <2>2, <3>2, <4>1, <4>2
    <3>4. CASE m.num < Reach'
      <4>1. m.num + 1 <= Reach'
        BY <2>2, <3>1, <3>4
      <4> QED BY <2>2, <3>1, <4>1, EpochOrder
    <3> QED BY <2>1, <2>3, <3>3, <3>4
  <2> QED BY <1>1, <1>2, <1>7, <2>3 DEF UploadOrder, uploader
<1>8. CASE UNCHANGED uvars
  BY <1>2, <1>8 DEF uvars, vars, session, uploader, UploadOrder, Reach
<1> QED BY <1>4, <1>5, <1>6, <1>7, <1>8 DEF UploadNext

-----------------------------------------------------------------------------
(* What the session does of its own accord during an upload: it stores     *)
(* nothing, acknowledges the block it is at, and crashes only while it     *)
(* opens or closes the file.                                               *)
LEMMA ServerKeepsFile ==
  ASSUME Sides, ServerStep
  PROVE  /\ file' = file
         /\ opt.type = "write" => last' = last
         /\ fate' = "crashed" => stat' # "data_rx"
         /\ \A m \in sent' :
              m.op = "ACK" => m \in sent \/ (stat = "ack_tx" /\ m.num = stage)
         /\ stat' = "ack_tx" => Retransmit \/ (AckOptions /\ stage' = 0)
         /\ ~Retransmit => retr' = retr
<1>1. CASE NeedInit \/ OpenThrows
  <2>1. file' = file /\ last' = last /\ sent' = sent /\ retr' = retr
    BY Zenon, <1>1 DEF NeedInit, OpenThrows
  <2>2. stat' \notin {"data_rx", "ack_tx"}
    BY Zenon, <1>1 DEF NeedInit, OpenThrows, switch_to
  <2> QED BY <2>1, <2>2
<1>2. CASE Timeout \/ Ignore \/ RecvFault
  <2>1. /\ file' = file /\ last' = last /\ sent' = sent /\ retr' = retr
        /\ fate' = fate
    BY Zenon, <1>2 DEF Timeout, Ignore, RecvFault, session, manager
  <2>2. stat' # "ack_tx"
    BY Zenon, <1>2 DEF Timeout, Ignore, RecvFault, switch_to, Waiting
  <2> QED BY <2>1, <2>2, ServerStep DEF ServerStep
<1>3. CASE Tick \/ Close
  <2>1. /\ file' = file /\ last' = last /\ sent' = sent /\ retr' = retr
        /\ stat' = stat /\ stat # "ack_tx"
    BY <1>3 DEF Tick, Close, session, manager, Waiting
  <2>2. fate' = "crashed" => stat' # "data_rx"
    BY <1>3, ServerStep DEF Tick, Close, ServerStep
  <2> QED BY <2>1, <2>2
<1>4. CASE ErrorAndStop \/ AckOptions
  <2>1. /\ file' = file /\ last' = last /\ retr' = retr /\ fate' = fate
        /\ \A m \in sent' : m \in sent \/ m.op # "ACK"
    BY <1>4 DEF ErrorAndStop, AckOptions, session, manager, transmit_no_wait,
       ERROR, OACK
  <2>2. stat' = "ack_tx" => AckOptions /\ stage' = 0
    BY <1>4 DEF ErrorAndStop, AckOptions, switch_to
  <2> QED BY <2>1, <2>2, ServerStep DEF ServerStep
<1>5. CASE DataTx
  <2>1. DATA(stage, ReadSize(stage), Body(stage)).op # "ACK"
    BY DEF DATA
  <2>2. /\ file' = file /\ retr' = retr /\ fate' = fate /\ stat' # "ack_tx"
        /\ \A m \in sent' : m \in sent \/ m.op # "ACK"
    BY Zenon, <1>5, <2>1 DEF DataTx, transmit_no_wait, switch_to
  <2>3. opt.type = "read"
    BY Zenon, <1>5 DEF DataTx, Sides
  <2> QED BY <2>2, <2>3, ServerStep DEF ServerStep
<1>6. CASE AckTx
  <2>1. /\ file' = file /\ last' = last /\ retr' = retr /\ fate' = fate
        /\ stat = "ack_tx" /\ stat' # "ack_tx"
        /\ \A m \in sent' : m \in sent \/ m.num = stage
    BY <1>6 DEF AckTx, switch_to, transmit_no_wait, ACK, manager
  <2> QED BY <2>1, ServerStep DEF ServerStep
<1>7. CASE Retransmit
  BY <1>7, ServerStep DEF Retransmit, ServerStep, manager
<1> QED
  BY <1>1, <1>2, <1>3, <1>4, <1>5, <1>6, <1>7, ServerStep
  DEF ServerStep, Step, Environment

(* A block of the client that write() stores comes to lie in its place,    *)
(* and nothing else changes.                                               *)
Block(n) == [num |-> n, body |-> n]

(* DataMgr::write() of a block at its own place keeps every block there.   *)
LEMMA StoredInPlace ==
  ASSUME TypeOK, BlocksInPlace, NEW n \in Nat, DataMgrWrite(n, ClientData(n))
  PROVE  /\ file' = file \cup {Block(n)}
         /\ BlocksInPlace'
<1>1. ClientData(n).body = n
  BY ClientDataFields
<1>2. ASSUME NEW b \in file, b.num = n
      PROVE  b = Block(n)
  <2>1. b.body = n /\ b \in [num : Nat, body : Nat]
    BY <1>2 DEF BlocksInPlace, TypeOK
  <2> QED BY <1>2, <2>1 DEF Block
<1>3. file' = file \cup {Block(n)}
  BY <1>1, <1>2 DEF DataMgrWrite, Block
<1>4. Block(n).body = Block(n).num
  BY DEF Block
<1> QED BY <1>3, <1>4 DEF BlocksInPlace

(* data_rx() writes a block at the place its number says.                  *)
LEMMA UploadPlacesStep ==
  ASSUME TypeOK, TypeOK', Sides, Sides', Fresh', UploaderOK, UploadOrder,
         BlocksInPlace, NoNegativeSeek, [UploadNext]_uvars
  PROVE  BlocksInPlace' /\ NoNegativeSeek'
<1>1. CASE opt.type = "write" /\ DeliverData
  <2>1. CASE \E n \in 1 .. step :
                DataMgrWrite(n, ClientData(n)) /\ fate' = fate
    <3>1. PICK n \in 1 .. step : DataMgrWrite(n, ClientData(n)) /\ fate' = fate
      BY <2>1
    <3>2. n \in Nat
      BY DEF UploaderOK
    <3>3. fate' = "running"
      BY <1>1, <3>1 DEF DeliverData
    <3> QED BY <3>1, <3>2, <3>3, StoredInPlace DEF NoNegativeSeek
  <2>2. CASE file' = file /\ (fate' = "crashed" => stage' > 0)
    BY <2>2 DEF BlocksInPlace, NoNegativeSeek
  <2> QED BY <1>1, <2>1, <2>2, BlockArrives
<1>2. CASE opt.type # "write"
  <2>1. opt' = opt /\ opt.type \in {"read", "write"}
    BY UploadStepIsSessionStep, RequestFixed, RequestsAssumption DEF TypeOK
  <2>2. opt'.type = "read"
    BY <1>2, <2>1
  <2> QED BY <2>2 DEF Fresh, Sides, BlocksInPlace, NoNegativeSeek
<1>3. CASE ServerStep
  BY <1>3, ServerKeepsFile DEF BlocksInPlace, NoNegativeSeek
<1>4. CASE UNCHANGED vars
  BY <1>4 DEF vars, session, manager, BlocksInPlace, NoNegativeSeek
<1> QED
  BY <1>1, <1>2, <1>3, <1>4 DEF UploadNext, ClientSend, ClientReceive, uvars

(* Every block that is stored lies at its own place in the file with the   *)
(* bytes the client sent for it (BlocksInPlace), and no block is taken for *)
(* block 0 (NoNegativeSeek): whatever is lost, repeated, late or           *)
(* retransmitted, and however often the 16-bit number wraps.               *)
THEOREM UploadInPlace ==
  ASSUME OneBlockUploads
  PROVE  UploadSpec => [](BlocksInPlace /\ NoNegativeSeek)
<1> DEFINE Inv == UploadOrder /\ BlocksInPlace /\ NoNegativeSeek
<1>1. UploadInit => Inv
  BY DEF UploadInit, Init, UploadOrder, BlocksInPlace, NoNegativeSeek
<1>2. TypeOK /\ TypeOK' /\ Sides /\ Sides' /\ Fresh /\ Fresh' /\ UploaderOK
      /\ Inv /\ [UploadNext]_uvars => Inv'
  BY UploadOrderStep, UploadPlacesStep
<1>3. UploadSpec => [](TypeOK /\ Sides /\ Fresh /\ UploaderOK)
  BY UploadIsSession, TypeCorrect, SidesKept, FreshKept, PTL
<1> QED
  BY <1>1, <1>2, <1>3, PTL DEF UploadSpec

-----------------------------------------------------------------------------
(* The first h blocks of the file.                                         *)
Blocks(h) == {Block(n) : n \in 1 .. h}

(* The first blocks of a file, one more at a time.                         *)
LEMMA BlocksFacts ==
  ASSUME NEW h \in Nat
  PROVE  /\ Blocks(0) = {}
         /\ \A n \in Nat \ {0} : Block(n) \in Blocks(h) <=> n <= h
         /\ Blocks(h) \cup {Block(h + 1)} = Blocks(h + 1)
<1>1. \A i, j : Block(i) = Block(j) => i = j
  <2>1. \A i : Block(i).num = i
    BY DEF Block
  <2> QED BY <2>1
<1>2. Blocks(0) = {}
  BY DEF Blocks
<1>3. \A n \in Nat \ {0} : Block(n) \in Blocks(h) <=> n <= h
  BY <1>1 DEF Blocks
<1>4. 1 .. h + 1 = (1 .. h) \cup {h + 1}
  OBVIOUS
<1> QED BY <1>2, <1>3, <1>4 DEF Blocks

(* The file is stored up to block k.                                       *)
Prefix(k) == \A n \in 1 .. k : Block(n) \in file

(* Without retransmissions only prefixes of the file are ever stored,      *)
(* acknowledged and taken for complete.                                    *)
UploadPrefix ==
  opt.type = "write" /\ retr = 0 =>
    /\ \E h \in 0 .. LastBlock : file = Blocks(h)
    /\ \A m \in sent : m.op = "ACK" => Prefix(m.num)
    /\ stat = "ack_tx" => Prefix(stage)
    /\ last => Prefix(LastBlock)

(* What the client knows acknowledged is stored.                           *)
LEMMA AckedPrefix ==
  ASSUME TypeOK, UploaderOK, UploadOrder, UploadPrefix, opt.type = "write", retr = 0
  PROVE  Prefix(acked)
<1>1. CASE acked > 0
  <2>1. PICK m \in sent : m.op = "ACK" /\ acked <= m.num
    BY <1>1 DEF UploadOrder
  <2>2. m.num \in Nat /\ acked \in Int /\ Prefix(m.num)
    BY <2>1 DEF UploadPrefix, TypeOK, Message, UploaderOK
  <2> QED BY <2>1, <2>2 DEF Prefix
<1>2. CASE ~(acked > 0)
  BY <1>2 DEF Prefix, UploaderOK
<1> QED BY <1>1, <1>2

(* The same of the next state.                                             *)
LEMMA AckedPrefixNext ==
  ASSUME TypeOK', UploaderOK', UploadOrder', UploadPrefix', opt'.type = "write", retr' = 0
  PROVE  Prefix(acked)'
<1>1. CASE acked' > 0
  <2>1. PICK m \in sent' : m.op = "ACK" /\ acked' <= m.num
    BY <1>1 DEF UploadOrder
  <2>2. m.num \in Nat /\ acked' \in Int /\ Prefix(m.num)'
    BY <2>1 DEF UploadPrefix, TypeOK, Message, UploaderOK
  <2>3. \A n \in 1 .. acked' : n \in 1 .. m.num
    BY <2>1, <2>2
  <2> QED BY <2>2, <2>3 DEF Prefix
<1>2. CASE ~(acked' > 0)
  BY <1>2 DEF Prefix, UploaderOK
<1> QED BY <1>1, <1>2

(* The counter of retransmissions does not come back to 0.                 *)
LEMMA RetransmitCounts ==
  ASSUME RetransmitCount < RetrMod - 1, TypeOK, GivenUp, Retransmit
  PROVE  retr' = retr + 1 /\ retr' # 0
<1>1. retr \in Nat /\ retr < RetrMod - 1
  BY NumbersAssumption DEF Retransmit, GivenUp, TypeOK
<1> QED BY <1>1, NumbersAssumption DEF Retransmit

(* Nothing is stored and nothing acknowledged.                             *)
LEMMA UploadPrefixInit ==
  ASSUME Init
  PROVE  UploadPrefix
<1>1. file = Blocks(0) /\ 0 \in 0 .. LastBlock
  BY BlocksFacts, NumbersAssumption DEF Init, LastBlock
<1>2. \E h \in 0 .. LastBlock : file = Blocks(h)
  BY <1>1
<1> QED BY <1>2 DEF Init, UploadPrefix

(* ack_tx() acknowledges a block only when all before it are stored.       *)
LEMMA UploadPrefixStep ==
  ASSUME RetransmitCount < RetrMod - 1, TypeOK, TypeOK', GivenUp, Sides,
         UploaderOK, UploadOrder, BlocksInPlace, UploadPrefix, [UploadNext]_uvars
  PROVE  UploadPrefix'
<1>1. opt' = opt
  BY SMTT(30), UploadStepIsSessionStep, RequestFixed
<1> SUFFICES ASSUME opt.type = "write", retr' = 0 PROVE UploadPrefix'
  BY <1>1 DEF UploadPrefix
<1>2. CASE ServerStep
  <2>1. ~Retransmit
    BY RetransmitCounts
  <2>2. /\ retr = 0 /\ file' = file /\ last' = last
        /\ stat' = "ack_tx" => stage' = 0
        /\ \A m \in sent' :
             m.op = "ACK" => m \in sent \/ (stat = "ack_tx" /\ m.num = stage)
    BY <1>2, <2>1, ServerKeepsFile
  <2>3. \A k : Prefix(k)' <=> Prefix(k)
    BY <2>2 DEF Prefix
  <2>4. Prefix(0)
    BY DEF Prefix
  <2> QED BY <2>2, <2>3, <2>4 DEF UploadPrefix
<1>3. CASE DeliverData
  <2>1. retr = 0 /\ sent' = sent
    BY <1>3, BlockArrives
  <2>2. CASE file' = file /\ last' = last /\ stat' # "ack_tx"
    <3>1. \A k : Prefix(k)' <=> Prefix(k)
      BY <2>2 DEF Prefix
    <3> QED BY <2>1, <2>2, <3>1 DEF UploadPrefix
  <2>3. ASSUME NEW n \in 1 .. step, DataMgrWrite(n, ClientData(n)),
               last' = (ClientData(n).size # "full"),
               stat' = "ack_tx" => stage' = n
        PROVE  UploadPrefix'
    <3>1. n \in Nat /\ n - 1 <= acked /\ acked \in Int /\ n <= LastBlock
      BY NumbersAssumption DEF UploaderOK, UploadOrder, LastBlock
    <3>2. file' = file \cup {Block(n)}
      BY <2>3, <3>1, StoredInPlace
    <3>3. \A k : Prefix(k) => Prefix(k)'
      BY <3>2 DEF Prefix
    <3>4. Prefix(n)'
      <4>1. Prefix(acked)
        BY <2>1, AckedPrefix
      <4>2. \A i \in 1 .. n : i = n \/ i \in 1 .. acked
        BY <3>1
      <4> QED BY <3>2, <4>1, <4>2 DEF Prefix
    <3>5. last' => n = LastBlock
      <4>1. last' => n > FullBlocks
        BY Zenon, <2>3, <3>1, ClientDataFields
      <4>2. n > FullBlocks => n = LastBlock
        BY <3>1, NumbersAssumption DEF LastBlock
      <4> QED BY <4>1, <4>2
    <3>6. PICK h \in 0 .. LastBlock : file = Blocks(h)
      BY <2>1 DEF UploadPrefix
    <3>7. h \in Nat /\ (n <= h \/ n = h + 1)
      <4>1. h \in Nat
        BY NumbersAssumption DEF LastBlock
      <4>2. acked > 0 => Block(acked) \in file
        BY <2>1, <3>1, AckedPrefix DEF Prefix
      <4>3. acked > 0 => acked <= h
        BY <3>1, <3>6, <4>1, <4>2, BlocksFacts
      <4> QED BY <3>1, <4>1, <4>3
    <3>8. \E k \in 0 .. LastBlock : file' = Blocks(k)
      <4>1. CASE n <= h
        <5>1. Block(n) \in Blocks(h)
          BY <3>1, <3>7, <4>1, BlocksFacts
        <5> QED BY <3>2, <3>6, <5>1
      <4>2. CASE n = h + 1
        <5>1. file' = Blocks(n)
          BY <3>2, <3>6, <3>7, <4>2, BlocksFacts
        <5> QED BY <3>1, <5>1, NumbersAssumption DEF LastBlock
      <4> QED BY <3>7, <4>1, <4>2
    <3> QED BY <2>1, <2>3, <3>3, <3>4, <3>5, <3>8 DEF UploadPrefix
  <2> QED BY <1>3, <2>2, <2>3, BlockArrives
<1>4. CASE UNCHANGED vars
  BY <1>4 DEF vars, session, manager, UploadPrefix, Prefix
<1> QED
  BY <1>2, <1>3, <1>4 DEF UploadNext, ClientSend, ClientReceive, uvars

(* So a transfer that ends well has stored the whole file.                 *)
LEMMA IntactUpload ==
  ASSUME TypeOK, UploaderOK, UploadOrder, UploadPrefix, EndsAfterLastBlock
  PROVE  UploadIntact
<1> SUFFICES ASSUME opt.type = "write", retr = 0
             PROVE  /\ AckedPrefixStored
                    /\ fate = "closed" /\ err = "none" /\ "recv" \notin Faults =>
                         \A n \in 1 .. LastBlock : [num |-> n, body |-> n] \in file
  BY DEF UploadIntact
<1>1. AckedPrefixStored
  BY Zenon, AckedPrefix DEF AckedPrefixStored, Prefix, Block
<1>2. fate = "closed" /\ err = "none" /\ "recv" \notin Faults => last
  BY NumbersAssumption DEF EndsAfterLastBlock
<1> QED BY <1>1, <1>2 DEF UploadPrefix, Prefix, Block

(* Without retransmissions the prefix that the client knows acknowledged   *)
(* is stored, and a session that ended without an error has stored the     *)
(* whole file (UploadIntact), for every length of the file and whatever    *)
(* the network does; the limit of retransmissions is one that the counter  *)
(* can exceed.                                                             *)
THEOREM UploadWhole ==
  ASSUME OneBlockUploads, RetransmitCount < RetrMod - 1
  PROVE  UploadSpec => []UploadIntact
<1> DEFINE Inv == UploadOrder /\ BlocksInPlace /\ NoNegativeSeek /\ UploadPrefix
<1>1. UploadInit => Inv
  <2>1. UploadInit => UploadOrder /\ BlocksInPlace /\ NoNegativeSeek
    BY DEF UploadInit, Init, UploadOrder, BlocksInPlace, NoNegativeSeek
  <2> QED BY <2>1, UploadPrefixInit DEF UploadInit
<1>2. TypeOK /\ TypeOK' /\ Sides /\ Sides' /\ Fresh /\ Fresh' /\ UploaderOK
      /\ GivenUp /\ Inv /\ [UploadNext]_uvars => Inv'
  BY UploadOrderStep, UploadPlacesStep, UploadPrefixStep
<1>3. UploadSpec => [](TypeOK /\ Sides /\ Fresh /\ UploaderOK /\ GivenUp
                       /\ EndsAfterLastBlock)
  BY UploadIsSession, TypeCorrect, SidesKept, FreshKept, AckInvariant, EndsWhole, PTL
<1>4. TypeOK /\ UploaderOK /\ Inv /\ EndsAfterLastBlock => UploadIntact
  BY IntactUpload
<1> QED
  BY <1>1, <1>2, <1>3, <1>4, PTL DEF UploadSpec
=============================================================================
