--------------------------- MODULE SessionProofs ---------------------------
(***************************************************************************)
(* Theorems about a session whatever it receives: for every file, every    *)
(* set of requests and every modulus of the block number and the           *)
(* retransmit counter.  The peers of AnyPeer, Upload and Download send     *)
(* some of the packets that are considered here, so that what holds of     *)
(* SessionSpec holds of a session with any of them.                        *)
(***************************************************************************)
EXTENDS AnyPeer, TLAPS

(* Every packet that receive_no_wait() looks into, with no bound on the    *)
(* number of its block or on the length of the session.                    *)
Packet == {p \in Message : p.op \in {"DATA", "ACK"}}

SessionNext ==
  fate = "running" /\ (Step \/ Environment \/ \E p \in Packet : Receive(p))

SessionSpec == Init /\ [][SessionNext]_vars

(* What the actions that take a packet need to know of it.                 *)
LEMMA PacketFields ==
  ASSUME NEW p \in Packet
  PROVE  /\ p.num \in Nat
         /\ p.op \in {"DATA", "ACK"}
         /\ p.op = "DATA" => p.size \in Sizes /\ p.body \in Nat
  BY DEF Packet, Message

(* The 16-bit number of a block, and the full number that receive_no_wait  *)
(* computes from it, are integers.                                         *)
LEMMA BlkNumType ==
  ASSUME NEW n \in Nat
  PROVE  blk_num(n) \in 0 .. BlkMod - 1
  BY NumbersAssumption DEF blk_num

(* rx_stage() is a number, negative perhaps.                               *)
LEMMA StageType ==
  ASSUME NEW p, p.num \in Nat, stage \in Nat
  PROVE  rx_stage(p) \in Int
<1>1. blk_num(p.num) \in Int /\ blk_num(stage) \in Int
  BY BlkNumType, NumbersAssumption
<1> QED
  BY <1>1 DEF rx_stage

(* The numbers of blocks wrap once per epoch of BlkMod blocks.             *)
Epoch(n) == n \div BlkMod

(* A full number is its epoch and its 16 bits.                             *)
LEMMA EpochNumber ==
  ASSUME NEW n \in Nat
  PROVE  /\ Epoch(n) \in Nat
         /\ n = BlkMod * Epoch(n) + blk_num(n)
  BY NumbersAssumption DEF Epoch, blk_num

(* Numbers of different epochs differ by what is left of one and begun of  *)
(* the other.                                                              *)
LEMMA EpochApart ==
  ASSUME NEW m \in Nat, NEW n \in Nat, Epoch(m) < Epoch(n)
  PROVE  m - blk_num(m) + BlkMod <= n - blk_num(n)
<1> DEFINE q == Epoch(m)
           r == Epoch(n)
<1>1. /\ q \in Nat /\ r \in Nat /\ q < r
      /\ m = BlkMod * q + blk_num(m) /\ n = BlkMod * r + blk_num(n)
      /\ blk_num(m) \in Int /\ blk_num(n) \in Int
  BY EpochNumber, BlkNumType
<1> HIDE DEF q, r
<1>2. BlkMod * q + BlkMod <= BlkMod * r
  <2>1. BlkMod * (r - q) >= BlkMod
    BY <1>1, NumbersAssumption
  <2> QED BY <1>1, <2>1, NumbersAssumption
<1> QED BY <1>1, <1>2, NumbersAssumption

(* A later number is not of an earlier epoch.                              *)
LEMMA EpochOrder ==
  ASSUME NEW m \in Nat, NEW n \in Nat, m <= n
  PROVE  Epoch(m) <= Epoch(n)
<1>1. /\ Epoch(m) \in Nat /\ Epoch(n) \in Nat
      /\ blk_num(m) \in 0 .. BlkMod - 1 /\ blk_num(n) \in 0 .. BlkMod - 1
  BY EpochNumber, BlkNumType
<1>2. CASE Epoch(n) < Epoch(m)
  BY <1>1, <1>2, EpochApart, NumbersAssumption
<1> QED BY <1>1, <1>2

(* Two blocks with one number on the wire are a whole epoch apart.         *)
LEMMA SameNumber ==
  ASSUME NEW m \in Nat, NEW n \in Nat, blk_num(m) = blk_num(n),
         m > n - BlkMod
  PROVE  m >= n
<1>1. /\ Epoch(m) \in Nat /\ Epoch(n) \in Nat
      /\ m = BlkMod * Epoch(m) + blk_num(m) /\ n = BlkMod * Epoch(n) + blk_num(n)
      /\ blk_num(m) \in Int /\ blk_num(n) \in Int
  BY EpochNumber, BlkNumType
<1>2. CASE Epoch(m) < Epoch(n)
  BY <1>1, <1>2, EpochApart, NumbersAssumption
<1>3. CASE Epoch(m) = Epoch(n)
  BY <1>1, <1>3
<1>4. CASE Epoch(n) < Epoch(m)
  BY <1>1, <1>4, EpochApart, NumbersAssumption
<1> QED BY <1>1, <1>2, <1>3, <1>4

(* receive_no_wait() puts a packet into the epoch of stage_: a packet of   *)
(* that epoch gets its own number, one of an earlier epoch a number that   *)
(* is too high, and one of a later epoch a number that is too low.         *)
LEMMA RxStage ==
  ASSUME NEW p, p.num \in Nat, stage \in Nat
  PROVE  /\ Epoch(p.num) = Epoch(stage) => rx_stage(p) = p.num
         /\ Epoch(p.num) < Epoch(stage) => rx_stage(p) >= p.num + BlkMod
         /\ Epoch(p.num) > Epoch(stage) => rx_stage(p) <= p.num - BlkMod
<1> DEFINE n == p.num
<1>1. /\ Epoch(n) \in Nat /\ Epoch(stage) \in Nat
      /\ n = BlkMod * Epoch(n) + blk_num(n)
      /\ stage = BlkMod * Epoch(stage) + blk_num(stage)
      /\ blk_num(n) \in Int /\ blk_num(stage) \in Int
  BY EpochNumber, BlkNumType
<1>2. rx_stage(p) = stage + blk_num(n) - blk_num(stage)
  BY DEF rx_stage
<1> HIDE DEF n
<1>3. Epoch(n) = Epoch(stage) => rx_stage(p) = n
  BY <1>1, <1>2, NumbersAssumption
<1>4. Epoch(n) < Epoch(stage) => rx_stage(p) >= n + BlkMod
  BY <1>1, <1>2, EpochApart, NumbersAssumption DEF n
<1>5. Epoch(n) > Epoch(stage) => rx_stage(p) <= n - BlkMod
  BY <1>1, <1>2, EpochApart, NumbersAssumption DEF n
<1> QED BY <1>3, <1>4, <1>5 DEF n

(* Packets that the session constructs are messages.                       *)
LEMMA MessageType ==
  /\ \A n \in Nat : ACK(n) \in Message
  /\ \A n, b \in Nat, z \in Sizes : DATA(n, z, b) \in Message
  /\ OACK \in Message
  /\ \A e \in Errors : ERROR(e) \in Message
  BY DEF Message, ACK, DATA, OACK, ERROR

(* The fields have their types at the start, and every step keeps them.    *)
LEMMA TypeInit ==
  ASSUME Init
  PROVE  TypeOK
<1>1. last \in BOOLEAN /\ expired \in BOOLEAN /\ inFail \in BOOLEAN
  BY Zenon DEF Init
<1>2. stage \in Nat /\ retr \in 0 .. RetrMod - 1 /\ buf \in Nat
  BY SMTT(30), NumbersAssumption DEF Init
<1> QED BY <1>1, <1>2 DEF Init, TypeOK, State

(* Every handler of step() leaves the fields of the session in their       *)
(* types.                                                                  *)
LEMMA TypeStep ==
  ASSUME TypeOK, [SessionNext]_vars
  PROVE  TypeOK'
<1> USE DEF TypeOK
<1>1. CASE NeedInit
  BY Zenon, <1>1 DEF NeedInit, switch_to, set_error_if_first, State, Errors,
     InitErrors
<1>13. CASE OpenThrows
  BY Zenon, <1>13 DEF OpenThrows, set_error_if_first, Errors, InitErrors
<1>2. CASE ErrorAndStop
  BY <1>2, MessageType DEF ErrorAndStop, switch_to, transmit_no_wait,
     State, session, manager
<1>3. CASE AckOptions
  <2>1. stat' \in State /\ stage' \in Nat
    BY <1>3 DEF AckOptions, switch_to, State
  <2>3. expired' \in BOOLEAN
    BY Zenon, <1>3 DEF AckOptions, timeout_reset
  <2>2. sent' \subseteq Message /\ buf' \in Nat
    BY <1>3, MessageType DEF AckOptions, transmit_no_wait
  <2> QED BY <1>3, <2>1, <2>2, <2>3 DEF AckOptions
<1>4. CASE DataTx
  <2>1. inFail' \in BOOLEAN /\ buf' \in Nat
    BY Zenon, <1>4 DEF DataTx, DataMgrRead, Body, StreamFails
  <2>2. Body(stage) \in Nat
    BY DEF Body
  <2>3. CASE ReadSize(stage) = "past"
    BY Zenon, <1>4, <2>1, <2>3 DEF DataTx, set_error_if_first, switch_to, State,
       Errors, TxErrors
  <2>4. CASE ReadSize(stage) # "past"
    <3>1. ReadSize(stage) \in Sizes
      BY <2>4 DEF ReadSize, Sizes
    <3>2. sent' \subseteq Message
      BY ZenonT(40), <1>4, <2>2, <2>4, <3>1, MessageType DEF DataTx, transmit_no_wait
    <3>3. last' \in BOOLEAN
      BY Zenon, <1>4, <2>4 DEF DataTx
    <3>4. stat' \in State /\ expired' \in BOOLEAN
      BY Zenon, <1>4, <2>4 DEF DataTx, switch_to, timeout_reset, State
    <3> QED BY Zenon, <1>4, <2>1, <2>4, <3>2, <3>3, <3>4 DEF DataTx
  <2> QED BY <2>3, <2>4
<1>5. CASE AckTx
  <2>1. stage' \in Nat
    BY <1>5 DEF AckTx
  <2>2. expired' \in BOOLEAN /\ stat' \in State
    BY Zenon, <1>5 DEF AckTx, switch_to, timeout_reset, State
  <2>3. sent' \subseteq Message
    BY <1>5, MessageType DEF AckTx, transmit_no_wait
  <2> QED BY <1>5, <2>1, <2>2, <2>3 DEF AckTx, manager
<1>6. CASE Retransmit
  <2>1. retr' \in 0 .. RetrMod - 1
    BY <1>6, NumbersAssumption DEF NumbersAssumption, Retransmit
  <2> QED
    BY Zenon, <1>6, <2>1 DEF Retransmit, switch_to, timeout_reset, State, manager
<1>7. CASE Timeout \/ RecvFault
  BY <1>7 DEF Timeout, RecvFault, switch_to, State, session, manager
<1>8. CASE Close
  BY <1>8 DEF Close, session, manager
<1>9. CASE Ignore
  BY <1>9 DEF Ignore, switch_to, State, session
<1>10. CASE Tick
  BY <1>10 DEF Tick, manager
<1>11. ASSUME NEW p \in Packet, Receive(p) PROVE TypeOK'
  <2>1. /\ p.num \in Nat /\ rx_stage(p) \in Int
        /\ p.op = "DATA" => p.size \in Sizes /\ p.body \in Nat
    BY PacketFields, StageType
  <2>2. CASE WrongNumber(p)
    BY Zenon, <2>2 DEF WrongNumber, switch_to, set_error_if_first, State, Errors,
       RxErrors, manager
  <2>3. CASE DataRx(p)
    <3>1. rx_stage(p) \in Nat
      BY <2>1, <2>3 DEF DataRx, InRange
    <3>2. stage' \in Nat
      BY <2>3, <3>1 DEF DataRx
    <3>6. stat' \in State /\ expired' \in BOOLEAN
      BY Zenon, <2>3 DEF DataRx, switch_to, timeout_reset, State
    <3>3. [num |-> rx_stage(p), body |-> p.body] \in [num : Nat, body : Nat]
      BY <2>1, <2>3, <3>1 DEF DataRx
    <3>4. file' \subseteq [num : Nat, body : Nat]
      BY <2>3, <3>3 DEF DataRx, DataMgrWrite
    <3>5. last' \in BOOLEAN
      BY <2>3 DEF DataRx
    <3> QED BY <2>3, <3>2, <3>4, <3>5, <3>6 DEF DataRx
  <2>4. CASE DataRxThrows(p)
    <3>1. InRange(rx_stage(p)) /\ stage' = rx_stage(p)
      BY <2>4 DEF DataRxThrows
    <3>2. stage' \in Nat
      BY <2>1, <3>1 DEF InRange
    <3> QED BY <2>4, <3>2 DEF DataRxThrows, manager
  <2>5. CASE DataRxDiskFault(p)
    <3>3. InRange(rx_stage(p)) /\ stage' = rx_stage(p)
      BY Zenon, <2>5 DEF DataRxDiskFault
    <3>1. stage' \in Nat
      BY <2>1, <3>3 DEF InRange
    <3>2. stat' \in State /\ err' \in Errors \cup {"none"}
      BY Zenon, <2>5 DEF DataRxDiskFault, switch_to, set_error_if_first, State,
         Errors, RxErrors
    <3> QED BY Zenon, <2>5, <3>1, <3>2 DEF DataRxDiskFault, manager
  <2>6. CASE AckRx(p)
    <3>1. stage' \in Nat
      BY <2>1, <2>6 DEF AckRx, InRange
    <3> QED
      BY Zenon, <2>6, <3>1 DEF AckRx, switch_to, timeout_reset, State, manager
  <2> QED BY <1>11, <2>2, <2>3, <2>4, <2>5, <2>6 DEF Receive
<1>12. CASE UNCHANGED vars
  BY <1>12 DEF vars, session, manager
<1> QED
  BY <1>1, <1>2, <1>3, <1>4, <1>5, <1>6, <1>7, <1>8, <1>9, <1>10, <1>11,
     <1>12, <1>13 DEF SessionNext, Step, Environment

(* The fields of the session keep their types (TypeOK), whatever the peer  *)
(* sends and whatever fails.                                               *)
THEOREM TypeCorrect == SessionSpec => []TypeOK
  BY TypeInit, TypeStep, PTL DEF SessionSpec

-----------------------------------------------------------------------------
(* The steps of a running session, one by one.                             *)
LEMMA NextCases ==
  ASSUME [SessionNext]_vars
  PROVE  \/ /\ fate = "running"
            /\ \/ NeedInit \/ OpenThrows \/ ErrorAndStop \/ AckOptions
               \/ DataTx \/ AckTx \/ Retransmit \/ Timeout \/ Close
               \/ Ignore \/ RecvFault \/ Tick
               \/ \E p \in Packet : Receive(p)
         \/ UNCHANGED vars
  BY DEF SessionNext, Step, Environment

(* Only data_tx sends DATA or reads from the file.                         *)
LEMMA OnlyDataTxSendsData ==
  ASSUME [SessionNext]_vars, ~DataTx
  PROVE  /\ sent \subseteq sent'
         /\ \A m \in sent' : m \in sent \/ m.op # "DATA"
         /\ inFail' = inFail /\ opt' = opt
<1>1. /\ \A n : ACK(n).op # "DATA"
      /\ OACK.op # "DATA"
      /\ \A e : ERROR(e).op # "DATA"
  BY DEF ACK, OACK, ERROR
<1>2. ASSUME NEW p \in Packet, Receive(p)
      PROVE  sent' = sent /\ inFail' = inFail /\ opt' = opt
  BY Zenon, <1>2 DEF Receive, WrongNumber, DataRx, DataRxThrows,
     DataRxDiskFault, AckRx, manager
<1>3. CASE NeedInit \/ OpenThrows \/ Retransmit \/ Timeout \/ Close
           \/ Ignore \/ RecvFault \/ Tick \/ UNCHANGED vars
  BY Zenon, <1>3 DEF NeedInit, OpenThrows, Retransmit, Timeout, Close, Ignore,
     RecvFault, Tick, vars, manager
<1>4. CASE ErrorAndStop \/ AckOptions \/ AckTx
  BY <1>1, <1>4 DEF ErrorAndStop, AckOptions, AckTx, transmit_no_wait,
     manager
<1> QED BY NextCases, <1>2, <1>3, <1>4

(* The request never changes, and what was sent stays sent.                *)
LEMMA RequestFixed ==
  ASSUME [SessionNext]_vars
  PROVE  opt' = opt /\ sent \subseteq sent'
<1>1. CASE DataTx
  BY Zenon, <1>1 DEF DataTx, transmit_no_wait
<1>2. CASE ~DataTx
  BY <1>2, OnlyDataTxSendsData
<1> QED BY <1>1, <1>2

-----------------------------------------------------------------------------
(* Past the limit of retransmissions the session is about to end.          *)
GivenUp == retr > RetransmitCount => stat \in {"error_and_stop", "finish"}

(* The block that ack_tx is about to acknowledge is stored.                *)
AckPending == retr = 0 /\ stat = "ack_tx" /\ stage > 0 => Stored(stage)

(* The block that was written is stored.                                   *)
LEMMA StoredWritten ==
  ASSUME NEW n, NEW p, DataMgrWrite(n, p)
  PROVE  Stored(n)'
<1> DEFINE block == [num |-> n, body |-> p.body]
<1>1. CASE file' = file /\ Stored(n)
  BY <1>1 DEF Stored
<1>2. CASE file' = {b \in file : b.num # n} \cup {block}
  <2>1. block \in file' /\ block.num = n
    BY <1>2
  <2> QED BY <2>1 DEF Stored
<1> QED BY <1>1, <1>2 DEF DataMgrWrite, Stored

(* Writing a block never removes one.                                      *)
LEMMA StoredGrows ==
  ASSUME NEW n, NEW p, NEW k, DataMgrWrite(n, p), Stored(k)
  PROVE  Stored(k)'
<1>1. PICK b \in file : b.num = k
  BY DEF Stored
<1>2. CASE k = n
  BY <1>2, StoredWritten
<1>3. CASE k # n
  BY <1>1, <1>3 DEF DataMgrWrite, Stored
<1> QED BY <1>2, <1>3

(* What a step that sends no ACK and removes no block keeps.               *)
LEMMA AckFrame ==
  ASSUME AckedIsStored, retr' = retr,
         \A n : Stored(n) => Stored(n)',
         \A m \in sent' : m \in sent \/ m.op # "ACK"
  PROVE  AckedIsStored'
  BY DEF AckedIsStored, AckMeansStored

(* For a retransmit count below the wrap of its counter: ack_tx()          *)
(* acknowledges only what data_rx() has stored.                            *)
LEMMA AckInvariant ==
  ASSUME RetransmitCount < RetrMod - 1
  PROVE  SessionSpec => [](GivenUp /\ AckPending /\ AckedIsStored)
<1> DEFINE Inv == GivenUp /\ AckPending /\ AckedIsStored
<1>1. Init => Inv
  <2> SUFFICES ASSUME Init PROVE Inv
    OBVIOUS
  <2>1. GivenUp
    BY NumbersAssumption DEF Init, GivenUp
  <2> QED BY <2>1 DEF Init, AckPending, AckedIsStored, AckMeansStored
<1>2. TypeOK /\ TypeOK' /\ Inv /\ [SessionNext]_vars => Inv'
  <2> SUFFICES ASSUME TypeOK, TypeOK', Inv, [SessionNext]_vars PROVE Inv'
    OBVIOUS
  <2>1. CASE NeedInit \/ OpenThrows \/ Timeout \/ RecvFault \/ Ignore
    <3>1. file' = file /\ sent' = sent /\ retr' = retr
      BY Zenon, <2>1 DEF NeedInit, OpenThrows, Timeout, RecvFault, Ignore, session,
         manager
    <3>2. stat' # "ack_tx" /\ stat \in {"need_init", "data_rx", "ack_rx"}
      BY Zenon, <2>1 DEF NeedInit, OpenThrows, Timeout, RecvFault, Ignore, switch_to,
         Waiting
    <3> QED BY <3>1, <3>2, AckFrame DEF GivenUp, AckPending, Stored
  <2>2. CASE Tick \/ Close \/ UNCHANGED vars
    <3>1. /\ file' = file /\ sent' = sent /\ retr' = retr /\ stat' = stat
          /\ stage' = stage
      BY <2>2 DEF Tick, Close, vars, session, manager
    <3> QED BY <3>1, AckFrame DEF GivenUp, AckPending, Stored
  <2>3. CASE ErrorAndStop
    <3>1. /\ file' = file /\ retr' = retr /\ stat' = "finish"
          /\ \A m \in sent' : m \in sent \/ m.op # "ACK"
      BY <2>3 DEF ErrorAndStop, session, manager, switch_to, transmit_no_wait,
         ERROR
    <3> QED BY <3>1, AckFrame DEF GivenUp, AckPending, Stored
  <2>4. CASE AckOptions
    <3>1. /\ file' = file /\ retr' = retr
          /\ \A m \in sent' : m \in sent \/ m.op # "ACK"
      BY <2>4 DEF AckOptions, transmit_no_wait, OACK
    <3>2. stat = "ack_options" /\ (stat' = "ack_tx" => stage' = 0)
      BY <2>4 DEF AckOptions, switch_to
    <3> QED BY <3>1, <3>2, AckFrame DEF GivenUp, AckPending, Stored
  <2>5. CASE DataTx
    <3>3. DATA(stage, ReadSize(stage), Body(stage)).op # "ACK"
      BY DEF DATA
    <3>1. /\ file' = file /\ retr' = retr
          /\ \A m \in sent' : m \in sent \/ m.op # "ACK"
      BY Zenon, <2>5, <3>3 DEF DataTx, transmit_no_wait
    <3>2. stat = "data_tx" /\ stat' # "ack_tx"
      BY Zenon, <2>5 DEF DataTx, switch_to
    <3> QED BY <3>1, <3>2, AckFrame DEF GivenUp, AckPending, Stored
  <2>6. CASE AckTx
    <3>1. /\ file' = file /\ retr' = retr /\ sent' = sent \cup {ACK(stage)}
          /\ stat = "ack_tx" /\ stat' # "ack_tx"
      BY <2>6 DEF AckTx, switch_to, transmit_no_wait, manager
    <3>2. retr = 0 /\ stage > 0 => Stored(stage)
      BY <3>1 DEF AckPending
    <3>3. ACK(stage).num = stage
      BY DEF ACK
    <3>4. AckedIsStored'
      BY <3>1, <3>2, <3>3 DEF AckedIsStored, AckMeansStored, Stored
    <3> QED BY <3>1, <3>4 DEF GivenUp, AckPending
  <2>7. CASE Retransmit
    <3>1. retr \in Nat /\ retr < RetrMod - 1
      BY <2>7, NumbersAssumption DEF Retransmit, GivenUp, TypeOK
    <3>2. retr' = retr + 1
      BY <2>7, <3>1, NumbersAssumption DEF Retransmit
    <3>3. retr' > RetransmitCount => stat' \in {"error_and_stop", "finish"}
      BY <2>7 DEF Retransmit, switch_to
    <3>4. retr' # 0
      BY <3>1, <3>2
    <3> QED BY <3>3, <3>4 DEF GivenUp, AckPending, AckedIsStored
  <2>8. ASSUME NEW p \in Packet, Receive(p) PROVE Inv'
    <3>1. CASE WrongNumber(p) \/ DataRxThrows(p) \/ DataRxDiskFault(p)
               \/ AckRx(p)
      <4>1. file' = file /\ sent' = sent /\ retr' = retr
        BY Zenon, <3>1 DEF WrongNumber, DataRxThrows, DataRxDiskFault, AckRx, manager
      <4>2. stat' # "ack_tx" /\ stat \in {"data_rx", "ack_rx"}
        BY Zenon, <3>1 DEF WrongNumber, DataRxThrows, DataRxDiskFault, AckRx,
           Waiting, switch_to
      <4> QED BY <4>1, <4>2, AckFrame DEF GivenUp, AckPending, Stored
    <3>2. CASE DataRx(p)
      <4>1. /\ stat = "data_rx" /\ sent' = sent /\ retr' = retr
            /\ DataMgrWrite(rx_stage(p), p)
        BY <3>2 DEF DataRx
      <4>2. stat' = "ack_tx" => stage' = rx_stage(p)
        BY <3>2 DEF DataRx
      <4>3. AckPending'
        BY <4>1, <4>2, StoredWritten DEF AckPending
      <4>4. AckedIsStored'
        BY <4>1, StoredGrows, AckFrame
      <4> QED BY <4>1, <4>3, <4>4 DEF GivenUp
    <3> QED BY <2>8, <3>1, <3>2 DEF Receive
  <2> QED
    BY NextCases, <2>1, <2>2, <2>3, <2>4, <2>5, <2>6, <2>7, <2>8
<1> QED
  BY <1>1, <1>2, TypeCorrect, PTL DEF SessionSpec

(* Whatever the peer sends, no block is acknowledged before it is stored   *)
(* (AckedIsStored), if the retransmit counter can exceed its limit: at the *)
(* largest limit of its width it starts again from 0.                      *)
THEOREM AckSafe ==
  ASSUME RetransmitCount < RetrMod - 1
  PROVE  SessionSpec => []AckedIsStored
  BY AckInvariant, PTL

-----------------------------------------------------------------------------
(* The transitions that run() asks for and switch_to() admits.             *)
LEMMA Switches ==
  ASSUME NEW new, switch_to(new)
  PROVE  /\ stat' \in {new, "finish"}
         /\ \/ stat = "need_init" /\ new \in {"error_and_stop", "ack_options"}
            \/ stat = "ack_options"
                 /\ new \in {"ack_rx", "data_tx", "data_rx", "ack_tx"}
            \/ stat = "data_tx" /\ new \in {"ack_rx", "error_and_stop"}
            \/ stat = "ack_tx" /\ new = "data_rx"
            \/ stat = "data_rx" /\ new \in {"ack_tx", "retransmit"}
            \/ stat = "ack_rx" /\ new \in {"data_tx", "retransmit"}
            \/ stat = "retransmit"
                 /\ new \in {"data_tx", "ack_tx", "error_and_stop"}
            => stat' = new
  BY DEF switch_to, Admitted

(* Which side of a transfer a state belongs to.                            *)
Sides ==
  /\ stat \in {"data_tx", "ack_rx"} => opt.type = "read"
  /\ stat \in {"data_rx", "ack_tx"} => opt.type = "write"

(* Only downloads send DATA and only uploads receive it.                   *)
LEMMA SidesKept == SessionSpec => []Sides
<1>1. Init => Sides
  BY DEF Init, Sides
<1>2. TypeOK /\ Sides /\ [SessionNext]_vars => Sides'
  <2> SUFFICES ASSUME TypeOK, Sides, [SessionNext]_vars PROVE Sides'
    OBVIOUS
  <2>0. opt.type \in {"read", "write"}
    BY RequestsAssumption DEF TypeOK
  <2>1. CASE NeedInit \/ OpenThrows \/ ErrorAndStop \/ Timeout \/ Ignore
             \/ RecvFault
    BY Zenon, <2>1 DEF NeedInit, OpenThrows, ErrorAndStop, Timeout, Ignore,
       RecvFault, switch_to, Sides, Waiting
  <2>2. CASE Tick \/ Close \/ UNCHANGED vars
    BY <2>2 DEF Tick, Close, vars, Sides
  <2>3. CASE AckOptions
    BY <2>3 DEF AckOptions, switch_to, Sides
  <2>4. CASE DataTx
    BY Zenon, <2>4 DEF DataTx, switch_to, Sides
  <2>5. CASE AckTx
    BY <2>5 DEF AckTx, switch_to, Sides
  <2>6. CASE Retransmit
    BY <2>0, <2>6 DEF Retransmit, switch_to, Sides
  <2>7. ASSUME NEW p \in Packet, Receive(p) PROVE Sides'
    BY Zenon, <2>7 DEF Receive, WrongNumber, DataRx, DataRxThrows, DataRxDiskFault,
       AckRx, switch_to, Sides, Waiting
  <2> QED BY NextCases, <2>1, <2>2, <2>3, <2>4, <2>5, <2>6, <2>7
<1> QED
  BY <1>1, <1>2, TypeCorrect, PTL DEF SessionSpec

-----------------------------------------------------------------------------
(* Before the options are acknowledged stage_ has its initial value, and   *)
(* only an upload stores blocks.                                           *)
Fresh ==
  /\ stat \in {"need_init", "ack_options"} => stage = 0
  /\ opt.type = "read" => file = {}

(* No handler breaks this: only the first block moves stage_, and only     *)
(* data_rx() writes.                                                       *)
LEMMA FreshKept == SessionSpec => []Fresh
<1>1. Init => Fresh
  BY DEF Init, Fresh
<1>2. Sides /\ Fresh /\ [SessionNext]_vars => Fresh'
  <2> SUFFICES ASSUME Sides, Fresh, [SessionNext]_vars PROVE Fresh'
    OBVIOUS
  <2>1. CASE NeedInit \/ OpenThrows
    BY Zenon, <2>1 DEF NeedInit, OpenThrows, Fresh
  <2>2. CASE ErrorAndStop \/ Timeout \/ Ignore \/ RecvFault
    BY <2>2 DEF ErrorAndStop, Timeout, Ignore, RecvFault, switch_to, Fresh,
       manager, Waiting
  <2>3. CASE Tick \/ Close \/ UNCHANGED vars
    BY <2>3 DEF Tick, Close, vars, session, manager, Fresh
  <2>4. CASE AckOptions
    BY <2>4 DEF AckOptions, switch_to, Fresh
  <2>5. CASE DataTx
    BY Zenon, <2>5 DEF DataTx, switch_to, Fresh
  <2>6. CASE AckTx \/ Retransmit
    BY <2>6 DEF AckTx, Retransmit, switch_to, Fresh, manager
  <2>7. ASSUME NEW p \in Packet, Receive(p) PROVE Fresh'
    <3>1. CASE DataRx(p)
      <4>1. opt.type = "write" /\ opt' = opt /\ stat' \in {"data_rx", "ack_tx", "finish"}
        BY <3>1 DEF DataRx, Sides, switch_to
      <4> QED BY <4>1 DEF Fresh
    <3>2. CASE ~DataRx(p)
      BY Zenon, <2>7, <3>2 DEF Receive, WrongNumber, DataRxThrows, DataRxDiskFault,
         AckRx, switch_to, Waiting, Fresh, manager
    <3> QED BY <3>1, <3>2
  <2> QED BY NextCases, <2>1, <2>2, <2>3, <2>4, <2>5, <2>6, <2>7
<1> QED
  BY <1>1, <1>2, SidesKept, PTL DEF SessionSpec

(* DATA packets are blocks of the file with the size that read() found.    *)
DataSent ==
  /\ buf <= FullBlocks + 1
  /\ \A m \in sent :
       m.op = "DATA" =>
         /\ m.num <= FullBlocks + 1 /\ m.body <= FullBlocks + 1
         /\ m.size = ReadSize(m.num)

(* data_tx() sends what DataMgr::read() has put into its buffer.           *)
LEMMA DataSentKept == SessionSpec => []DataSent
<1>1. Init => DataSent
  BY NumbersAssumption DEF Init, DataSent
<1>2. TypeOK /\ DataSent /\ [SessionNext]_vars => DataSent'
  <2> SUFFICES ASSUME TypeOK, DataSent, [SessionNext]_vars PROVE DataSent'
    OBVIOUS
  <2>1. CASE DataTx
    <3> DEFINE msg == DATA(stage, ReadSize(stage), Body(stage))
    <3>1. ReadSize(stage) # "past" => stage <= FullBlocks + 1
      BY NumbersAssumption DEF ReadSize, TypeOK
    <3>2. ReadSize(stage) # "past" => Body(stage) <= FullBlocks + 1
      BY <3>1 DEF Body, DataSent
    <3>3. buf' = IF ReadSize(stage) \in {"full", "part"} THEN Body(stage) ELSE buf
      BY Zenon, <2>1 DEF DataTx, DataMgrRead
    <3>4. buf' <= FullBlocks + 1
      BY <3>2, <3>3 DEF DataSent
    <3>5. sent' = sent \/ (sent' = sent \cup {msg} /\ ReadSize(stage) # "past")
      BY Zenon, <2>1 DEF DataTx, transmit_no_wait
    <3>6. msg.num = stage /\ msg.size = ReadSize(stage) /\ msg.body = Body(stage)
      BY DEF DATA
    <3> QED BY <3>1, <3>2, <3>4, <3>5, <3>6 DEF DataSent, ReadSize
  <2>2. CASE ~DataTx
    <3>1. buf' = buf \/ buf' = 0
      <4>1. ASSUME NEW p \in Packet, Receive(p) PROVE buf' = buf
        BY Zenon, <4>1 DEF Receive, WrongNumber, DataRx, DataRxThrows,
           DataRxDiskFault, AckRx, manager
      <4>2. CASE NeedInit \/ OpenThrows \/ AckTx \/ Retransmit \/ Timeout \/ Close
                 \/ RecvFault \/ Tick \/ UNCHANGED vars \/ ErrorAndStop
        BY Zenon, <4>2 DEF NeedInit, OpenThrows, AckTx, Retransmit, Timeout, Close,
           RecvFault, Tick, vars, manager, ErrorAndStop
      <4>3. CASE AckOptions \/ Ignore
        BY <4>3 DEF AckOptions, Ignore
      <4> QED BY NextCases, <2>2, <4>1, <4>2, <4>3
    <3>2. \A m \in sent' : m \in sent \/ m.op # "DATA"
      BY <2>2, OnlyDataTxSendsData
    <3> QED BY <3>1, <3>2, NumbersAssumption DEF DataSent, ReadSize
  <2> QED BY <2>1, <2>2
<1> QED
  BY <1>1, <1>2, TypeCorrect, PTL DEF SessionSpec

-----------------------------------------------------------------------------
(* While failbit is set on a read, the last, short block is the only one   *)
(* that can still be sent, and the buffer holds it unless a stranger's     *)
(* packet was read into it.                                                *)
FailedStream ==
  inFail =>
    /\ opt.type = "read"
    /\ "stray" \notin Faults => buf = FullBlocks + 1
    /\ \/ stat \in {"finish", "error_and_stop"}
       \/ /\ stat \in {"data_tx", "ack_rx", "retransmit"}
          /\ stage = FullBlocks + 1
          /\ last

(* Every full block that was sent is one of the file.                      *)
FullBlocksSent ==
  \A m \in sent : m.op = "DATA" /\ m.num <= FullBlocks => m.body = m.num

(* What was sent until the first block 0.                                  *)
SentFromFile == ~DataZeroSent => FailedStream /\ FullBlocksSent /\ DownloadIsFile

(* data_tx() reads full blocks from their places, and the last one once;   *)
(* when it is sent again it comes from the buffer.                         *)
LEMMA SentFromFileKept == SessionSpec => []SentFromFile
<1> DEFINE Clean == ~DataZeroSent
           Own == "stray" \notin Faults
           Inv == Clean => FailedStream /\ FullBlocksSent /\ (Own => DataIsFileBlock)
<1>1. Init => Inv
  BY DEF Init, FailedStream, FullBlocksSent, DataIsFileBlock
<1>2. TypeOK /\ Sides /\ Inv /\ [SessionNext]_vars => Inv'
  <2> SUFFICES ASSUME TypeOK, Sides, Inv, [SessionNext]_vars, Clean'
               PROVE  FailedStream' /\ FullBlocksSent' /\ (Own => DataIsFileBlock')
    OBVIOUS
  <2> HIDE DEF Inv
  <2>1. CASE DataTx
    <3> DEFINE msg == DATA(stage, ReadSize(stage), Body(stage))
    <3>1. stat = "data_tx" /\ opt.type = "read" /\ opt' = opt
      BY Zenon, <2>1 DEF DataTx, Sides
    <3>2. sent \subseteq sent' /\ (ReadSize(stage) # "past" => msg \in sent')
      BY Zenon, <2>1 DEF DataTx, transmit_no_wait
    <3>3. Clean
      BY <3>2 DEF DataZeroSent
    <3>4. FailedStream /\ FullBlocksSent /\ (Own => DataIsFileBlock)
      BY <3>3 DEF Inv
    <3>5. msg.op = "DATA" /\ msg.num = stage /\ msg.body = Body(stage)
      BY DEF DATA
    <3>6. stage # 0
      <4>1. stage = 0 => ReadSize(stage) = "full"
        BY NumbersAssumption DEF ReadSize
      <4> QED BY <3>2, <3>5, <4>1 DEF DataZeroSent
    <3>7. inFail => stage = FullBlocks + 1 /\ (Own => buf = FullBlocks + 1)
      BY <3>1, <3>4 DEF FailedStream
    <3>8. Own \/ stage <= FullBlocks => Body(stage) = stage
      BY <3>6, <3>7, NumbersAssumption DEF Body, StreamFails, TypeOK
    <3>9. FailedStream'
      <4>1. SUFFICES ASSUME inFail' PROVE FailedStream'
        BY DEF FailedStream
      <4>2. stage = FullBlocks + 1
        <5>1. inFail \/ ReadSize(stage) = "part"
          BY Zenon, <2>1, <3>6, <4>1 DEF DataTx, DataMgrRead, StreamFails
        <5>2. ReadSize(stage) = "part" => stage = FullBlocks + 1
          BY NumbersAssumption DEF ReadSize, TypeOK
        <5> QED BY <3>7, <5>1, <5>2
      <4>3. ReadSize(stage) \in {"part", "none"}
        BY <4>2, NumbersAssumption DEF ReadSize
      <4>4. ASSUME Own PROVE buf' = FullBlocks + 1
        <5>0. Body(stage) = stage
          BY <3>8, <4>4
        <5>1. inFail => buf' = buf
          BY Zenon, <2>1, <3>7, <4>2, <4>4, <5>0 DEF DataTx, DataMgrRead
        <5>2. ~inFail => buf' = stage
          BY Zenon, <2>1, <3>6, <4>1, <5>0 DEF DataTx, DataMgrRead, StreamFails
        <5> QED BY <3>7, <4>2, <4>4, <5>1, <5>2
      <4>5. stage' = stage /\ last' /\ stat' \in {"ack_rx", "finish"}
        BY Zenon, <2>1, <4>3 DEF DataTx, switch_to
      <4> QED BY <3>1, <4>2, <4>4, <4>5 DEF FailedStream
    <3>10. sent' \subseteq sent \cup {msg}
      BY Zenon, <2>1 DEF DataTx, transmit_no_wait
    <3>11. FullBlocksSent'
      BY <3>4, <3>5, <3>8, <3>10 DEF FullBlocksSent
    <3>12. Own => DataIsFileBlock'
      <4>1. stage > 0
        BY <3>6 DEF TypeOK
      <4> QED BY <3>4, <3>5, <3>8, <3>10, <4>1 DEF DataIsFileBlock
    <3> QED BY <3>9, <3>11, <3>12
  <2>2. CASE ~DataTx
    <3>1. /\ sent \subseteq sent'
          /\ \A m \in sent' : m \in sent \/ m.op # "DATA"
          /\ inFail' = inFail /\ opt' = opt
      BY <2>2, OnlyDataTxSendsData
    <3>2. Clean
      BY <3>1 DEF DataZeroSent
    <3>3. FailedStream /\ FullBlocksSent /\ (Own => DataIsFileBlock)
      BY <3>2 DEF Inv
    <3>4. FullBlocksSent' /\ (Own => DataIsFileBlock')
      BY <3>1, <3>3 DEF FullBlocksSent, DataIsFileBlock
    <3>5. FailedStream'
      <4>1. SUFFICES ASSUME inFail PROVE FailedStream'
        BY <3>1 DEF FailedStream
      <4>2. CASE NeedInit \/ OpenThrows \/ AckOptions \/ AckTx
        BY Zenon, <3>2, <3>3, <4>1, <4>2 DEF FailedStream, NeedInit, OpenThrows,
           AckOptions, AckTx
      <4>7. CASE Ignore
        BY <3>3, <4>1, <4>7 DEF FailedStream, Ignore, Waiting, switch_to, session
      <4>3. CASE Tick \/ Close \/ UNCHANGED vars
        BY Zenon, <3>3, <4>1, <4>3 DEF FailedStream, Tick, Close, vars, session,
           manager
      <4>4. CASE ErrorAndStop \/ Timeout \/ RecvFault
        BY Zenon, <3>3, <4>1, <4>4 DEF FailedStream, ErrorAndStop, Timeout,
           RecvFault, Waiting, switch_to, session, manager
      <4>5. CASE Retransmit
        BY SMTT(30), <3>3, <4>1, <4>5 DEF FailedStream, Retransmit, switch_to, manager
      <4>6. ASSUME NEW p \in Packet, Receive(p) PROVE FailedStream'
        BY Zenon, <3>3, <4>1, <4>6 DEF FailedStream, Receive, WrongNumber, DataRx,
           DataRxThrows, DataRxDiskFault, AckRx, Waiting, switch_to, manager
      <4> QED
        BY NextCases, <2>2, <4>2, <4>3, <4>4, <4>5, <4>6, <4>7
    <3> QED BY <3>4, <3>5
  <2> QED BY <2>1, <2>2
<1>3. Inv => SentFromFile
  BY DEF SentFromFile, DownloadIsFile
<1> QED
  BY <1>1, <1>2, <1>3, TypeCorrect, SidesKept, PTL DEF SessionSpec

(* The bytes of DATA n are those of block n of the file, the retransmitted *)
(* last block included (DownloadIsFile): for every length of the file,     *)
(* whatever the peer acknowledges.                                         *)
THEOREM DownloadSafe == SessionSpec => []DownloadIsFile
<1>1. SentFromFile => DownloadIsFile
  BY DEF SentFromFile, DownloadIsFile
<1> QED
  BY <1>1, SentFromFileKept, PTL


-----------------------------------------------------------------------------
(* An error leads to the end of the session, by error_and_stop or at once. *)
ErrorEnds ==
  err # "none" =>
    \/ stat = "error_and_stop" /\ fate = "running"
    \/ stat = "finish" /\ (ERROR(err) \in sent \/ err \in RxErrors)

(* The error that ended a session was sent to the peer, unless it was met  *)
(* while a packet was received (ErrorReported).  A file that is found but  *)
(* cannot be opened is excluded: there the process ends first.             *)
THEOREM ErrorsSent ==
  ASSUME "open" \notin Faults
  PROVE  SessionSpec => []ErrorReported
<1>1. Init => ErrorEnds
  BY DEF Init, ErrorEnds
<1>2. TypeOK /\ ErrorEnds /\ [SessionNext]_vars => ErrorEnds'
  <2> SUFFICES ASSUME TypeOK, ErrorEnds, [SessionNext]_vars PROVE ErrorEnds'
    OBVIOUS
  <2>1. CASE NeedInit /\ fate = "running"
    <3>1. stat = "need_init" /\ err = "none" /\ fate' = fate
      BY Zenon, <2>1 DEF NeedInit, ErrorEnds
    <3>2. err' = "none" \/ stat' = "error_and_stop"
      BY Zenon, <2>1, <3>1, Switches DEF NeedInit
    <3> QED BY <2>1, <3>1, <3>2 DEF ErrorEnds
  <2>2. CASE OpenThrows
    BY Zenon, <2>2 DEF OpenThrows
  <2>3. CASE ErrorAndStop
    BY <2>3 DEF ErrorAndStop, ErrorEnds, switch_to, transmit_no_wait, session
  <2>4. CASE AckOptions \/ AckTx \/ Retransmit \/ Timeout \/ Ignore
             \/ RecvFault \/ Tick
    <3>1. err = "none" /\ err' = err
      BY <2>4 DEF AckOptions, AckTx, Retransmit, Timeout, Ignore, RecvFault,
         Tick, Waiting, ErrorEnds, session
    <3> QED BY Zenon, <3>1 DEF ErrorEnds
  <2>5. CASE DataTx /\ fate = "running"
    <3>1. stat = "data_tx" /\ err = "none" /\ fate' = fate
      BY Zenon, <2>5 DEF DataTx, ErrorEnds
    <3>2. err' = "none" \/ stat' = "error_and_stop"
      BY Zenon, <2>5, <3>1, Switches DEF DataTx
    <3> QED BY <2>5, <3>1, <3>2 DEF ErrorEnds
  <2>6. CASE Close
    BY <2>6 DEF Close, ErrorEnds, session
  <2>7. ASSUME NEW p \in Packet, Receive(p), fate = "running"
        PROVE  ErrorEnds'
    <3>1. err = "none" /\ Waiting
      BY Zenon, <2>7 DEF Receive, WrongNumber, DataRx, DataRxThrows,
         DataRxDiskFault, AckRx, Waiting, ErrorEnds
    <3>2. CASE DataRx(p) \/ DataRxThrows(p) \/ AckRx(p)
      BY <3>1, <3>2 DEF DataRx, DataRxThrows, AckRx, ErrorEnds
    <3>3. CASE WrongNumber(p) \/ DataRxDiskFault(p)
      <4>1. err' \in RxErrors /\ fate' = fate
        BY Zenon, <3>1, <3>3 DEF WrongNumber, DataRxDiskFault, set_error_if_first,
           RxErrors
      <4>2. stat' \in {"error_and_stop", "finish"}
        BY Zenon, <3>3 DEF WrongNumber, DataRxDiskFault, switch_to
      <4> QED BY <2>7, <4>1, <4>2 DEF ErrorEnds
    <3> QED BY <2>7, <3>2, <3>3 DEF Receive
  <2>8. CASE UNCHANGED vars
    BY <2>8 DEF vars, session, ErrorEnds
  <2> QED
    BY NextCases, <2>1, <2>2, <2>3, <2>4, <2>5, <2>6, <2>7, <2>8
<1>3. ErrorEnds => ErrorReported
  BY DEF ErrorEnds, ErrorReported
<1> QED
  BY <1>1, <1>2, <1>3, TypeCorrect, PTL DEF SessionSpec

-----------------------------------------------------------------------------
LastSent == \E m \in sent : m.op = "DATA" /\ m.num = FullBlocks + 1

(* A session has a data manager once it is initialised, and closes with it *)
MgrOpen ==
  /\ stat = "need_init" /\ fate = "running" => mgr = "none"
  /\ fate = "closed" => stat = "finish" /\ mgr = "open"

(* A download that has processed its last block has sent it.               *)
LastIsSent == last /\ opt.type = "read" => LastSent

(* Without an error only the last block leads to the end of the session.   *)
EndIsLast ==
  stat \in {"error_and_stop", "finish"} /\ mgr = "open" /\ err = "none"
    /\ retr <= RetransmitCount /\ "recv" \notin Faults
  => last

(* A session that ends without an error and with retransmissions left has  *)
(* seen the last block (EndsAfterLastBlock), for every length of the file  *)
(* and however the peer repeats, skips or invents packets.                 *)
THEOREM EndsWhole == SessionSpec => []EndsAfterLastBlock
<1> DEFINE Inv == MgrOpen /\ LastIsSent /\ EndIsLast
<1>1. Init => Inv
  BY SMTT(30) DEF Init, MgrOpen, LastIsSent, EndIsLast
<1>2. TypeOK /\ Sides /\ Inv /\ [SessionNext]_vars => Inv'
  <2> SUFFICES ASSUME TypeOK, Sides, Inv, [SessionNext]_vars PROVE Inv'
    OBVIOUS
  <2>1. CASE NeedInit /\ fate = "running"
    <3>1. /\ stat = "need_init" /\ mgr = "none" /\ fate' = fate
          /\ last' = last /\ opt' = opt /\ sent' = sent
      BY Zenon, <2>1 DEF NeedInit, MgrOpen
    <3>2. mgr' = "none" \/ stat' = "ack_options" \/ err' # "none"
      BY Zenon, <2>1, <3>1, Switches DEF NeedInit, set_error_if_first
    <3>3. stat' # "need_init"
      BY Zenon, <2>1, <3>1 DEF NeedInit, switch_to
    <3> QED
      BY <2>1, <3>1, <3>2, <3>3 DEF MgrOpen, LastIsSent, LastSent, EndIsLast
  <2>2. CASE OpenThrows
    <3>1. stat' = "need_init" /\ fate' = "crashed"
      BY Zenon, <2>2 DEF OpenThrows
    <3> QED
      BY Zenon, <2>2, <3>1 DEF OpenThrows, MgrOpen, LastIsSent, LastSent, EndIsLast
  <2>3. CASE ErrorAndStop
    <3>1. /\ stat = "error_and_stop" /\ stat' = "finish"
          /\ sent \subseteq sent'
          /\ UNCHANGED <<opt, last, retr, err, mgr, fate>>
      BY <2>3 DEF ErrorAndStop, switch_to, transmit_no_wait, session, manager
    <3> QED BY <3>1 DEF MgrOpen, LastIsSent, LastSent, EndIsLast
  <2>4. CASE (AckOptions \/ Timeout \/ Ignore \/ RecvFault \/ Tick)
             /\ fate = "running"
    <3>1. /\ stat \notin {"need_init", "error_and_stop", "finish"}
          /\ stat' = "finish" => "recv" \in Faults
          /\ stat' \notin {"need_init", "error_and_stop"}
      <4>1. CASE AckOptions
        BY Zenon, <4>1 DEF AckOptions, switch_to, Admitted
      <4>2. CASE Timeout \/ Ignore
        BY SMTT(30), <4>2 DEF Timeout, Ignore, Waiting, switch_to, Admitted
      <4>3. CASE RecvFault
        BY <4>3 DEF RecvFault, Waiting, switch_to, Admitted
      <4>4. CASE Tick
        BY Zenon, <4>4 DEF Tick, Waiting
      <4> QED
        BY Zenon, <2>4, <4>1, <4>2, <4>3, <4>4
    <3>2. UNCHANGED <<opt, last, retr, err, mgr, fate>>
      BY SMTT(30), <2>4 DEF AckOptions, Timeout, Ignore, RecvFault, Tick, session,
         manager
    <3>3. sent \subseteq sent'
      BY <2>4 DEF AckOptions, transmit_no_wait, Timeout, Ignore, RecvFault,
         Tick
    <3> QED BY <2>4, <3>1, <3>2, <3>3 DEF MgrOpen, LastIsSent, LastSent, EndIsLast
  <2>5. CASE DataTx /\ fate = "running"
    <3> DEFINE msg == DATA(stage, ReadSize(stage), Body(stage))
    <3>1. /\ stat = "data_tx" /\ sent \subseteq sent'
          /\ UNCHANGED <<opt, retr, mgr, fate>>
      BY Zenon, <2>5 DEF DataTx, transmit_no_wait
    <3>2. CASE ReadSize(stage) = "past"
      <4>1. err' # "none" /\ last' = last /\ stat' = "error_and_stop"
        BY Zenon, <2>5, <3>1, <3>2, Switches DEF DataTx, set_error_if_first
      <4> QED
        BY <2>5, <3>1, <4>1 DEF MgrOpen, LastIsSent, LastSent, EndIsLast
    <3>3. CASE ReadSize(stage) # "past"
      <4>1. stat' \in {"data_tx", "ack_rx"}
        BY Zenon, <2>5, <3>1, <3>3, Switches DEF DataTx
      <4>2. last' => stage = FullBlocks + 1
        <5>1. last' => ReadSize(stage) # "full"
          BY Zenon, <2>5, <3>3 DEF DataTx
        <5>2. stage \in Nat
          BY DEF TypeOK
        <5> QED BY <3>3, <5>1, <5>2, NumbersAssumption DEF ReadSize
      <4>3. msg \in sent' /\ msg.op = "DATA" /\ msg.num = stage
        BY Zenon, <2>5, <3>3 DEF DataTx, transmit_no_wait, DATA
      <4>4. LastIsSent'
        BY <4>2, <4>3 DEF LastIsSent, LastSent
      <4> QED BY <2>5, <3>1, <4>1, <4>4 DEF MgrOpen, EndIsLast
    <3> QED BY <3>2, <3>3
  <2>6. CASE AckTx /\ fate = "running"
    <3>1. /\ sent \subseteq sent' /\ stat = "ack_tx"
          /\ UNCHANGED <<opt, last, retr, err, mgr, fate>>
      BY <2>6 DEF AckTx, transmit_no_wait, manager
    <3>2. stat' = "data_rx" \/ (stat' = "finish" /\ last)
      BY <2>6, <3>1, Switches DEF AckTx
    <3> QED
      BY <2>6, <3>1, <3>2 DEF MgrOpen, LastIsSent, LastSent, EndIsLast
  <2>7. CASE Retransmit /\ fate = "running"
    <3>1. /\ stat = "retransmit"
          /\ UNCHANGED <<opt, last, err, mgr, fate, sent>>
      BY <2>7 DEF Retransmit, manager
    <3>2. CASE retr' > RetransmitCount
      <4>1. ~(retr' <= RetransmitCount)
        <5>1. retr \in Nat
          BY NumbersAssumption DEF TypeOK
        <5>2. retr' \in Int /\ RetransmitCount \in Int
          BY <2>7, <5>1, NumbersAssumption DEF Retransmit
        <5> QED BY <3>2, <5>2
      <4>2. stat' = "error_and_stop"
        BY <2>7, <3>1, <3>2, Switches DEF Retransmit
      <4> QED
        BY <2>7, <3>1, <4>1, <4>2 DEF MgrOpen, LastIsSent, LastSent, EndIsLast
    <3>3. CASE ~(retr' > RetransmitCount)
      <4>1. stat' \in {"data_tx", "ack_tx"}
        BY <2>7, <3>1, <3>3, Switches DEF Retransmit
      <4> QED
        BY <2>7, <3>1, <4>1 DEF MgrOpen, LastIsSent, LastSent, EndIsLast
    <3> QED BY <3>2, <3>3
  <2>8. CASE Close /\ fate = "running"
    <3>1. /\ stat = "finish" /\ stat' = stat
          /\ fate' = "closed" => mgr = "open"
          /\ UNCHANGED <<opt, last, retr, err, mgr, sent>>
      BY <2>8, TypeOK DEF Close, session, manager, TypeOK
    <3> QED BY <3>1 DEF MgrOpen, LastIsSent, LastSent, EndIsLast
  <2>9. ASSUME NEW p \in Packet, Receive(p), fate = "running"
        PROVE  Inv'
    <3>1. Waiting /\ UNCHANGED <<opt, retr, mgr, sent>> /\ fate' # "closed"
      BY Zenon, <2>9 DEF Receive, WrongNumber, DataRx, DataRxThrows,
         DataRxDiskFault, AckRx, Waiting, manager
    <3>2. MgrOpen'
      <4>1. stat' # "need_init"
        BY Zenon, <2>9, <3>1 DEF Receive, WrongNumber, DataRx, DataRxThrows,
           DataRxDiskFault, AckRx, Waiting, switch_to
      <4> QED BY SMTT(30), <3>1, <4>1 DEF MgrOpen
    <3>3. LastIsSent'
      <4>1. CASE DataRx(p)
        BY <3>1, <4>1 DEF DataRx, Sides, LastIsSent
      <4>2. CASE ~DataRx(p)
        <5>1. last' = last
          BY Zenon, <2>9, <4>2 DEF Receive, WrongNumber, DataRxThrows,
             DataRxDiskFault, AckRx
        <5> QED BY <3>1, <5>1 DEF LastIsSent, LastSent
      <4> QED BY <4>1, <4>2
    <3>4. EndIsLast'
      <4>1. CASE WrongNumber(p) \/ DataRxDiskFault(p)
        <5>1. err' # "none"
          BY Zenon, <4>1 DEF WrongNumber, DataRxDiskFault, set_error_if_first
        <5> QED BY <5>1 DEF EndIsLast
      <4>2. CASE DataRx(p) \/ DataRxThrows(p)
        <5>1. stat' \in {"data_rx", "ack_tx"}
          BY <4>2, Switches DEF DataRx, DataRxThrows
        <5> QED BY <5>1 DEF EndIsLast
      <4>3. CASE AckRx(p)
        <5>1. stat' = "data_tx" \/ last'
          BY <4>3, Switches DEF AckRx
        <5> QED BY <5>1 DEF EndIsLast
      <4> QED BY <2>9, <4>1, <4>2, <4>3 DEF Receive
    <3> QED BY <3>2, <3>3, <3>4
  <2>10. CASE UNCHANGED vars
    BY <2>10 DEF vars, session, manager, MgrOpen, LastIsSent, LastSent,
       EndIsLast
  <2> QED
    BY NextCases, <2>1, <2>2, <2>3, <2>4, <2>5, <2>6, <2>7, <2>8, <2>9, <2>10
<1>3. Inv => EndsAfterLastBlock
  BY DEF MgrOpen, LastIsSent, LastSent, EndIsLast, EndsAfterLastBlock
<1> QED
  BY <1>1, <1>2, <1>3, TypeCorrect, SidesKept, PTL DEF SessionSpec

-----------------------------------------------------------------------------
(***************************************************************************)
(* The peer of AnyPeer, for every bound on the length of its stay.         *)
(***************************************************************************)

(* Any number on the wire, of any size of block, is a packet that          *)
(* receive_no_wait() looks into.                                           *)
LEMMA AnyPacketIsPacket == AnyPacket \subseteq Packet
<1>1. \A n \in 0 .. BlkMod - 1 : n \in Nat
  BY NumbersAssumption
<1>2. ASSUME NEW n \in 0 .. BlkMod - 1, NEW size \in Sizes
      PROVE  DATA(n, size, n) \in Packet
  <2>1. DATA(n, size, n).op = "DATA"
    BY DEF DATA
  <2> QED BY <1>1, <2>1, MessageType DEF Packet
<1>3. ASSUME NEW n \in 0 .. BlkMod - 1
      PROVE  ACK(n) \in Packet
  <2>1. ACK(n).op = "ACK"
    BY DEF ACK
  <2> QED BY <1>1, <2>1, MessageType DEF Packet
<1> QED BY <1>2, <1>3 DEF AnyPacket

(* The peer of AnyPeer is one of those that SessionSpec allows.            *)
LEMMA AnyPeerIsSession == Spec => SessionSpec
<1>1. [Next]_vars => [SessionNext]_vars
  BY AnyPacketIsPacket DEF Next, ReceiveAny, SessionNext
<1> QED
  BY <1>1, PTL DEF Spec, SessionSpec

(* The invariants of a session with any peer, for every file, request,     *)
(* modulus and bound: fields keep their types, downloads carry the file,   *)
(* a session that ends well has seen the last block; blocks are stored     *)
(* before they are acknowledged unless the retransmit counter wraps below  *)
(* its limit; and errors are reported unless an existing file cannot be    *)
(* opened.                                                                 *)
THEOREM AnyPeerSafe ==
  Spec => [](/\ TypeOK /\ DownloadIsFile /\ EndsAfterLastBlock
             /\ RetransmitCount < RetrMod - 1 => AckedIsStored
             /\ "open" \notin Faults => ErrorReported)
<1>1. RetransmitCount < RetrMod - 1 => (SessionSpec => []AckedIsStored)
  BY AckSafe
<1>2. "open" \notin Faults => (SessionSpec => []ErrorReported)
  BY ErrorsSent
<1> DEFINE Wide == RetransmitCount < RetrMod - 1
           Opens == "open" \notin Faults
<1>3. SessionSpec => [](Wide => AckedIsStored)
  <2>1. CASE Wide
    BY <1>1, <2>1, PTL
  <2>2. CASE ~Wide
    <3>1. Wide => AckedIsStored
      BY <2>2
    <3> QED BY <3>1, PTL
  <2> QED BY <2>1, <2>2
<1>4. SessionSpec => [](Opens => ErrorReported)
  <2>1. CASE Opens
    BY <1>2, <2>1, PTL
  <2>2. CASE ~Opens
    <3>1. Opens => ErrorReported
      BY <2>2
    <3> QED BY <3>1, PTL
  <2> QED BY <2>1, <2>2
<1> HIDE DEF Wide, Opens
<1>5. SessionSpec => [](/\ TypeOK /\ DownloadIsFile /\ EndsAfterLastBlock
                        /\ Wide => AckedIsStored
                        /\ Opens => ErrorReported)
  BY <1>3, <1>4, TypeCorrect, DownloadSafe, EndsWhole, PTL
<1> QED
  BY <1>5, AnyPeerIsSession, PTL DEF Wide, Opens
=============================================================================
