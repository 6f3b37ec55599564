------------------------------ MODULE Session ------------------------------
(***************************************************************************)
(* The state machine of one TFTP session: Session::run() of                *)
(* source/tftpSession.cpp with every method it calls.  One action is one   *)
(* iteration of the main loop in one state; an action that waits for a     *)
(* packet takes the packet as its parameter.  The modules that extend this *)
(* one supply the packets: AnyPeer from a peer that may send anything,     *)
(* Upload and Download from a TFTP client behind an unreliable network.    *)
(*                                                                         *)
(* Offsets in the file are counted in blocks: block n of the file is the   *)
(* bytes from (n-1)*block_size() on.  A packet carries the full number     *)
(* num of its block; only num % BlkMod, the 16-bit field of the wire, is   *)
(* ever read from a packet that arrives.                                   *)
(***************************************************************************)
EXTENDS Integers

CONSTANTS
  Requests,         (* parsed requests: records [type, any, windowsize]    *)
  FullBlocks,       (* full blocks of the file that a read request names   *)
  HasTail,          (* whether bytes are left after the last full block    *)
  BlkMod,           (* 2^16 in the code: numbers of blocks on the wire     *)
  RetransmitCount,  (* Settings::retransmit_count_                         *)
  RetrMod,          (* 2^16 in the code: values of the counter retr_count  *)
  Faults            (* environment faults that may happen, see FaultKinds  *)

(* "socket": socket() or bind() fails in Session::init();                  *)
(* "manager": the file to read is not found, or the one to write exists or *)
(* cannot be created;                                                      *)
(* "open": the file to read is found but cannot be opened;                 *)
(* "disk": a write or the final flush fails;                               *)
(* "recv": recvfrom() fails with something else than EAGAIN;               *)
(* "stray": a packet of more than 4 octets arrives that is then ignored.   *)
FaultKinds == {"socket", "manager", "open", "disk", "recv", "stray"}

(* Options that were not given have their defaults.                        *)
ASSUME RequestsAssumption ==
  /\ Requests \subseteq [type : {"read", "write"}, any : BOOLEAN,
                         windowsize : Int]
  /\ \A r \in Requests : ~r.any => r.windowsize = 1

ASSUME NumbersAssumption ==
  /\ FullBlocks \in Nat
  /\ BlkMod \in Nat \ {0}
  /\ RetrMod \in Nat \ {0}
  /\ RetransmitCount \in 0 .. RetrMod - 1

ASSUME SwitchesAssumption == HasTail \in BOOLEAN /\ Faults \subseteq FaultKinds

VARIABLES
  opt,      \* opt_: the parsed request, fixed by prepare()
  stat,     \* stat_
  stage,    \* stage_
  last,     \* last_blk_processed_
  retr,     \* retr_count
  expired,  \* whether timeout_pass() has turned false since timeout_reset()
  err,      \* error_code_ and error_message_ in one: the error or "none"
  mgr,      \* file_man_: "none", or "open" once DataMgrFile::init() was called
  inFail,   \* failbit of file_in_
  buf,      \* the file block whose bytes lie in local_buf past the header, or 0
  file,     \* blocks of file_out_: [num, body], body is what the peer sent
  sent,     \* every packet sent so far
  fate      \* "running", "closed" (run() returned) or "crashed"

session == <<stage, last, retr, expired, err>>
manager == <<mgr, inFail, buf, file>>
vars == <<opt, stat, session, manager, sent, fate>>

State == {"need_init", "error_and_stop", "ack_options", "data_tx", "data_rx",
          "ack_tx", "ack_rx", "retransmit", "finish"}

(* The three sizes of data that the code tells apart: block_size() octets, *)
(* another number of them, or none.                                        *)
Sizes == {"full", "part", "none"}

InitErrors == {"File not found", "File already exists", "Open failed"}
RxErrors == {"Error received number", "Server write stream failed"}
TxErrors == {"Failed prepare data to send"}
Errors == InitErrors \cup RxErrors \cup TxErrors

DATA(n, size, body) == [op |-> "DATA", num |-> n, size |-> size, body |-> body]
ACK(n) == [op |-> "ACK", num |-> n]
OACK == [op |-> "OACK"]
ERROR(e) == [op |-> "ERROR", err |-> e]

Message == [op : {"DATA"}, num : Nat, size : Sizes, body : Nat]
           \cup [op : {"ACK"}, num : Nat]
           \cup [op : {"OACK"}]
           \cup [op : {"ERROR"}, err : Errors]

-----------------------------------------------------------------------------
(* Helpers of class Session.                                               *)

(* Mutant of Admitted: ack_rx lacks its transition to data_tx.             *)
AdmittedNoDataTx ==
  [need_init      |-> {"finish", "error_and_stop", "ack_options", "data_tx",
                       "ack_tx"},
   error_and_stop |-> {"finish"},
   ack_options    |-> {"data_rx", "data_tx", "ack_rx", "ack_tx"},
   data_tx        |-> {"ack_rx", "error_and_stop"},
   data_rx        |-> {"ack_tx", "retransmit"},
   ack_tx         |-> {"data_rx", "finish"},
   ack_rx         |-> {"retransmit", "finish"},
   retransmit     |-> {"data_tx", "ack_tx", "error_and_stop"},
   finish         |-> {}]

(* The transitions that switch_to() admits besides staying put.            *)
Admitted ==
  [need_init      |-> {"finish", "error_and_stop", "ack_options", "data_tx",
                       "ack_tx"},
   error_and_stop |-> {"finish"},
   ack_options    |-> {"data_rx", "data_tx", "ack_rx", "ack_tx"},
   data_tx        |-> {"ack_rx", "error_and_stop"},
   data_rx        |-> {"ack_tx", "retransmit"},
   ack_tx         |-> {"data_rx", "finish"},
   ack_rx         |-> {"data_tx", "retransmit", "finish"},
   retransmit     |-> {"data_tx", "ack_tx", "error_and_stop"},
   finish         |-> {}]

(* Any other transition ends the session.                                  *)
switch_to(new) ==
  stat' = IF new = stat \/ new \in Admitted[stat] THEN new ELSE "finish"

blk_num(n) == n % BlkMod

windowsize == IF opt.windowsize < 1 THEN 1 ELSE opt.windowsize

is_window_close(n) == n % windowsize = 0

set_error_if_first(e) == err' = IF err = "none" THEN e ELSE err

timeout_reset == expired' = FALSE

transmit_no_wait(m) == sent' = sent \cup {m}

-----------------------------------------------------------------------------
(* DataMgrFile as the session uses it.                                     *)

(* What read() returns for block n, by size; "past" is a negative result.  *)
(* Block 0 is the position -block_size(), from which the size of the file  *)
(* plus a block is left.                                                   *)
ReadSize(n) ==
  IF n <= FullBlocks THEN "full"
  ELSE IF n > FullBlocks + 1 THEN "past"
  ELSE IF HasTail THEN "part" ELSE "none"

(* The stream refuses to seek to the negative position of block 0, and     *)
(* does nothing at all once it has failed.                                 *)
StreamFails(n) == inFail \/ n = 0

(* Mutant of Body: the position of the read is one block too far.          *)
BodyOfNext(n) == IF StreamFails(n) THEN buf ELSE n + 1

(* The block whose bytes read() leaves in the buffer: the old ones when    *)
(* the stream has failed.                                                  *)
Body(n) == IF StreamFails(n) THEN buf ELSE n

(* read(): a read that ends short of the buffer sets failbit too.          *)
DataMgrRead(n) ==
  /\ inFail' = (StreamFails(n) \/ ReadSize(n) = "part")
  /\ buf' = IF ReadSize(n) \in {"full", "part"} THEN Body(n) ELSE buf

(* write() of a packet as block n; a packet without data writes nothing,   *)
(* and leaves a block that is there already alone.                         *)
DataMgrWrite(n, p) ==
  IF p.size = "none" /\ \E b \in file : b.num = n
  THEN UNCHANGED file
  ELSE file' = {b \in file : b.num # n} \cup {[num |-> n, body |-> p.body]}

-----------------------------------------------------------------------------
(* The states of the main loop.                                            *)

(* Session::init(): it returns false when there is no socket, and true     *)
(* with an error recorded when the data manager cannot serve the request.  *)
NeedInit ==
  /\ stat = "need_init"
  /\ \/ /\ "socket" \in Faults
        /\ switch_to("finish")
        /\ UNCHANGED <<mgr, err>>
     \/ /\ "manager" \in Faults
        /\ \E e \in IF opt.type = "read" THEN {"File not found"}
                 ELSE {"File already exists", "Open failed"} :
              set_error_if_first(e)
        /\ mgr' = "open"
        /\ switch_to("error_and_stop")
     \/ /\ mgr' = "open"
        /\ switch_to("ack_options")
        /\ UNCHANGED err
  /\ UNCHANGED <<opt, stage, last, retr, expired, inFail, buf, file, sent, fate>>

(* DataMgrFile::init() of a file that cannot be opened: the exception of   *)
(* open() is caught and recorded, but then close() of the stream that is   *)
(* not open throws too, and nothing in the thread catches.                 *)
OpenThrows ==
  /\ stat = "need_init"
  /\ "open" \in Faults
  /\ opt.type = "read"
  /\ mgr' = "open"
  /\ set_error_if_first("Open failed")
  /\ fate' = "crashed"
  /\ UNCHANGED <<opt, stat, stage, last, retr, expired, inFail, buf, file, sent>>

(* Mutant of ErrorAndStop: the test of was_error() is left out.            *)
ErrorAndStopAlways ==
  /\ stat = "error_and_stop"
  /\ transmit_no_wait(ERROR(IF err # "none" THEN err ELSE "Undefined error"))
  /\ switch_to("finish")
  /\ UNCHANGED <<opt, session, manager, fate>>

(* Mutant of ErrorAndStop: the test of was_error() is inverted.            *)
ErrorAndStopInverted ==
  /\ stat = "error_and_stop"
  /\ IF err = "none" THEN transmit_no_wait(ERROR(err)) ELSE UNCHANGED sent
  /\ switch_to("finish")
  /\ UNCHANGED <<opt, session, manager, fate>>

ErrorAndStop ==
  /\ stat = "error_and_stop"
  /\ IF err # "none" THEN transmit_no_wait(ERROR(err)) ELSE UNCHANGED sent
  /\ switch_to("finish")
  /\ UNCHANGED <<opt, session, manager, fate>>

(* With options an OACK opens the transfer, and the peer answers it with   *)
(* ACK 0 or DATA 1; without, the first DATA or ACK is the answer.          *)
AckOptions ==
  /\ stat = "ack_options"
  /\ IF opt.any THEN transmit_no_wait(OACK) /\ buf' = 0
                ELSE UNCHANGED <<sent, buf>>
  /\ timeout_reset
  /\ \/ opt.type = "read"  /\  opt.any /\ switch_to("ack_rx")  /\ stage' = 0
     \/ opt.type = "read"  /\ ~opt.any /\ switch_to("data_tx") /\ stage' = 1
     \/ opt.type = "write" /\  opt.any /\ switch_to("data_rx") /\ stage' = 1
     \/ opt.type = "write" /\ ~opt.any /\ switch_to("ack_tx")  /\ stage' = 0
  /\ UNCHANGED <<opt, last, retr, err, mgr, inFail, file, fate>>

(* construct_data() and the send.  Inside a window the loop stays in       *)
(* data_tx, and stage_ is not advanced.                                    *)
DataTx ==
  /\ stat = "data_tx"
  /\ DataMgrRead(stage)
  /\ \/ /\ ReadSize(stage) = "past"
        /\ set_error_if_first("Failed prepare data to send")
        /\ switch_to("error_and_stop")
        /\ UNCHANGED <<last, expired, sent>>
     \/ /\ ReadSize(stage) # "past"
        /\ transmit_no_wait(DATA(stage, ReadSize(stage), Body(stage)))
        /\ last' = (ReadSize(stage) # "full")
        /\ IF is_window_close(stage) \/ last'
           THEN timeout_reset /\ switch_to("ack_rx")
           ELSE UNCHANGED <<expired, stat>>
        /\ UNCHANGED err
  /\ UNCHANGED <<opt, stage, retr, mgr, file, fate>>

(* Mutant of AckTx: stage_ is incremented before the ACK is constructed.   *)
AckTxOfNext ==
  /\ stat = "ack_tx"
  /\ transmit_no_wait(ACK(stage + 1))
  /\ stage' = stage + 1
  /\ IF last THEN switch_to("finish") /\ UNCHANGED expired
             ELSE switch_to("data_rx") /\ timeout_reset
  /\ UNCHANGED <<opt, last, retr, err, manager, fate>>

AckTx ==
  /\ stat = "ack_tx"
  /\ transmit_no_wait(ACK(stage))
  /\ stage' = stage + 1
  /\ IF last THEN switch_to("finish") /\ UNCHANGED expired
             ELSE switch_to("data_rx") /\ timeout_reset
  /\ UNCHANGED <<opt, last, retr, err, manager, fate>>

Retransmit ==
  /\ stat = "retransmit"
  /\ retr' = (retr + 1) % RetrMod
  /\ IF retr' > RetransmitCount
     THEN switch_to("error_and_stop") /\ UNCHANGED expired
     ELSE /\ switch_to(IF opt.type = "read" THEN "data_tx" ELSE "ack_tx")
          /\ timeout_reset
  /\ UNCHANGED <<opt, stage, last, err, manager, sent, fate>>

-----------------------------------------------------------------------------
(* data_rx and ack_rx: receive_no_wait() and what run() does of its result *)

Waiting == stat \in {"data_rx", "ack_rx"}

(* Mutant of rx_stage: the 16-bit number is taken for the full one.        *)
rx_stage_16bit(p) == blk_num(p.num)

(* The full number that receive_no_wait() gives a packet.                  *)
rx_stage(p) == stage + blk_num(p.num) - blk_num(stage)

InRange(n) == 0 <= n /\ n <= stage + 1

(* A number out of range: the error is recorded, and run() asks for        *)
(* error_and_stop.                                                         *)
WrongNumber(p) ==
  /\ Waiting
  /\ p.op = IF stat = "data_rx" THEN "DATA" ELSE "ACK"
  /\ ~InRange(rx_stage(p))
  /\ set_error_if_first("Error received number")
  /\ switch_to("error_and_stop")
  /\ UNCHANGED <<opt, stage, last, retr, expired, manager, sent, fate>>

(* Mutant of DataRx: the header is forgotten in the test of the size, and  *)
(* every block passes for the last one.                                    *)
DataRxAlwaysLast(p) ==
  /\ stat = "data_rx" /\ p.op = "DATA"
  /\ InRange(rx_stage(p))
  /\ ~(rx_stage(p) = 0 /\ p.size # "none")
  /\ DataMgrWrite(rx_stage(p), p)
  /\ last' = TRUE
  /\ IF is_window_close(rx_stage(p))
     THEN stage' = rx_stage(p) /\ switch_to("ack_tx") /\ UNCHANGED expired
     ELSE stage' = rx_stage(p) + 1 /\ timeout_reset /\ UNCHANGED stat
  /\ UNCHANGED <<opt, retr, err, mgr, inFail, buf, sent, fate>>

(* DATA in range is stored as block rx_stage, whichever block was awaited. *)
DataRx(p) ==
  /\ stat = "data_rx" /\ p.op = "DATA"
  /\ InRange(rx_stage(p))
  /\ ~(rx_stage(p) = 0 /\ p.size # "none")
  /\ DataMgrWrite(rx_stage(p), p)
  /\ last' = (p.size # "full")
  /\ IF is_window_close(rx_stage(p))
     THEN stage' = rx_stage(p) /\ switch_to("ack_tx") /\ UNCHANGED expired
     ELSE stage' = rx_stage(p) + 1 /\ timeout_reset /\ UNCHANGED stat
  /\ UNCHANGED <<opt, retr, err, mgr, inFail, buf, sent, fate>>

(* Data for block 0: seekp() to the negative position throws, and nothing  *)
(* in the thread catches.  So does tellp() after a failed write, with a    *)
(* library whose tellp() checks the stream like an output operation.       *)
DataRxThrows(p) ==
  /\ stat = "data_rx" /\ p.op = "DATA"
  /\ InRange(rx_stage(p)) /\ p.size # "none"
  /\ rx_stage(p) = 0 \/ "disk" \in Faults
  /\ stage' = rx_stage(p)
  /\ fate' = "crashed"
  /\ UNCHANGED <<opt, stat, last, retr, expired, err, manager, sent>>

(* write() returns -1: tellp() of any other library after a failed write.  *)
DataRxDiskFault(p) ==
  /\ stat = "data_rx" /\ p.op = "DATA"
  /\ "disk" \in Faults
  /\ InRange(rx_stage(p)) /\ rx_stage(p) # 0 /\ p.size # "none"
  /\ stage' = rx_stage(p)
  /\ set_error_if_first("Server write stream failed")
  /\ switch_to("error_and_stop")
  /\ UNCHANGED <<opt, last, retr, expired, manager, sent, fate>>

(* Mutant of AckRx: the number of the ACK is not looked at.                *)
AckRxOfAny(p) ==
  /\ stat = "ack_rx" /\ p.op = "ACK"
  /\ InRange(rx_stage(p))
  /\ IF last
     THEN UNCHANGED <<stage, expired>> /\ switch_to("finish")
     ELSE stage' = stage + 1 /\ switch_to("data_tx") /\ timeout_reset
  /\ UNCHANGED <<opt, last, retr, err, manager, sent, fate>>

(* An ACK in range: the next block follows the acknowledged one.           *)
AckRx(p) ==
  /\ stat = "ack_rx" /\ p.op = "ACK"
  /\ InRange(rx_stage(p))
  /\ IF last
     THEN stage' = rx_stage(p) /\ switch_to("finish") /\ UNCHANGED expired
     ELSE stage' = rx_stage(p) + 1 /\ switch_to("data_tx") /\ timeout_reset
  /\ UNCHANGED <<opt, last, retr, err, manager, sent, fate>>

Receive(p) ==
  \/ WrongNumber(p)
  \/ DataRx(p)
  \/ DataRxThrows(p)
  \/ DataRxDiskFault(p)
  \/ AckRx(p)

(* Mutant of Ignore: the packet sets back the timeout.                     *)
IgnoreResets ==
  /\ Waiting
  /\ "stray" \in Faults
  /\ buf' = 0
  /\ timeout_reset
  /\ UNCHANGED <<opt, stat, stage, last, retr, err, mgr, inFail, file, sent, fate>>

(* A packet of another sender, or with another opcode, is read into        *)
(* local_buf and then ignored.                                             *)
Ignore ==
  /\ Waiting
  /\ "stray" \in Faults
  /\ buf' = 0
  /\ IF expired THEN switch_to("retransmit") ELSE UNCHANGED stat
  /\ UNCHANGED <<opt, session, mgr, inFail, file, sent, fate>>

(* Nothing to receive and timeout_pass() is false.                         *)
Timeout ==
  /\ Waiting
  /\ expired
  /\ switch_to("retransmit")
  /\ UNCHANGED <<opt, session, manager, sent, fate>>

RecvFault ==
  /\ Waiting
  /\ "recv" \in Faults
  /\ switch_to("error_and_stop")
  /\ UNCHANGED <<opt, session, manager, sent, fate>>

(* The clock passes the timeout of the session.                            *)
Tick ==
  /\ Waiting
  /\ ~expired
  /\ expired' = TRUE
  /\ UNCHANGED <<opt, stat, stage, last, retr, err, manager, sent, fate>>

(* After the loop: socket_close() and file_man_->close(), through a null   *)
(* pointer when init() gave up before it made a data manager; a failing    *)
(* flush throws.                                                           *)
Close ==
  /\ stat = "finish"
  /\ \/ fate' = IF mgr = "none" THEN "crashed" ELSE "closed"
     \/ "disk" \in Faults /\ opt.type = "write" /\ fate' = "crashed"
  /\ UNCHANGED <<opt, stat, session, manager, sent>>

-----------------------------------------------------------------------------
Init ==
  /\ opt \in Requests
  /\ stat = "need_init"
  /\ stage = 0
  /\ last = FALSE
  /\ retr = 0
  /\ expired = FALSE
  /\ err = "none"
  /\ mgr = "none"
  /\ inFail = FALSE
  /\ buf = 0
  /\ file = {}
  /\ sent = {}
  /\ fate = "running"

(* What the session's thread does of its own accord.                       *)
Step ==
  \/ NeedInit
  \/ OpenThrows
  \/ ErrorAndStop
  \/ AckOptions
  \/ DataTx
  \/ AckTx
  \/ Retransmit
  \/ Timeout
  \/ Close

Environment == Ignore \/ RecvFault \/ Tick

-----------------------------------------------------------------------------
(* Type invariant of the session's fields.                                 *)
TypeOK ==
  /\ opt \in Requests
  /\ stat \in State
  /\ stage \in Nat
  /\ last \in BOOLEAN
  /\ retr \in 0 .. RetrMod - 1
  /\ expired \in BOOLEAN
  /\ err \in Errors \cup {"none"}
  /\ mgr \in {"none", "open"}
  /\ inFail \in BOOLEAN
  /\ buf \in Nat
  /\ file \subseteq [num : Nat, body : Nat]
  /\ sent \subseteq Message
  /\ fate \in {"running", "closed", "crashed"}

Stored(n) == \E b \in file : b.num = n

(* construct_ack() acknowledges a data block: whoever reads ACK n may      *)
(* take block n for stored by the data manager.                            *)
AckMeansStored ==
  \A m \in sent : m.op = "ACK" /\ m.num > 0 => Stored(m.num)

(* Whatever the peer sends and whatever fails, an upload acknowledges no   *)
(* block that receive_no_wait() has not stored, as long as no timeout sent *)
(* run() through its retransmit state.                                     *)
AckedIsStored == retr = 0 => AckMeansStored

(* construct_data() puts into DATA n the bytes of block n of the file.     *)
DataIsFileBlock ==
  \A m \in sent : m.op = "DATA" => m.num > 0 /\ m.body = m.num

DataZeroSent == \E m \in sent : m.op = "DATA" /\ m.num = 0

(* A download carries the bytes of the file, retransmissions of the last,  *)
(* short block included (its read has set failbit, so that the bytes come  *)
(* from what is left in local_buf), until the timeout of an OACK makes     *)
(* run() send a block 0, and as long as no ignored packet lands in         *)
(* local_buf.                                                              *)
DownloadIsFile == "stray" \notin Faults /\ ~DataZeroSent => DataIsFileBlock

(* run() reports the error that ended the session in an ERROR packet,      *)
(* unless the error was met in data_rx or ack_rx, from where switch_to()   *)
(* does not admit error_and_stop.                                          *)
ErrorReported ==
  fate # "running" /\ err # "none" => ERROR(err) \in sent \/ err \in RxErrors

(* A session that ends without an error and without having used up its     *)
(* retransmissions has seen the last block: a download has sent it, and an *)
(* upload has taken a short block, however blocks and acknowledgements     *)
(* were repeated or skipped.                                               *)
EndsAfterLastBlock ==
  fate = "closed" /\ err = "none" /\ retr <= RetransmitCount
    /\ "recv" \notin Faults
  => /\ last
     /\ opt.type = "read" =>
          \E m \in sent : m.op = "DATA" /\ m.num = FullBlocks + 1

=============================================================================
