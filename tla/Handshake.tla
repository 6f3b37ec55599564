----------------------------- MODULE Handshake -----------------------------
(***************************************************************************)
(* A request on its way: a client builds it in an SmBufEx and sends it,    *)
(* the listener (Srv::main_loop, source/tftpSrv.cpp) receives it into its  *)
(* one packet buffer and has Session::prepare() parse it, and the session  *)
(* answers with the option acknowledgement (OACK) of                       *)
(* Session::construct_opt_reply() (source/tftpSession.cpp).                *)
(*                                                                         *)
(* The client is not part of the program. Its script says which strings it *)
(* may push at each place of each request; it may stop and send early, may *)
(* leave out a zero end, use the wrong byte order, or fill its buffer.     *)
(***************************************************************************)
EXTENDS Options, TLC

CONSTANTS
  Script,       (* for each request, the sets of strings pushed in turn    *)
  OpCodes,      (* the packet types the client writes                      *)
  ClientSizes,  (* the sizes its buffer may have                           *)
  PktBufSize,   (* size of pkt_buf, 0xFFFF in the code                     *)
  LocalBufSize, (* size of the session's local_buf, 0xFFFF in the code     *)
  MinSize,      (* the shortest request main_loop() accepts, 9 in the code *)
  OptionOrder,  (* the order of the options in the reply                   *)
  BlkMod,       (* number of values of uint16_t, 2^16 in the code          *)
  MaxToggles    (* bound: how often the client changes a flag              *)

ASSUME HandshakeAssumption ==
  /\ ToSet(OptionOrder) = OptionKeys /\ IsInjective(OptionOrder)
  /\ \A n \in ClientSizes : n <= PktBufSize
  /\ MinSize >= 2

VARIABLES
  client,       (* the client's SmBufEx                                    *)
  round,        (* the request of the script it is building                *)
  pushed,       (* history: the items in its buffer, with their offsets    *)
  last,         (* history: the outcome of its last push                   *)
  toggles,      (* flag changes made                                       *)
  packet,       (* history: the packet the listener received last          *)
  oack          (* local_buf of the session after construct_opt_reply()    *)

clientVars == <<client, round, pushed, last, toggles>>
vars == <<optVars, clientVars, packet, oack>>

NoPush == [ret |-> "true", items |-> <<>>, room |-> 0]

Init ==
  /\ client \in {NewSmBufEx(n) : n \in ClientSizes}
  /\ round = 1 /\ pushed = <<>> /\ last = NoPush /\ toggles = 0
  /\ packet = <<>> /\ oack = NewSmBufEx(LocalBufSize)
  /\ pkt_buf = [i \in 1 .. PktBufSize |-> 0]
  /\ buf_size = 0 /\ curr_pos = 0 /\ opt = NoOptions /\ stage = "waiting"

(* The history of a push: which items it left in the buffer, and where. *)
Entries(x, items) ==
  LET add(r, it) ==
        IF r.thrown \/ push_item_outcome(r.obj, it) # "true"
        THEN [r EXCEPT !.thrown = @ \/ push_item_outcome(r.obj, it) = "throws"]
        ELSE [obj |-> push_item(r.obj, it), thrown |-> FALSE,
              list |-> Append(r.list, [item |-> it, at |-> r.obj.data_size,
                                       bigendian |-> x.bigendian,
                                       zeroend |-> x.zeroend])]
  IN  FoldLeft(add, [obj |-> x, thrown |-> FALSE, list |-> <<>>], items).list

ClientPush(items) ==
  LET res == push_data(client, items)
  IN  /\ client' = res.obj
      /\ pushed' = pushed \o Entries(client, items)
      /\ last' = [ret |-> res.ret, items |-> items,
                  room |-> Len(client.buf) - client.data_size]
      /\ UNCHANGED <<optVars, round, toggles, packet, oack>>

Building == stage = "waiting" /\ round <= Len(Script)

(* How many strings of the request were tried so far. *)
Tried == Len(SelectSeq(pushed, LAMBDA e : e.item.kind = "str"))

(* One call of push_data() with the packet type and the filename, and       *)
(* perhaps a value of a type that push_item() does not know between them.   *)
PushHeader ==
  /\ Building /\ pushed = <<>>
  /\ \E op \in OpCodes, name \in Script[round][1] :
       \/ ClientPush(<<IntItem(2, op), StrItem(name)>>)
       \/ ClientPush(<<IntItem(2, op), OtherItem, StrItem(name)>>)

(* A string alone; after a failed push the client does not go on. *)
PushString ==
  /\ Building /\ pushed # <<>> /\ last.ret = "true"
  /\ Tried < Len(Script[round])
  /\ \E s \in Script[round][Tried + 1] : ClientPush(<<StrItem(s)>>)

ToggleFlag ==
  /\ Building /\ toggles < MaxToggles /\ last.ret = "true"
  /\ \/ client' = set_zeroend(client, ~client.zeroend)
     \/ pushed = <<>> /\ client' = set_bigendian(client, ~client.bigendian)
  /\ toggles' = toggles + 1
  /\ last' = NoPush
  /\ UNCHANGED <<optVars, round, pushed, packet, oack>>

(* recvfrom() puts the packet at the front of pkt_buf and leaves the rest   *)
(* as it was; a packet below the minimal size is logged and dropped. The    *)
(* client clears its buffer for the next request.                           *)
Receive ==
  /\ Building /\ pushed # <<>>
  /\ packet' = DataOf(client)
  /\ pkt_buf' = Overwrite(pkt_buf, 0, DataOf(client))
  /\ buf_size' = client.data_size
  /\ curr_pos' = 0
  /\ opt' = NoOptions
  /\ stage' = IF client.data_size >= MinSize THEN "type" ELSE "waiting"
  /\ client' = clear(client)
  /\ pushed' = <<>> /\ last' = NoPush /\ round' = round + 1
  /\ UNCHANGED <<toggles, oack>>

(* std::to_string() of a number that is not negative *)
to_string(n) ==
  LET size == CHOOSE k \in 1 .. n + 1 :
                n < Radix^k /\ (k = 1 \/ Radix^(k - 1) <= n)
  IN  [i \in 1 .. size |-> DigitOctets[((n \div Radix^(size - i)) % Radix) + 1]]

(* Mutant of construct_opt_reply: the reply names every option, set or not. *)
construct_opt_reply_all(buf) ==
  LET type == push_data(clear(buf), <<IntItem(2, 6)>>).obj
      add(b, k) ==
        LET named == push_data(b, <<StrItem(OptionName[k])>>).obj
        IN  push_data(named, <<StrItem(to_string(opt.value[k]))>>).obj
      reply == FoldLeft(add, type, OptionOrder)
  IN  IF reply.data_size < 4 THEN clear(reply) ELSE reply

(* The packet type 6, then a name and a value for each option that was set; *)
(* a reply without any option is no reply.                                  *)
construct_opt_reply(buf) ==
  LET type == push_data(clear(buf), <<IntItem(2, 6)>>).obj
      add(b, k) ==
        IF k \notin opt.was_set THEN b
        ELSE LET named == push_data(b, <<StrItem(OptionName[k])>>).obj
             IN  push_data(named, <<StrItem(to_string(opt.value[k]))>>).obj
      reply == FoldLeft(add, type, OptionOrder)
  IN  IF reply.data_size < 4 THEN clear(reply) ELSE reply

(* Session::block_size(): the int is cut to 16 bits. *)
block_size == opt.value["blksize"] % BlkMod

(* The session of an accepted request starts with the reply, if an option  *)
(* was set.                                                                *)
Reply ==
  /\ stage = "accepted"
  /\ oack' = IF opt.was_set # {} THEN construct_opt_reply(NewSmBufEx(LocalBufSize))
             ELSE NewSmBufEx(LocalBufSize)
  /\ stage' = "replied"
  /\ UNCHANGED <<clientVars, packet, pkt_buf, buf_size, curr_pos, opt>>

(* The listener is done with the packet and waits for the next one; the     *)
(* session is followed no further here. After an exception, which nothing   *)
(* catches, the listener does not come back.                                *)
Await ==
  /\ stage \in {"refused", "replied"}
  /\ stage' = "waiting"
  /\ packet' = <<>> /\ oack' = NewSmBufEx(LocalBufSize)
  /\ buf_size' = 0 /\ curr_pos' = 0 /\ opt' = NoOptions
  /\ UNCHANGED <<clientVars, pkt_buf>>

Next ==
  \/ PushHeader \/ PushString \/ ToggleFlag \/ Receive
  \/ buffer_parse /\ UNCHANGED <<clientVars, packet, oack>>
  \/ Reply \/ Await

Spec == Init /\ [][Next]_vars

----------------------------------------------------------------------------
(***************************************************************************)
(* What a request means, said of the packet as a whole: after the packet   *)
(* type come fields that end with a zero octet, or with the packet.        *)
(***************************************************************************)

FieldEnds(p) ==
  {i \in 3 .. Len(p) : p[i] = 0}
    \cup (IF Len(p) > 2 /\ p[Len(p)] # 0 THEN {Len(p) + 1} ELSE {})

Fields(p) ==
  LET ends == SetToSortSeq(FieldEnds(p), <)
  IN  [k \in DOMAIN ends |->
         SubSeq(p, (IF k = 1 THEN 2 ELSE ends[k - 1]) + 1, ends[k] - 1)]

(* The pairs of a name and a value that follow filename and mode. *)
Pairs(p, skip) ==
  LET f == Fields(p)
  IN  [k \in 1 .. (Len(f) - skip) \div 2 |->
         <<f[skip + 2 * k - 1], f[skip + 2 * k]>>]

(* A packet that stops with the zero end of its filename. *)
EndsWithFilename(p) == Len(Fields(p)) = 1 /\ p[Len(p)] = 0

TooLarge(p) ==
  \E k \in DOMAIN Pairs(p, 2) :
    is_digit_str(Pairs(p, 2)[k][2]) /\ stoi_throws(Pairs(p, 2)[k][2])

(* What becomes of the packet. *)
Verdict(p) ==
  LET f == Fields(p)
  IN  IF Number(SubSeq(p, 1, 2)) \notin Requests \/ f = <<>> \/ f[1] = <<>>
      THEN "refused"
      ELSE IF Len(f) = 1 THEN "thrown"
      ELSE IF f[2] = <<>> THEN "refused"
      ELSE IF TooLarge(p) THEN "thrown"
      ELSE "accepted"

(* The places of the pairs that give option k a number. *)
Given(p, k) ==
  {i \in DOMAIN Pairs(p, 2) :
     do_lower(Pairs(p, 2)[i][1]) = OptionName[k] /\ is_digit_str(Pairs(p, 2)[i][2])}

(* The options of an accepted packet: the last number given counts. *)
Meaning(p) ==
  [request_type |-> Number(SubSeq(p, 1, 2)),
   filename |-> Fields(p)[1],
   transfer_mode |-> ModeOf(Fields(p)[2]),
   was_set |-> {k \in OptionKeys : Given(p, k) # {}},
   value |-> [k \in OptionKeys |->
                IF Given(p, k) = {} THEN Default[k]
                ELSE stoi(Pairs(p, 2)[Max(Given(p, k))][2])]]

(* The buffers keep their size, and the data that push_data() counts stays  *)
(* inside them (SmBuf, SmBufEx, Options).                                   *)
HandshakeTypeOK ==
  /\ pkt_buf \in [1 .. PktBufSize -> Octet]
  /\ Len(client.buf) \in ClientSizes /\ client.data_size \in 0 .. Len(client.buf)
  /\ ToSet(client.buf) \subseteq Octet
  /\ Len(oack.buf) = LocalBufSize /\ oack.data_size \in 0 .. LocalBufSize
  /\ buf_size \in 0 .. PktBufSize /\ curr_pos \in Nat
  /\ stage \in {"waiting", "type", "filename", "mode", "options", "replied"} \cup Parsed
  /\ opt.was_set \subseteq OptionKeys /\ opt.value \in [OptionKeys -> 0 .. IntMax]

(* Every item push_data() reported as pushed can be read back where it was  *)
(* written, with the byte order and the zero end that were set then, no     *)
(* matter what was pushed, refused or thrown out after it, and the items    *)
(* lie one behind the other up to data_size() (SmBufEx::push_item).         *)
PushedReadsBack ==
  LET Size(e) == Taken([client EXCEPT !.zeroend = e.zeroend], e.item)
      ReadsBack(e) ==
        IF e.item.kind = "str"
        THEN eqv_string(client.buf, e.at, e.item.str, e.zeroend)
        ELSE (IF e.bigendian THEN get_be(client.buf, e.at, e.item.t_size)
                             ELSE get_le(client.buf, e.at, e.item.t_size)) = e.item.val
  IN  /\ \A i \in DOMAIN pushed :
           /\ ReadsBack(pushed[i])
           /\ pushed[i].at + Size(pushed[i]) =
                IF i = Len(pushed) THEN client.data_size ELSE pushed[i + 1].at
      /\ pushed = <<>> => client.data_size = 0

(* push_data() returns true when all its items are integers or strings and  *)
(* fit into the buffer with their zero ends, and false in any other case.   *)
(* Two cases are left out, in which set_string() throws although push_data()*)
(* promises a result: the zero end of the last string alone does not fit,   *)
(* or an empty string without one is pushed behind a full buffer.           *)
PushTellsFit ==
  LET known == SelectSeq(last.items, LAMBDA it : it.kind # "other")
      need == FoldLeft(LAMBDA n, it : n + Taken(client, it), 0, known)
      endOver == client.zeroend /\ need = last.room + 1
      emptyAtEnd == need = last.room /\ \E it \in ToSet(known) : Taken(client, it) = 0
  IN  ~endOver /\ ~emptyAtEnd =>
        last.ret = IF known = last.items /\ need <= last.room THEN "true" ELSE "false"

(* The verdict of buffer_parse() on a packet is the one the packet as a     *)
(* whole deserves, whatever an earlier packet left behind it in pkt_buf:    *)
(* refused, accepted, or an exception, and the last exactly for a filename  *)
(* without its zero end and for a number beyond int. The one packet whose   *)
(* verdict hangs on the rest of the buffer ends with its filename.          *)
VerdictOfPacket ==
  stage \in Parsed /\ ~EndsWithFilename(packet) => stage = Verdict(packet)

(* What buffer_parse() made of an accepted packet is what the packet says:  *)
(* names in any case, the last number of several, no value from a pair that *)
(* is cut off, and nothing from the octets behind the packet but the mode   *)
(* of a packet that ends with its filename.                                 *)
ParsedAsMeant ==
  stage = "accepted" =>
    IF EndsWithFilename(packet)
    THEN [opt EXCEPT !.transfer_mode = "unknown"] =
           [NoOptions EXCEPT !.request_type = Number(SubSeq(packet, 1, 2)),
                             !.filename = Fields(packet)[1]]
    ELSE opt = Meaning(packet)

(* End to end: the reply names each option the request gave a number, once, *)
(* with that number, and no other; without any there is no reply. And a     *)
(* block size that fits in 16 bits is the one the session works with.       *)
OackEchoesRequest ==
  stage = "replied" =>
    LET reply == DataOf(oack)
        asked == IF EndsWithFilename(packet) THEN NoOptions ELSE Meaning(packet)
    IN  /\ IF asked.was_set = {} THEN reply = <<>>
           ELSE /\ Number(SubSeq(reply, 1, 2)) = 6
                /\ Len(Pairs(reply, 0)) = Cardinality(asked.was_set)
                /\ {<<pr[1], stoi(pr[2])>> : pr \in ToSet(Pairs(reply, 0))} =
                     {<<OptionName[k], asked.value[k]>> : k \in asked.was_set}
        /\ asked.value["blksize"] < BlkMod => block_size = asked.value["blksize"]
=============================================================================
