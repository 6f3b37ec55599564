------------------------------ MODULE SmBufEx ------------------------------
(***************************************************************************)
(* The buffer that packets are built in, SmBufEx (source/tftpSmBufEx.h,    *)
(* source/tftpSmBufEx.cpp): an SmBuf with the size of the data pushed so   *)
(* far and two flags, the byte order of integers and the zero end of       *)
(* strings. An object is a record; a call maps it to the object after the  *)
(* call and, for a push, the outcome: "true", "false" or "throws".         *)
(*                                                                         *)
(* What is pushed is an item: an integer of t_size octets or a string. A   *)
(* value of any other type is refused at once ("other").                   *)
(***************************************************************************)
EXTENDS SmBuf

IntItem(t_size, val) == [kind |-> "int", t_size |-> t_size, val |-> val]
StrItem(str) == [kind |-> "str", str |-> str]
OtherItem == [kind |-> "other"]

NewSmBufEx(buf_size) ==
  [buf |-> [i \in 1 .. buf_size |-> 0], data_size |-> 0,
   bigendian |-> TRUE, zeroend |-> TRUE]

clear(x) == [x EXCEPT !.data_size = 0]

set_bigendian(x, flag) == [x EXCEPT !.bigendian = flag]

set_zeroend(x, flag) == [x EXCEPT !.zeroend = flag]

(* Mutant of Asked: the zero end is asked for whether it is written or not. *)
Asked_zeroend(it) ==
  CASE it.kind = "int" -> it.t_size
    [] it.kind = "str" -> Len(it.str) + 1

(* The space push_item() asks for before it writes: for a string its octets *)
(* without the zero end that set_string() will add.                         *)
Asked(it) ==
  CASE it.kind = "int" -> it.t_size
    [] it.kind = "str" -> Len(it.str)

(* How many octets the item takes when it is written. *)
Taken(x, it) ==
  CASE it.kind = "int" -> it.t_size
    [] it.kind = "str" -> Len(StringOctets(it.str, x.zeroend))

(* Mutant of Written: integers ignore the byte order flag. *)
Written_bigendian(x, it) ==
  IF it.kind = "str" THEN set_string(x.buf, x.data_size, it.str, x.zeroend)
  ELSE set_be(x.buf, x.data_size, it.t_size, it.val)

(* The buffer with the item written at data_size_. *)
Written(x, it) ==
  IF it.kind = "str" THEN set_string(x.buf, x.data_size, it.str, x.zeroend)
  ELSE IF x.bigendian THEN set_be(x.buf, x.data_size, it.t_size, it.val)
  ELSE set_le(x.buf, x.data_size, it.t_size, it.val)

(* Mutant of push_item_outcome: set_string() without its check_offset(). *)
push_item_outcome_unchecked(x, it) ==
  IF it.kind = "other" \/ x.data_size + Asked(it) > Len(x.buf) THEN "false"
  ELSE "true"

push_item_outcome(x, it) ==
  IF it.kind = "other" \/ x.data_size + Asked(it) > Len(x.buf) THEN "false"
  ELSE IF check_offset_throws(x.buf, x.data_size, Taken(x, it)) THEN "throws"
  ELSE "true"

push_item(x, it) ==
  IF push_item_outcome(x, it) = "true"
  THEN [x EXCEPT !.buf = Written(x, it), !.data_size = @ + Taken(x, it)]
  ELSE x

(* push_data() goes on after an item that was refused, and stops only at an *)
(* exception; it is "true" when every item was pushed.                      *)
push_data(x, items) ==
  LET push(r, it) ==
        LET outcome == push_item_outcome(r.obj, it)
        IN  CASE r.ret = "throws" -> r
              [] r.ret # "throws" ->
                   [obj |-> push_item(r.obj, it),
                    ret |-> IF outcome = "true" THEN r.ret ELSE outcome]
  IN  FoldLeft(push, [obj |-> x, ret |-> "true"], items)

(* The data pushed so far. *)
DataOf(x) == Slice(x.buf, 0, x.data_size)
=============================================================================
