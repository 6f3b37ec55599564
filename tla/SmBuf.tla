------------------------------- MODULE SmBuf -------------------------------
(***************************************************************************)
(* The octet buffer SmBuf (source/tftpSmBuf.h, source/tftpSmBuf.cpp): a    *)
(* vector of octets with typed reads and writes at an offset. A buffer is  *)
(* the sequence of its octets; an offset counts from 0, as in the code.    *)
(*                                                                         *)
(* A method that can throw comes as two operators: its result, and a       *)
(* predicate ..._throws that says when there is none.                      *)
(***************************************************************************)
EXTENDS Integers, Sequences, SequencesExt

CONSTANTS
  OctetMod,   (* number of values of an octet, 2^8 in the code             *)
  SizeMod     (* number of values of a size_t, 2^64 in the code            *)

ASSUME ModAssumption ==
  /\ OctetMod \in Nat /\ OctetMod > 1
  /\ SizeMod \in Nat /\ SizeMod > 1

Octet == 0 .. OctetMod - 1

(* The octets of b from offset first up to, not including, offset last. *)
Slice(b, first, last) == SubSeq(b, first + 1, last)

(* b with the octets s written over it from the offset on. *)
Overwrite(b, offset, s) ==
  [i \in DOMAIN b |-> IF i - offset \in DOMAIN s THEN s[i - offset] ELSE b[i]]

(* std::find(begin, end, 0): what stands before the first zero octet. *)
UpToZero(s) ==
  LET zero == SelectInSeq(s, LAMBDA o : o = 0)
  IN  IF zero = 0 THEN s ELSE SubSeq(s, 1, zero - 1)

(* The sum of two size_t wraps around. *)
is_valid(b, offset, t_size) ==
  /\ offset < Len(b)
  /\ (offset + t_size) % SizeMod <= Len(b)

check_offset_throws(b, offset, t_size) == ~is_valid(b, offset, t_size)

(* The number written by the octets s, the most significant one first. *)
Number(s) == FoldLeft(LAMBDA n, o : n * OctetMod + o, 0, s)

(* val as t_size octets, the most significant one first. *)
BigEndian(val, t_size) ==
  [i \in 1 .. t_size |-> (val \div OctetMod^(t_size - i)) % OctetMod]

get_be(b, offset, t_size) == Number(Slice(b, offset, offset + t_size))

get_le(b, offset, t_size) ==
  Number(Reverse(Slice(b, offset, offset + t_size)))

set_be(b, offset, t_size, val) == Overwrite(b, offset, BigEndian(val, t_size))

set_le(b, offset, t_size, val) ==
  Overwrite(b, offset, Reverse(BigEndian(val, t_size)))

(* Besides a bad offset there is the end that the sum of two size_t has     *)
(* wrapped back in front of the beginning: a string of negative length.     *)
get_string_throws(b, offset, buf_len) ==
  \/ check_offset_throws(b, offset, buf_len)
  \/ buf_len > 0 /\ (offset + buf_len) % SizeMod < offset

(* buf_len = 0 stands for "to the end of the buffer". *)
get_string(b, offset, buf_len) ==
  UpToZero(Slice(b, offset, IF buf_len > 0 THEN offset + buf_len ELSE Len(b)))

(* What set_string() writes: a string with its zero end stops at its first  *)
(* zero octet, a string without it is written whole.                        *)
StringOctets(str, check_zero_end) ==
  IF check_zero_end THEN Append(UpToZero(str), 0) ELSE str

set_string(b, offset, str, check_zero_end) ==
  Overwrite(b, offset, StringOctets(str, check_zero_end))

eqv_string(b, offset, str, check_zero_end) ==
  LET last == offset + Len(str)
  IN  /\ is_valid(b, offset, Len(str) + IF check_zero_end THEN 1 ELSE 0)
      /\ Slice(b, offset, last) = str
      /\ check_zero_end => b[last + 1] = 0
=============================================================================
