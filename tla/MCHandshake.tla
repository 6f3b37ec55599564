---------------------------- MODULE MCHandshake ----------------------------
(***************************************************************************)
(* An alphabet of thirteen octets: letters 1 to 9 (5 is the upper case of  *)
(* 4), the digits 10, 11 and 12, and zero. The second request meets the    *)
(* octets the first one left in the listener's buffer.                     *)
(***************************************************************************)
EXTENDS Handshake

File == <<1, 1>>
Octets == <<2>>
Unknown == <<3>>
Blk == <<4>>
BlkUpper == <<5>>
Win == <<6>>
Small == <<11>>
Zero == <<10>>
Big == <<12, 11>>
Huge == <<12, 12, 12>>

MCLower == [o \in 0 .. 12 |-> IF o = 5 THEN 4 ELSE o]
MCDigits == <<10, 11, 12>>
MCOptionName ==
  [k \in {"blksize", "windowsize"} |-> IF k = "blksize" THEN Blk ELSE Win]
MCModeName == [m \in {"octet"} |-> Octets]
MCDefault == [k \in {"blksize", "windowsize"} |-> IF k = "blksize" THEN 2 ELSE 1]
MCOrder == <<"blksize", "windowsize">>

MCScript ==
  <<<<{File}, {Octets}, {Blk}, {Small}, {Win}, {Big}>>,
    <<{File, <<>>}, {Octets, Unknown, <<>>}, {Blk, BlkUpper, Unknown},
      {Small, Zero, Big, Huge, Unknown, <<>>}, {BlkUpper, Win}, {Small, Big}>>>>
=============================================================================
