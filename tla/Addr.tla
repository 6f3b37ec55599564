-------------------------------- MODULE Addr --------------------------------
(***************************************************************************)
(* The socket address Addr (source/tftpAddr.h, source/tftpAddr.cpp): the   *)
(* bytes of a sockaddr, of which family and port have the same place for   *)
(* IPv4 and IPv6 and the addresses have not, with the size that is in use. *)
(*                                                                         *)
(* A text is a sequence of lexemes: a dotted quad, a group of up to five   *)
(* decimal digits, any other group of hexadecimal digits, a colon, a       *)
(* bracket. No two groups are neighbours. inet_pton() and inet_ntop() are  *)
(* parameters: the texts that are addresses, with the address each one     *)
(* stands for.                                                             *)
(***************************************************************************)
EXTENDS Integers, Sequences, Functions

CONSTANTS
  V4Text,    (* inet_pton(AF_INET): a function from quads to addresses     *)
  V6Text,    (* inet_pton(AF_INET6): a function from texts to addresses    *)
  PortMod,   (* number of values of a port, 2^16 in the code               *)
  DfltPort   (* constants::default_tftp_port, 69 in the code               *)

AnyAddr == "any"   (* the address of zeros: 0.0.0.0 and ::                 *)

(* What the expressions take for a port: the numbers of five digits. *)
PortNumbers == {n \in Nat : n < 100000}

Quad(q) == <<"quad", q>>
Dec(n) == <<"dec", n>>
Hex(h) == <<"hex", h>>
Colon == <<"sep", "colon">>
Open == <<"sep", "open">>
Close == <<"sep", "close">>

IsQuad(l) == l[1] = "quad"
IsDec(l) == l[1] = "dec"
IsHexOrColon(l) == l[1] \in {"dec", "hex"} \/ l = Colon

(* inet_pton() reads for IPv4 a quad, and for IPv6 groups with colons       *)
(* between them, two at the beginning when there is no group, and perhaps a *)
(* quad in the place of the last two groups. inet_ntop() writes one of the  *)
(* texts that inet_pton() reads.                                            *)
ASSUME TextAssumption ==
  /\ \E q \in DOMAIN V4Text : V4Text[q] = AnyAddr
  /\ \E t \in DOMAIN V6Text : V6Text[t] = AnyAddr
  /\ \A q \in DOMAIN V4Text : IsQuad(q)
  /\ \A t \in DOMAIN V6Text :
       /\ t \in Seq(Range(t)) /\ Len(t) >= 2
       /\ \A i \in 1 .. Len(t) : IsHexOrColon(t[i]) \/ (IsQuad(t[i]) /\ i > 1)
       /\ \A i \in 2 .. Len(t) : t[i - 1] = Colon \/ t[i] = Colon
       /\ t[1] = Colon => t[2] = Colon
  /\ PortMod \in Nat \ {0} /\ DfltPort \in 0 .. PortMod - 1

inet_ntop4(a) == CHOOSE q \in DOMAIN V4Text : V4Text[q] = a
inet_ntop6(a) == CHOOSE t \in DOMAIN V6Text : V6Text[t] = a

(* sizeof(sockaddr_in), sizeof(sockaddr_in6); 0 for any other family *)
SockSize(family) ==
  CASE family = "inet" -> 16 [] family = "inet6" -> 28 [] family = "none" -> 0

(* Addr(), clear(): zeros. in is sin_addr, in6 is sin6_addr; they do not    *)
(* overlap.                                                                 *)
NewAddr ==
  [family |-> "none", port |-> 0, in |-> AnyAddr, in6 |-> AnyAddr, data_size |-> 0]

set_family(a, new_family) ==
  [a EXCEPT !.family = new_family, !.data_size = SockSize(new_family)]

set_port_u16(a, new_port) == [a EXCEPT !.port = new_port % PortMod]

(* A text of digits always converts; it is cut to 16 bits. *)
set_port_str(a, text) ==
  IF text = <<>> THEN a ELSE set_port_u16(a, text[1][2])

(* inet_pton() of the family that is set; a text that is no address leaves  *)
(* the bytes of the address as they were, not the size.                     *)
set_addr_str_ok(a, text) ==
  \/ a.family = "inet" /\ Len(text) = 1 /\ text[1] \in DOMAIN V4Text
  \/ a.family = "inet6" /\ text \in DOMAIN V6Text

set_addr_str(a, text) ==
  LET sized == [a EXCEPT !.data_size = SockSize(a.family)]
  IN  IF ~set_addr_str_ok(a, text) THEN sized
      ELSE IF a.family = "inet" THEN [sized EXCEPT !.in = V4Text[text[1]]]
      ELSE [sized EXCEPT !.in6 = V6Text[text]]

(* What the regular expressions find in a text: the family they stand for,  *)
(* the text of the address and the text of the port, empty when missing.    *)
NoMatch == [family |-> "none", addr |-> <<>>, port |-> <<>>]

(* A quad; a quad, a colon and perhaps a port; a colon and a port. *)
re4(s) ==
  LET n == Len(s)
  IN  IF n \in 1 .. 3 /\ IsQuad(s[1]) /\ (n > 1 => s[2] = Colon) /\ (n > 2 => IsDec(s[3]))
      THEN [family |-> "inet", addr |-> <<s[1]>>, port |-> SubSeq(s, 3, n)]
      ELSE IF n = 2 /\ s[1] = Colon /\ IsDec(s[2])
      THEN [family |-> "inet", addr |-> <<>>, port |-> <<s[2]>>]
      ELSE NoMatch

(* The text between a bracket at its beginning and one at its end, each of  *)
(* which may be missing.                                                    *)
Unbracketed(s) ==
  LET first == IF s # <<>> /\ s[1] = Open THEN 2 ELSE 1
      last == IF s # <<>> /\ s[Len(s)] = Close THEN Len(s) - 1 ELSE Len(s)
  IN  SubSeq(s, first, last)

Is6(s) == \A i \in DOMAIN Unbracketed(s) : IsHexOrColon(Unbracketed(s)[i])

(* The first alternative wins: a text that ends with a colon and decimal    *)
(* digits ends with a port.                                                 *)
re6(s) ==
  LET n == Len(s)
      front == SubSeq(s, 1, n - 2)
  IN  IF n >= 2 /\ s[n - 1] = Colon /\ IsDec(s[n]) /\ Is6(front)
      THEN [family |-> "inet6", addr |-> Unbracketed(front), port |-> <<s[n]>>]
      ELSE IF Is6(s) THEN [family |-> "inet6", addr |-> Unbracketed(s), port |-> <<>>]
      ELSE NoMatch

(* What set_string() finds: the expression of IPv4 goes first.              *)
Match(s) == IF re4(s) # NoMatch THEN re4(s) ELSE re6(s)

(* Mutant of set_string: the family is set only with a good address.        *)
set_string_late(a, s) ==
  LET m == Match(s)
      withFamily == set_family(a, m.family)
  IN  IF m = NoMatch THEN [addr |-> a, is_set_addr |-> FALSE, is_set_port |-> FALSE]
      ELSE IF ~set_addr_str_ok(withFamily, m.addr)
      THEN [addr |-> set_port_str(a, m.port), is_set_addr |-> FALSE,
            is_set_port |-> m.port # <<>>]
      ELSE [addr |-> set_addr_str(set_port_str(withFamily, m.port), m.addr),
            is_set_addr |-> TRUE, is_set_port |-> m.port # <<>>]

(* set_string(): the new address, and the two results. *)
set_string(a, s) ==
  LET m == Match(s)
      withPort == set_port_str(set_family(a, m.family), m.port)
  IN  IF m = NoMatch THEN [addr |-> a, is_set_addr |-> FALSE, is_set_port |-> FALSE]
      ELSE [addr |-> IF m.addr = <<>> THEN withPort ELSE set_addr_str(withPort, m.addr),
            is_set_addr |-> m.addr # <<>> /\ set_addr_str_ok(withPort, m.addr),
            is_set_port |-> m.port # <<>>]

(* An IPv6 address and its port. *)
WithPort(t, p) == <<Open>> \o t \o <<Close, Colon, Dec(p)>>

str(a) ==
  CASE a.family = "inet" -> <<inet_ntop4(a.in), Colon, Dec(a.port)>>
    [] a.family = "inet6" -> WithPort(inet_ntop6(a.in6), a.port)
    [] a.family = "none" -> <<Hex("unknown")>>

-----------------------------------------------------------------------------
(***************************************************************************)
(* The formats of an address: the text, what it says, and whether it is an *)
(* IPv6 address without brackets.                                          *)
(***************************************************************************)
Format(text, family, addr, port, bare) ==
  [text |-> text, family |-> family, addr |-> addr, port |-> port, bare |-> bare]

Bracketed(t) == <<Open>> \o t \o <<Close>>

PlainFormats ==
  {Format(<<q>>, "inet", {V4Text[q]}, {}, FALSE) : q \in DOMAIN V4Text}
  \cup {Format(t, "inet6", {V6Text[t]}, {}, TRUE) : t \in DOMAIN V6Text}
  \cup {Format(Bracketed(t), "inet6", {V6Text[t]}, {}, FALSE) : t \in DOMAIN V6Text}

PortFormats(p) ==
  {Format(<<q, Colon, Dec(p)>>, "inet", {V4Text[q]}, {p}, FALSE) : q \in DOMAIN V4Text}
  \cup {Format(<<Colon, Dec(p)>>, "inet", {}, {p}, FALSE)}
  \cup {Format(WithPort(t, p), "inet6", {V6Text[t]}, {p}, FALSE) : t \in DOMAIN V6Text}

Formats(ports) == PlainFormats \cup UNION {PortFormats(p) : p \in ports}

(* The address in use. *)
InUse(a) == IF a.family = "inet" THEN a.in ELSE a.in6

(* The text of an IPv6 address that ends with a quad. *)
Mixed(t) == \E i \in DOMAIN t : IsQuad(t[i])

(* set_string() takes the text for what it says: it reports and changes     *)
(* what the text names and leaves the rest, whatever the address was. Left  *)
(* out are an IPv6 address with a quad in it, which is refused, and a bare  *)
(* IPv6 address whose last group is decimal, which is taken for a port      *)
(* although the comment of set_string() gives fe80::1 as an address only.   *)
Understands(a, f) ==
  LET r == set_string(a, f.text)
  IN  ~(f.family = "inet6" /\ Mixed(f.text)) /\ ~(f.bare /\ IsDec(f.text[Len(f.text)]))
      => /\ r.is_set_addr = (f.addr # {}) /\ r.is_set_port = (f.port # {})
         /\ r.addr.family = f.family /\ r.addr.data_size = SockSize(f.family)
         /\ r.addr.port \in IF f.port = {} THEN {a.port} ELSE {p % PortMod : p \in f.port}
         /\ f.addr # {} => InUse(r.addr) \in f.addr
         /\ f.addr = {} => r.addr.in = a.in
         /\ f.family = "inet" => r.addr.in6 = a.in6
         /\ f.family = "inet6" => r.addr.in = a.in

(* str() writes a text that set_string() reads back, unless inet_ntop()     *)
(* writes a quad into an IPv6 address.                                      *)
RoundTrip(a) ==
  LET r == set_string(NewAddr, str(a))
  IN  a.family = "inet" \/ ~Mixed(inet_ntop6(a.in6)) =>
        /\ r.is_set_addr /\ r.is_set_port
        /\ r.addr.family = a.family /\ r.addr.port = a.port
        /\ r.addr.data_size = a.data_size /\ InUse(r.addr) = InUse(a)
=============================================================================
