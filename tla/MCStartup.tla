----------------------------- MODULE MCStartup -----------------------------
(***************************************************************************)
(* Startup for TLC: two IPv4 and five IPv6 addresses, of which one ends in *)
(* a hexadecimal group, one is another one followed by a decimal group and *)
(* one is an IPv4 address, which has a second text; all command lines of   *)
(* up to two arguments, some of three.                                     *)
(***************************************************************************)
EXTENDS Startup

LinkLocal == <<Hex("fe80"), Colon, Colon>>

Mapped == <<Colon, Colon, Hex("ffff"), Colon>>
MappedHex == Mapped \o <<Dec(808), Colon, Dec(808)>>
MappedQuad == Mapped \o <<Quad("8.8.8.8")>>

MCV4 == [q \in {Quad("0.0.0.0"), Quad("8.8.8.8")} |->
           IF q = Quad("8.8.8.8") THEN "a4" ELSE AnyAddr]
MCV6Texts == {<<Colon, Colon>>, LinkLocal \o <<Dec(1)>>, LinkLocal \o <<Hex("20d4")>>,
              LinkLocal \o <<Dec(1), Colon, Dec(4)>>, MappedHex, MappedQuad}
MCV6 == [t \in MCV6Texts |->
           CASE t = <<Colon, Colon>> -> AnyAddr
             [] t = LinkLocal \o <<Dec(1)>> -> "a6"
             [] t = LinkLocal \o <<Hex("20d4")>> -> "b6"
             [] t \in {MappedHex, MappedQuad} -> "m6"
             [] OTHER -> "c6"]

Arg(name, arg) == [name |-> name, arg |-> arg]
Num(n) == <<"num", n>>
Text(t) == <<"text", t>>

ListenArgs ==
  {Arg("l", t) : t \in {<<Quad("8.8.8.8")>>, <<Quad("8.8.8.8"), Colon, Dec(4)>>,
                        <<Colon, Dec(9)>>, <<Quad("300.0.0.1")>>, <<Hex("x"), Open>>,
                        <<Open>> \o LinkLocal \o <<Dec(1), Close, Colon, Dec(4)>>,
                        LinkLocal \o <<Hex("20d4")>>, LinkLocal \o <<Dec(1)>>,
                        LinkLocal \o <<Dec(1), Colon, Dec(4)>>,
                        <<Open>> \o MappedHex \o <<Close>>}}
OtherArgs ==
  {Arg("s", Num(9)), Arg("S", Text("x")), Arg("L", <<Colon, Dec(4)>>),
   Arg("?", Text("")), Arg("daemon", Text("")), Arg("root-dir", Text("d1")),
   Arg("search", Text("d1")), Arg("search", Text("d2")),
   Arg("fb-dialect", Num(1)), Arg("retransmit", Num(9)), Arg("retransmit", Text("x")),
   Arg("file-chmod", Num(6)), Arg("file-chmod", Text("x"))}
Args == ListenArgs \cup OtherArgs

Daemon == <<Arg("daemon", Text(""))>>
MCEmbedded == {<<>>, <<Arg("?", Text(""))>>}
MCBusy == {<<>>, Daemon}
MCLines ==
  {<<>>} \cup {<<a>> : a \in Args} \cup {<<a, b>> : a \in Args, b \in Args}
    \cup {<<a, b, c>> : a \in ListenArgs, b \in ListenArgs, c \in ListenArgs}
AnyDescriptor == {0, 3}
=============================================================================
