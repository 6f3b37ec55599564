------------------------------ MODULE Settings ------------------------------
(***************************************************************************)
(* The settings of the server and the command line they come from:         *)
(* Settings (source/tftpSettings.cpp). A command line is a sequence of     *)
(* arguments [name, arg] as getopt_long() hands them out, in their order;  *)
(* what it does not know, or what lacks its argument, comes as "?". The    *)
(* long names stand for themselves, a short one for its letter.            *)
(*                                                                         *)
(* The argument of a number is <<"num", n>>, or <<"text", t>> when the     *)
(* conversion throws. For --file-chmod n is the value of its octal digits. *)
(***************************************************************************)
EXTENDS Addr, FiniteSetsExt

CONSTANTS
  U16,            (* number of values of uint16_t, 2^16 in the code         *)
  DfltRetransmit, (* constants::default_retransmit_count, 3 in the code     *)
  DfltDialect,    (* constants::default_fb_dialect, 3 in the code           *)
  DfltSyslog,     (* constants::default_tftp_syslog_lvl, 6 in the code      *)
  DfltChmod       (* constants::default_file_chmod, 0664 in the code        *)

ASSUME SettingsAssumption ==
  /\ U16 \in Nat \ {0}
  /\ DfltRetransmit \in 0 .. U16 - 1 /\ DfltDialect \in 0 .. U16 - 1
  /\ DfltSyslog \in 0 .. 7

(* The options whose argument is copied as it is. *)
TextNames == {"lib-dir", "lib-name", "root-dir", "fb-db", "fb-user", "fb-pass",
              "fb-role", "file-chuser", "file-chgrp"}
ListenNames == {"l", "listen", "ip"}
SyslogNames == {"s", "S", "syslog"}
HelpNames == {"h", "help", "?"}

(* Settings(): IPv4, any address, the default port. *)
NewSettings ==
  [is_daemon |-> FALSE,
   local_base |-> set_port_u16(set_family(NewAddr, "inet"), DfltPort),
   text |-> [n \in TextNames |-> IF n = "lib-name" THEN "libfbclient.so" ELSE ""],
   backup_dirs |-> <<>>,
   dialect |-> DfltDialect,
   use_syslog |-> DfltSyslog,
   retransmit_count |-> DfltRetransmit,
   file_chmod |-> DfltChmod]

IsNum(arg) == arg[1] = "num"

(* The one conversion without a handler. *)
load_option_throws(a) == a.name = "file-chmod" /\ ~IsNum(a.arg)

(* Mutant of load_option: --search replaces the directories before it. *)
load_option_one_dir(s, a) ==
  CASE a.name \in ListenNames -> [s EXCEPT !.local_base = set_string(@, a.arg).addr]
    [] a.name \in SyslogNames /\ IsNum(a.arg) -> [s EXCEPT !.use_syslog = a.arg[2] % 8]
    [] a.name \in TextNames -> [s EXCEPT !.text[a.name] = a.arg[2]]
    [] a.name = "search" -> [s EXCEPT !.backup_dirs = <<a.arg[2]>>]
    [] a.name = "fb-dialect" /\ IsNum(a.arg) -> [s EXCEPT !.dialect = a.arg[2] % U16]
    [] a.name = "daemon" -> [s EXCEPT !.is_daemon = TRUE]
    [] a.name = "retransmit" /\ IsNum(a.arg) ->
         [s EXCEPT !.retransmit_count = a.arg[2] % U16]
    [] a.name = "file-chmod" -> [s EXCEPT !.file_chmod = a.arg[2]]
    [] OTHER -> s

(* One turn of the loop over the command line. A number that does not       *)
(* convert leaves the field alone; -L is taken with its argument and then   *)
(* ignored; LOG_PRI() keeps the lowest three bits of a level.               *)
load_option(s, a) ==
  CASE a.name \in ListenNames -> [s EXCEPT !.local_base = set_string(@, a.arg).addr]
    [] a.name \in SyslogNames /\ IsNum(a.arg) -> [s EXCEPT !.use_syslog = a.arg[2] % 8]
    [] a.name \in TextNames -> [s EXCEPT !.text[a.name] = a.arg[2]]
    [] a.name = "search" -> [s EXCEPT !.backup_dirs = Append(@, a.arg[2])]
    [] a.name = "fb-dialect" /\ IsNum(a.arg) -> [s EXCEPT !.dialect = a.arg[2] % U16]
    [] a.name = "daemon" -> [s EXCEPT !.is_daemon = TRUE]
    [] a.name = "retransmit" /\ IsNum(a.arg) ->
         [s EXCEPT !.retransmit_count = a.arg[2] % U16]
    [] a.name = "file-chmod" -> [s EXCEPT !.file_chmod = a.arg[2]]
    [] OTHER -> s

(* What load_options() returns: help was asked for, or is needed. *)
load_option_ret(ret, a) == ret /\ a.name \notin HelpNames

(* The settings a new load_options() starts from. *)
load_options_begin(s) == [s EXCEPT !.backup_dirs = <<>>]

-----------------------------------------------------------------------------
(***************************************************************************)
(* What a command line means, said of the line as a whole.                 *)
(***************************************************************************)

(* Where the options of these names stand that Good() accepts. *)
Places(line, names, Good(_)) ==
  {i \in DOMAIN line : line[i].name \in names /\ Good(line[i].arg)}

(* The value of the last of them, or the default. *)
LastOf(places, Value(_), dflt) == IF places = {} THEN dflt ELSE Value(Max(places))

(* The numbers: the last one that converts. *)
LastNum(line, names, mod, dflt) ==
  LastOf(Places(line, names, IsNum), LAMBDA i : line[i].arg[2] % mod, dflt)

(* The address: the family of the last text that looks like an address or a *)
(* port, the last port, and for each family the last address that is one.   *)
Listened(line) ==
  LET At(i) == Match(line[i].arg)
      With(Good(_)) == Places(line, ListenNames, Good)
      family == LastOf(With(LAMBDA t : Match(t) # NoMatch),
                       LAMBDA i : At(i).family, "inet")
  IN  [family |-> family,
       data_size |-> SockSize(family),
       port |-> LastOf(With(LAMBDA t : Match(t).port # <<>>),
                       LAMBDA i : At(i).port[1][2] % PortMod, DfltPort),
       in |-> LastOf(With(LAMBDA t : Match(t).family = "inet" /\ Match(t).addr # <<>>
                                       /\ Match(t).addr[1] \in DOMAIN V4Text),
                     LAMBDA i : V4Text[At(i).addr[1]], AnyAddr),
       in6 |-> LastOf(With(LAMBDA t : Match(t).family = "inet6"
                                        /\ Match(t).addr \in DOMAIN V6Text),
                      LAMBDA i : V6Text[At(i).addr], AnyAddr)]

(* The k-th of the places, in their order. *)
Nth(places, k) ==
  LET at == {i \in places : Cardinality({j \in places : j <= i}) = k}
  IN  CHOOSE i \in at : TRUE

SettingsOf(line) ==
  LET AsItIs(arg) == TRUE
      dirs == Places(line, {"search"}, AsItIs)
  IN  [is_daemon |-> Places(line, {"daemon"}, AsItIs) # {},
       local_base |-> Listened(line),
       text |-> [n \in TextNames |->
                   LastOf(Places(line, {n}, AsItIs), LAMBDA i : line[i].arg[2],
                          NewSettings.text[n])],
       backup_dirs |-> [k \in 1 .. Cardinality(dirs) |-> line[Nth(dirs, k)].arg[2]],
       dialect |-> LastNum(line, {"fb-dialect"}, U16, DfltDialect),
       use_syslog |-> LastNum(line, SyslogNames, 8, DfltSyslog),
       retransmit_count |-> LastNum(line, {"retransmit"}, U16, DfltRetransmit),
       file_chmod |-> LastOf(Places(line, {"file-chmod"}, IsNum),
                             LAMBDA i : line[i].arg[2], DfltChmod)]
=============================================================================
