------------------------------ MODULE Options ------------------------------
(***************************************************************************)
(* The parser of a request, Options::buffer_parse()                        *)
(* (source/tftpOptions.cpp), as the listener calls it: the packet lies at  *)
(* the front of pkt_buf, the one buffer Srv::main_loop() receives every    *)
(* packet into, and what an earlier, longer packet left behind it is still *)
(* there. One action per part of a request: type, filename, mode, and each *)
(* name and value pair of the options.                                     *)
(*                                                                         *)
(* Octets are numbers, strings are sequences of octets. The alphabet is a  *)
(* parameter: what the letters are does not matter, only which strings are *)
(* names of options and of modes, which letters are upper case and which   *)
(* octets are digits.                                                      *)
(***************************************************************************)
EXTENDS SmBufEx

CONSTANTS
  Lower,        (* tolower() of the alphabet: a function on Octet          *)
  DigitOctets,  (* the octets that are digits, in ascending order          *)
  OptionName,   (* the name of each option of the protocol: a function     *)
  ModeName,     (* the name of each transfer mode: a function              *)
  Default,      (* the default value of each option: a function            *)
  IntMax        (* the largest int, 2^31 - 1 in the code                   *)

ASSUME AlphabetAssumption ==
  /\ Lower \in [Octet -> Octet] /\ Lower[0] = 0
  /\ IsInjective(DigitOctets) /\ ToSet(DigitOctets) \subseteq Octet \ {0}
  /\ IsInjective(OptionName) /\ IsInjective(ModeName)
  /\ DOMAIN Default = DOMAIN OptionName
  /\ IntMax \in Nat

VARIABLES
  pkt_buf,      (* the receive buffer of main_loop()                       *)
  buf_size,     (* octets of the packet that is being parsed               *)
  curr_pos,     (* where buffer_parse() stands in it                       *)
  opt,          (* the members of the Options object                       *)
  stage         (* the part of the request that is parsed next, or the end *)

optVars == <<pkt_buf, buf_size, curr_pos, opt, stage>>

OptionKeys == DOMAIN OptionName

(* Options{}: nothing was set. *)
NoOptions ==
  [request_type |-> 0, filename |-> <<>>, transfer_mode |-> "unknown",
   was_set |-> {}, value |-> Default]

Requests == {1, 2}     (* SrvReq::read and SrvReq::write *)

Parsed == {"accepted", "refused", "thrown"}

do_lower(s) == [i \in DOMAIN s |-> Lower[s[i]]]

is_digit_str(s) == s # <<>> /\ ToSet(s) \subseteq ToSet(DigitOctets)

(* std::stoi() on a string of digits: its number; beyond int it throws. *)
Radix == Len(DigitOctets)
DigitValue(o) == SelectInSeq(DigitOctets, LAMBDA d : d = o) - 1
stoi(s) == FoldLeft(LAMBDA n, o : n * Radix + DigitValue(o), 0, s)
stoi_throws(s) == stoi(s) > IntMax

(* buf_size-curr_pos, a size_t *)
Left(pos) == (buf_size - pos) % SizeMod

(* The string at pos, as buffer_parse() reads it everywhere. *)
StringAt(pos) == get_string(pkt_buf, pos, Left(pos))
StringAt_throws(pos) == get_string_throws(pkt_buf, pos, Left(pos))

ParseType ==
  /\ stage = "type"
  /\ LET rq_type == get_be(pkt_buf, 0, 2)
     IN  IF buf_size >= 2 /\ rq_type \in Requests
         THEN /\ opt' = [opt EXCEPT !.request_type = rq_type]
              /\ curr_pos' = 2
              /\ stage' = "filename"
         ELSE stage' = "refused" /\ UNCHANGED <<opt, curr_pos>>
  /\ UNCHANGED <<pkt_buf, buf_size>>

ParseFilename ==
  /\ stage = "filename"
  /\ IF StringAt_throws(curr_pos)
     THEN stage' = "thrown" /\ UNCHANGED <<opt, curr_pos>>
     ELSE LET name == StringAt(curr_pos)
          IN  /\ opt' = [opt EXCEPT !.filename = name]
              /\ IF name = <<>>
                 THEN stage' = "refused" /\ UNCHANGED curr_pos
                 ELSE /\ stage' = "mode"
                      /\ curr_pos' = curr_pos + Len(name) + 1
  /\ UNCHANGED <<pkt_buf, buf_size>>

(* An unknown mode is logged and accepted. *)
ModeOf(s) ==
  IF \E m \in DOMAIN ModeName : ModeName[m] = do_lower(s)
  THEN CHOOSE m \in DOMAIN ModeName : ModeName[m] = do_lower(s)
  ELSE "unknown"

(* Mutant of ParseMode: an unknown mode is refused. *)
ParseMode_strict ==
  /\ stage = "mode"
  /\ IF StringAt_throws(curr_pos)
     THEN stage' = "thrown" /\ UNCHANGED <<opt, curr_pos>>
     ELSE LET mode == StringAt(curr_pos)
          IN  IF ModeOf(mode) = "unknown"
              THEN stage' = "refused" /\ UNCHANGED <<opt, curr_pos>>
              ELSE /\ opt' = [opt EXCEPT !.transfer_mode = ModeOf(mode)]
                   /\ curr_pos' = curr_pos + Len(mode) + 1
                   /\ stage' = "options"
  /\ UNCHANGED <<pkt_buf, buf_size>>

ParseMode ==
  /\ stage = "mode"
  /\ IF StringAt_throws(curr_pos)
     THEN stage' = "thrown" /\ UNCHANGED <<opt, curr_pos>>
     ELSE LET mode == StringAt(curr_pos)
          IN  IF mode = <<>>
              THEN stage' = "refused" /\ UNCHANGED <<opt, curr_pos>>
              ELSE /\ opt' = [opt EXCEPT !.transfer_mode = ModeOf(mode)]
                   /\ curr_pos' = curr_pos + Len(mode) + 1
                   /\ stage' = "options"
  /\ UNCHANGED <<pkt_buf, buf_size>>

(* Mutant of SetOption: the first value of an option counts. *)
SetOption_first(o, name, val) ==
  LET named == {k \in OptionKeys \ o.was_set : OptionName[k] = do_lower(name)}
  IN  [o EXCEPT !.was_set = @ \cup named,
                !.value = [k \in OptionKeys |-> IF k \in named THEN val ELSE @[k]]]

(* The value of an option the protocol names is kept, any other is ignored. *)
SetOption(o, name, val) ==
  LET named == {k \in OptionKeys : OptionName[k] = do_lower(name)}
  IN  [o EXCEPT !.was_set = @ \cup named,
                !.value = [k \in OptionKeys |-> IF k \in named THEN val ELSE @[k]]]

(* One turn of the loop over the options: a name and its value. *)
ParseOption ==
  /\ stage = "options"
  /\ LET name == StringAt(curr_pos)
         val_pos == curr_pos + Len(name) + 1
         val == StringAt(val_pos)
     IN  IF curr_pos >= buf_size \/ val_pos >= buf_size
         THEN stage' = "accepted" /\ UNCHANGED <<opt, curr_pos>>
         ELSE /\ curr_pos' = val_pos + Len(val) + 1
              /\ CASE ~is_digit_str(val) -> UNCHANGED <<opt, stage>>
                   [] is_digit_str(val) /\ stoi_throws(val) ->
                        stage' = "thrown" /\ UNCHANGED opt
                   [] is_digit_str(val) /\ ~stoi_throws(val) ->
                        opt' = SetOption(opt, name, stoi(val)) /\ UNCHANGED stage
  /\ UNCHANGED <<pkt_buf, buf_size>>

buffer_parse == ParseType \/ ParseFilename \/ ParseMode \/ ParseOption
=============================================================================
