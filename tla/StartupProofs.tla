--------------------------- MODULE StartupProofs ---------------------------
(***************************************************************************)
(* Proofs about Startup, for any command lines, any number of sessions and *)
(* any number of polls.                                                    *)
(***************************************************************************)
EXTENDS Startup, ServerProofs, SettingsProofs

(* The listener's part of a step of the program.                           *)
LEMMA StepIsServers == [StartupNext]_allVars => [Next]_vars
<1> SUFFICES ASSUME [StartupNext]_allVars PROVE [Next]_vars
  OBVIOUS
<1>1. CASE LoadOption \/ Loaded \/ Fork \/ ParentPolls
  BY <1>1 DEF LoadOption, Loaded, Fork, ParentPolls, svars, vars
<1>2. CASE Serve
  BY <1>2 DEF Serve, Next
<1>3. CASE Others
  BY <1>3 DEF Others, SessionReturns, Next
<1>4. CASE UNCHANGED allVars
  BY <1>4 DEF allVars, svars, vars
<1> QED
  BY <1>1, <1>2, <1>3, <1>4 DEF StartupNext

(* The program implements the listener: main(), or the embedding program,  *)
(* makes no step that Srv alone could not make.                            *)
THEOREM ProgramIsServer == StartupSpec => Spec
<1>1. StartupInit => Init
  BY DEF StartupInit
<1> QED
  BY <1>1, StepIsServers, PTL DEF StartupSpec, Spec

(* What holds of the listener holds of the program.                        *)
THEOREM ProgramThreadsHeld == StartupSpec => []NoDanglingThread
BY ProgramIsServer, ThreadsHeld, PTL

-----------------------------------------------------------------------------
(* Where the program can be before it serves, and how it comes to end.     *)
EndInv ==
  /\ phase \in {"load", "fork"} =>
       pc = "created" /\ code = "none" /\ parent = "none" /\ sessions = <<>>
  /\ phase = "serve" => code # "success"
  /\ pc = "created" => socket = -1
  /\ ~embedded => stop = FALSE
  /\ socket = 0 => parent # "none"
  /\ pc = "returned" /\ ~embedded =>
       socket = -1 /\ (code = "failing" \/ parent # "none")
  /\ code = "success" /\ ~embedded => parent # "none" /\ socket = -1

(* main() starts with no socket, no code and no child.                     *)
LEMMA EndInit == StartupInit => EndInv
BY SMTT(30) DEF StartupInit, Init, EndInv

(* init(), main_loop() and fork() end the program only in these ways.      *)
LEMMA EndStep == EndInv /\ [StartupNext]_allVars => EndInv'
<1> SUFFICES ASSUME EndInv, [StartupNext]_allVars PROVE EndInv'
  OBVIOUS
<1> USE DEF EndInv
<1>1. CASE LoadOption
  BY <1>1 DEF LoadOption, Exit, svars
<1>2. CASE Loaded
  BY <1>2 DEF Loaded, Exit, svars
<1>3. CASE Fork
  BY <1>3 DEF Fork, Exit, svars
<1>4. CASE ParentPolls
  BY SMTT(30), <1>4 DEF ParentPolls, svars
<1>5. CASE Serve
  <2>1. phase = "serve" /\ phase' \in {"serve", "ended"} /\ UNCHANGED <<embedded, parent>>
    BY <1>5 DEF Serve
  <2>2. socket' = 0 => parent # "none"
    BY <1>5 DEF Serve, LowestFree
  <2>3. CASE Initialise
    <3>0. socket' \in Nat \/ socket' = -1
      BY Zenon, <2>3, DescriptorsAssumption DEF Initialise, init
    <3>1. pc = "created" /\ pc' \in {"ready", "returned"} /\ stop' = stop
          /\ (pc' = "returned" => socket' = -1)
      BY SMTT(30), <2>3, <3>0 DEF Initialise
    <3>2. phase' = "serve" /\ (pc' = "returned" => code' = "failing")
          /\ (pc' = "ready" => code' = code)
      BY SMTT(30), <1>5, <2>1, <3>1 DEF Serve
    <3> QED
      BY SMTT(30), <2>1, <2>2, <3>1, <3>2
  <2>4. CASE MainLoop
    <3>0. socket = 0 => socket' \in Nat \/ socket' = -1
      BY Zenon, <2>4, DescriptorsAssumption DEF MainLoop, init
    <3>1. pc \in {"created", "ready"} /\ pc' \in {"returned", "prepare"} /\ stop' = stop
          /\ (pc' = "returned" => socket = 0 /\ socket' = -1)
      BY <2>4, <3>0 DEF MainLoop
    <3>2. phase' = "serve" /\ code' = code
      BY SMTT(30), <1>5, <2>1, <3>1 DEF Serve
    <3> QED
      BY SMTT(30), <2>1, <2>2, <3>1, <3>2
  <2>5. CASE Destroy
    <3>1. pc = "returned" /\ pc' \in {"ended", "terminated"}
          /\ UNCHANGED <<socket, stop>>
      BY <2>5 DEF Destroy
    <3>2. phase' = "ended" /\ (code' = "success" => code # "failing")
      BY <1>5, <3>1 DEF Serve
    <3> QED
      BY Zenon, <2>1, <2>2, <3>1, <3>2
  <2>6. CASE LoopTest
    <3>1. pc = "loop" /\ pc' \in {"returned", "receive"} /\ UNCHANGED <<socket, stop>>
          /\ (pc' = "returned" => stop)
      BY <2>6 DEF LoopTest
    <3>2. phase' = "serve" /\ code' = code
      BY SMTT(30), <1>5, <2>1, <3>1 DEF Serve
    <3> QED
      BY Zenon, <2>1, <2>2, <3>1, <3>2
  <2>7. CASE PrepareLoop \/ Receive \/ PrepareThrows \/ Scan \/ Join
    <3>1. pc' \in {"loop", "scan", "join", "terminated"} /\ pc # "created"
          /\ socket' = socket /\ stop' \in {stop, FALSE}
      BY Zenon, <2>7 DEF PrepareLoop, Receive, PrepareThrows, Scan, Join
    <3>2. code' \in {code, "aborted"}
      BY <1>5, <3>1 DEF Serve
    <3> QED
      BY ZenonT(40), <2>1, <2>2, <3>1, <3>2
  <2> QED
    BY ZenonT(40), <1>5, <2>3, <2>4, <2>5, <2>6, <2>7 DEF Serve, Owner
<1>6. CASE Others
  <2>1. ASSUME phase = "serve", UNCHANGED mainVars, UNCHANGED <<pc, socket>>,
               stop' = stop \/ embedded
        PROVE  EndInv'
    BY <2>1 DEF mainVars
  <2>2. CASE \E s \in Slots :
               /\ phase = "serve" /\ Throw(s) /\ Exit("aborted")
               /\ UNCHANGED <<embedded, line, args, sett, ret, parent, parentCode, polls>>
    BY <2>2 DEF Throw, Exit
  <2> QED
    BY ZenonT(40), <1>6, <2>1, <2>2 DEF Others, Stop, Arrive, Finish, Return, SessionReturns
<1>7. CASE UNCHANGED allVars
  BY <1>7 DEF allVars, svars, mainVars
<1> QED
  BY ZenonT(40), <1>1, <1>2, <1>3, <1>4, <1>5, <1>6, <1>7 DEF StartupNext

-----------------------------------------------------------------------------
(* An argument that makes load_options() throw, or main() print its help.  *)
Bad(a) == load_option_throws(a) \/ (a.name \in HelpNames /\ ~embedded)

(* load_options() has seen the first Seen arguments, and none of them has  *)
(* thrown; one that asks for help has turned its result.                   *)
Seen == Len(line) - Len(args)

LineInv ==
  /\ line \in Seq(Range(line))
  /\ args \in Seq(Range(line))
  /\ Len(args) <= Len(line)
  /\ \A i \in 1 .. Len(args) : args[i] = line[Seen + i]
  /\ phase = "load" =>
       \A i \in 1 .. Seen : /\ ~load_option_throws(line[i])
                            /\ line[i].name \in HelpNames => ret = FALSE
  /\ phase = "load" =>
       pc = "created" /\ socket = -1 /\ sessions = <<>> /\ parent = "none"
  /\ phase \in {"fork", "serve"} => \A i \in 1 .. Len(line) : ~Bad(line[i])
  /\ BadLineServesNothing

(* load_options() starts at the first argument.                            *)
LEMMA LineInit == StartupInit => LineInv
<1> SUFFICES ASSUME StartupInit PROVE LineInv
  OBVIOUS
<1>1. line \in Seq(Range(line)) /\ args = line
  BY LinesAssumption DEF StartupInit
<1>2. Len(line) \in Nat /\ Seen = 0
  BY <1>1 DEF Seen
<1>3. phase = "load" /\ pc = "created" /\ socket = -1 /\ sessions = <<>> /\ parent = "none"
  BY DEF StartupInit, Init
<1> QED
  BY <1>1, <1>2, <1>3 DEF LineInv, BadLineServesNothing

(* Once the line is read, it does not change, and a bad one has ended the  *)
(* program.                                                                *)
LEMMA LineRead ==
  ASSUME LineInv, phase \in {"fork", "serve"},
         UNCHANGED <<line, args, embedded>>, phase' # "load"
  PROVE  LineInv'
<1>1. \A i \in 1 .. Len(line) : ~Bad(line[i])
  BY DEF LineInv
<1>2. BadLineServesNothing'
  BY <1>1 DEF LineInv, BadLineServesNothing, Bad
<1>3. \A i \in 1 .. Len(line) : ~Bad(line[i])'
  BY <1>1 DEF Bad
<1> QED
  BY Zenon, <1>2, <1>3 DEF LineInv, Seen

(* load_options() reads the line from left to right, and main() looks at   *)
(* its result before it forks or serves.                                   *)
LEMMA LineStep == LineInv /\ [StartupNext]_allVars => LineInv'
<1> SUFFICES ASSUME LineInv, [StartupNext]_allVars PROVE LineInv'
  OBVIOUS
<1>0. /\ line \in Seq(Range(line)) /\ args \in Seq(Range(line))
      /\ Len(line) \in Nat /\ Len(args) \in Nat /\ Len(args) <= Len(line)
      /\ \A i \in 1 .. Len(args) : args[i] = line[Seen + i]
  BY DEF LineInv
<1>1. CASE LoadOption
  <2>1. /\ UNCHANGED <<line, embedded, pc, socket, sessions, parent>>
        /\ phase = "load" /\ args # <<>> /\ args' = Tail(args)
    BY <1>1 DEF LoadOption, svars
  <2>2. Len(args) > 0 /\ Len(args') = Len(args) - 1 /\ args' \in Seq(Range(line))
        /\ \A i \in 1 .. Len(args') : args'[i] = args[i + 1]
    BY <1>0, <2>1
  <2>3. Seen \in Nat /\ Seen' = Seen + 1 /\ Head(args) = line[Seen + 1]
    BY SMTT(30), <1>0, <2>1, <2>2 DEF Seen
  <2>4. \A i \in 1 .. Len(args') : args'[i] = line'[Seen' + i]
    <3> SUFFICES ASSUME NEW i \in 1 .. Len(args') PROVE args'[i] = line[Seen' + i]
      BY <2>1
    <3>1. i + 1 \in 1 .. Len(args) /\ Seen' + i = Seen + (i + 1)
      BY SMTT(30), <1>0, <2>2, <2>3
    <3> QED
      BY Zenon, <1>0, <2>2, <3>1
  <2>5. pc = "created" /\ socket = -1 /\ sessions = <<>> /\ parent = "none"
    BY Zenon, <2>1 DEF LineInv
  <2>6. CASE load_option_throws(Head(args))
    <3>1. phase' = "ended" /\ code' = "aborted"
      BY SMTT(30), <1>1, <2>6 DEF LoadOption, Exit
    <3> QED
      BY SMTT(30), <1>0, <2>1, <2>2, <2>4, <2>5, <3>1 DEF LineInv, BadLineServesNothing
  <2>7. CASE ~load_option_throws(Head(args))
    <3>1. phase' = "load" /\ ret' = load_option_ret(ret, Head(args))
      BY Zenon, <1>1, <2>1, <2>7 DEF LoadOption
    <3>2. ASSUME NEW i \in 1 .. Seen'
          PROVE  /\ ~load_option_throws(line[i])
                 /\ line[i].name \in HelpNames => ret' = FALSE
      <4>1. CASE i = Seen + 1
        BY Zenon, <2>3, <2>7, <3>1, <4>1 DEF load_option_ret
      <4>2. CASE i \in 1 .. Seen
        BY Zenon, <2>1, <3>1, <4>2 DEF LineInv, load_option_ret
      <4>3. i = Seen + 1 \/ i \in 1 .. Seen
        BY <2>3
      <4> QED
        BY Zenon, <4>1, <4>2, <4>3
    <3>3. BadLineServesNothing'
      BY Zenon, <2>1, <2>5, <3>1 DEF BadLineServesNothing
    <3>4. Len(args') <= Len(line')
      BY SMTT(30), <1>0, <2>1, <2>2
    <3> QED
      BY ZenonT(40), <1>0, <2>1, <2>2, <2>4, <2>5, <3>1, <3>2, <3>3, <3>4 DEF LineInv
  <2> QED
    BY <2>6, <2>7
<1>2. CASE Loaded
  <2>1. /\ UNCHANGED <<line, args, ret, embedded, pc, socket, sessions, parent>>
        /\ phase = "load" /\ args = <<>>
    BY <1>2 DEF Loaded, svars
  <2>2. Seen = Len(line) /\ Seen' = Seen
    BY SMTT(30), <1>0, <2>1 DEF Seen
  <2>3. pc = "created" /\ socket = -1 /\ sessions = <<>> /\ parent = "none"
    BY <2>1 DEF LineInv
  <2>4. CASE ~ret /\ ~embedded
    <3>1. phase' = "ended" /\ code' = "failure"
      BY Zenon, <1>2, <2>4 DEF Loaded, Exit
    <3> QED
      BY Zenon, <1>0, <2>1, <2>2, <2>3, <3>1 DEF LineInv, BadLineServesNothing
  <2>5. CASE ret \/ embedded
    <3>1. phase' \in {"fork", "serve"}
      BY Zenon, <1>2, <2>5 DEF Loaded
    <3>2. \A i \in 1 .. Len(line) : ~Bad(line[i])
      BY Zenon, <2>1, <2>2, <2>5 DEF LineInv, Bad
    <3>3. \A i \in 1 .. Len(line') : ~Bad(line[i])'
      BY <2>1, <3>2 DEF Bad
    <3> QED
      BY Zenon, <1>0, <2>1, <2>2, <2>3, <3>1, <3>3 DEF LineInv, BadLineServesNothing
  <2> QED
    BY <2>4, <2>5
<1>3. CASE Fork
  BY <1>3, LineRead DEF Fork, Exit
<1>4. CASE Serve
  BY Zenon, <1>4, LineRead DEF Serve
<1>5. CASE Others
  BY Zenon, <1>5, LineRead DEF Others, SessionReturns, mainVars, Exit
<1>6. CASE ParentPolls
  <2>1. /\ UNCHANGED <<line, args, ret, embedded, phase, code, pc, socket, sessions>>
        /\ parent = "waits"
    BY <1>6 DEF ParentPolls, svars
  <2>2. phase # "load"
    BY <2>1 DEF LineInv
  <2>3. BadLineServesNothing'
    BY <2>1 DEF LineInv, BadLineServesNothing
  <2>4. phase' \in {"fork", "serve"} => \A i \in 1 .. Len(line') : ~Bad(line[i])'
    BY Zenon, <2>1 DEF LineInv, Bad
  <2> QED
    BY Zenon, <1>0, <2>1, <2>2, <2>3, <2>4 DEF LineInv, Seen
<1>7. CASE UNCHANGED allVars
  <2>1. UNCHANGED <<line, args, ret, embedded, phase, code, pc, socket, sessions, parent>>
    BY SMTT(30), <1>7 DEF allVars, svars, mainVars
  <2> QED
    BY SMTT(30), <2>1 DEF LineInv, Seen, Bad, BadLineServesNothing
<1> QED
  BY Zenon, <1>1, <1>2, <1>3, <1>4, <1>5, <1>6, <1>7 DEF StartupNext

(* Whatever else a command line says, one with a bad argument opens no     *)
(* socket, forks no daemon, and ends with a failure.                       *)
THEOREM BadLinesServeNothing == StartupSpec => []BadLineServesNothing
<1>1. LineInv => BadLineServesNothing
  BY DEF LineInv
<1> QED
  BY LineInit, LineStep, <1>1, PTL DEF StartupSpec

-----------------------------------------------------------------------------
(* While load_options() reads, the settings are what the arguments it has   *)
(* seen say; afterwards nobody writes them.                                 *)
GivenInv ==
  /\ LineInv
  /\ phase = "load" => sett = SettingsOf(SubSeq(line, 1, Seen))
  /\ phase \in {"fork", "serve"} => sett = SettingsOf(line)

(* Settings() is what no argument says.                                     *)
LEMMA GivenInit == StartupInit => GivenInv
<1> SUFFICES ASSUME StartupInit PROVE GivenInv
  OBVIOUS
<1>1. LineInv /\ args = line
  BY LineInit DEF StartupInit
<1>2. Len(line) \in Nat /\ line \in Seq(Range(line))
  BY <1>1 DEF LineInv
<1>3. Seen = 0
  BY <1>1, <1>2 DEF Seen
<1>4. SubSeq(line, 1, Seen) = <<>>
  BY <1>2, <1>3
<1>5. sett = SettingsOf(<<>>) /\ phase = "load"
  BY EmptyLine DEF StartupInit
<1> QED
  BY ZenonT(40), <1>1, <1>4, <1>5 DEF GivenInv

(* Every argument that load_options() takes adds what it says.              *)
LEMMA GivenStep == GivenInv /\ [StartupNext]_allVars => GivenInv'
<1> SUFFICES ASSUME GivenInv, [StartupNext]_allVars PROVE GivenInv'
  OBVIOUS
<1>0. /\ line \in Seq(Range(line)) /\ args \in Seq(Range(line))
      /\ Len(line) \in Nat /\ Len(args) \in Nat /\ Len(args) <= Len(line)
      /\ \A i \in 1 .. Len(args) : args[i] = line[Seen + i]
  BY DEF GivenInv, LineInv
<1>1. LineInv'
  BY SMTT(30), LineStep DEF GivenInv
<1>2. CASE LoadOption
  <2>1. phase = "load" /\ args # <<>> /\ args' = Tail(args) /\ line' = line
    BY <1>2 DEF LoadOption
  <2>2. Len(args) > 0 /\ Len(args') = Len(args) - 1
    BY <1>0, <2>1
  <2>3. Seen \in Nat /\ Seen' = Seen + 1 /\ Seen + 1 <= Len(line)
        /\ Head(args) = line[Seen + 1]
    BY SMTT(30), <1>0, <2>1, <2>2 DEF Seen
  <2>4. CASE load_option_throws(Head(args))
    <3>1. phase' = "ended"
      BY <1>2, <2>4 DEF LoadOption, Exit
    <3> QED
      BY <1>1, <3>1 DEF GivenInv
  <2>5. CASE ~load_option_throws(Head(args))
    <3>1. phase' = "load" /\ sett' = load_option(sett, Head(args))
      BY Zenon, <1>2, <2>1, <2>5 DEF LoadOption
    <3> DEFINE l == SubSeq(line, 1, Seen)
               m == SubSeq(line, 1, Seen + 1)
    <3>2. OneMore(l, Head(args), m)
      BY SMTT(30), <1>0, <2>3 DEF OneMore
    <3>3. SettingsOf(m) = load_option(SettingsOf(l), Head(args))
      <4> HIDE DEF l, m
      <4> QED
        BY Zenon, <2>5, <3>2, SettingsMore
    <3>4. sett = SettingsOf(l)
      BY <2>1 DEF GivenInv
    <3>5. SubSeq(line', 1, Seen') = m
      BY Zenon, <2>1, <2>3
    <3> HIDE DEF l, m
    <3>6. sett' = SettingsOf(SubSeq(line', 1, Seen'))
      BY ZenonT(40), <3>1, <3>3, <3>4, <3>5
    <3> QED
      BY Zenon, <1>1, <3>1, <3>6 DEF GivenInv
  <2> QED
    BY <2>4, <2>5
<1>3. CASE Loaded
  <2>1. phase = "load" /\ args = <<>> /\ UNCHANGED <<line, sett>> /\ phase' # "load"
    BY <1>3 DEF Loaded, Exit
  <2>2. Seen = Len(line)
    BY <1>0, <2>1 DEF Seen
  <2>3. SubSeq(line, 1, Len(line)) = line
    BY <1>0
  <2>4. sett = SettingsOf(line)
    BY Zenon, <2>1, <2>2, <2>3 DEF GivenInv
  <2> QED
    BY <1>1, <2>1, <2>4 DEF GivenInv
<1>4. ASSUME phase \in {"fork", "serve"}, UNCHANGED <<line, sett>>, phase' # "load"
      PROVE  GivenInv'
  BY <1>1, <1>4 DEF GivenInv
<1>5. CASE Fork
  BY <1>4, <1>5 DEF Fork, Exit
<1>6. CASE Serve
  BY Zenon, <1>4, <1>6 DEF Serve
<1>7. CASE Others
  BY SMTT(30), <1>4, <1>7 DEF Others, SessionReturns, mainVars, Exit
<1>8. CASE ParentPolls \/ UNCHANGED allVars
  <2>1. UNCHANGED <<line, args, sett, phase>>
    BY SMTT(30), <1>8 DEF ParentPolls, allVars, mainVars
  <2> QED
    BY SMTT(30), <1>1, <2>1 DEF GivenInv, Seen
<1> QED
  BY Zenon, <1>2, <1>3, <1>5, <1>6, <1>7, <1>8 DEF StartupNext

(* For every command line: the settings the program serves with are what    *)
(* the line as a whole says, whatever order its arguments come in.          *)
THEOREM OptionsTaken == StartupSpec => []OptionsAsGiven
<1>1. GivenInv => OptionsAsGiven
  <2> SUFFICES ASSUME GivenInv, phase \in {"fork", "serve"},
                      NEW given, given = SettingsOf(line)
               PROVE  [given EXCEPT !.local_base = given.local_base] = given
    BY Zenon DEF GivenInv, OptionsAsGiven
  <2> QED
    BY Zenon DEF SettingsOf
<1> QED
  BY GivenInit, GivenStep, <1>1, PTL DEF StartupSpec

-----------------------------------------------------------------------------
(* There is a daemon only when the line asks for one, and its parent has no *)
(* exit code before there is.                                               *)
ForkInv ==
  /\ phase = "fork" \/ parent # "none" => \E i \in DOMAIN line : line[i].name = "daemon"
  /\ parent = "none" => parentCode = "none"

(* main() forks after load_options() has seen --daemon.                     *)
LEMMA ForkStep == GivenInv /\ ForkInv /\ [StartupNext]_allVars => ForkInv'
<1> SUFFICES ASSUME GivenInv, ForkInv, [StartupNext]_allVars PROVE ForkInv'
  OBVIOUS
<1>1. CASE Loaded
  <2>1. UNCHANGED <<line, sett, parent, parentCode>> /\ (phase' = "fork" => sett.is_daemon)
    BY <1>1 DEF Loaded, Exit
  <2>2. GivenInv'
    BY GivenStep
  <2>3. phase' = "fork" => SettingsOf(line).is_daemon
    BY Zenon, <2>1, <2>2 DEF GivenInv
  <2>4. SettingsOf(line).is_daemon => \E i \in DOMAIN line : line[i].name = "daemon"
    BY Zenon DEF SettingsOf, Places
  <2> QED
    BY Zenon, <2>1, <2>3, <2>4 DEF ForkInv
<1>2. CASE Fork
  <2>1. phase = "fork" /\ UNCHANGED <<line, parentCode>>
        /\ (parent' = "none" => parent = "none")
    BY <1>2 DEF Fork
  <2> QED
    BY Zenon, <2>1 DEF ForkInv
<1>3. CASE ParentPolls
  <2>1. UNCHANGED <<line, phase>> /\ parent = "waits" /\ parent' # "none"
    BY <1>3 DEF ParentPolls
  <2> QED
    BY Zenon, <2>1 DEF ForkInv
<1>4. ASSUME UNCHANGED <<line, parent, parentCode>>, phase' # "fork" \/ phase = "fork"
      PROVE  ForkInv'
  BY Zenon, <1>4 DEF ForkInv
<1>5. CASE LoadOption
  BY <1>4, <1>5 DEF LoadOption, Exit
<1>6. CASE Serve
  <2>1. UNCHANGED <<line, parent, parentCode>> /\ phase' # "fork"
    BY <1>6 DEF Serve
  <2> QED
    BY Zenon, <1>4, <2>1
<1>7. CASE Others
  <2>1. UNCHANGED <<line, parent, parentCode>> /\ phase' # "fork"
    BY <1>7 DEF Others, SessionReturns, mainVars, Exit
  <2> QED
    BY Zenon, <1>4, <2>1
<1>8. CASE UNCHANGED allVars
  BY <1>4, <1>8 DEF allVars, mainVars
<1> QED
  BY Zenon, <1>1, <1>2, <1>3, <1>5, <1>6, <1>7, <1>8 DEF StartupNext

(* Whoever starts main() sees success only after a good line that asks for  *)
(* a daemon: no failure of load_options(), fork() or init() in the process  *)
(* that was started passes for success. And the process that serves ends    *)
(* with success only where a daemon has lost its descriptor 0.              *)
THEOREM SuccessOfDaemons == StartupSpec => []SuccessIsDaemon
<1>1. EndInv /\ LineInv /\ ForkInv => SuccessIsDaemon
  <2> SUFFICES ASSUME EndInv, LineInv, ForkInv, ~embedded PROVE SuccessIsDaemon
    BY Zenon DEF SuccessIsDaemon
  <2>1. code = "success" => parent # "none" /\ socket = -1
    BY Zenon DEF EndInv
  <2>2. ExitSeen = "success" => parent # "none"
    BY Zenon, <2>1 DEF ExitSeen
  <2>3. parent # "none" => \A i \in DOMAIN line :
          ~load_option_throws(line[i]) /\ line[i].name \notin HelpNames
    BY Zenon DEF LineInv, BadLineServesNothing
  <2> QED
    BY Zenon, <2>1, <2>2, <2>3 DEF SuccessIsDaemon, ForkInv
<1>2. StartupInit => ForkInv
  BY DEF StartupInit, ForkInv
<1>3. GivenInv => LineInv
  BY DEF GivenInv
<1> QED
  BY EndInit, EndStep, GivenInit, GivenStep, <1>2, ForkStep, <1>1, <1>3, PTL DEF StartupSpec

-----------------------------------------------------------------------------
(* The values of the variables of main(): the settings fit their fields,    *)
(* and the parent of a daemon waits only as long as it has polls left.      *)
MainInv ==
  /\ LineInv
  /\ line \in CommandLines \cup EmbeddedLines
  /\ SettOK(sett)
  /\ embedded \in BOOLEAN /\ ret \in BOOLEAN
  /\ phase \in {"load", "fork", "serve", "ended"}
  /\ code \in {"none", "failing", "failure", "success", "aborted"}
  /\ parent \in {"none", "waits", "Failed", "Successfull"}
  /\ parentCode \in {"none", "success"}
  /\ polls \in 0 .. MaxPolls
  /\ parent = "waits" => polls < MaxPolls
  /\ phase \in {"load", "fork"} => parent = "none" /\ polls = 0

(* Nothing is polled yet, and the settings are the ones of Settings().      *)
LEMMA MainInit == StartupInit => MainInv
<1> SUFFICES ASSUME StartupInit PROVE MainInv
  OBVIOUS
<1>1. LineInv
  BY LineInit
<1>2. SettOK(sett)
  BY SMTT(30), NewSettingsOK DEF StartupInit
<1> QED
  BY <1>1, <1>2, MaxPollsAssumption DEF StartupInit, MainInv

(* Every step of the program keeps them.                                    *)
LEMMA MainStep == MainInv /\ [StartupNext]_allVars => MainInv'
<1> SUFFICES ASSUME MainInv, [StartupNext]_allVars PROVE MainInv'
  OBVIOUS
<1>1. LineInv'
  BY LineStep DEF MainInv
<1>2. CASE LoadOption
  <2>1. /\ phase = "load" /\ args # <<>> /\ UNCHANGED <<embedded, line, parent, parentCode, polls>>
    BY <1>2 DEF LoadOption
  <2>2. PICK k \in DOMAIN line : Head(args) = line[k]
    <3>1. /\ line \in Seq(Range(line)) /\ args \in Seq(Range(line))
          /\ Len(line) \in Nat /\ Len(args) \in Nat /\ Len(args) <= Len(line)
          /\ \A i \in 1 .. Len(args) : args[i] = line[Seen + i]
      BY DEF MainInv, LineInv
    <3>2. Len(args) > 0
      BY <2>1, <3>1
    <3>3. Seen + 1 \in 1 .. Len(line) /\ Head(args) = line[Seen + 1]
      BY SMTT(30), <3>1, <3>2, <2>1 DEF Seen
    <3> QED
      BY SMTT(30), <3>1, <3>3
  <2>3. ArgOK(Head(args))
    BY Zenon, <2>2, ArgumentsAssumption DEF MainInv, ArgOK, IsText
  <2>4. SettOK(sett')
    <3>1. CASE load_option_throws(Head(args))
      BY <1>2, <3>1 DEF LoadOption, MainInv
    <3>2. CASE ~load_option_throws(Head(args))
      BY ZenonT(40), <1>2, <2>3, <3>2, LoadOptionOK DEF LoadOption, MainInv
    <3> QED
      BY Zenon, <3>1, <3>2
  <2>5. ret' \in BOOLEAN
    BY Zenon, <1>2 DEF LoadOption, MainInv, load_option_ret
  <2>6. phase' \in {"load", "ended"} /\ code' \in {code, "aborted"}
    BY Zenon, <1>2, <2>1 DEF LoadOption, Exit
  <2> QED
    BY Zenon, <1>1, <2>1, <2>4, <2>5, <2>6 DEF MainInv
<1>3. CASE Loaded
  <2>1. UNCHANGED <<embedded, line, sett, ret, parent, parentCode, polls>> /\ phase = "load"
        /\ phase' \in {"ended", "fork", "serve"} /\ code' \in {code, "failure"}
    BY <1>3 DEF Loaded, Exit
  <2> QED
    BY SMTT(30), <1>1, <2>1 DEF MainInv
<1>4. CASE Fork
  <2>1. UNCHANGED <<embedded, line, sett, ret, parentCode, polls>> /\ phase = "fork"
        /\ phase' \in {"ended", "serve"} /\ code' \in {code, "failure"}
        /\ parent' \in {parent, "waits"}
    BY <1>4 DEF Fork, Exit
  <2> QED
    BY SMTT(30), <1>1, <2>1, MaxPollsAssumption DEF MainInv
<1>5. CASE ParentPolls
  <2>1. UNCHANGED <<embedded, line, sett, ret, phase, code>> /\ parent = "waits"
    BY <1>5 DEF ParentPolls
  <2>2. /\ polls' \in 0 .. MaxPolls /\ parent' \in {"waits", "Failed", "Successfull"}
        /\ parentCode' \in {"none", "success"}
        /\ parent' = "waits" => polls' < MaxPolls
    BY SMTT(30), <1>5, MaxPollsAssumption DEF ParentPolls, MainInv
  <2> QED
    BY Zenon, <1>1, <2>1, <2>2 DEF MainInv
<1>6. CASE Serve
  <2>1. UNCHANGED <<embedded, line, sett, ret, parent, parentCode, polls>> /\ phase = "serve"
        /\ phase' \in {"serve", "ended"}
        /\ code' \in {code, "failing", "failure", "success", "aborted"}
    BY <1>6 DEF Serve
  <2> QED
    BY <1>1, <2>1 DEF MainInv
<1>7. CASE Others \/ UNCHANGED allVars
  <2>1. UNCHANGED <<embedded, line, sett, ret, parent, parentCode, polls>>
        /\ phase' \in {phase, "ended"} /\ code' \in {code, "aborted"}
    BY <1>7 DEF Others, SessionReturns, mainVars, Exit, allVars
  <2> QED
    BY SMTT(30), <1>1, <2>1 DEF MainInv
<1> QED
  BY Zenon, <1>2, <1>3, <1>4, <1>5, <1>6, <1>7 DEF StartupNext

(* For all command lines: what is taken from them is cut to the range of    *)
(* its field, and main() and its listener are in one of their states.       *)
THEOREM StartupTypes == StartupSpec => []StartupTypeOK
<1>1. TypeOK /\ MainInv => StartupTypeOK
  BY SMTT(30) DEF StartupTypeOK, MainInv, SettOK, AddrOK
<1> QED
  BY ProgramIsServer, ServerTypes, MainInit, MainStep, <1>1, PTL DEF StartupSpec

(* For all command lines, and all texts that inet_pton() may read: whatever *)
(* has been listened to so far, Addr::set_string() takes every format of an *)
(* address for what it says, but for the two that are left out, and reads   *)
(* back what Addr::str() writes.                                               *)
THEOREM AddressesUnderstood == StartupSpec => []AddressUnderstood
<1>1. MainInv => AddressUnderstood
  <2> SUFFICES ASSUME MainInv PROVE AddressUnderstood
    OBVIOUS
  <2>1. AddrOK(sett.local_base)
    BY DEF MainInv, SettOK
  <2>2. RoundTrip(sett.local_base)
    BY Zenon, <2>1, ReadBack
  <2>3. \A f \in Formats(Ports) : Understands(sett.local_base, f)
    BY Zenon, <2>1, FormatsUnderstood DEF AddrOK
  <2> QED
    BY Zenon, <2>2, <2>3 DEF AddressUnderstood
<1> QED
  BY MainInit, MainStep, <1>1, PTL DEF StartupSpec
=============================================================================
