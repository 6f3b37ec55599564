------------------------------ MODULE Startup ------------------------------
(***************************************************************************)
(* The program: main() of source/server-fw.cpp. It reads the command line  *)
(* into the settings, becomes a daemon if told to, and runs the listener   *)
(* of module Server. A daemon is a second process, the child of fork(),    *)
(* that the first one watches for a while before it tells how the start    *)
(* went.                                                                   *)
(*                                                                         *)
(* A program that embeds the server, like source/tests/tftpSrv_test.cpp,   *)
(* has no main() of this kind: it calls load_options(), init() or not, and *)
(* main_loop() in a thread of its own, and stop() from another.            *)
(***************************************************************************)
EXTENDS Server, Settings

CONSTANTS
  CommandLines,  (* the command lines main() may be given                  *)
  EmbeddedLines, (* the ones an embedding program passes on                *)
  BusyLines,     (* bound: requests arrive only under these                *)
  MaxPolls,      (* polls of waitpid() before the parent gives up, 26      *)
  Ports          (* port numbers the formats of an address are tried with  *)

ASSUME MaxPollsAssumption == MaxPolls \in Nat \ {0}
ASSUME LinesAssumption ==
  \A l \in CommandLines \cup EmbeddedLines : l \in Seq(Range(l))

(* What converts to a number is one, and what is listened to is a text.     *)
ASSUME ArgumentsAssumption ==
  /\ \A l \in CommandLines \cup EmbeddedLines : \A i \in DOMAIN l :
       /\ l[i].name \in SyslogNames \cup {"fb-dialect", "retransmit"} /\ IsNum(l[i].arg)
            => l[i].arg[2] \in Int
       /\ l[i].name \in ListenNames =>
            /\ l[i].arg \in Seq(Range(l[i].arg))
            /\ \A k \in DOMAIN l[i].arg : IsDec(l[i].arg[k]) => l[i].arg[k][2] \in PortNumbers
  /\ Ports \subseteq PortNumbers

VARIABLES
  embedded,  \* whether an embedding program owns the server
  line,      \* the command line
  args,      \* what getopt_long() has not handed out yet
  sett,      \* *settings_, shared by the server and its sessions
  ret,       \* what load_options() will return
  phase,     \* where main() is in the process that serves, or how it ended
  code,      \* exit code of that process, "none" while it runs
  parent,    \* the process that has called fork(): what it told
  parentCode,\* exit code of that process, "none" while it waits
  polls      \* how often it has looked for its child

svars == <<pc, socket, stop, sessions, it, thread, backlog, called>>
mainVars == <<embedded, line, args, sett, ret, phase, code, parent, parentCode, polls>>
allVars == <<svars, mainVars>>

StartupInit ==
  /\ Init
  /\ embedded \in BOOLEAN
  /\ line \in IF embedded THEN EmbeddedLines ELSE CommandLines
  /\ args = line
  /\ sett = load_options_begin(NewSettings)
  /\ ret = TRUE
  /\ phase = "load"
  /\ code = "none"
  /\ parent = "none"
  /\ parentCode = "none"
  /\ polls = 0

Exit(c) == phase' = "ended" /\ code' = c

(* load_options(), an argument at a time. *)
LoadOption ==
  /\ phase = "load" /\ args # <<>>
  /\ args' = Tail(args)
  /\ IF load_option_throws(Head(args))
     THEN /\ Exit("aborted")
          /\ UNCHANGED <<sett, ret>>
     ELSE /\ sett' = load_option(sett, Head(args))
          /\ ret' = load_option_ret(ret, Head(args))
          /\ UNCHANGED <<phase, code>>
  /\ UNCHANGED <<svars, embedded, line, parent, parentCode, polls>>

(* Mutant of Loaded: the result of load_options() is looked at last.       *)
LoadedDaemonFirst ==
  /\ phase = "load" /\ args = <<>>
  /\ IF ~ret /\ ~embedded /\ ~sett.is_daemon THEN Exit("failure")
     ELSE /\ phase' = IF sett.is_daemon /\ ~embedded THEN "fork" ELSE "serve"
          /\ UNCHANGED code
  /\ UNCHANGED <<svars, embedded, line, args, sett, ret, parent, parentCode, polls>>

(* load_options() has returned: the help message and the end, a daemon, or  *)
(* the server in this process. The embedding program goes on in any case.   *)
Loaded ==
  /\ phase = "load" /\ args = <<>>
  /\ IF ~ret /\ ~embedded THEN Exit("failure")
     ELSE /\ phase' = IF sett.is_daemon /\ ~embedded THEN "fork" ELSE "serve"
          /\ UNCHANGED code
  /\ UNCHANGED <<svars, embedded, line, args, sett, ret, parent, parentCode, polls>>

(* fork(): the child, which closes its standard streams, is the process     *)
(* that serves; its parent waits.                                           *)
Fork ==
  /\ phase = "fork"
  /\ \/ Exit("failure") /\ UNCHANGED parent
     \/ phase' = "serve" /\ parent' = "waits" /\ UNCHANGED code
  /\ UNCHANGED <<svars, embedded, line, args, sett, ret, parentCode, polls>>

(* Mutant of ParentPolls: the polls are not counted.                       *)
ParentPollsUncounted ==
  /\ parent = "waits"
  /\ IF phase = "ended" THEN parent' = "Failed" ELSE parent' = "waits"
  /\ parentCode' = IF parent' = "waits" THEN "none" ELSE "success"
  /\ UNCHANGED <<svars, embedded, line, args, sett, ret, phase, code, polls>>

(* waitpid(), every 50 ms: the child has ended, or still runs after the     *)
(* last poll. The parent says which, and returns EXIT_SUCCESS either way.   *)
ParentPolls ==
  /\ parent = "waits"
  /\ IF phase = "ended" THEN parent' = "Failed" /\ UNCHANGED polls
     ELSE /\ polls' = polls + 1
          /\ parent' = IF polls' >= MaxPolls THEN "Successfull" ELSE "waits"
  /\ parentCode' = IF parent' = "waits" THEN "none" ELSE "success"
  /\ UNCHANGED <<svars, embedded, line, args, sett, ret, phase, code>>

(* socket() returns the lowest free descriptor: 0 for a daemon, which has   *)
(* closed its standard input.                                               *)
LowestFree == socket' = socket \/ socket' \in {-1, IF parent # "none" THEN 0 ELSE 3}

(* Mutant of Serve: a failure of init() does not set the exit code.        *)
ServeInitUntold ==
  /\ phase = "serve"
  /\ Owner
  /\ LowestFree
  /\ pc = "created" /\ ~embedded => pc' # "prepare"
  /\ IF pc' = "ended" \/ pc' = "terminated"
     THEN /\ phase' = "ended"
          /\ code' = IF pc' = "terminated" THEN "aborted" ELSE "success"
     ELSE UNCHANGED <<phase, code>>
  /\ UNCHANGED <<embedded, line, args, sett, ret, parent, parentCode, polls>>

(* main() calls init() and then main_loop(), and ends when either fails or  *)
(* returns; an embedding program may leave out init().                      *)
Serve ==
  /\ phase = "serve"
  /\ Owner
  /\ LowestFree
  /\ pc = "created" /\ ~embedded => pc' # "prepare"
  /\ IF pc' = "ended" \/ pc' = "terminated"
     THEN /\ phase' = "ended"
          /\ code' = IF pc' = "terminated" THEN "aborted" ELSE
                     IF code = "failing" THEN "failure" ELSE "success"
     ELSE /\ code' = IF pc = "created" /\ pc' = "returned" /\ socket' < 0
                     THEN "failing" ELSE code
          /\ UNCHANGED phase
  /\ UNCHANGED <<embedded, line, args, sett, ret, parent, parentCode, polls>>

(* The sessions, the network, and the embedding program's stop().          *)
SessionReturns(s) == phase = "serve" /\ Return(s) /\ UNCHANGED mainVars

Others ==
  \/ phase = "serve" /\ embedded /\ Stop /\ UNCHANGED mainVars
  \/ phase = "serve" /\ line \in BusyLines /\ Arrive /\ UNCHANGED mainVars
  \/ \E s \in Slots : phase = "serve" /\ Finish(s) /\ UNCHANGED mainVars
  \/ \E s \in Slots : SessionReturns(s)
  \/ \E s \in Slots :
       /\ phase = "serve" /\ Throw(s) /\ Exit("aborted")
       /\ UNCHANGED <<embedded, line, args, sett, ret, parent, parentCode, polls>>

StartupNext == LoadOption \/ Loaded \/ Fork \/ ParentPolls \/ Serve \/ Others

StartupSpec == StartupInit /\ [][StartupNext]_allVars

(* Both processes and the threads of the sessions run; how long a transfer  *)
(* takes is up to its peer.                                                 *)
StartupFairSpec ==
  /\ StartupSpec
  /\ WF_allVars(LoadOption \/ Loaded \/ Fork)
  /\ WF_allVars(ParentPolls)
  /\ WF_allVars(Serve)
  /\ \A s \in Slots : WF_allVars(SessionReturns(s))

-----------------------------------------------------------------------------
StartupTypeOK ==
  /\ TypeOK
  /\ embedded \in BOOLEAN /\ ret \in BOOLEAN
  /\ phase \in {"load", "fork", "serve", "ended"}
  /\ code \in {"none", "failing", "failure", "success", "aborted"}
  /\ parent \in {"none", "waits", "Failed", "Successfull"}
  /\ parentCode \in {"none", "success"}
  /\ polls \in 0 .. MaxPolls
  /\ sett.retransmit_count \in 0 .. U16 - 1 /\ sett.dialect \in 0 .. U16 - 1
  /\ sett.use_syslog \in 0 .. 7
  /\ sett.local_base.port \in 0 .. PortMod - 1

(* From the moment load_options() returns, and as long as the server and    *)
(* its sessions share them, the settings are what the command line as a     *)
(* whole says: of every option the last argument that converts, every       *)
(* search directory in its order, and of the listening address the family   *)
(* of the last text and the last port and address given for it. Of a line   *)
(* with -L nothing is said about the address: the help message gives -L as  *)
(* another name of -l, and load_options() ignores it.                       *)
OptionsAsGiven ==
  phase \in {"fork", "serve"} =>
    LET given == SettingsOf(line)
    IN  /\ [sett EXCEPT !.local_base = given.local_base] = given
        /\ (\A i \in DOMAIN line : line[i].name # "L") =>
             sett.local_base = given.local_base

(* Whatever was listened to before, Addr::set_string() takes every format   *)
(* of an address for what it says and reads back what str() writes.         *)
(* Nothing is said about a bare IPv6 address whose last group is decimal,   *)
(* which set_string() takes for a port and its comment does not, nor about  *)
(* the text of an IPv6 address with a quad in it.                           *)
AddressUnderstood ==
  phase = "load" =>
    /\ RoundTrip(sett.local_base)
    /\ \A f \in Formats(Ports) : Understands(sett.local_base, f)

(* A command line with -h, with an unknown option or with permissions that  *)
(* are no octal number (the one conversion without a handler; other numbers *)
(* that do not convert are passed over) never opens a socket and starts no  *)
(* second process; main() tells it by its exit code, also when a later      *)
(* argument asks for a daemon.                                              *)
BadLineServesNothing ==
  (\E i \in DOMAIN line : \/ load_option_throws(line[i])
                          \/ line[i].name \in HelpNames /\ ~embedded)
  => /\ socket = -1 /\ sessions = <<>> /\ parent = "none"
     /\ phase = "ended" => code \in {"failure", "aborted"}

(* What whoever starts the program sees of its end: the exit code of the    *)
(* parent, when there is a daemon.                                          *)
ExitSeen == IF parent = "none" THEN code ELSE parentCode

(* Of main(), which nobody stops: whoever starts it sees success only after *)
(* a line that asks for a daemon and has no bad argument, so that a failure *)
(* to bind in the foreground, or to fork, is never seen as success. For a   *)
(* daemon success says no more, the parent returns it after "Failed" too.   *)
(* The process that serves ends with success only as a daemon whose         *)
(* main_loop() finds the descriptor 0, takes it for none, and cannot open   *)
(* its socket again.                                                        *)
SuccessIsDaemon ==
  ~embedded =>
    /\ ExitSeen = "success" =>
         /\ \E i \in DOMAIN line : line[i].name = "daemon"
         /\ \A i \in DOMAIN line :
              ~load_option_throws(line[i]) /\ line[i].name \notin HelpNames
    /\ code = "success" => parent # "none" /\ socket = -1

(* The parent does not wait for ever for its daemon.                        *)
ParentTells == parent = "waits" ~> parent # "waits"
=============================================================================
