------------------------------- MODULE Server -------------------------------
(***************************************************************************)
(* The listener: class Srv of source/tftpSrv.cpp.  The thread that owns    *)
(* the server calls init() and main_loop(); any other thread may call      *)
(* stop(); every request starts a thread that runs one session, of which   *)
(* only the two moments matter here when it stores State::finish into      *)
(* stat_, and when run() returns after it has closed its socket and file.  *)
(***************************************************************************)
EXTENDS Integers, Sequences, Functions

CONSTANTS
  Slots,       (* places for session objects: as many sessions may exist   *)
  MaxBacklog,  (* bound: packets waiting in the listening socket           *)
  Descriptors  (* what socket() may return: 0 with stdin closed (--daemon) *)

ASSUME BacklogAssumption == MaxBacklog \in Nat
ASSUME DescriptorsAssumption == Descriptors \subseteq Nat

VARIABLES
  pc,        \* where the owner's thread is, and how the process ended
  socket,    \* socket_, -1 when there is none
  stop,      \* stop_
  sessions,  \* sessions_, as the slots of its elements
  it,        \* the iterator of the loop that looks for a finished session
  thread,    \* the thread of each slot's session
  backlog,   \* packets waiting in the listening socket
  called     \* whether stop() was called while main_loop() was running

vars == <<pc, socket, stop, sessions, it, thread, backlog, called>>

Listed == Range(sessions)

(* list::erase() of the element at i.                                      *)
erase(l, i) == SubSeq(l, 1, i - 1) \o SubSeq(l, i + 1, Len(l))

(* Session::is_finished()                                                  *)
is_finished(s) == thread[s] \in {"finished", "returned"}

-----------------------------------------------------------------------------
(* The owner's thread.                                                     *)

(* socket_open(), after socket_close() of an open socket: either there is  *)
(* a fresh socket, without the packets that the old one held, or none.     *)
init ==
  /\ \/ socket' \in Descriptors
     \/ socket' = -1
  /\ backlog' = 0

Initialise ==
  /\ pc = "created"
  /\ init
  /\ pc' = IF socket' >= 0 THEN "ready" ELSE "returned"
  /\ UNCHANGED <<stop, sessions, it, thread, called>>

(* main_loop() begins; it calls init() when socket_ is 0, and begins all   *)
(* the same when init() was never called.                                  *)
MainLoop ==
  /\ pc \in {"created", "ready"}
  /\ IF socket = 0 THEN init ELSE UNCHANGED <<socket, backlog>>
  /\ pc' = IF socket = 0 /\ socket' < 0 THEN "returned" ELSE "prepare"
  /\ UNCHANGED <<stop, sessions, it, thread, called>>

PrepareLoop ==
  /\ pc = "prepare"
  /\ stop' = FALSE
  /\ pc' = "loop"
  /\ UNCHANGED <<socket, sessions, it, thread, backlog, called>>

(* Mutant of LoopTest: the loop waits for its sessions before it ends.     *)
LoopTestWaits ==
  /\ pc = "loop"
  /\ pc' = IF stop /\ sessions = <<>> THEN "returned" ELSE "receive"
  /\ UNCHANGED <<socket, stop, sessions, it, thread, backlog, called>>

LoopTest ==
  /\ pc = "loop"
  /\ pc' = IF stop THEN "returned" ELSE "receive"
  /\ UNCHANGED <<socket, stop, sessions, it, thread, backlog, called>>

(* Mutant of NewSession: the session becomes the first of the list.        *)
NewSessionFirst(s) ==
  /\ thread[s] = "none"
  /\ sessions' = <<s>> \o sessions
  /\ thread' = [thread EXCEPT ![s] = "running"]

(* A request whose prepare() succeeds becomes the last session of the list *)
(* and gets its thread.                                                    *)
NewSession(s) ==
  /\ thread[s] = "none"
  /\ sessions' = Append(sessions, s)
  /\ thread' = [thread EXCEPT ![s] = "running"]

(* Mutant of Receive: the result of recvfrom() is not tested.              *)
ReceiveAlways ==
  /\ pc = "receive"
  /\ backlog' = backlog - 1
  /\ \/ UNCHANGED <<sessions, thread>>
     \/ \E s \in Slots : NewSession(s)
  /\ pc' = "scan"
  /\ it' = 1
  /\ UNCHANGED <<socket, stop, called>>

(* recvfrom(): no packet, a packet that is too short or that prepare()     *)
(* refuses, or a request.  prepare() may throw, and nothing catches: a     *)
(* number of an option may not fit into an int, a string may be missing.   *)
Receive ==
  /\ pc = "receive"
  /\ \/ /\ backlog = 0 \/ socket < 0
        /\ UNCHANGED <<sessions, thread, backlog>>
     \/ /\ backlog > 0 /\ socket >= 0
        /\ backlog' = backlog - 1
        /\ \/ UNCHANGED <<sessions, thread>>
           \/ \E s \in Slots : NewSession(s)
  /\ pc' = "scan"
  /\ it' = 1
  /\ UNCHANGED <<socket, stop, called>>

PrepareThrows ==
  /\ pc = "receive"
  /\ backlog > 0 /\ socket >= 0
  /\ backlog' = backlog - 1
  /\ pc' = "terminated"
  /\ UNCHANGED <<socket, stop, sessions, it, thread, called>>

(* One iteration of the loop over sessions_.                               *)
Scan ==
  /\ pc = "scan"
  /\ IF it > Len(sessions) THEN pc' = "loop" /\ UNCHANGED it
     ELSE IF is_finished(sessions[it]) THEN pc' = "join" /\ UNCHANGED it
     ELSE pc' = "scan" /\ it' = it + 1
  /\ UNCHANGED <<socket, stop, sessions, thread, backlog, called>>

(* Mutant of Join: the session is erased without waiting for its thread.   *)
JoinDetaches ==
  /\ pc = "join"
  /\ sessions' = erase(sessions, it)
  /\ pc' = "loop"
  /\ UNCHANGED <<socket, stop, it, thread, backlog, called>>

(* join() waits for the thread; then the session is destroyed.             *)
Join ==
  /\ pc = "join"
  /\ thread[sessions[it]] = "returned"
  /\ thread' = [thread EXCEPT ![sessions[it]] = "none"]
  /\ sessions' = erase(sessions, it)
  /\ pc' = "loop"
  /\ UNCHANGED <<socket, stop, it, backlog, called>>

(* ~Srv(): the destructor of a std::thread that was not joined terminates  *)
(* the process.                                                            *)
Destroy ==
  /\ pc = "returned"
  /\ pc' = IF sessions = <<>> THEN "ended" ELSE "terminated"
  /\ UNCHANGED <<socket, stop, sessions, it, thread, backlog, called>>

Owner ==
  \/ Initialise
  \/ MainLoop
  \/ PrepareLoop
  \/ LoopTest
  \/ Receive
  \/ PrepareThrows
  \/ Scan
  \/ Join
  \/ Destroy

-----------------------------------------------------------------------------
(* The other threads, and the network.                                     *)

Alive == pc \notin {"ended", "terminated"}

(* Srv::stop()                                                             *)
Stop ==
  /\ Alive
  /\ stop' = TRUE
  /\ called' = (called \/ pc \in {"prepare", "loop", "receive", "scan", "join"})
  /\ UNCHANGED <<pc, socket, sessions, it, thread, backlog>>

(* The session's run(): its last switch_to(), and its return.              *)
Finish(s) ==
  /\ Alive
  /\ thread[s] = "running"
  /\ thread' = [thread EXCEPT ![s] = "finished"]
  /\ UNCHANGED <<pc, socket, stop, sessions, it, backlog, called>>

Return(s) ==
  /\ Alive
  /\ thread[s] = "finished"
  /\ thread' = [thread EXCEPT ![s] = "returned"]
  /\ UNCHANGED <<pc, socket, stop, sessions, it, backlog, called>>

(* An exception leaves run(), and ends the process.                        *)
Throw(s) ==
  /\ Alive
  /\ thread[s] \in {"running", "finished"}
  /\ pc' = "terminated"
  /\ UNCHANGED <<socket, stop, sessions, it, thread, backlog, called>>

Arrive ==
  /\ Alive
  /\ socket >= 0
  /\ backlog < MaxBacklog
  /\ backlog' = backlog + 1
  /\ UNCHANGED <<pc, socket, stop, sessions, it, thread, called>>

Init ==
  /\ pc = "created"
  /\ socket = -1
  /\ stop = FALSE
  /\ sessions = <<>>
  /\ it = 1
  /\ thread = [s \in Slots |-> "none"]
  /\ backlog = 0
  /\ called = FALSE

Next ==
  \/ Owner \/ Stop \/ Arrive
  \/ \E s \in Slots : Finish(s) \/ Return(s) \/ Throw(s)

Spec == Init /\ [][Next]_vars

(* The operating system runs every thread; how long a transfer takes, and  *)
(* whether it ends, is up to the session and its peer.                     *)
FairSpec == Spec /\ WF_vars(Owner) /\ \A s \in Slots : WF_vars(Return(s))

-----------------------------------------------------------------------------
TypeOK ==
  /\ pc \in {"created", "ready", "prepare", "loop", "receive", "scan", "join",
             "returned", "ended", "terminated"}
  /\ socket \in Descriptors \cup {-1}
  /\ stop \in BOOLEAN
  /\ sessions \in Seq(Slots)
  /\ it \in Nat \ {0}
  /\ thread \in [Slots -> {"none", "running", "finished", "returned"}]
  /\ backlog \in 0 .. MaxBacklog
  /\ called \in BOOLEAN

(* main_loop() has returned, or the process has ended.                     *)
Left == pc \in {"returned", "ended", "terminated"}

(* A session object exists exactly as long as its thread may use it, and   *)
(* main_loop() holds it once: no thread runs on an erased element of       *)
(* sessions_, and no element is left behind without a thread to join.      *)
NoDanglingThread ==
  /\ \A s \in Slots : s \in Listed <=> thread[s] # "none"
  /\ IsInjective(sessions)

(* main_loop() joins one finished session in an iteration at most; still   *)
(* every finished session is joined and erased, however many new ones      *)
(* start, unless the loop is left.                                         *)
FinishedIsErased ==
  \A s \in Slots :
    is_finished(s) ~> thread[s] = "none" \/ Left

(* A stop() that main_loop() finds in its loop ends the loop.              *)
StopInLoopReturns ==
  stop /\ pc \in {"loop", "receive", "scan", "join"} ~> Left

(* "For exit loop outside use Srv::stop()": main_loop() does not go on     *)
(* for ever after stop() was called while it was running.                  *)
StopReturns == called ~> Left

=============================================================================
