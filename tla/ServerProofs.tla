---------------------------- MODULE ServerProofs ----------------------------
(***************************************************************************)
(* Proofs about Server, for any number of sessions and any backlog.        *)
(***************************************************************************)
EXTENDS Server, TLAPS

(* erase() of the element at i.                                            *)
LEMMA EraseFacts ==
  ASSUME NEW S, NEW s \in Seq(S), NEW i \in 1 .. Len(s)
  PROVE  /\ erase(s, i) \in Seq(S)
         /\ Len(erase(s, i)) = Len(s) - 1
         /\ \A j \in 1 .. Len(s) - 1 :
              erase(s, i)[j] = IF j < i THEN s[j] ELSE s[j + 1]
<1> DEFINE a == SubSeq(s, 1, i - 1)
           b == SubSeq(s, i + 1, Len(s))
<1>0. Len(s) \in Nat /\ i \in Nat /\ 1 <= i /\ i <= Len(s)
  OBVIOUS
<1>1. a \in Seq(S) /\ Len(a) = i - 1 /\ \A j \in 1 .. i - 1 : a[j] = s[j]
  OBVIOUS
<1>2. b \in Seq(S) /\ Len(b) = Len(s) - i /\ \A j \in 1 .. Len(s) - i : b[j] = s[i + j]
  OBVIOUS
<1>3. erase(s, i) = a \o b
  BY DEF erase
<1> HIDE DEF a, b
<1>4. a \o b \in Seq(S) /\ Len(a \o b) = Len(s) - 1
  <2>1. Len(a) \in Nat /\ Len(b) \in Nat /\ a \in Seq(S) /\ b \in Seq(S)
    BY <1>0, <1>1, <1>2
  <2>2. a \o b \in Seq(S) /\ Len(a \o b) = Len(a) + Len(b)
    BY <2>1
  <2> QED
    BY <1>0, <1>1, <1>2, <2>2
<1>5. ASSUME NEW j \in 1 .. Len(s) - 1
      PROVE  (a \o b)[j] = IF j < i THEN s[j] ELSE s[j + 1]
  <2>1. CASE j < i
    BY <1>1, <1>2, <2>1
  <2>2. CASE j >= i
    <3>1. (a \o b)[j] = b[j - (i - 1)]
      BY <1>1, <1>2, <2>2
    <3>2. b[j - (i - 1)] = s[i + (j - (i - 1))]
      BY <1>2, <2>2
    <3> QED
      BY <2>2, <3>1, <3>2
  <2>3. j < i \/ j >= i
    BY <1>0
  <2> QED
    BY Zenon, <2>1, <2>2, <2>3
<1> QED
  BY <1>3, <1>4, <1>5

(* The iterator that join() and erase() use points to an element.          *)
IInv ==
  /\ TypeOK
  /\ NoDanglingThread
  /\ pc = "join" => it <= Len(sessions)

(* Srv() has no sessions and no threads.                                   *)
LEMMA InitHolds == Init => IInv
<1> SUFFICES ASSUME Init PROVE IInv
  OBVIOUS
<1>1. TypeOK
  <2>1. sessions \in Seq(Slots) /\ it \in Nat \ {0} /\ backlog \in 0 .. MaxBacklog
    BY BacklogAssumption DEF Init
  <2> QED
    BY Zenon, <2>1 DEF Init, TypeOK
<1>2. NoDanglingThread
  BY DEF Init, NoDanglingThread, Listed, Range, IsInjective
<1> QED
  BY <1>1, <1>2 DEF IInv, Init

(* A new session takes a free slot.                                        *)
LEMMA NewSessionKeeps ==
  ASSUME TypeOK, NoDanglingThread, NEW s \in Slots, NewSession(s)
  PROVE  /\ sessions' \in Seq(Slots)
         /\ thread' \in [Slots -> {"none", "running", "finished", "returned"}]
         /\ NoDanglingThread'
<1>1. sessions' \in Seq(Slots) /\ Len(sessions') = Len(sessions) + 1
      /\ sessions'[Len(sessions) + 1] = s
      /\ \A i \in 1 .. Len(sessions) : sessions'[i] = sessions[i]
  BY DEF NewSession, TypeOK
<1>2. thread' = [thread EXCEPT ![s] = "running"] /\ thread[s] = "none"
  BY DEF NewSession
<1>3. \A i \in 1 .. Len(sessions) : sessions[i] # s
  BY <1>2 DEF NoDanglingThread, Listed, Range, TypeOK
<1>4. IsInjective(sessions')
  <2> SUFFICES ASSUME NEW i \in 1 .. Len(sessions) + 1, NEW j \in 1 .. Len(sessions) + 1,
                      sessions'[i] = sessions'[j]
               PROVE  i = j
    BY <1>1 DEF IsInjective
  <2>1. \A k, l \in 1 .. Len(sessions) : sessions[k] = sessions[l] => k = l
    BY DEF NoDanglingThread, IsInjective, TypeOK
  <2> QED
    BY SMTT(30), <1>1, <1>3, <2>1 DEF TypeOK
<1>5. ASSUME NEW t \in Slots PROVE t \in Listed' <=> thread'[t] # "none"
  <2>1. t \in Listed <=> thread[t] # "none"
    BY DEF NoDanglingThread
  <2>2. t \in Listed' <=> t \in Listed \/ t = s
    BY <1>1 DEF Listed, Range, TypeOK
  <2> QED
    BY <1>2, <2>1, <2>2 DEF TypeOK
<1> QED
  BY <1>1, <1>2, <1>4, <1>5 DEF NoDanglingThread, TypeOK

(* The session at the iterator leaves the list, and its slot.              *)
LEMMA JoinKeeps ==
  ASSUME IInv, Join
  PROVE  /\ sessions' \in Seq(Slots)
         /\ thread' \in [Slots -> {"none", "running", "finished", "returned"}]
         /\ NoDanglingThread'
<1> DEFINE n == Len(sessions)
<1>0. n \in Nat /\ it \in 1 .. n /\ sessions \in Seq(Slots)
  BY DEF IInv, TypeOK, Join
<1>1. /\ sessions' \in Seq(Slots)
      /\ Len(sessions') = n - 1
      /\ \A j \in 1 .. n - 1 :
           sessions'[j] = IF j < it THEN sessions[j] ELSE sessions[j + 1]
  BY Zenon, <1>0, EraseFacts DEF Join
<1>2. thread' = [thread EXCEPT ![sessions[it]] = "none"]
  BY DEF Join
<1>3. \A k, l \in 1 .. n : sessions[k] = sessions[l] => k = l
  BY <1>0 DEF IInv, NoDanglingThread, IsInjective
<1>4. IsInjective(sessions')
  <2> SUFFICES ASSUME NEW i \in 1 .. n - 1, NEW j \in 1 .. n - 1,
                      sessions'[i] = sessions'[j]
               PROVE  i = j
    BY <1>0, <1>1 DEF IsInjective
  <2> DEFINE at(k) == IF k < it THEN k ELSE k + 1
  <2>1. \A k \in 1 .. n - 1 : at(k) \in 1 .. n /\ sessions'[k] = sessions[at(k)]
    BY <1>0, <1>1
  <2>2. at(i) = at(j)
    BY <1>3, <2>1
  <2> QED
    BY <1>0, <2>2
<1>5. ASSUME NEW t \in Slots PROVE t \in Listed' <=> thread'[t] # "none"
  <2>1. t \in Listed <=> thread[t] # "none"
    BY DEF IInv, NoDanglingThread
  <2>2. t \in Listed <=> \E k \in 1 .. n : sessions[k] = t
    BY <1>0 DEF Listed, Range
  <2>3. t \in Listed' <=> \E k \in 1 .. n - 1 : sessions'[k] = t
    BY <1>0, <1>1 DEF Listed, Range
  <2>4. ASSUME NEW k \in 1 .. n - 1, sessions'[k] = t
        PROVE  t # sessions[it] /\ t \in Listed
    <3>1. CASE k < it
      BY SMTT(30), <1>0, <1>1, <1>3, <2>2, <2>4, <3>1
    <3>2. CASE k >= it
      <4>1. k + 1 \in 1 .. n /\ sessions[k + 1] = t /\ k + 1 # it
        BY <1>0, <1>1, <2>4, <3>2
      <4> QED
        BY <1>0, <1>3, <2>2, <4>1
    <3> QED
      BY <1>0, <3>1, <3>2
  <2>5. ASSUME NEW k \in 1 .. n, sessions[k] = t, t # sessions[it]
        PROVE  t \in Listed'
    <3>1. CASE k < it
      <4>1. k \in 1 .. n - 1 /\ sessions'[k] = t
        BY SMTT(30), <1>0, <1>1, <2>5, <3>1
      <4> QED
        BY <2>3, <4>1
    <3>2. CASE k > it
      <4>1. k - 1 \in 1 .. n - 1 /\ sessions'[k - 1] = t
        BY <1>0, <1>1, <2>5, <3>2
      <4> QED
        BY <2>3, <4>1
    <3> QED
      BY <1>0, <2>5, <3>1, <3>2
  <2>6. t \in Listed' <=> t \in Listed /\ t # sessions[it]
    BY <2>2, <2>3, <2>4, <2>5
  <2>7. thread'[t] # "none" <=> thread[t] # "none" /\ t # sessions[it]
    BY <1>2 DEF IInv, TypeOK
  <2> QED
    BY <2>1, <2>6, <2>7
<1>6. thread' \in [Slots -> {"none", "running", "finished", "returned"}]
  BY <1>0, <1>2 DEF IInv, TypeOK
<1> QED
  BY <1>1, <1>4, <1>5, <1>6 DEF NoDanglingThread

(* A thread goes from one of its states to the next.                       *)
LEMMA ThreadKeeps ==
  ASSUME IInv, NEW s \in Slots, Finish(s) \/ Return(s) PROVE IInv'
<1>1. UNCHANGED <<pc, socket, stop, sessions, it, backlog, called>>
  BY DEF Finish, Return
<1>2. PICK v \in {"finished", "returned"} :
        thread' = [thread EXCEPT ![s] = v] /\ thread[s] # "none"
  BY DEF Finish, Return
<1>3. \A t \in Slots : thread'[t] = "none" <=> thread[t] = "none"
  BY <1>2 DEF IInv, TypeOK
<1>4. TypeOK'
  BY <1>1, <1>2 DEF IInv, TypeOK
<1>5. NoDanglingThread'
  BY <1>1, <1>3 DEF IInv, NoDanglingThread, Listed
<1> QED
  BY <1>1, <1>4, <1>5 DEF IInv

(* main_loop() creates a session with its thread, and erases it only after *)
(* join().                                                                 *)
LEMMA StepHolds == IInv /\ [Next]_vars => IInv'
<1> SUFFICES ASSUME IInv, [Next]_vars PROVE IInv'
  OBVIOUS
<1>0. TypeOK /\ NoDanglingThread
  BY DEF IInv
<1>1. ASSUME UNCHANGED <<sessions, thread>> PROVE NoDanglingThread'
  BY <1>0, <1>1 DEF NoDanglingThread, Listed
<1>2. CASE Initialise \/ MainLoop
  <2>1. socket' \in Descriptors \cup {-1} /\ backlog' \in 0 .. MaxBacklog
    BY <1>0, <1>2, BacklogAssumption DEF Initialise, MainLoop, init, TypeOK
  <2>2. UNCHANGED <<stop, sessions, it, thread, called>>
        /\ pc' \in {"ready", "returned", "prepare"}
    BY <1>2 DEF Initialise, MainLoop
  <2>3. TypeOK'
    BY <1>0, <2>1, <2>2 DEF TypeOK
  <2> QED
    BY <1>1, <2>2, <2>3 DEF IInv
<1>3. CASE PrepareLoop \/ LoopTest \/ Destroy
  <2>1. UNCHANGED <<socket, sessions, it, thread, backlog, called>>
        /\ stop' \in BOOLEAN
        /\ pc' \in {"loop", "returned", "receive", "ended", "terminated"}
    BY Zenon, <1>0, <1>3 DEF PrepareLoop, LoopTest, Destroy, TypeOK
  <2>2. TypeOK'
    BY <1>0, <2>1 DEF TypeOK
  <2> QED
    BY <1>1, <2>1, <2>2 DEF IInv
<1>4. CASE Receive
  <2>1. UNCHANGED <<socket, stop, called>> /\ pc' = "scan" /\ it' = 1
    BY <1>4 DEF Receive
  <2>2. backlog' \in 0 .. MaxBacklog
    BY <1>0, <1>4, BacklogAssumption DEF Receive, TypeOK
  <2>3. /\ sessions' \in Seq(Slots)
        /\ thread' \in [Slots -> {"none", "running", "finished", "returned"}]
        /\ NoDanglingThread'
    <3>1. CASE UNCHANGED <<sessions, thread>>
      BY <1>0, <1>1, <3>1 DEF TypeOK
    <3>2. CASE \E s \in Slots : NewSession(s)
      BY <1>0, <3>2, NewSessionKeeps
    <3> QED
      BY <1>4, <3>1, <3>2 DEF Receive
  <2>4. TypeOK'
    BY <1>0, <2>1, <2>2, <2>3 DEF TypeOK
  <2> QED
    BY <2>1, <2>3, <2>4 DEF IInv
<1>5. CASE PrepareThrows \/ Arrive
  <2>1. UNCHANGED <<socket, stop, sessions, it, thread, called>>
        /\ pc' \in {pc, "terminated"}
    BY <1>5 DEF PrepareThrows, Arrive
  <2>2. backlog' \in 0 .. MaxBacklog
    BY <1>0, <1>5, BacklogAssumption DEF PrepareThrows, Arrive, TypeOK
  <2>3. TypeOK'
    BY <1>0, <2>1, <2>2 DEF TypeOK
  <2> QED
    BY <1>1, <2>1, <2>3 DEF IInv
<1>6. CASE Scan
  <2>1. UNCHANGED <<socket, stop, sessions, thread, backlog, called>>
        /\ pc' \in {"loop", "join", "scan"} /\ it' \in Nat \ {0}
    BY <1>0, <1>6 DEF Scan, TypeOK
  <2>2. pc' = "join" => it' = it /\ it <= Len(sessions)
    BY <1>0, <1>6 DEF Scan, TypeOK
  <2>3. TypeOK'
    BY <1>0, <2>1 DEF TypeOK
  <2> QED
    BY <1>1, <2>1, <2>2, <2>3 DEF IInv
<1>7. CASE Join
  <2>1. UNCHANGED <<socket, stop, it, backlog, called>> /\ pc' = "loop"
    BY <1>7 DEF Join
  <2>2. TypeOK'
    BY <1>0, <1>7, <2>1, JoinKeeps DEF TypeOK
  <2> QED
    BY <1>7, <2>1, <2>2, JoinKeeps DEF IInv
<1>8. CASE Stop
  <2>1. UNCHANGED <<pc, socket, sessions, it, thread, backlog>>
        /\ stop' \in BOOLEAN
    BY <1>8 DEF Stop
  <2>2. called' \in BOOLEAN
    BY <1>0, <1>8 DEF Stop, TypeOK
  <2>3. TypeOK'
    BY <1>0, <2>1, <2>2 DEF TypeOK
  <2> QED
    BY <1>1, <2>1, <2>3 DEF IInv
<1>9. ASSUME NEW s \in Slots, Throw(s) PROVE IInv'
  <2>1. UNCHANGED <<socket, stop, sessions, it, thread, backlog, called>>
        /\ pc' = "terminated"
    BY <1>9 DEF Throw
  <2>2. TypeOK'
    BY <1>0, <2>1 DEF TypeOK
  <2> QED
    BY <1>1, <2>1, <2>2 DEF IInv
<1>10. CASE UNCHANGED vars
  <2>1. TypeOK'
    BY <1>0, <1>10 DEF vars, TypeOK
  <2> QED
    BY <1>1, <1>10, <2>1 DEF vars, IInv
<1> QED
  BY SMTT(30), <1>2, <1>3, <1>4, <1>5, <1>6, <1>7, <1>8, <1>9, <1>10, ThreadKeeps
     DEF Next, Owner

(* A thread runs on no session that sessions_ has lost, and no session is  *)
(* held twice or without a thread, however many sessions there are.        *)
THEOREM ThreadsHeld == Spec => []NoDanglingThread
<1>1. IInv => NoDanglingThread
  BY DEF IInv
<1> QED
  BY InitHolds, StepHolds, <1>1, PTL DEF Spec

(* The state of class Srv keeps its types.                                 *)
THEOREM ServerTypes == Spec => []TypeOK
<1>1. IInv => TypeOK
  BY DEF IInv
<1> QED
  BY InitHolds, StepHolds, <1>1, PTL DEF Spec
=============================================================================
