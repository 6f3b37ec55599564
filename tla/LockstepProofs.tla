--------------------------- MODULE LockstepProofs ---------------------------
(***************************************************************************)
(* Theorems about a session and the client of its request: the invariants  *)
(* of uploads and downloads hold of the two together, and the two together *)
(* implement the abstract Transfer.                                        *)
(***************************************************************************)
EXTENDS Lockstep, UploadProofs, DownloadProofs

(* The client that the request does not call for stays idle.               *)
LEMMA LockstepSteps ==
  ASSUME [LockstepNext]_lvars
  PROVE  /\ [UploadNext]_uvars \/ (opt.type = "read" /\ UNCHANGED uploader)
         /\ [DownloadNext]_dvars \/ (opt.type = "write" /\ UNCHANGED downloader)
  BY DEF LockstepNext, Uploading, Downloading, lvars, uvars, dvars

(* Either client is one of the peers that SessionSpec allows.              *)
LEMMA LockstepIsSession ==
  LockstepSpec => SessionSpec /\ []UploaderOK /\ []DownloaderOK
<1>1. LockstepInit => Init /\ TypeOK /\ UploaderOK /\ DownloaderOK
  BY UploaderInit, DownloaderInit, TypeInit DEF LockstepInit, UploadInit
<1>2. TypeOK /\ UploaderOK /\ DownloaderOK /\ [LockstepNext]_lvars
      => TypeOK' /\ UploaderOK' /\ DownloaderOK' /\ [SessionNext]_vars
  <2> SUFFICES ASSUME TypeOK, UploaderOK, DownloaderOK, [LockstepNext]_lvars
               PROVE  UploaderOK' /\ DownloaderOK' /\ [SessionNext]_vars
    BY TypeStep
  <2>1. [SessionNext]_vars
    BY UploadStepIsSessionStep, DownloadStepIsSessionStep
    DEF LockstepNext, Uploading, Downloading, lvars
  <2>2. UploaderOK'
    <3>1. CASE UNCHANGED uploader
      BY <3>1 DEF uploader, UploaderOK
    <3> QED BY <3>1, LockstepSteps, UploaderStep
  <2>3. DownloaderOK'
    <3>1. CASE UNCHANGED downloader
      BY <3>1 DEF downloader, DownloaderOK
    <3> QED BY <3>1, LockstepSteps, DownloaderStep
  <2> QED BY <2>1, <2>2, <2>3
<1> QED
  BY <1>1, <1>2, PTL DEF LockstepSpec, SessionSpec

(* What the session alone guarantees.                                      *)
SessionInv ==
  TypeOK /\ Sides /\ Fresh /\ GivenUp /\ DataSent /\ SentFromFile
  /\ DownloadIsFile /\ EndsAfterLastBlock

(* The invariants of uploads and downloads.                                *)
UploadInv == UploadOrder /\ BlocksInPlace /\ NoNegativeSeek /\ UploadPrefix
DownloadInv ==
  DownloadOrder /\ GotBlocks /\ FullPrefix /\ ("stray" \notin Faults => DownloadIntact)

(* The order of an upload is kept by every step that the session and its   *)
(* client may make.                                                        *)
LEMMA UploadInvStep ==
  ASSUME OneBlockUploads, RetransmitCount < RetrMod - 1,
         SessionInv, SessionInv', UploaderOK, UploadInv, [SessionNext]_vars,
         [UploadNext]_uvars \/ (opt.type = "read" /\ UNCHANGED uploader)
  PROVE  UploadInv'
<1> USE DEF SessionInv
<1>1. CASE [UploadNext]_uvars
  BY <1>1, UploadOrderStep, UploadPlacesStep, UploadPrefixStep DEF UploadInv
<1>2. CASE opt.type = "read"
  <2>1. opt'.type = "read"
    BY <1>2, RequestFixed
  <2> QED
    BY <2>1 DEF UploadInv, UploadOrder, BlocksInPlace, NoNegativeSeek,
       UploadPrefix, Fresh, Sides
<1> QED BY <1>1, <1>2

(* The same for the order of a download.                                   *)
LEMMA DownloadInvStep ==
  ASSUME SessionInv, SessionInv', DownloaderOK, DownloadInv, [SessionNext]_vars,
         [DownloadNext]_dvars \/ (opt.type = "write" /\ UNCHANGED downloader)
  PROVE  DownloadInv'
<1> USE DEF SessionInv
<1>1. CASE [DownloadNext]_dvars
  <2>1. NeverAhead
    BY DEF DownloadInv, DownloadOrder
  <2> QED
    BY <1>1, <2>1, DownloadOrderStep, GotBlocksStep, FullPrefixStep, DownloadIntactStep
    DEF DownloadInv
<1>2. CASE opt.type = "write" /\ UNCHANGED downloader
  <2>1. ~DataTx
    BY Zenon, <1>2 DEF DataTx, Sides
  <2>2. /\ \A m \in sent' : m \in sent \/ m.op # "DATA"
        /\ sent \subseteq sent' /\ opt' = opt
    BY <2>1, OnlyDataTxSendsData
  <2>3. UNCHANGED <<got, done>>
    BY <1>2 DEF downloader
  <2>4. DownloadOrder'
    BY <1>2, <2>2, <2>3 DEF DownloadInv, DownloadOrder, NeverAhead, Expected
  <2>5. GotBlocks'
    BY <2>3 DEF DownloadInv, GotBlocks
  <2>6. FullPrefix' /\ ("stray" \notin Faults => DownloadIntact')
    BY <2>2, <2>3 DEF DownloadInv, FullPrefix, DownloadIntact, DataZeroSent, ClientHasPrefix
  <2> QED BY <2>4, <2>5, <2>6 DEF DownloadInv
<1> QED BY <1>1, <1>2

(* Both orders hold throughout every transfer of the two.                  *)
LEMMA LockstepInvariant ==
  ASSUME OneBlockUploads, RetransmitCount < RetrMod - 1
  PROVE  LockstepSpec => [](SessionInv /\ UploaderOK /\ DownloaderOK
                            /\ UploadInv /\ DownloadInv)
<1>1. LockstepInit => UploadInv /\ DownloadInv
  <2> SUFFICES ASSUME LockstepInit PROVE UploadInv /\ DownloadInv
    OBVIOUS
  <2>1. UploadOrder /\ BlocksInPlace /\ NoNegativeSeek
    BY DEF LockstepInit, UploadInit, Init, UploadOrder, BlocksInPlace, NoNegativeSeek
  <2>2. UploadPrefix
    BY UploadPrefixInit DEF LockstepInit, UploadInit
  <2>3. DownloadOrder /\ FullPrefix /\ DownloadIntact
    BY DEF LockstepInit, DownloadInit, Init, DownloadOrder, NeverAhead,
       FullPrefix, DownloadIntact, ClientHasPrefix
  <2>4. GotBlocks
    BY NumbersAssumption DEF LockstepInit, DownloadInit, GotBlocks, LastBlock
  <2> QED BY <2>1, <2>2, <2>3, <2>4 DEF UploadInv, DownloadInv
<1>2. SessionInv /\ SessionInv' /\ UploaderOK /\ DownloaderOK /\ [SessionNext]_vars
      /\ UploadInv /\ DownloadInv /\ [LockstepNext]_lvars
      => UploadInv' /\ DownloadInv'
  BY LockstepSteps, UploadInvStep, DownloadInvStep
<1>3. SessionSpec => []SessionInv
  <2>1. TypeOK /\ Sides /\ Fresh /\ GivenUp /\ DataSent /\ SentFromFile
        /\ DownloadIsFile /\ EndsAfterLastBlock => SessionInv
    BY DEF SessionInv
  <2> QED
    BY <2>1, TypeCorrect, SidesKept, FreshKept, AckInvariant, DataSentKept,
       SentFromFileKept, DownloadSafe, EndsWhole, PTL
<1> QED
  BY <1>1, <1>2, <1>3, LockstepIsSession, PTL DEF LockstepSpec, SessionSpec

(* A session and its client, whichever way the file goes: stored blocks    *)
(* lie in their places (BlocksInPlace, NoNegativeSeek), uploads and        *)
(* downloads are intact (UploadIntact, DownloadIntact; the latter unless   *)
(* packets of strangers arrive), and a download neither skips a block nor  *)
(* ends before its last one was sent (NeverAhead, ShortByOneAtMost), for   *)
(* every length of the file, every modulus of the block number and every   *)
(* lag below it.                                                           *)
THEOREM LockstepSafe ==
  ASSUME OneBlockUploads, RetransmitCount < RetrMod - 1
  PROVE  LockstepSpec => [](/\ UploadTypeOK /\ DownloadTypeOK
                            /\ BlocksInPlace /\ UploadIntact /\ NoNegativeSeek
                            /\ "stray" \notin Faults => DownloadIntact
                            /\ NeverAhead /\ ShortByOneAtMost)
<1>1. SessionInv /\ UploaderOK /\ DownloaderOK /\ UploadInv /\ DownloadInv
      => /\ UploadTypeOK /\ DownloadTypeOK
         /\ BlocksInPlace /\ UploadIntact /\ NoNegativeSeek
         /\ "stray" \notin Faults => DownloadIntact
         /\ NeverAhead /\ ShortByOneAtMost
  <2> SUFFICES ASSUME SessionInv, UploaderOK, DownloaderOK, UploadInv, DownloadInv
               PROVE  /\ UploadTypeOK /\ DownloadTypeOK
                      /\ UploadIntact /\ NeverAhead /\ ShortByOneAtMost
    BY DEF UploadInv, DownloadInv
  <2>1. UploadTypeOK
    BY NumbersAssumption DEF SessionInv, UploaderOK, UploadTypeOK, LastBlock
  <2>2. DownloadTypeOK
    BY DownloadTyped DEF SessionInv, DownloadInv
  <2>3. UploadIntact
    BY IntactUpload DEF SessionInv, UploadInv
  <2>4. NeverAhead
    BY DEF DownloadInv, DownloadOrder
  <2>5. ShortByOneAtMost
    BY <2>4, OnlyLastMissing DEF SessionInv
  <2> QED BY <2>1, <2>2, <2>3, <2>4, <2>5
<1> QED
  BY <1>1, LockstepInvariant, PTL

-----------------------------------------------------------------------------
(* The refinement.  Its mapping is in terms of maxima, which are computed  *)
(* here once.                                                              *)

(* What Max() of the community modules picks.                              *)
LEMMA MaxIs ==
  ASSUME NEW S \in SUBSET Int, NEW k \in S, \A x \in S : x <= k
  PROVE  Max(S) = k
<1>1. \A y \in S : k >= y
  OBVIOUS
<1>2. Max(S) \in S /\ \A y \in S : Max(S) >= y
  BY Zenon, <1>1 DEF Max
<1>3. Max(S) \in Int /\ Max(S) <= k /\ Max(S) >= k
  BY Zenon, <1>2
<1> QED BY <1>3

(* The block that the client expects was sent.                             *)
ExpectedSent == \E m \in sent : m.op = "DATA" /\ m.num = Expected

(* What the client has taken was sent.                                     *)
TakenWasSent ==
  \A i \in 1 .. Len(got) : \E m \in sent : m.op = "DATA" /\ m.num = i

(* How much of what the client has taken is the file's: all, unless a      *)
(* stranger's packet took the place of the last block.                     *)
TakenWell ==
  IF Len(got) > 0 /\ got[Len(got)] # Len(got) THEN Len(got) - 1 ELSE Len(got)

(* The values of the mapping.                                              *)
Values ==
  ~Spoiled =>
    /\ opt.type = "write" =>
         /\ Delivered \in 0 .. LastBlock /\ file = Blocks(Delivered)
         /\ Confirmed = IF acked > 0 THEN acked ELSE 0
    /\ opt.type = "read" =>
         /\ Delivered = TakenWell
         /\ Confirmed = IF ExpectedSent \/ Len(got) = 0 THEN Len(got)
                        ELSE Len(got) - 1

(* In an upload, delivered counts the blocks stored, all those before the  *)
(* last among them; confirmed is the last one acknowledged to the client.  *)
LEMMA UploadValues ==
  ASSUME SessionInv, UploaderOK, UploadInv, ~Spoiled, opt.type = "write"
  PROVE  /\ Delivered \in 0 .. LastBlock /\ file = Blocks(Delivered)
         /\ Confirmed = IF acked > 0 THEN acked ELSE 0
<1>1. retr = 0
  BY NumbersAssumption DEF Spoiled, SessionInv, TypeOK
<1>2. PICK h \in 0 .. LastBlock : file = Blocks(h)
  BY <1>1 DEF UploadInv, UploadPrefix
<1>3. h \in Nat /\ LastBlock \in Nat
  BY NumbersAssumption DEF LastBlock
<1>4. \A n \in Nat \ {0} : InPlace(n) <=> n <= h
  BY Zenon, <1>2, <1>3, BlocksFacts DEF InPlace, Block
<1> DEFINE S == {n \in 0 .. LastBlock : \A i \in 1 .. n : InPlace(i)}
<1>5. Delivered = h
  <2>1. h \in S
    BY <1>3, <1>4
  <2>2. \A n \in S : n <= h
    <3> SUFFICES ASSUME NEW n \in 0 .. LastBlock, \A i \in 1 .. n : InPlace(i)
                 PROVE  n <= h
      OBVIOUS
    <3>1. n > 0 => InPlace(n)
      BY <1>3
    <3> QED BY <1>3, <1>4, <3>1
  <2>3. S \in SUBSET Int
    OBVIOUS
  <2> HIDE DEF S
  <2>4. Max(S) = h
    BY <2>1, <2>2, <2>3, MaxIs
  <2> QED BY <2>4 DEF Delivered, S
<1>6. Confirmed = IF acked > 0 THEN acked ELSE 0
  <2>1. acked \in Int
    BY DEF UploaderOK
  <2>2. {0, acked} \in SUBSET Int
    BY <2>1
  <2>3. CASE acked > 0
    BY <2>1, <2>2, <2>3, MaxIs DEF Confirmed
  <2>4. CASE ~(acked > 0)
    BY <2>1, <2>2, <2>4, MaxIs DEF Confirmed
  <2> QED BY <2>3, <2>4
<1> QED BY <1>2, <1>5, <1>6

(* In a download, delivered is what the client has taken well; confirmed   *)
(* lacks the last block taken until the session has sent the next one.     *)
LEMMA DownloadValues ==
  ASSUME SessionInv, DownloaderOK, DownloadInv, TakenWasSent, ~Spoiled,
         opt.type = "read"
  PROVE  /\ Delivered = TakenWell
         /\ Confirmed = IF ExpectedSent \/ Len(got) = 0 THEN Len(got)
                        ELSE Len(got) - 1
<1>1. ~DataZeroSent /\ NeverAhead
  BY DEF Spoiled, DownloadInv, DownloadOrder
<1>2. Len(got) \in Nat /\ Expected = Len(got) + 1
  BY SMTT(60) DEF DownloaderOK, Expected
<1>3. Delivered = TakenWell
  <2> DEFINE S == {n \in 0 .. Len(got) : \A i \in 1 .. n : got[i] = i}
  <2>1. \A i \in 1 .. Len(got) : i < Len(got) => got[i] = i
    <3>1. \A i \in 1 .. Len(got) : i <= FullBlocks => got[i] = i
      BY <1>1 DEF DownloadInv, FullPrefix
    <3>2. Len(got) <= FullBlocks + 1 /\ FullBlocks \in Nat
      BY NumbersAssumption DEF DownloadInv, GotBlocks, LastBlock
    <3> QED BY <1>2, <3>1, <3>2
  <2>2. TakenWell \in S
    <3>1. TakenWell \in 0 .. Len(got)
      BY <1>2 DEF TakenWell
    <3>2. \A i \in 1 .. TakenWell : got[i] = i
      BY <1>2, <2>1 DEF TakenWell
    <3> QED BY <3>1, <3>2
  <2>3. \A n \in S : n <= TakenWell
    BY <1>2 DEF TakenWell
  <2>4. S \in SUBSET Int
    OBVIOUS
  <2> HIDE DEF S
  <2>5. Max(S) = TakenWell
    BY SMTT(30), <2>2, <2>3, <2>4, MaxIs
  <2> QED BY Zenon, <2>5 DEF Delivered, S
<1> DEFINE D == {p \in sent : p.op = "DATA"}
           S == {0} \cup {m.num - 1 : m \in D}
<1>4. \A m \in D : m.num \in Nat /\ m.num > 0 /\ m.num <= Len(got) + 1
  BY SMTT(30), <1>1, <1>2 DEF SessionInv, TypeOK, Message, DataZeroSent, NeverAhead
<1>5. S \in SUBSET Int /\ \A n \in S : n <= Len(got)
  BY <1>2, <1>4
<1>6. \A k \in S : k = 0 \/ \E m \in D : k = m.num - 1
  OBVIOUS
<1>7. 0 \in S /\ \A m \in D : m.num - 1 \in S
  OBVIOUS
<1>8. Confirmed = Max(S)
  BY DEF Confirmed
<1> HIDE DEF S
<1>9. CASE ExpectedSent \/ Len(got) = 0
  <2>1. Len(got) \in S
    <3>1. CASE ExpectedSent
      <4>1. PICK m \in D : m.num = Len(got) + 1
        BY <1>2, <3>1 DEF ExpectedSent
      <4> QED BY <1>2, <1>7, <4>1
    <3> QED BY <1>7, <1>9, <3>1
  <2>2. Max(S) = Len(got)
    BY <1>5, <2>1, MaxIs
  <2> QED BY <1>3, <1>8, <1>9, <2>2
<1>10. CASE ~(ExpectedSent \/ Len(got) = 0)
  <2>1. PICK m \in D : m.num = Len(got)
    BY <1>2, <1>10 DEF TakenWasSent
  <2>2. Len(got) - 1 \in S
    BY <1>7, <2>1
  <2>3. \A p \in D : p.num # Len(got) + 1
    BY <1>2, <1>10 DEF ExpectedSent
  <2>4. \A k \in S : k <= Len(got) - 1
    BY SMTT(30), <1>2, <1>4, <1>6, <1>10, <2>3
  <2>5. Max(S) = Len(got) - 1
    BY SMTT(30), <1>5, <2>2, <2>4, MaxIs
  <2> QED BY <1>3, <1>8, <1>10, <2>5
<1> QED BY <1>9, <1>10

(* The client takes only what data_tx() has sent.                          *)
LEMMA TakenWasSentStep ==
  ASSUME TypeOK, DownloaderOK, NeverAhead, TakenWasSent, [SessionNext]_vars,
         [DownloadNext]_dvars \/ UNCHANGED downloader
  PROVE  TakenWasSent'
<1>1. sent \subseteq sent'
  BY RequestFixed
<1>2. CASE ClientTakes
  <2>1. PICK m \in sent :
          /\ m.op = "DATA" /\ got' = Append(got, m.body)
          /\ blk_num(m.num) = blk_num(Expected) /\ m.num >= Expected - Lag
    BY <1>2 DEF ClientTakes
  <2>2. m.num = Len(got) + 1
    BY SMTT(30), <2>1, TakesExpected DEF Expected
  <2>3. got \in Seq(Nat) /\ Len(got) \in Nat /\ m.body \in Nat
    BY <2>1 DEF DownloaderOK, TypeOK, Message
  <2>4. Len(got') = Len(got) + 1
    BY <2>1, <2>3, OneMore
  <2>5. \A i \in 1 .. Len(got) + 1 : i \in 1 .. Len(got) \/ i = Len(got) + 1
    BY <2>3
  <2> QED BY SMTT(30), <1>1, <2>1, <2>2, <2>4, <2>5 DEF TakenWasSent
<1>3. CASE UNCHANGED got
  BY <1>1, <1>3 DEF TakenWasSent
<1> QED
  BY <1>2, <1>3 DEF DownloadNext, ClientOack, DeliverAck, dvars, downloader

(* So the mapping gives numbers of blocks in every state.                  *)
LEMMA MappedValues ==
  ASSUME OneBlockUploads, RetransmitCount < RetrMod - 1
  PROVE  LockstepSpec => []Values
<1> DEFINE Inv == SessionInv /\ UploaderOK /\ DownloaderOK /\ UploadInv /\ DownloadInv
<1>1. LockstepInit => TakenWasSent
  BY DEF LockstepInit, DownloadInit, TakenWasSent
<1>2. Inv /\ TakenWasSent /\ [LockstepNext]_lvars /\ [SessionNext]_vars => TakenWasSent'
  <2>1. Inv => TypeOK /\ DownloaderOK /\ NeverAhead
    BY DEF SessionInv, DownloadInv, DownloadOrder
  <2> QED BY <2>1, LockstepSteps, TakenWasSentStep
<1>3. Inv /\ TakenWasSent => Values
  <2>1. Inv => opt.type \in {"read", "write"}
    BY SMTT(30), RequestsAssumption DEF SessionInv, TypeOK
  <2> QED BY <2>1, UploadValues, DownloadValues DEF Values
<1> QED
  BY <1>1, <1>2, <1>3, LockstepInvariant, LockstepIsSession, PTL
  DEF LockstepSpec, SessionSpec

(* The variables of the transfer, and what its steps ask of them.          *)
Dir == IF opt.type = "write" THEN "upload" ELSE "download"
Del == IF Spoiled THEN 0 ELSE Delivered
Conf == IF Spoiled THEN 0 ELSE Confirmed

(* The steps of Transfer, by what they change.                             *)
LEMMA AbstractSteps ==
  /\ UNCHANGED <<Dir, Del, Conf, Outcome>> => [T!Next]_(T!transfer)
  /\ /\ Outcome # "spoiled"
     /\ Dir = "upload" => Outcome = "going"
     /\ Del < LastBlock /\ Del' = Del + 1
     /\ UNCHANGED <<Dir, Conf, Outcome>>
     => T!Next
  /\ /\ Outcome # "spoiled" /\ Conf' \in Conf + 1 .. Del
     /\ UNCHANGED <<Dir, Del, Outcome>>
     => T!Next
  /\ /\ Outcome = "going" /\ Outcome' = "complete"
     /\ Del >= IF Dir = "upload" THEN LastBlock ELSE LastBlock - 1
     /\ UNCHANGED <<Dir, Del, Conf>>
     => T!Next
  /\ /\ Outcome = "going" /\ Outcome' = "failed"
     /\ UNCHANGED <<Dir, Del, Conf>>
     => T!Next
  /\ /\ Outcome = "going" /\ Outcome' = "spoiled" /\ Del' = 0 /\ Conf' = 0
     /\ UNCHANGED Dir
     => T!Next
<1> USE DEF Dir, Del, Conf
<1>1. UNCHANGED <<Dir, Del, Conf, Outcome>> => [T!Next]_(T!transfer)
  BY Zenon DEF T!transfer
<1>2. /\ Outcome # "spoiled"
      /\ Dir = "upload" => Outcome = "going"
      /\ Del < LastBlock /\ Del' = Del + 1
      /\ UNCHANGED <<Dir, Conf, Outcome>>
      => T!Next
  BY Zenon DEF T!Next, T!Deliver
<1>3. /\ Outcome # "spoiled" /\ Conf' \in Conf + 1 .. Del
      /\ UNCHANGED <<Dir, Del, Outcome>>
      => T!Next
  BY Zenon DEF T!Next, T!Confirm
<1>4. /\ Outcome = "going" /\ Outcome' = "complete"
      /\ Del >= IF Dir = "upload" THEN LastBlock ELSE LastBlock - 1
      /\ UNCHANGED <<Dir, Del, Conf>>
      => T!Next
  BY Zenon DEF T!Next, T!Complete, T!Whole
<1>5. /\ Outcome = "going" /\ Outcome' = "failed"
      /\ UNCHANGED <<Dir, Del, Conf>>
      => T!Next
  BY Zenon DEF T!Next, T!Fail
<1>6. /\ Outcome = "going" /\ Outcome' = "spoiled" /\ Del' = 0 /\ Conf' = 0
      /\ UNCHANGED Dir
      => T!Next
  BY Zenon DEF T!Next, T!Spoil
<1> QED BY Zenon, <1>1, <1>2, <1>3, <1>4, <1>5, <1>6

(* How the outcome of the transfer follows the fate of the session.        *)
LEMMA OutcomeFacts ==
  ASSUME ~Spoiled, ~Spoiled'
  PROVE  /\ Outcome # "spoiled"
         /\ fate = "running" => Outcome = "going"
         /\ fate' = "running" => Outcome' = "going"
         /\ UNCHANGED <<fate, err, retr>> => Outcome' = Outcome
         /\ fate' # "running" => Outcome' \in {"complete", "failed"}
         /\ Outcome' = "complete" =>
              fate' = "closed" /\ err' = "none" /\ retr' <= RetransmitCount
  BY Zenon DEF Outcome

(* A spoiled transfer is mapped to one without numbers, any other to its   *)
(* own.                                                                    *)
LEMMA SpoiledFacts ==
  /\ Spoiled => Outcome = "spoiled" /\ Del = 0 /\ Conf = 0
  /\ Spoiled' => Outcome' = "spoiled" /\ Del' = 0 /\ Conf' = 0
  /\ ~Spoiled => Del = Delivered /\ Conf = Confirmed
  /\ ~Spoiled' => Del' = Delivered' /\ Conf' = Confirmed'
  BY Zenon DEF Outcome, Del, Conf

(* As many blocks as there are numbers of them.                            *)
LEMMA BlocksApart ==
  ASSUME NEW h \in Nat, NEW k \in Nat, Blocks(h) = Blocks(k)
  PROVE  h = k
<1>1. h > 0 => h <= k
  BY BlocksFacts
<1>2. k > 0 => k <= h
  BY BlocksFacts
<1> QED BY <1>1, <1>2

(* A step of an upload without retransmissions.                            *)
LEMMA CleanUploadStep ==
  ASSUME "recv" \notin Faults, opt.type = "write", opt' = opt,
         Dir' = Dir, Dir = "upload",
         SessionInv, SessionInv', UploaderOK, UploaderOK', UploadInv, UploadInv',
         ~Spoiled, ~Spoiled', retr \in Nat, retr' \in Nat, ~(retr > 0), ~(retr' > 0),
         Del \in 0 .. LastBlock, file = Blocks(Del),
         Conf = IF acked > 0 THEN acked ELSE 0,
         Del' \in 0 .. LastBlock, file' = Blocks(Del'),
         Conf' = IF acked' > 0 THEN acked' ELSE 0,
         Del \in Nat, Del' \in Nat, file' = file => Del' = Del,
         [UploadNext]_uvars
  PROVE  [T!Next]_(T!transfer)
<1>1. CASE ClientSend \/ UNCHANGED uvars
  <2>1. UNCHANGED <<fate, err, retr, file, acked>>
    BY SMTT(30), <1>1 DEF ClientSend, uvars, vars, session, manager, uploader
  <2>2. Outcome' = Outcome
    BY <2>1, OutcomeFacts
  <2> QED BY Zenon, <2>1, <2>2, AbstractSteps
<1>2. CASE ClientReceive
  <2>1. PICK n \in acked + 1 .. step : acked' = n
    BY SMTT(30), <1>2 DEF ClientReceive
  <2>2. UNCHANGED <<fate, err, retr, file>>
    BY SMTT(30), <1>2 DEF ClientReceive, vars, session, manager
  <2>3. Outcome' = Outcome /\ Outcome # "spoiled" /\ Del' = Del
    BY SMTT(30), <2>2, OutcomeFacts
  <2>4. n \in Nat /\ acked \in Int /\ acked < n
    BY SMTT(30), <2>1 DEF UploaderOK
  <2>5. CASE n = 0
    <3>1. Conf' = Conf
      BY SMTT(30), <2>1, <2>4, <2>5
    <3> QED BY SMTT(30), <2>3, <3>1, AbstractSteps
  <2>6. CASE n > 0
    <3>1. Conf' = n /\ Conf + 1 <= n /\ Conf \in Int
      BY SMTT(30), <2>1, <2>4, <2>6
    <3>2. Prefix(acked)'
      BY SMTT(30), AckedPrefixNext DEF SessionInv, UploadInv
    <3>3. Block(n) \in Blocks(Del')
      BY SMTT(30), <2>1, <2>4, <2>6, <3>2 DEF Prefix
    <3>4. n <= Del
      BY SMTT(30), <2>3, <2>4, <2>6, <3>3, BlocksFacts
    <3>5. Conf' \in Conf + 1 .. Del
      BY SMTT(30), <2>4, <3>1, <3>4
    <3> QED BY SMTT(30), <2>3, <3>5, AbstractSteps
  <2> QED BY SMTT(30), <2>4, <2>5, <2>6
<1>3. CASE DeliverData
  <2>1. fate = "running" /\ UNCHANGED <<acked, step>>
    BY <1>3 DEF DeliverData, uploader
  <2>2. Conf' = Conf
    BY SMTT(30), <2>1
  <2>3. Outcome = "going"
    BY SMTT(30), <2>1, OutcomeFacts
  <2>4. CASE file' = file
    <3>1. fate' # "closed"
      BY SMTT(30), <1>3, BlockArrives DEF SessionInv, UploadInv
    <3>2. Outcome' \in {"going", "failed"}
      BY SMTT(30), <3>1, OutcomeFacts
    <3> QED BY Zenon, <2>2, <2>3, <2>4, <3>2, AbstractSteps
  <2>5. ASSUME NEW n \in 1 .. step, DataMgrWrite(n, ClientData(n)), fate' = fate,
               file' # file
        PROVE  [T!Next]_(T!transfer)
    <3>1. n \in Nat /\ n > 0 /\ n - 1 <= acked /\ acked \in Int
      BY SMTT(30) DEF UploaderOK, UploadInv, UploadOrder
    <3>2. file' = file \cup {Block(n)}
      BY SMTT(30), <2>5, <3>1, StoredInPlace DEF SessionInv, UploadInv
    <3>3. ~(n <= Del)
      BY SMTT(30), <2>5, <3>1, <3>2, BlocksFacts
    <3>4. acked > 0 => acked <= Del
      <4>1. retr = 0
        BY SMTT(30)
      <4>2. acked > 0 => Block(acked) \in file
        BY SMTT(30), <3>1, <4>1, AckedPrefix DEF Prefix, SessionInv, UploadInv
      <4> QED BY SMTT(30), <3>1, <4>2, BlocksFacts
    <3>5. n = Del + 1
      BY SMTT(30), <3>1, <3>3, <3>4
    <3>6. Blocks(Del') = Blocks(Del + 1)
      BY SMTT(30), <3>2, <3>5, BlocksFacts
    <3>7. Del' = Del + 1
      BY SMTT(30), <3>6, BlocksApart
    <3>8. Del < LastBlock
      BY SMTT(30), <3>7, NumbersAssumption DEF LastBlock
    <3>9. Outcome' = "going"
      BY SMTT(30), <2>1, <2>5, OutcomeFacts
    <3> QED BY Zenon, <2>2, <2>3, <3>7, <3>8, <3>9, AbstractSteps
  <2> QED BY Zenon, <1>3, <2>4, <2>5, BlockArrives DEF SessionInv, UploadInv
<1>4. CASE ServerStep /\ UNCHANGED uploader
  <2>1. fate = "running" /\ file' = file /\ acked' = acked
    BY SMTT(30), <1>4, ServerKeepsFile DEF ServerStep, uploader, SessionInv
  <2>2. Conf' = Conf /\ Del' = Del /\ Outcome = "going"
    BY SMTT(30), <2>1, OutcomeFacts
  <2>3. CASE Outcome' = "complete"
    <3>1. fate' = "closed" /\ err' = "none" /\ retr' <= RetransmitCount
      BY SMTT(30), <2>3, OutcomeFacts
    <3>2. last'
      BY Zenon, <3>1 DEF SessionInv, EndsAfterLastBlock
    <3>3. Prefix(LastBlock)'
      BY SMTT(30), <3>2 DEF UploadInv, UploadPrefix
    <3>4. LastBlock \in Nat \ {0}
      BY SMTT(30), NumbersAssumption DEF LastBlock
    <3>5. Block(LastBlock) \in Blocks(Del')
      BY SMTT(30), <3>3, <3>4 DEF Prefix
    <3>6. LastBlock <= Del
      BY SMTT(30), <2>2, <3>4, <3>5, BlocksFacts
    <3>7. Del >= IF Dir = "upload" THEN LastBlock ELSE LastBlock - 1
      BY Zenon, <3>4, <3>6
    <3> QED BY Zenon, <2>2, <2>3, <3>7, AbstractSteps
  <2>4. CASE Outcome' # "complete"
    <3>1. Outcome' \in {"going", "failed"}
      BY <2>4, OutcomeFacts
    <3> QED BY Zenon, <2>2, <3>1, AbstractSteps
  <2> QED BY SMTT(30), <2>3, <2>4
<1> QED BY SMTT(30), <1>1, <1>2, <1>3, <1>4 DEF UploadNext

(* Every step of an upload is a step of the transfer.                      *)
LEMMA UploadRefines ==
  ASSUME RetransmitCount < RetrMod - 1, "recv" \notin Faults, opt.type = "write",
         SessionInv, SessionInv', UploaderOK, UploaderOK', UploadInv, UploadInv',
         Values, Values', [UploadNext]_uvars
  PROVE  [T!Next]_(T!transfer)
<1>1. opt' = opt /\ Dir' = Dir /\ Dir = "upload" /\ opt'.type = "write"
  <2>1. opt' = opt
    BY Zenon, UploadStepIsSessionStep, RequestFixed
  <2> QED BY <2>1 DEF Dir
<1>2. /\ Spoiled <=> retr > 0
      /\ Spoiled' <=> retr' > 0
      /\ retr \in Nat /\ retr' \in Nat
  BY SMTT(30), <1>1, NumbersAssumption DEF Spoiled, SessionInv, TypeOK
<1>3. CASE Spoiled'
  <2>1. CASE Spoiled
    BY Zenon, <1>1, <1>3, <2>1, SpoiledFacts, AbstractSteps
  <2>2. CASE ~Spoiled
    <3>1. retr' # retr
      BY SMTT(30), <1>2, <1>3, <2>2
    <3>2. ServerStep
      <4>1. CASE DeliverData
        BY SMTT(30), <3>1, <4>1, BlockArrives DEF SessionInv, UploadInv
      <4>2. CASE UNCHANGED vars
        BY <3>1, <4>2 DEF vars, session
      <4> QED BY Zenon, <4>1, <4>2 DEF UploadNext, ClientSend, ClientReceive, uvars
    <3>3. Outcome = "going"
      BY Zenon, <2>2, <3>2 DEF ServerStep, Outcome
    <3> QED BY SMTT(30), <1>1, <1>3, <3>3, SpoiledFacts, AbstractSteps
  <2> QED BY SMTT(30), <2>1, <2>2
<1>4. CASE Spoiled /\ ~Spoiled'
  <2>1. retr > 0 /\ retr' = 0
    BY SMTT(30), <1>2, <1>4
  <2>2. CASE ServerStep
    <3>1. Retransmit
      BY SMTT(30), <2>1, <2>2, ServerKeepsFile DEF SessionInv
    <3> QED BY SMTT(30), <2>1, <3>1, RetransmitCounts DEF SessionInv
  <2>3. CASE DeliverData
    BY SMTT(30), <2>1, <2>3, BlockArrives DEF SessionInv, UploadInv
  <2>4. CASE UNCHANGED vars
    BY SMTT(30), <2>1, <2>4 DEF vars, session
  <2> QED BY Zenon, <2>2, <2>3, <2>4 DEF UploadNext, ClientSend, ClientReceive, uvars
<1>5. CASE ~Spoiled /\ ~Spoiled'
  <2>1. /\ Del \in 0 .. LastBlock /\ file = Blocks(Del)
        /\ Conf = IF acked > 0 THEN acked ELSE 0
        /\ Del' \in 0 .. LastBlock /\ file' = Blocks(Del')
        /\ Conf' = IF acked' > 0 THEN acked' ELSE 0
    BY Zenon, <1>1, <1>5, SpoiledFacts DEF Values
  <2>2. Del \in Nat /\ Del' \in Nat
    BY <2>1, NumbersAssumption DEF LastBlock
  <2>3. file' = file => Del' = Del
    BY ZenonT(40), <2>1, <2>2, BlocksApart
  <2> QED BY Zenon, <1>1, <1>2, <1>5, <2>1, <2>2, <2>3, CleanUploadStep
<1> QED BY <1>3, <1>4, <1>5

(* A step of a download that sends no block 0.                             *)
LEMMA CleanDownloadStep ==
  ASSUME "recv" \notin Faults, opt.type = "read", opt' = opt,
         Dir' = Dir, Dir = "download",
         SessionInv, SessionInv', DownloaderOK, DownloaderOK', DownloadInv, DownloadInv',
         ~Spoiled, ~Spoiled', Del = TakenWell, Del' = TakenWell',
         Conf = IF ExpectedSent \/ Len(got) = 0 THEN Len(got) ELSE Len(got) - 1,
         Conf' = IF ExpectedSent' \/ Len(got') = 0 THEN Len(got') ELSE Len(got') - 1,
         [DownloadNext]_dvars
  PROVE  [T!Next]_(T!transfer)
<1>0. Len(got) \in Nat /\ Expected = Len(got) + 1
  BY DEF DownloaderOK, Expected
<1>5. /\ Del \in Int /\ Del <= Len(got) /\ Len(got) <= Del + 1
      /\ Len(got) <= FullBlocks => Del = Len(got)
  <2>1. Len(got) > 0 /\ Len(got) <= FullBlocks => got[Len(got)] = Len(got)
    BY SMTT(30), <1>0 DEF DownloadInv, FullPrefix, Spoiled
  <2> QED BY SMTT(30), <1>0, <2>1 DEF TakenWell
<1>1. CASE ClientOack \/ UNCHANGED dvars
  <2>1. UNCHANGED <<fate, err, retr, sent, got>>
    BY Zenon, <1>1 DEF ClientOack, dvars, vars, session, manager, downloader
  <2>2. Outcome' = Outcome /\ Del' = Del
    BY Zenon, <2>1, OutcomeFacts DEF TakenWell
  <2>3. Conf' = Conf
    BY Zenon, <2>1 DEF ExpectedSent, Expected
  <2> QED BY Zenon, <2>2, <2>3, AbstractSteps
<1>2. CASE ClientTakes
  <2>1. PICK m \in sent :
          /\ m.op = "DATA" /\ got' = Append(got, m.body)
          /\ blk_num(m.num) = blk_num(Expected) /\ m.num >= Expected - Lag
    BY Zenon, <1>2 DEF ClientTakes
  <2>2. NeverAhead /\ TypeOK
    BY SMTT(30) DEF DownloadInv, DownloadOrder, SessionInv
  <2>3. m.num = Expected
    BY Zenon, <2>1, <2>2, TakesExpected
  <2>4. Conf = Len(got)
    BY Zenon, <2>1, <2>3 DEF ExpectedSent
  <2>5. got \in Seq(Nat) /\ m.body \in Nat
    BY Zenon, <2>1, <2>2 DEF DownloaderOK, TypeOK, Message
  <2>6. Len(got') = Len(got) + 1
    BY Zenon, <2>1, <2>5, OneMore
  <2>7. UNCHANGED <<fate, err, retr, sent>>
    BY SMTT(30), <1>2 DEF ClientTakes, vars, session, manager
  <2>8. ~ExpectedSent'
    <3>1. Expected' = Len(got) + 2
      BY SMTT(30), <1>0, <2>6 DEF Expected
    <3>2. \A k \in sent : k.op = "DATA" => k.num \in Nat /\ k.num <= Len(got) + 1
      BY Zenon, <1>0, <2>2 DEF NeverAhead, TypeOK, Message
    <3>3. \A k \in sent : k.op = "DATA" => k.num # Len(got) + 2
      BY SMTT(30), <1>0, <3>2
    <3> QED BY Zenon, <2>7, <3>1, <3>3 DEF ExpectedSent
  <2>10. Del < LastBlock /\ Del = Len(got)
    <3>1. Len(got') <= LastBlock
      BY SMTT(30) DEF DownloadInv, GotBlocks
    <3> QED BY SMTT(30), <1>0, <1>5, <2>6, <3>1, NumbersAssumption DEF LastBlock
  <2>9. Conf' = Conf /\ (Del' = Del + 1 \/ Del' = Del)
    <3>1. Conf' = Conf
      BY SMTT(30), <1>0, <2>4, <2>6, <2>8
    <3>2. Del' = Len(got) + 1 \/ Del' = Len(got)
      BY SMTT(30), <1>0, <2>6 DEF TakenWell
    <3> QED BY Zenon, <2>10, <3>1, <3>2
  <2>11. Outcome' = Outcome /\ Outcome # "spoiled"
    BY Zenon, <2>7, OutcomeFacts
  <2> QED BY Zenon, <2>9, <2>10, <2>11, AbstractSteps
<1>3. CASE DeliverAck
  <2>1. PICK n \in acks : Receive(ACK(n))
    BY SMTT(30), <1>3 DEF DeliverAck
  <2>2. ACK(n).op = "ACK"
    BY DEF ACK
  <2>3. fate = "running" /\ fate' = fate /\ sent' = sent /\ got' = got
    BY ZenonT(40), <1>3, <2>1, <2>2 DEF DeliverAck, downloader, Receive, WrongNumber, DataRx,
       DataRxThrows, DataRxDiskFault, AckRx
  <2>4. Outcome' = Outcome
    BY Zenon, <2>3, OutcomeFacts
  <2>6. Del' = Del
    BY SMTT(30), <2>3 DEF TakenWell
  <2>5. Conf' = Conf
    BY SMTT(30), <2>3 DEF ExpectedSent, Expected
  <2> QED BY Zenon, <2>4, <2>5, <2>6, AbstractSteps
<1>4. CASE ServerStep /\ UNCHANGED downloader
  <2>1. fate = "running" /\ got' = got /\ Del' = Del /\ Expected' = Expected
    BY Zenon, <1>4 DEF ServerStep, downloader, Expected, TakenWell
  <2>2. Outcome = "going"
    BY Zenon, <2>1, OutcomeFacts
  <2>3. [SessionNext]_vars
    BY Zenon, <1>4 DEF ServerStep, SessionNext
  <2>4. CASE DataTx
    <3>1. fate' = fate
      BY ZenonT(40), <2>4 DEF DataTx
    <3>2. Outcome' = "going"
      BY Zenon, <2>1, <3>1, OutcomeFacts
    <3>3. ExpectedSent => ExpectedSent'
      BY Zenon, <2>1, <2>3, RequestFixed DEF ExpectedSent
    <3>4. CASE ExpectedSent' = ExpectedSent \/ Len(got) = 0
      <4>1. Conf' = Conf
        BY SMTT(30), <2>1, <3>4
      <4> QED BY Zenon, <2>1, <2>2, <3>2, <4>1, AbstractSteps
    <3>5. CASE ~ExpectedSent /\ ExpectedSent' /\ Len(got) # 0
      <4>3. Len(got) <= FullBlocks
        <5>1. PICK m \in sent' : m.op = "DATA" /\ m.num = Len(got) + 1
          BY Zenon, <1>0, <2>1, <3>5 DEF ExpectedSent
        <5>2. m.num <= FullBlocks + 1
          BY Zenon, <5>1 DEF SessionInv, DataSent
        <5> QED BY SMTT(30), <1>0, <5>1, <5>2, NumbersAssumption
      <4>1. Conf' = Len(got) /\ Conf = Len(got) - 1 /\ Del = Len(got)
        BY Zenon, <1>5, <2>1, <3>5, <4>3
      <4>2. Conf' \in Conf + 1 .. Del
        BY SMTT(30), <1>0, <4>1
      <4> QED BY Zenon, <2>1, <2>2, <3>2, <4>2, AbstractSteps
    <3> QED BY SMTT(30), <3>3, <3>4, <3>5 DEF ExpectedSent
  <2>5. CASE ~DataTx
    <3>1. /\ \A m \in sent' : m \in sent \/ m.op # "DATA"
          /\ sent \subseteq sent'
      BY Zenon, <2>3, <2>5, OnlyDataTxSendsData
    <3>2. ExpectedSent' <=> ExpectedSent
      BY SMTT(30), <2>1, <3>1 DEF ExpectedSent
    <3>3. Conf' = Conf
      BY Zenon, <2>1, <3>2
    <3>4. CASE Outcome' = "complete"
      <4>1. fate' = "closed" /\ err' = "none" /\ retr' <= RetransmitCount
        BY Zenon, <3>4, OutcomeFacts
      <4>2. \E m \in sent' : m.op = "DATA" /\ m.num = FullBlocks + 1
        BY Zenon, <4>1 DEF SessionInv, EndsAfterLastBlock
      <4>3. NeverAhead'
        BY Zenon DEF DownloadInv, DownloadOrder
      <4>4. FullBlocks + 1 <= Len(got) + 1
        BY Zenon, <1>0, <2>1, <4>2, <4>3 DEF NeverAhead
      <4>5. Del >= IF Dir = "upload" THEN LastBlock ELSE LastBlock - 1
        BY SMTT(30), <1>0, <1>5, <4>4, NumbersAssumption DEF LastBlock
      <4> QED BY Zenon, <2>1, <2>2, <3>3, <3>4, <4>5, AbstractSteps
    <3>5. CASE Outcome' # "complete"
      <4>1. Outcome' \in {"going", "failed"}
        BY Zenon, <3>5, OutcomeFacts
      <4> QED BY Zenon, <2>1, <2>2, <3>3, <4>1, AbstractSteps
    <3> QED BY SMTT(30), <3>4, <3>5
  <2> QED BY Zenon, <2>4, <2>5
<1> QED BY Zenon, <1>1, <1>2, <1>3, <1>4 DEF DownloadNext

(* Every step of a download is a step of the transfer.                     *)
LEMMA DownloadRefines ==
  ASSUME "recv" \notin Faults, opt.type = "read",
         SessionInv, SessionInv', DownloaderOK, DownloaderOK', DownloadInv, DownloadInv',
         Values, Values', [DownloadNext]_dvars
  PROVE  [T!Next]_(T!transfer)
<1>1. /\ opt' = opt /\ Dir' = Dir /\ Dir = "download" /\ opt'.type = "read"
      /\ sent \subseteq sent'
  <2>1. opt' = opt /\ sent \subseteq sent'
    BY SMTT(30), DownloadStepIsSessionStep, RequestFixed
  <2> QED BY <2>1 DEF Dir
<1>2. (Spoiled <=> DataZeroSent) /\ (Spoiled' <=> DataZeroSent')
  BY SMTT(30), <1>1 DEF Spoiled
<1>3. Spoiled => Spoiled'
  BY Zenon, <1>1, <1>2 DEF DataZeroSent
<1>4. CASE Spoiled
  BY Zenon, <1>1, <1>3, <1>4, SpoiledFacts, AbstractSteps
<1>5. CASE ~Spoiled /\ Spoiled'
  <2>1. sent' # sent
    BY Zenon, <1>2, <1>5 DEF DataZeroSent
  <2>2. fate = "running"
    BY Zenon, <2>1 DEF DownloadNext, ClientOack, ClientTakes, DeliverAck, ServerStep, dvars,
       vars, session
  <2>3. Outcome = "going"
    BY Zenon, <1>5, <2>2 DEF Outcome
  <2> QED BY Zenon, <1>1, <1>5, <2>3, SpoiledFacts, AbstractSteps
<1>6. CASE ~Spoiled /\ ~Spoiled'
  <2>1. /\ Del = TakenWell /\ Del' = TakenWell'
        /\ Conf = IF ExpectedSent \/ Len(got) = 0 THEN Len(got) ELSE Len(got) - 1
        /\ Conf' = IF ExpectedSent' \/ Len(got') = 0 THEN Len(got') ELSE Len(got') - 1
    BY <1>1, <1>6, SpoiledFacts DEF Values
  <2> QED BY Zenon, <1>1, <1>6, <2>1, CleanDownloadStep
<1> QED BY Zenon, <1>3, <1>4, <1>5, <1>6

(* The initial states are initial states of the transfer.                  *)
LEMMA StartsTransfer ==
  ASSUME LockstepInit, SessionInv, Values
  PROVE  T!Init
<1>1. /\ file = {} /\ acked = -1 /\ got = <<>> /\ retr = 0 /\ sent = {}
      /\ fate = "running"
  BY DEF LockstepInit, UploadInit, DownloadInit, Init
<1>2. ~Spoiled
  BY <1>1 DEF Spoiled, DataZeroSent
<1>3. Outcome = "going"
  BY Zenon, <1>1, <1>2 DEF Outcome
<1>4. opt.type \in {"read", "write"}
  BY RequestsAssumption DEF SessionInv, TypeOK
<1>5. Del = 0 /\ Conf = 0
  <2>1. CASE opt.type = "write"
    <3>1. Del \in 0 .. LastBlock /\ Blocks(Del) = {} /\ Conf = 0
      BY SMTT(30), <1>1, <1>2, <2>1, SpoiledFacts DEF Values
    <3>2. Del \in Nat
      BY SMTT(30), <3>1, NumbersAssumption DEF LastBlock
    <3>3. Del > 0 => Block(Del) \in Blocks(Del)
      BY SMTT(30), <3>2, BlocksFacts
    <3> QED BY SMTT(30), <3>1, <3>2, <3>3
  <2>2. CASE opt.type = "read"
    BY SMTT(30), <1>1, <1>2, <2>2, SpoiledFacts DEF Values, TakenWell
  <2> QED BY SMTT(30), <1>4, <2>1, <2>2
<1> QED BY ZenonT(40), <1>3, <1>5 DEF T!Init, Del, Conf

(* Session::run() and a conforming client implement the abstract transfer  *)
(* (ImplementsTransfer), whichever way the file goes, for every length of  *)
(* the file, every modulus of the block number and every lag of the        *)
(* network below it.  None of the three hypotheses can be dropped: a       *)
(* window of several blocks breaks uploads, a failing receive ends a       *)
(* session as if it were complete, and so does a count of retransmissions  *)
(* that wraps before it exceeds its limit.                                 *)
THEOREM LockstepRefines ==
  ASSUME OneBlockUploads, RetransmitCount < RetrMod - 1, "recv" \notin Faults
  PROVE  LockstepSpec => ImplementsTransfer
<1> DEFINE Inv == SessionInv /\ UploaderOK /\ DownloaderOK /\ UploadInv /\ DownloadInv
                  /\ Values
<1>1. LockstepInit /\ Inv => T!Init
  BY Zenon, StartsTransfer
<1>2. Inv /\ Inv' /\ [LockstepNext]_lvars => [T!Next]_(T!transfer)
  <2> SUFFICES ASSUME Inv, Inv', [LockstepNext]_lvars PROVE [T!Next]_(T!transfer)
    BY Zenon, SMTT(30)
  <2>1. opt.type \in {"read", "write"}
    BY Zenon, RequestsAssumption DEF SessionInv, TypeOK
  <2>2. opt.type = "write" => [UploadNext]_uvars
    BY DEF LockstepNext, Uploading, Downloading, lvars, uvars
  <2>3. opt.type = "read" => [DownloadNext]_dvars
    BY DEF LockstepNext, Uploading, Downloading, lvars, dvars
  <2> QED BY Zenon, <2>1, <2>2, <2>3, UploadRefines, DownloadRefines
<1>3. LockstepSpec => []Inv
  BY LockstepInvariant, MappedValues, PTL
<1> QED
  BY <1>1, <1>2, <1>3, PTL DEF LockstepSpec, ImplementsTransfer, T!Spec
=============================================================================
