------------------------------ MODULE Lockstep ------------------------------
(***************************************************************************)
(* A session and the client of its request, an uploading one for a write   *)
(* and a downloading one for a read, and how the two together implement    *)
(* the abstract Transfer.                                                  *)
(***************************************************************************)
EXTENDS Upload, Download, FiniteSetsExt

lvars == <<vars, uploader, downloader>>

LockstepInit == UploadInit /\ DownloadInit

Uploading == opt.type = "write" /\ UploadNext /\ UNCHANGED downloader
Downloading == opt.type = "read" /\ DownloadNext /\ UNCHANGED uploader

LockstepNext == Uploading \/ Downloading

LockstepSpec == LockstepInit /\ [][LockstepNext]_lvars

-----------------------------------------------------------------------------
(* The refinement mapping.                                                 *)

InPlace(n) == [num |-> n, body |-> n] \in file

(* The longest prefix of the file that the receiving side holds.           *)
Delivered ==
  IF opt.type = "write"
  THEN Max({n \in 0 .. LastBlock : \A i \in 1 .. n : InPlace(i)})
  ELSE Max({n \in 0 .. Len(got) : \A i \in 1 .. n : got[i] = i})

(* The uploading client is told by acknowledgements; the session shows by  *)
(* sending block n that it takes the blocks before n for delivered.        *)
Confirmed ==
  IF opt.type = "write"
  THEN Max({0, acked})
  ELSE Max({0} \cup {m.num - 1 : m \in {p \in sent : p.op = "DATA"}})

Spoiled == IF opt.type = "write" THEN retr > 0 ELSE DataZeroSent

Outcome ==
  IF Spoiled THEN "spoiled"
  ELSE IF fate = "running" THEN "going"
  ELSE IF fate = "closed" /\ err = "none" /\ retr <= RetransmitCount
  THEN "complete"
  ELSE "failed"

T == INSTANCE Transfer WITH
       dir       <- IF opt.type = "write" THEN "upload" ELSE "download",
       delivered <- IF Spoiled THEN 0 ELSE Delivered,
       confirmed <- IF Spoiled THEN 0 ELSE Confirmed,
       outcome   <- Outcome

(* Whatever the network loses, repeats, delays and reorders, Session::run()*)
(* and a conforming client implement the abstract transfer: blocks arrive  *)
(* in their order and as they are, no side takes a block for delivered     *)
(* that is not, and a session that ends without an error and with          *)
(* retransmissions left has delivered the file: all of an upload, and of a *)
(* download all but perhaps its last block (Transfer's Whole).             *)
ImplementsTransfer == T!Spec
=============================================================================
