------------------------------ MODULE Transfer ------------------------------
(***************************************************************************)
(* What the transfer of one file promises, in either direction, without    *)
(* packets, acknowledgements or timeouts: the receiving side comes to hold *)
(* the file block by block, the sending side learns of it later and never  *)
(* the other way round, and a transfer that ends as complete has delivered *)
(* the file, a download perhaps without its last block.  Lockstep shows    *)
(* that Session and its clients implement this.                            *)
(***************************************************************************)
EXTENDS Naturals

CONSTANT LastBlock   (* the file has the blocks 1 .. LastBlock             *)

VARIABLES
  dir,        \* "upload" or "download", fixed by the request
  delivered,  \* the receiving side holds the blocks 1 .. delivered, as they are
  confirmed,  \* the sending side takes the blocks 1 .. confirmed for delivered
  outcome     \* of the session: "going", "complete", "failed" or "spoiled"

transfer == <<dir, delivered, confirmed, outcome>>

(* A repeated ACK of the last block but one ends a download whose last      *)
(* block was sent, whether or not that block has arrived.                   *)
Whole == delivered >= IF dir = "upload" THEN LastBlock ELSE LastBlock - 1

Init ==
  /\ dir \in {"upload", "download"}
  /\ delivered = 0
  /\ confirmed = 0
  /\ outcome = "going"

(* The next block arrives.  Packets on their way to a reader outlive the   *)
(* session; nothing is stored for a writer whose session has ended.        *)
Deliver ==
  /\ outcome # "spoiled"
  /\ dir = "upload" => outcome = "going"
  /\ delivered < LastBlock
  /\ delivered' = delivered + 1
  /\ UNCHANGED <<dir, confirmed, outcome>>

(* The sending side learns of blocks that were delivered, and of no other. *)
Confirm ==
  /\ outcome # "spoiled"
  /\ confirmed' \in confirmed + 1 .. delivered
  /\ UNCHANGED <<dir, delivered, outcome>>

Complete ==
  /\ outcome = "going"
  /\ Whole
  /\ outcome' = "complete"
  /\ UNCHANGED <<dir, delivered, confirmed>>

Fail ==
  /\ outcome = "going"
  /\ outcome' = "failed"
  /\ UNCHANGED <<dir, delivered, confirmed>>

(* The code promises nothing more once a timeout has made it acknowledge a *)
(* block that it lacks, or send a block 0.                                 *)
Spoil ==
  /\ outcome = "going"
  /\ outcome' = "spoiled"
  /\ delivered' = 0
  /\ confirmed' = 0
  /\ UNCHANGED dir

Next == Deliver \/ Confirm \/ Complete \/ Fail \/ Spoil

Spec == Init /\ [][Next]_transfer
=============================================================================
