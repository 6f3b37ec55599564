----------------------------- MODULE MCAnyPeer -----------------------------
(***************************************************************************)
(* AnyPeer for TLC: the requests of the model-checking runs.               *)
(***************************************************************************)
EXTENDS AnyPeer

Request(type, any, w) == [type |-> type, any |-> any, windowsize |-> w]

(* Every kind of request; windowsize 0 is accepted and used as 1.          *)
AllRequests ==
  {Request(t, FALSE, 1) : t \in {"read", "write"}}
  \cup {Request(t, TRUE, w) : t \in {"read", "write"}, w \in 0 .. 2}

(* Without a window of several blocks.                                     *)
UnwindowedRequests == {r \in AllRequests : r.windowsize <= 1}

PlainRead == {Request("read", FALSE, 1)}
WindowedRead == {Request("read", TRUE, 2)}

NoFaults == {}
OpenFault == {"open"}
StorageFaults == {"socket", "manager", "disk"}
AllFaults == FaultKinds
=============================================================================
