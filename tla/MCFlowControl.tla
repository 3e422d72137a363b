---------------------------- MODULE MCFlowControl ----------------------------
(***************************************************************************)
(* Small instances of FlowControl: three transfers to two peers compete for *)
(* two windows and for a byte budget smaller than what two windows may hold.*)
(***************************************************************************)
EXTENDS FlowControl, TLC

CONSTANTS t1, t2, t3, p1, p2

PeerMap == t1 :> p1 @@ t2 :> p1 @@ t3 :> p2
FileSizes == t1 :> <<3, 1>> @@ t2 :> <<1>> @@ t3 :> <<2>>

NoFaults == [k \in Kinds |-> 0]
(* A broken channel; a user who cancels while a channel breaks; a deadline;  *)
(* a shutdown of the runtime.                                                *)
Scenarios ==
  {[NoFaults EXCEPT !["drop"] = 1], [NoFaults EXCEPT !["cancel"] = 1],
   [NoFaults EXCEPT !["timeout"] = 1], [NoFaults EXCEPT !["stop"] = 1]}
==============================================================================
