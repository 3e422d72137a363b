----------------------------- MODULE MCTransferV2 -----------------------------
(***************************************************************************)
(* Small instances of TransferV2: which faults a run allows, and how often. *)
(* Every behaviour gets one of a run's budgets, so a run covers several     *)
(* scenarios; between them they contain every kind of fault.                *)
(***************************************************************************)
EXTENDS TransferV2

NoFaults == [k \in Kinds |-> 0]

Ends2 == {2}
Ends13 == {1, 3}

(* Broken connections and late answers.                                      *)
Network == [NoFaults EXCEPT !["drop"] = 3, !["timeout"] = 2, !["abort"] = 1]
(* Crashes and restarts of both processes.                                   *)
Crashes == [NoFaults EXCEPT !["scrash"] = 2, !["rcrash"] = 2, !["drop"] = 1]
(* Disk errors, refusals and a source that is edited while it is sent.       *)
Failures ==
  [NoFaults EXCEPT !["io"] = 1, !["edit"] = 1, !["drop"] = 1, !["timeout"] = 1, !["scrash"] = 1]
(* Cancels of both users.                                                    *)
Cancels == [NoFaults EXCEPT !["cancel"] = 2, !["rcrash"] = 1, !["timeout"] = 1, !["drop"] = 1]
(* Broken connections and sender restarts only.                              *)
Interruptions == [NoFaults EXCEPT !["drop"] = 2, !["scrash"] = 2]

Scenarios == {Network, Crashes, Failures, Cancels}
LiveScenarios == {Interruptions, Cancels}

(* The smallest budgets that refute a documented claim.                      *)
LateScenario == {[NoFaults EXCEPT !["drop"] = 1, !["timeout"] = 1]}
=============================================================================
