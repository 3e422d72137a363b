-------------------------- MODULE MCLegacyTransfer ---------------------------
(* One or two requests for an item, with a few faults at a time.              *)
EXTENDS LegacyTransfer

Budget(requests, drops, corrupt, restarts, forgets, deletes, stops) ==
  [k \in Kinds |-> CASE k = "request" -> requests [] k = "drop" -> drops
                     [] k = "corrupt" -> corrupt [] k = "restart" -> restarts
                     [] k = "forget" -> forgets [] k = "delete" -> deletes
                     [] OTHER -> stops]

(* Two transfers and a break of the link; then one transfer and two faults.   *)
Faults ==
  {Budget(2, 1, 0, 0, 0, 0, 0)} \cup
  {Budget(1, 0, 1, 0, 1, 0, 0), Budget(1, 1, 0, 0, 1, 0, 0), Budget(1, 0, 0, 1, 0, 1, 0),
   Budget(1, 0, 1, 0, 0, 1, 0), Budget(1, 1, 0, 0, 0, 0, 1)}

==============================================================================
