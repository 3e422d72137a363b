-------------------------- MODULE MCClipboardWatch ---------------------------
(* Copies and pastes of equal and of different content, with a few faults.    *)
EXTENDS ClipboardWatch

CONSTANTS c1, c2

Budget(copies, pastes, dies, busy, fails, late) ==
  [k \in Kinds |-> CASE k = "copy" -> copies [] k = "paste" -> pastes [] k = "die" -> dies
                     [] k = "busy" -> busy [] k = "fail" -> fails [] OTHER -> late]

Desktops ==
  {Budget(2, 1, 0, 1, 0, 0), Budget(0, 3, 0, 0, 0, 0), Budget(0, 2, 1, 0, 0, 0),
   Budget(1, 1, 1, 1, 0, 0), Budget(1, 1, 0, 1, 1, 1), Budget(3, 0, 0, 1, 0, 0),
   Budget(2, 0, 1, 0, 1, 0)}
==============================================================================
