-------------------------- MODULE ClipboardDelivery --------------------------
(***************************************************************************)
(* What a transfer promises, whatever protocol carries it: the receiver's   *)
(* clipboard holds nothing or exactly the offered content, gets it at most  *)
(* once and never loses it again, and the sender reports success only for   *)
(* content that has been delivered.  A sender that reports failure promises *)
(* nothing about the receiver, and a report lives as long as the process    *)
(* that made it.                                                            *)
(***************************************************************************)
CONSTANTS Content, Nothing

VARIABLES
  item,    \* what the receiver can paste
  report   \* what the sender tells its user

Init == item = Nothing /\ report = "pending"

Deliver ==
  /\ item = Nothing
  /\ item' = Content
  /\ UNCHANGED report

Confirm ==
  /\ report = "pending" /\ item = Content
  /\ report' = "completed"
  /\ UNCHANGED item

Fail ==
  /\ report = "pending"
  /\ report' = "failed"
  /\ UNCHANGED item

Forget ==
  /\ report # "pending"
  /\ report' = "pending"
  /\ UNCHANGED item

Next == Deliver \/ Confirm \/ Fail \/ Forget

Spec == Init /\ [][Next]_<<item, report>>
=============================================================================
