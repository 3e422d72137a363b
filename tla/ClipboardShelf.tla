--------------------------- MODULE ClipboardShelf ---------------------------
(***************************************************************************)
(* What the store promises of an item that is received from a peer: it is   *)
(* announced, it becomes deliverable at once and as a whole, it is withdrawn*)
(* when its bytes are given up, and only the removal of the row lets the    *)
(* same item start again.                                                   *)
(***************************************************************************)
CONSTANT Item
VARIABLE shelf

Init == shelf = [i \in Item |-> "absent"]

Moved(items, to) == [i \in Item |-> IF i \in items THEN to ELSE shelf[i]]

(* The history limit may take other rows when one is announced or delivered. *)
Advance(i, from, to) ==
  /\ shelf[i] = from
  /\ \E others \in SUBSET (Item \ {i}) :
       shelf' = [Moved(others, "absent") EXCEPT ![i] = to]

Announce(i) == Advance(i, "absent", "announced")
Deliver(i) == Advance(i, "announced", "deliverable")
Withdraw(items) ==
  /\ \A i \in items : shelf[i] = "deliverable"
  /\ shelf' = Moved(items, "withdrawn")
Remove(items) == shelf' = Moved(items, "absent")
Next ==
  \/ \E i \in Item : Announce(i) \/ Deliver(i)
  \/ \E items \in SUBSET Item : Withdraw(items) \/ Remove(items)

Spec == Init /\ [][Next]_shelf
=============================================================================
