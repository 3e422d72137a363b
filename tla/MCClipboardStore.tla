-------------------------- MODULE MCClipboardStore --------------------------
(***************************************************************************)
(* Small instances of ClipboardStoreV2: two items that share one file, two  *)
(* transfers of the first item and one of the second.                       *)
(***************************************************************************)
EXTENDS ClipboardStoreV2, TLC

CONSTANTS i1, i2, t1, t2, t3, o1, o2

ItemMap == t1 :> i1 @@ t2 :> i1 @@ t3 :> i2
FileMap == i1 :> {o1, o2} @@ i2 :> {o2}

Quiet == [k \in Kinds |-> 0]
Offers(n) == [Quiet EXCEPT !["offer"] = n]
AnySetting == [room : 1..2, cache : BOOLEAN, link : BOOLEAN]
Roomy == [room |-> 2, cache |-> TRUE, link |-> TRUE]
Cramped == [room |-> 1, cache |-> TRUE, link |-> TRUE]
Copied == [room |-> 2, cache |-> TRUE, link |-> FALSE]
LeaseOnlyMode == [room |-> 2, cache |-> FALSE, link |-> TRUE]
Starting(budget, set) == {[settings |-> s, left |-> budget] : s \in set}

(* One scenario per kind of trouble: eviction while an item is published,    *)
(* pinned and pasted; a cancel or a deletion of an item delivered twice; an  *)
(* I/O error or a crash and the resume; the life of a lease.                 *)
Scenarios ==
  UNION {
    Starting([Offers(2) EXCEPT !["enforce"] = 1, !["pin"] = 1], AnySetting),
    Starting([Offers(2) EXCEPT !["enforce"] = 1, !["paste"] = 1], {Roomy, LeaseOnlyMode}),
    Starting([Offers(2) EXCEPT !["enforce"] = 1, !["cancel"] = 1], {Roomy, Cramped}),
    Starting([Offers(2) EXCEPT !["cancel"] = 1, !["delete"] = 1], {Roomy, Cramped}),
    Starting([Offers(2) EXCEPT !["delete"] = 1, !["paste"] = 1], {LeaseOnlyMode}),
    Starting([Offers(3) EXCEPT !["io"] = 1, !["cancel"] = 1], {Roomy}),
    Starting([Offers(3) EXCEPT !["crash"] = 1], {Cramped, Roomy}),
    Starting([Offers(2) EXCEPT !["crash"] = 1, !["cancel"] = 1], {Roomy}),
    Starting([Offers(1) EXCEPT !["crash"] = 1, !["paste"] = 1, !["age"] = 1], {Roomy, Copied}),
    Starting([Offers(1) EXCEPT !["paste"] = 2, !["copy"] = 1, !["age"] = 1], AnySetting)}

(* The shortest stories behind the disagreements with the comments.    *)
RefetchStart == Starting([Offers(2) EXCEPT !["enforce"] = 1], {Roomy})
=============================================================================
