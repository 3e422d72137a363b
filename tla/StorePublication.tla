-------------------------- MODULE StorePublication --------------------------
(***************************************************************************)
(* From the receiver's verified stage files to a deliverable item:          *)
(* publish_staged_transfer links the objects and pins them, the commit      *)
(* replaces the provisional row and stores the receipt in one index write,  *)
(* the pins go, the journal completes.  A cancelled transfer is purged by   *)
(* the control thread at any moment outside the store's lock.               *)
(***************************************************************************)
EXTENDS StoreState

At(t, place) == thread[t] = place
Goes(t, place) == thread' = [thread EXCEPT ![t] = place]

(* eviction_plan, without the current row: rows beyond max_items, never the  *)
(* pinned.  Which of the others are the oldest is left open.                 *)
EvictionPlans(idx) ==
  LET rows == {i \in Item : idx.row[i] # "none"}
      loose == rows \ idx.pinned
      excess == IF Cardinality(rows) > settings.room
                  THEN Cardinality(rows) - settings.room ELSE 0
      count == IF excess < Cardinality(loose) THEN excess ELSE Cardinality(loose)
  IN {victims \ {idx.current} : victims \in {v \in SUBSET loose : Cardinality(v) = count}}

(* add_item and commit drop the rows of the plan; the tombstone is left out. *)
WithoutRows(idx, victims) ==
  [idx EXCEPT !.row = [i \in Item |-> IF i \in victims THEN "none" ELSE @[i]],
              !.pinned = @ \ victims,
              !.current = IF @ \in victims THEN None ELSE @]

(* _on_stream_v2_offer and add_item.  A fresh transfer gets a provisional    *)
(* row, a session that failed in publish() (journal finalizing) is resumed   *)
(* from its stage.  same_item_lineage refuses a row that already carries the *)
(* finalized revision: the offer is rejected and the stage is cancelled.     *)
Offer(t) ==
  LET i == ItemOf[t]
      offered == [index EXCEPT !.row[i] = "receiving"]
  IN
  /\ Spend("offer")
  /\ IndexFree
  /\ thread[t] \in {"none", "failed"} /\ fate[t] = "live"
  /\ IF Final(i)
       THEN /\ rejected' = rejected \cup {t}
            /\ fate' = [fate EXCEPT ![t] = "cancelled"]
            /\ UNCHANGED <<index, thread>>
       ELSE /\ \E victims \in EvictionPlans(offered) : Saved(WithoutRows(offered, victims))
            /\ Goes(t, IF At(t, "none") THEN "receiving" ELSE "staged")
            /\ UNCHANGED <<rejected, fate>>
  /\ UNCHANGED <<objects, manifests, pins, shared, lock, busy, shelf, settings>>

(* The stream ends: every file is a hashed .verified file of the stage.      *)
Finalize(t) ==
  /\ At(t, "receiving") /\ fate[t] = "live"
  /\ Goes(t, "staged")
  /\ UNCHANGED <<index, objects, manifests, pins, shared, fate, lock, rejected, busy,
                 shelf, settings, left>>

(* publish_staged_transfer takes the store's lock, checks the stage files    *)
(* and writes receipt.json first.  A cancelled stage has lost its result.    *)
PublishReceipt(t) ==
  /\ At(t, "staged") /\ StoreFree
  /\ IF fate[t] = "live" /\ index.row[ItemOf[t]] = "receiving"
       THEN /\ lock' = Holder("publish", t)
            /\ pins' = [pins EXCEPT ![t] = @ \cup {"receipt"}]
            /\ Goes(t, "publishing")
       ELSE Goes(t, "failed") /\ UNCHANGED <<lock, pins>>
  /\ UNCHANGED <<index, objects, manifests, shared, fate, rejected, busy, shelf, settings,
                 left>>

(* One file: link it as an object unless the object exists, pin the object.  *)
PublishObject(t, o) ==
  /\ lock = Holder("publish", t)
  /\ o \in FilesOf[ItemOf[t]] \ pins[t]
  /\ shared' = IF o \in objects THEN shared ELSE [shared EXCEPT ![t] = @ \cup {o}]
  /\ objects' = objects \cup {o}
  /\ pins' = [pins EXCEPT ![t] = @ \cup {o}]
  /\ UNCHANGED <<index, manifests, thread, fate, lock, rejected, busy, shelf, settings,
                 left>>

PublishManifest(t) ==
  /\ lock = Holder("publish", t)
  /\ FilesOf[ItemOf[t]] \subseteq pins[t]
  /\ manifests' = manifests \cup {ItemOf[t]}
  /\ pins' = [pins EXCEPT ![t] = @ \cup {"manifest"}]
  /\ lock' = Free
  /\ Goes(t, "published")
  /\ UNCHANGED <<index, objects, shared, fate, rejected, busy, shelf, settings, left>>

(* An I/O error while publishing: the lock goes, the pins stay, the session  *)
(* fails with its journal still finalizing.                                  *)
PublishFails(t) ==
  /\ lock = Holder("publish", t)
  /\ Spend("io")
  /\ lock' = Free
  /\ Goes(t, "failed")
  /\ UNCHANGED <<index, objects, manifests, pins, shared, fate, rejected, busy, shelf,
                 settings>>

(* validate_publication(require_pending = True).                             *)
Bound(t) == "receipt" \in pins[t] /\ Stored(ItemOf[t])

(* commit_received_v2_item: the provisional row must still be the one that   *)
(* was published for; row, cache entry and receipt go into one index write,  *)
(* which the eviction of old rows may not take with it.  The item becomes    *)
(* current when the peer reported it as its current item.                    *)
CommitIndex(t) ==
  LET i == ItemOf[t]
      final(current) ==
        [index EXCEPT !.row[i] = "cached",
                      !.cache = IF settings.cache THEN @ \cup {i} ELSE @,
                      !.receipts = @ \cup {t},
                      !.current = IF current THEN i ELSE @]
  IN
  /\ At(t, "published") /\ StoreFree /\ IndexFree
  /\ \E current \in BOOLEAN : \E victims \in EvictionPlans(final(current)) :
       IF Bound(t) /\ index.row[i] = "receiving" /\ i \notin victims
         THEN /\ Saved(WithoutRows(final(current), victims))
              /\ lock' = Holder("release", t) /\ busy' = Operation("commit", {i})
              /\ Goes(t, "releasing")
         ELSE Goes(t, "failed") /\ UNCHANGED <<index, lock, busy>>
  /\ UNCHANGED <<objects, manifests, pins, shared, fate, rejected, shelf, settings, left>>

(* The index write fails: the row is restored, the publication stays.        *)
CommitFails(t) ==
  /\ At(t, "published") /\ StoreFree /\ IndexFree
  /\ Spend("io")
  /\ Goes(t, "failed")
  /\ UNCHANGED <<index, objects, manifests, pins, shared, fate, lock, rejected, busy,
                 shelf, settings>>

(* _release_committed_pins, in the order of the directory; the profile's and *)
(* the store's lock are held until the pending directory is gone.            *)
ReleasePin(t) ==
  /\ lock = Holder("release", t)
  /\ IF pins[t] = {}
       THEN /\ lock' = Free /\ busy' = Idle /\ Goes(t, "released")
            /\ UNCHANGED pins
       ELSE /\ \E part \in pins[t] : pins' = [pins EXCEPT ![t] = @ \ {part}]
            /\ UNCHANGED <<lock, busy, thread>>
  /\ UNCHANGED <<index, objects, manifests, shared, fate, rejected, shelf, settings, left>>

(* verify_received_v2_publication: the durable index holds the receipt, the  *)
(* row is deliverable and the objects are there.                             *)
Verified(t) == t \in index.receipts /\ ItemOf[t] \in Deliverable /\ Stored(ItemOf[t])

(* complete_publication: only a live stage whose item is verified completes; *)
(* its stage directory goes.                                                 *)
CompletePublication(t) ==
  /\ At(t, "released") /\ StoreFree /\ IndexFree
  /\ IF fate[t] = "live" /\ Verified(t)
       THEN /\ Goes(t, "completed")
            /\ shared' = [shared EXCEPT ![t] = {}]
       ELSE Goes(t, "failed") /\ UNCHANGED shared
  /\ UNCHANGED <<index, objects, manifests, pins, fate, lock, rejected, busy, shelf,
                 settings, left>>

----------------------------------------------------------------------------
(* Cancel and purge                                                          *)

(* IncomingTransferStage.cancel in any phase but the completed one.          *)
Cancel(t) ==
  /\ Spend("cancel")
  /\ thread[t] \notin {"none", "completed"} /\ fate[t] = "live"
  /\ fate' = [fate EXCEPT ![t] = "cancelled"]
  /\ UNCHANGED <<index, objects, manifests, pins, shared, thread, lock, rejected, busy,
                 shelf, settings>>

(* purge() after the peer's acknowledgement or the final deadline:           *)
(* discard_pending first.  A pending directory without its receipt is not    *)
(* recognised and the purge fails.                                           *)
BeginDiscard(t) ==
  /\ fate[t] = "cancelled" /\ StoreFree
  /\ pins[t] # {} => "receipt" \in pins[t]
  /\ lock' = Holder("discard", t)
  /\ UNCHANGED <<index, objects, manifests, pins, shared, thread, fate, rejected, busy,
                 shelf, settings, left>>

(* (mutant: the receipt may go before the pins)                              *)
DiscardableInAnyOrder(t) == pins[t]

(* Receipt-last is the retry boundary.                                       *)
Discardable(t) == IF pins[t] = {"receipt"} THEN pins[t] ELSE pins[t] \ {"receipt"}

(* The pins go one by one, then the stage directory and the journal.         *)
Discard(t) ==
  /\ lock = Holder("discard", t)
  /\ IF pins[t] = {}
       THEN /\ shared' = [shared EXCEPT ![t] = {}]
            /\ fate' = [fate EXCEPT ![t] = "purged"]
            /\ lock' = Free
            /\ UNCHANGED pins
       ELSE /\ \E part \in Discardable(t) : pins' = [pins EXCEPT ![t] = @ \ {part}]
            /\ UNCHANGED <<shared, fate, lock>>
  /\ UNCHANGED <<index, objects, manifests, thread, rejected, busy, shelf, settings, left>>
=============================================================================
