-------------------------- MODULE ClipboardStoreV2 --------------------------
(***************************************************************************)
(* The durable side of received clipboard files: publication, index, cache, *)
(* garbage collection, leases and restart, and what they promise together.  *)
(***************************************************************************)
EXTENDS StorePublication, StoreIndex

Init ==
  /\ index = [row |-> [i \in Item |-> "none"], pinned |-> {}, current |-> None,
              cache |-> {}, receipts |-> {}, lease |-> [i \in Item |-> NoLease]]
  /\ objects = {} /\ manifests = {}
  /\ pins = [t \in Transfer |-> {}]
  /\ shared = [t \in Transfer |-> {}]
  /\ thread = [t \in Transfer |-> "none"]
  /\ fate = [t \in Transfer |-> "live"]
  /\ lock = Free /\ busy = Idle
  /\ tree = [i \in Item |-> {}]
  /\ old = {}
  /\ paste = NoPaste
  /\ stray = {}
  /\ enforcer = NoEnforcer /\ deleter = NoDelete
  /\ clipboard = [seq |-> 0, item |-> None] /\ events = {}
  /\ \E start \in Starts : settings = start.settings /\ left = start.left
  /\ rejected = {}

Publish ==
  \E t \in Transfer :
    \/ Finalize(t) \/ PublishReceipt(t) \/ PublishManifest(t)
    \/ \E o \in Object : PublishObject(t, o)
    \/ CommitIndex(t) \/ ReleasePin(t) \/ CompletePublication(t)
Purge == \E t \in Transfer : BeginDiscard(t) \/ Discard(t)
Cache ==
  \/ EvictExcess \/ PlanGlobal \/ CollectGarbage
  \/ \E i \in Item : RemoveCacheEntry(i)
Clipboard ==
  \/ \E o \in Object : PasteFile(o)
  \/ PasteRename \/ SetLease \/ LeaseOnly \/ WriteClipboard \/ WatcherTick
  \/ CleanupLeases \/ DropLeases
Delete == DeleteCancels \/ DeleteRow
External ==
  \/ \E t \in Transfer : Offer(t) \/ Cancel(t) \/ PublishFails(t) \/ CommitFails(t)
  \/ \E i \in Item : BeginPaste(i) \/ AgeTree(i) \/ TogglePin(i) \/ DeleteItem(i)
  \/ BeginEnforce \/ ExternalCopy \/ Restart

Next == Publish \/ Purge \/ Cache \/ Clipboard \/ Delete \/ External
Spec == Init /\ [][Next]_vars

----------------------------------------------------------------------------
(* An item listed as deliverable has its manifest and all of its objects,    *)
(* whatever is evicted, collected, purged or interrupted meanwhile: the row  *)
(* is what a paste and a peer rely on.                                       *)
DeliverableComplete == \A i \in Deliverable : Stored(i)

(* A receipt in the index means that the row is there and deliverable: the   *)
(* receipt is what a retry of the transfer and the sender's confirmation     *)
(* rely on.                                                                  *)
ReceiptMeansDeliverable == \A t \in index.receipts : ItemOf[t] \in Deliverable

(* A pending directory with pins and no receipt.json is not recognised by a  *)
(* later purge or commit.  Only the release that follows a commit may make   *)
(* one, never a publication or a purge, wherever a crash or an error stops   *)
(* them.                                                                     *)
Recognised(held) == held # {} => "receipt" \in held
PendingRecognised ==
  [][\A t \in Transfer :
       Recognised(pins[t]) => Recognised(pins'[t]) \/ lock = Holder("release", t)]_vars

(* A lease directory is all of the item or nothing: no reader of the         *)
(* clipboard sees a tree with files missing although objects vanish while it *)
(* is built.                                                                 *)
TreeIsWhole == \A i \in Item : tree[i] \in {{}, FilesOf[i]}

(* A lease that is active and stays active keeps its files: neither the      *)
(* cleanup of leases nor eviction takes what the clipboard refers to, only   *)
(* the user who deletes the item does.  The sweep of a restart is left out.  *)
KeepsLeasedData(i) ==
  LeaseActive(i) /\ LeaseActive(i)' /\ deleter'.item # i => tree[i] \subseteq tree'[i]
LeasedDataKept ==
  [][left'["crash"] = left["crash"] => \A i \in Item : KeepsLeasedData(i)]_vars

(* An evicted row "stays listed and can be fetched again": an offer of a     *)
(* missing item is not a conflict.                                           *)
EvictedCanBeFetched ==
  [][\A t \in rejected' \ rejected : index.row[ItemOf[t]] # "missing"]_vars

(* The store implements the shelf of received items.                         *)
ShelfOf ==
  [i \in Item |-> CASE index.row[i] = "none" -> "absent"
                    [] index.row[i] = "receiving" -> "announced"
                    [] index.row[i] = "cached" -> "deliverable"
                    [] index.row[i] = "missing" -> "withdrawn"]
Shelf == INSTANCE ClipboardShelf WITH shelf <- ShelfOf
ImplementsShelf == Shelf!Spec
=============================================================================
