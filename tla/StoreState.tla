----------------------------- MODULE StoreState -----------------------------
(***************************************************************************)
(* What the receiver keeps on disk of the items it has received: the        *)
(* profile's index.json, the content-addressed objects and manifests, the   *)
(* pending directory that pins a publication, the verified stage files and  *)
(* the lease trees handed to the clipboard.  All but the index live or die  *)
(* by hard links: garbage collection leaves whatever has a second link.     *)
(***************************************************************************)
EXTENDS Naturals, FiniteSets

CONSTANTS
  Item, Transfer, Object,
  ItemOf,     \* the item a transfer delivers
  FilesOf,    \* the objects of an item's files
  None,
  Starts      \* scenarios: the settings, and how often each external event may happen

Kinds == {"offer", "crash", "io", "cancel", "delete", "paste", "copy", "pin",
          "enforce", "age"}

(* max_items, cache_received_payloads, whether files can be hardlinked       *)
Settings == [room : Nat, cache : BOOLEAN, link : BOOLEAN]

ASSUME StoreAssumption ==
  /\ ItemOf \in [Transfer -> Item]
  /\ FilesOf \in [Item -> SUBSET Object]
  /\ \A i \in Item : FilesOf[i] # {}
  /\ None \notin Item \cup Transfer
  /\ {"receipt", "manifest"} \cap Object = {}
  /\ Starts \subseteq [settings : Settings, left : [Kinds -> Nat]]

VARIABLES
  index,      \* index.json; memory equals it between operations
  objects,    \* files below objects/
  manifests,  \* items whose finalized manifest is below manifests/
  pins,       \* per transfer: what its pending directory holds: objects, "receipt", "manifest"
  shared,     \* per transfer: objects whose inode its .verified files share
  thread,     \* per transfer: where the channel thread is in publish()
  fate,       \* per transfer: live, cancelled, or purged
  lock,       \* who holds the object store's lock
  busy,       \* the operation that holds the profile's lock across several steps
  tree,       \* per item: the files of its lease directory
  old,        \* lease directories older than the cleanup age
  paste,      \* the thread that materializes an item for the clipboard
  stray,      \* objects linked into a staging tree left by a crash
  enforcer,   \* the thread in _evict_cache_if_needed and what it has decided
  deleter,    \* the thread in delete_item
  clipboard,  \* Windows: the clipboard sequence, the item it holds
  events,     \* sequences the clipboard watcher has yet to take up
  settings,   \* the settings of this behaviour
  left,       \* external events that may still happen
  rejected    \* transfers whose offer was answered item_identity_conflict

vars == <<index, objects, manifests, pins, shared, thread, fate, lock, busy, tree,
          old, paste, stray, enforcer, deleter, clipboard, events, settings, left, rejected>>
publication == <<objects, manifests, pins, shared, thread, fate, lock, rejected>>
desktop == <<clipboard, events>>
shelf == <<tree, old, paste, stray, enforcer, deleter, desktop>>

(* A lease is bound to no sequence (0) until the write of its files succeeds *)
Lease(state, seq) == [state |-> state, seq |-> seq]
NoLease == Lease("none", 0)

(* The store's lock and the profile's lock while an operation holds them     *)
Holder(op, t) == [op |-> op, by |-> t]
Free == Holder("free", None)
Operation(op, items) == [op |-> op, items |-> items]
Idle == Operation("idle", {})
NoPaste == [at |-> "idle", item |-> None, linked |-> {}]
NoDelete == [at |-> "idle", item |-> None]
NoEnforcer == [at |-> "idle", items |-> {}]

Rows == {i \in Item : index.row[i] # "none"}

Transfers(i) == {t \in Transfer : ItemOf[t] = i}
Deliverable == {i \in Item : index.row[i] = "cached"}
(* encoding object_manifest_v2: the row carries the finalized manifest       *)
Final(i) == index.row[i] \in {"cached", "missing"}
Stored(i) == FilesOf[i] \subseteq objects /\ i \in manifests
LeaseActive(i) == index.lease[i].state = "active"

(* A second link: a pin, a stage file on the same inode, a lease tree.       *)
Linked(o) ==
  \/ \E t \in Transfer : o \in pins[t] \cup shared[t]
  \/ settings.link /\ \E i \in Item : o \in tree[i]
  \/ settings.link /\ o \in paste.linked \cup stray
ManifestLinked(i) == \E t \in Transfers(i) : "manifest" \in pins[t]

(* _atomic_write_json of the document: the rows' receipts only.              *)
Saved(idx) ==
  index' = [idx EXCEPT !.receipts = {t \in @ : idx.row[ItemOf[t]] # "none"}]

Spend(k) == left[k] > 0 /\ left' = [left EXCEPT ![k] = @ - 1]

(* The profile's lock; garbage collection and pin release keep it held.      *)
IndexFree == busy = Idle
StoreFree == lock = Free
=============================================================================
