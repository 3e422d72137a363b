----------------------------- MODULE StoreIndex -----------------------------
(***************************************************************************)
(* The other users of the store: eviction from the received cache, garbage  *)
(* collection, the paste of an item into a lease directory and the lease's  *)
(* life, deletion by the user, and the restart of the program.              *)
(***************************************************************************)
EXTENDS StoreState

(* (mutant: the receipts of retired items stay in the index)                 *)
RetireKeepsReceipts(idx, items) ==
  [idx EXCEPT !.cache = @ \ items,
              !.row = [i \in Item |-> IF i \in items \cap Deliverable
                                        THEN "missing" ELSE @[i]]]

(* What is given up stays listed as missing, without its receipts.           *)
Retire(idx, items) ==
  LET affected == items \cap Deliverable IN
  [idx EXCEPT !.cache = @ \ items,
              !.row = [i \in Item |-> IF i \in affected THEN "missing" ELSE @[i]],
              !.receipts = {t \in @ : ItemOf[t] \notin affected}]

(* _evict_v2_items_locked: the affected rows become missing, their receipts  *)
(* go.  The index is saved, then garbage is collected if a row was affected. *)
EvictItems(items) ==
  /\ IndexFree
  /\ Saved(Retire(index, items))
  /\ busy' = IF items \cap Deliverable # {} THEN Operation("gc", {}) ELSE Idle

(* (mutant: a row that is still being received counts as a reference only    *)
(* when nothing is deliverable; an unreferenced object always goes)          *)
CollectAllUnpinned ==
  /\ busy.op = "gc" /\ StoreFree
  /\ objects' = {o \in objects : Linked(o)}
  /\ manifests' = {i \in manifests : ManifestLinked(i)}
  /\ busy' = Idle
  /\ UNCHANGED <<index, pins, shared, thread, fate, lock, rejected, shelf, settings, left>>

(* collect_garbage under the store's lock: objects and manifests that no     *)
(* deliverable row of the durable index references and that have one link.   *)
CollectGarbage ==
  /\ busy.op = "gc" /\ StoreFree
  /\ objects' = {o \in objects : Linked(o) \/ \E i \in Deliverable : o \in FilesOf[i]}
  /\ manifests' = {i \in manifests : ManifestLinked(i) \/ i \in Deliverable}
  /\ busy' = Idle
  /\ UNCHANGED <<index, pins, shared, thread, fate, lock, rejected, shelf, settings, left>>

----------------------------------------------------------------------------
(* _evict_cache_if_needed and _global_cache_enforce                          *)

KeptByCache(idx) == {i \in Item : i \in idx.pinned \/ i = idx.current}
Leased == {i \in Item : LeaseActive(i)}
EnforcerGoes(at, items) == enforcer' = [at |-> at, items |-> items]

(* Ghost entries go first; then the protected hashes are computed under the  *)
(* runtime's lock, which the stores do not share.                            *)
BeginEnforce ==
  /\ Spend("enforce")
  /\ enforcer.at = "idle" /\ IndexFree
  /\ Saved([index EXCEPT !.cache = @ \cap Rows])
  /\ EnforcerGoes("evict", KeptByCache(index) \cup Leased)
  /\ UNCHANGED <<publication, busy, tree, old, paste, stray, deleter, desktop, settings>>

(* evict_cache: the least recently used entries beyond the limit, whichever  *)
(* they are; pinned and current items are looked up again under its lock.    *)
EvictExcess ==
  /\ enforcer.at = "evict"
  /\ \E items \in SUBSET (index.cache \ (enforcer.items \cup KeptByCache(index))) :
       EvictItems(items)
  /\ EnforcerGoes("plan", {})
  /\ UNCHANGED <<publication, tree, old, paste, stray, deleter, desktop, settings, left>>

(* _global_cache_enforce chooses its candidates over all stores.             *)
PlanGlobal ==
  /\ enforcer.at = "plan" /\ IndexFree
  /\ \E items \in SUBSET (index.cache \ (KeptByCache(index) \cup Leased)) :
       IF items = {} THEN EnforcerGoes("idle", {}) ELSE EnforcerGoes("remove", items)
  /\ UNCHANGED <<index, publication, busy, tree, old, paste, stray, deleter, desktop, settings,
                 left>>

(* remove_cache_entry, one candidate after the other.                        *)
RemoveCacheEntry(i) ==
  /\ enforcer.at = "remove" /\ i \in enforcer.items
  /\ IF i \in index.cache
       THEN EvictItems({i})
       ELSE IndexFree /\ UNCHANGED <<index, busy>>
  /\ IF enforcer.items = {i} THEN EnforcerGoes("idle", {})
                             ELSE EnforcerGoes("remove", enforcer.items \ {i})
  /\ UNCHANGED <<publication, tree, old, paste, stray, deleter, desktop, settings, left>>

----------------------------------------------------------------------------
(* Paste: clip_get                                                           *)

PasteGoes(at) == paste' = [paste EXCEPT !.at = at]

(* v2_manifest_for_item: the row is deliverable and its objects verify; the  *)
(* destination must be empty.                                                *)
BeginPaste(i) ==
  /\ Spend("paste")
  /\ paste = NoPaste /\ IndexFree /\ StoreFree
  /\ i \in Deliverable /\ Stored(i) /\ tree[i] = {}
  /\ paste' = [at |-> "link", item |-> i, linked |-> {}]
  /\ UNCHANGED <<index, publication, busy, tree, old, stray, enforcer, deleter, desktop, settings>>

(* _materialize_file under the store's lock: one file into the staging tree. *)
(* An object that has gone since ends the paste and removes the staging.     *)
PasteFile(o) ==
  /\ paste.at = "link" /\ StoreFree
  /\ o \in FilesOf[paste.item] \ paste.linked
  /\ paste' = IF o \in objects THEN [paste EXCEPT !.linked = @ \cup {o}] ELSE NoPaste
  /\ UNCHANGED <<index, publication, busy, tree, old, stray, enforcer, deleter, desktop, settings,
                 left>>

(* (mutant: the tree is installed while files are still missing)             *)
PasteRenameEarly ==
  /\ paste.at = "link" /\ paste.linked # {}
  /\ tree' = [tree EXCEPT ![paste.item] = paste.linked]
  /\ old' = old \ {paste.item}
  /\ paste' = [paste EXCEPT !.at = "renamed", !.linked = {}]
  /\ UNCHANGED <<index, publication, busy, stray, enforcer, deleter, desktop, settings, left>>

(* The staging tree replaces the empty destination in one rename.            *)
PasteRename ==
  /\ paste.at = "link" /\ paste.linked = FilesOf[paste.item]
  /\ tree' = [tree EXCEPT ![paste.item] = paste.linked]
  /\ old' = old \ {paste.item}
  /\ paste' = [paste EXCEPT !.at = "renamed", !.linked = {}]
  /\ UNCHANGED <<index, publication, busy, stray, enforcer, deleter, desktop, settings, left>>

SetLease ==
  /\ paste.at = "renamed" /\ IndexFree
  /\ Saved([index EXCEPT !.lease[paste.item] = Lease("active", 0)])
  /\ PasteGoes("leased")
  /\ UNCHANGED <<publication, busy, tree, old, stray, enforcer, deleter, desktop, settings, left>>

(* retire_v2_item_objects when received payloads are not cached.             *)
LeaseOnly ==
  /\ paste.at = "leased"
  /\ IF settings.cache
       THEN UNCHANGED <<index, busy>>
       ELSE EvictItems({paste.item})
  /\ PasteGoes("ready")
  /\ UNCHANGED <<publication, tree, old, stray, enforcer, deleter, desktop, settings, left>>

(* release_stale_leases: active leases bound to another sequence become      *)
(* stale, unbound ones stay.                                                 *)
Retired(lease, seq) ==
  [i \in Item |-> IF lease[i].state = "active" /\ lease[i].seq \notin {0, seq}
                    THEN Lease("stale", lease[i].seq) ELSE lease[i]]

(* bind_lease_sequence and set_current.                                      *)
BoundTo(lease, i, seq) ==
  [lease EXCEPT ![i] = IF @.state = "active" THEN Lease("active", seq) ELSE @]
MadeCurrent(idx, i) == [idx EXCEPT !.current = IF i \in Rows THEN i ELSE @]

(* perform_windows_write: the item becomes current, its lease is bound to    *)
(* the new sequence, older leases are retired; or Windows refuses the write. *)
WriteClipboard ==
  LET i == paste.item
      seq == clipboard.seq + 1
  IN
  /\ paste.at = "ready" /\ IndexFree
  /\ \/ /\ Saved([MadeCurrent(index, i) EXCEPT !.lease = Retired(BoundTo(@, i, seq), seq)])
        /\ clipboard' = [seq |-> seq, item |-> i]
        /\ events' = events \cup {seq}
     \/ UNCHANGED <<index, desktop>>
  /\ paste' = NoPaste
  /\ UNCHANGED <<publication, busy, tree, old, stray, enforcer, deleter, settings, left>>

(* Another program writes the clipboard.                                     *)
ExternalCopy ==
  /\ Spend("copy")
  /\ clipboard' = [seq |-> clipboard.seq + 1, item |-> None]
  /\ events' = events \cup {clipboard.seq + 1}
  /\ UNCHANGED <<index, publication, busy, tree, old, paste, stray, enforcer, deleter,
                 settings>>

(* clipboard_watcher takes the next sequence up: retire_leases_for_sequence; *)
(* what another program copied ends the received item's time as the current  *)
(* one.                                                                      *)
WatcherTick ==
  LET seq == CHOOSE s \in events : \A other \in events : s <= other
      foreign == seq = clipboard.seq /\ clipboard.item = None
  IN
  /\ events # {} /\ IndexFree
  /\ Saved([index EXCEPT !.lease = Retired(@, seq),
                         !.current = IF foreign THEN None ELSE @])
  /\ events' = events \ {seq}
  /\ UNCHANGED <<publication, busy, tree, old, paste, stray, enforcer, deleter, clipboard,
                 settings, left>>

(* A lease directory reaches clipboard_temp_cleanup_max_age_hours.           *)
AgeTree(i) ==
  /\ Spend("age")
  /\ tree[i] # {} /\ i \notin old
  /\ old' = old \cup {i}
  /\ UNCHANGED <<index, publication, busy, tree, paste, stray, enforcer, deleter, desktop, settings>>

(* Removal of lease directories, before the index is written.                *)
RemoveTrees(items) ==
  /\ tree' = [i \in Item |-> IF i \in items THEN {} ELSE tree[i]]
  /\ old' = old \ items
  /\ busy' = Operation("lease", items)

(* (mutant: cleanup_leases does not ask for the state)                       *)
CleanupLeasesAnyState ==
  /\ IndexFree
  /\ \E i \in old : index.lease[i].state # "none"
  /\ RemoveTrees({i \in old : index.lease[i].state # "none"})
  /\ UNCHANGED <<index, publication, paste, stray, enforcer, deleter, desktop, settings, left>>

(* cleanup_leases: stale leases older than the cleanup age.                  *)
CleanupLeases ==
  /\ IndexFree
  /\ \E i \in old : index.lease[i].state = "stale"
  /\ RemoveTrees({i \in old : index.lease[i].state = "stale"})
  /\ UNCHANGED <<index, publication, paste, stray, enforcer, deleter, desktop, settings, left>>

(* The leases leave the index; _collect_lease_only_garbage_locked collects   *)
(* garbage when a retired item exists.                                       *)
DropLeases ==
  /\ busy.op = "lease"
  /\ Saved([index EXCEPT !.lease = [i \in Item |-> IF i \in busy.items THEN NoLease ELSE @[i]]])
  /\ busy' = IF \E i \in Item : index.row[i] = "missing" THEN Operation("gc", {}) ELSE Idle
  /\ UNCHANGED <<publication, shelf, settings, left>>

----------------------------------------------------------------------------
(* The user and the restart                                                  *)

TogglePin(i) ==
  /\ Spend("pin")
  /\ IndexFree /\ i \in Rows
  /\ Saved([index EXCEPT !.pinned = IF i \in @ THEN @ \ {i} ELSE @ \cup {i}])
  /\ UNCHANGED <<publication, busy, shelf, settings>>

(* ClipboardManager.delete_item: the lease goes, then the transfers are      *)
(* cancelled, then the row is deleted.                                       *)
DeleteItem(i) ==
  /\ Spend("delete")
  /\ deleter = NoDelete /\ IndexFree /\ i \in Rows
  /\ IF index.lease[i].state = "none"
       THEN UNCHANGED <<tree, old, busy>>
       ELSE RemoveTrees({i})
  /\ deleter' = [at |-> "cancel", item |-> i]
  /\ UNCHANGED <<index, publication, paste, stray, enforcer, desktop, settings>>

DeleteCancels ==
  /\ deleter.at = "cancel" /\ IndexFree
  /\ fate' = [t \in Transfer |->
                IF t \in Transfers(deleter.item) /\ fate[t] = "live"
                     /\ thread[t] \notin {"none", "completed"}
                  THEN "cancelled" ELSE fate[t]]
  /\ deleter' = [deleter EXCEPT !.at = "row"]
  /\ UNCHANGED <<index, objects, manifests, pins, shared, thread, lock, rejected, busy,
                 tree, old, paste, stray, enforcer, desktop, settings, left>>

DeleteRow ==
  /\ deleter.at = "row" /\ IndexFree
  /\ LET i == deleter.item IN
       Saved([index EXCEPT !.row[i] = "none", !.pinned = @ \ {i},
                           !.current = IF @ = i THEN None ELSE @])
  /\ deleter' = NoDelete
  /\ UNCHANGED <<publication, busy, tree, old, paste, stray, enforcer, desktop, settings, left>>

(* (mutant: a row that is still being received counts as gone too)           *)
ReloadedStrictly(i) == IF index.row[i] # "none" /\ ~Stored(i) THEN "missing" ELSE index.row[i]

(* _load: a deliverable row whose objects do not verify becomes missing.     *)
Reloaded(i) == IF index.row[i] = "cached" /\ ~Stored(i) THEN "missing" ELSE index.row[i]

(* The process dies and starts again.  The index is read back, rows whose    *)
(* objects are gone become missing; pins and stages stay behind, the         *)
(* journals of cancelled transfers have no session any more.  store() sweeps *)
(* temp/incoming, where the lease directories and the staging trees are, by  *)
(* age.                                                                      *)
Restart ==
  /\ Spend("crash")
  /\ index' = [index EXCEPT !.row = [i \in Item |-> Reloaded(i)]]
  /\ lock' = Free /\ busy' = Idle
  /\ thread' = [t \in Transfer |->
                  IF thread[t] \in {"none", "receiving", "completed"} THEN thread[t]
                  ELSE "failed"]
  /\ fate' = [t \in Transfer |-> IF fate[t] = "cancelled" THEN "orphaned" ELSE fate[t]]
  /\ tree' = [i \in Item |-> IF i \in old THEN {} ELSE tree[i]]
  /\ old' = {}
  /\ stray' \in {stray \cup paste.linked, {}}
  /\ paste' = NoPaste /\ enforcer' = NoEnforcer /\ deleter' = NoDelete
  /\ events' = {}
  /\ UNCHANGED <<objects, manifests, pins, shared, rejected, clipboard, settings>>
=============================================================================
