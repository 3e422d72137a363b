------------------------ MODULE ClipboardStoreProofs -------------------------
(***************************************************************************)
(* The durable store for any number of items, transfers and objects: what    *)
(* is listed as deliverable is there, receipts tell the truth, a publication *)
(* that nobody cancelled is complete until its commit, lease trees are whole *)
(* and keep their files, and the store implements ClipboardShelf.            *)
(***************************************************************************)
EXTENDS ClipboardStoreV2, TLAPS

Leases == [Item -> [state : {"none", "active", "stale"}, seq : Nat]]
RowStates == {"none", "receiving", "cached", "missing"}
Indexes ==
  [row : [Item -> RowStates], pinned : SUBSET Item, current : Item \cup {None},
   cache : SUBSET Item, receipts : SUBSET Transfer, lease : Leases]
Parts == Object \cup {"receipt", "manifest"}
Places == {"none", "receiving", "staged", "publishing", "published", "releasing", "released",
           "completed", "failed"}
Fates == {"live", "cancelled", "purged", "orphaned"}
Locks == [op : {"free", "publish", "release", "discard"}, by : Transfer \cup {None}]
Pastes == [at : {"idle", "link", "renamed", "leased", "ready"}, item : Item \cup {None},
           linked : SUBSET Object]
Deleters == [at : {"idle", "cancel", "row"}, item : Item \cup {None}]
Desktops == [seq : Nat, item : Item \cup {None}]

PublicationTypes ==
  /\ objects \subseteq Object /\ manifests \subseteq Item
  /\ pins \in [Transfer -> SUBSET Parts]
  /\ thread \in [Transfer -> Places] /\ fate \in [Transfer -> Fates] /\ lock \in Locks
ShelfTypes ==
  /\ tree \in [Item -> SUBSET Object]
  /\ paste \in Pastes /\ (paste.at # "idle" => paste.item \in Item)
  /\ deleter \in Deleters /\ (deleter.at # "idle" => deleter.item \in Item)
  /\ clipboard \in Desktops /\ events \subseteq Nat
BudgetTypes == settings \in Settings /\ left \in [Kinds -> Nat]
StoreTypes ==
  index \in Indexes /\ PublicationTypes /\ ShelfTypes /\ BudgetTypes

(* Who holds the store's lock, and what the holder relies on.                *)
LockIsTrue ==
  \A t \in Transfer :
    /\ lock = Holder("publish", t) => At(t, "publishing") /\ "receipt" \in pins[t]
    /\ lock = Holder("release", t) => At(t, "releasing")
    /\ lock = Holder("discard", t) => fate[t] = "cancelled"

(* A pin is a second link of something that is there.                        *)
PinsHold ==
  \A t \in Transfer : /\ pins[t] \cap Object \subseteq objects
                      /\ "manifest" \in pins[t] => ItemOf[t] \in manifests

(* A publication that nobody cancelled keeps its pins until it commits.      *)
PublishedIsPinned ==
  \A t \in Transfer : At(t, "published") /\ fate[t] = "live" =>
    FilesOf[ItemOf[t]] \cup {"receipt", "manifest"} \subseteq pins[t]

PublicationInv == LockIsTrue /\ PinsHold /\ PublishedIsPinned
IndexInv == DeliverableComplete /\ ReceiptMeansDeliverable
StoreInv == StoreTypes /\ PublicationInv /\ IndexInv /\ TreeIsWhole

(* A publication that waits for its commit is complete, however many          *)
(* collections of garbage, evictions and deletions come first.                *)
PublicationsAreBound ==
  \A t \in Transfer : At(t, "published") /\ fate[t] = "live" => Bound(t)

----------------------------------------------------------------------------
(* The document                                                              *)

(* What the assumption says of the constants.                                *)
LEMMA Constants ==
  /\ \A t \in Transfer : ItemOf[t] \in Item
  /\ \A i \in Item : FilesOf[i] \subseteq Object /\ FilesOf[i] # {}
  /\ None \notin Item /\ None \notin Transfer
  /\ "receipt" \notin Object /\ "manifest" \notin Object
BY StoreAssumption

(* _atomic_write_json keeps the receipts of the rows that are there.         *)
LEMMA SavedKeeps ==
  ASSUME NEW idx \in Indexes, Saved(idx)
  PROVE  /\ index' \in Indexes
         /\ index'.row = idx.row /\ index'.lease = idx.lease
         /\ index'.receipts = {t \in idx.receipts : idx.row[ItemOf[t]] # "none"}
BY DEF Saved, Indexes

(* The rows a plan of the history limit removes.                             *)
LEMMA RowsRemoved ==
  ASSUME NEW idx \in Indexes, NEW victims \in SUBSET Item
  PROVE  /\ WithoutRows(idx, victims) \in Indexes
         /\ WithoutRows(idx, victims).row
              = [i \in Item |-> IF i \in victims THEN "none" ELSE idx.row[i]]
         /\ WithoutRows(idx, victims).receipts = idx.receipts
         /\ WithoutRows(idx, victims).lease = idx.lease
<1> DEFINE rows == [i \in Item |-> IF i \in victims THEN "none" ELSE idx.row[i]]
           current == IF idx.current \in victims THEN None ELSE idx.current
<1>1. rows \in [Item -> RowStates]
  BY DEF Indexes, RowStates
<1>2. current \in Item \cup {None}
  BY DEF Indexes
<1>3. WithoutRows(idx, victims)
        = [idx EXCEPT !.row = rows, !.pinned = idx.pinned \ victims, !.current = current]
  BY DEF WithoutRows, Indexes
<1> HIDE DEF rows, current
<1>4. [idx EXCEPT !.row = rows, !.pinned = idx.pinned \ victims, !.current = current] \in Indexes
  BY <1>1, <1>2 DEF Indexes
<1>5. /\ [idx EXCEPT !.row = rows, !.pinned = idx.pinned \ victims, !.current = current].row = rows
      /\ [idx EXCEPT !.row = rows, !.pinned = idx.pinned \ victims,
                     !.current = current].receipts = idx.receipts
      /\ [idx EXCEPT !.row = rows, !.pinned = idx.pinned \ victims,
                     !.current = current].lease = idx.lease
  BY DEF Indexes
<1> QED
  BY <1>3, <1>4, <1>5 DEF rows

(* A plan names items.                                                       *)
LEMMA PlansNameItems ==
  ASSUME NEW idx, NEW victims \in EvictionPlans(idx)
  PROVE  victims \in SUBSET Item
BY DEF EvictionPlans

(* Retire withdraws the deliverable items of a set, with their receipts.     *)
LEMMA RetireKeeps ==
  ASSUME index \in Indexes, NEW items \in SUBSET Item
  PROVE  /\ Retire(index, items) \in Indexes
         /\ Retire(index, items).row
              = [i \in Item |-> IF i \in items \cap Deliverable THEN "missing" ELSE index.row[i]]
         /\ Retire(index, items).receipts
              = {t \in index.receipts : ItemOf[t] \notin items \cap Deliverable}
         /\ Retire(index, items).lease = index.lease
<1> DEFINE rows == [i \in Item |-> IF i \in items \cap Deliverable THEN "missing" ELSE index.row[i]]
           kept == {t \in index.receipts : ItemOf[t] \notin items \cap Deliverable}
<1>1. rows \in [Item -> RowStates] /\ kept \subseteq Transfer
  BY DEF Indexes, RowStates
<1>2. Retire(index, items)
        = [index EXCEPT !.cache = index.cache \ items, !.row = rows, !.receipts = kept]
  BY DEF Retire, Indexes
<1> HIDE DEF rows, kept
<1>3. /\ [index EXCEPT !.cache = index.cache \ items, !.row = rows, !.receipts = kept] \in Indexes
      /\ [index EXCEPT !.cache = index.cache \ items, !.row = rows, !.receipts = kept].row = rows
      /\ [index EXCEPT !.cache = index.cache \ items, !.row = rows,
                       !.receipts = kept].receipts = kept
      /\ [index EXCEPT !.cache = index.cache \ items, !.row = rows,
                       !.receipts = kept].lease = index.lease
  BY <1>1 DEF Indexes
<1> QED
  BY <1>2, <1>3 DEF rows, kept

(* What becomes of a lease.                                                  *)
LEMMA LeaseLife ==
  ASSUME NEW lease \in Leases, NEW i \in Item, NEW seq \in Nat
  PROVE  Retired(lease, seq) \in Leases /\ BoundTo(lease, i, seq) \in Leases
<1>1. \A k \in Item : lease[k] \in [state : {"none", "active", "stale"}, seq : Nat]
  BY DEF Leases
<1>2. /\ Lease("active", seq) \in [state : {"none", "active", "stale"}, seq : Nat]
      /\ \A k \in Item : Lease("stale", lease[k].seq) \in [state : {"none", "active", "stale"}, seq : Nat]
  BY <1>1 DEF Lease
<1> QED
  BY <1>1, <1>2 DEF Leases, Retired, BoundTo

----------------------------------------------------------------------------
(* What a step does to the rows                                              *)

(* The rows of a document after a change, and the receipts that stay.        *)
Trimmed(rows) == {t \in index.receipts : rows[ItemOf[t]] # "none"}
Dropped(rows, victims) == [i \in Item |-> IF i \in victims THEN "none" ELSE rows[i]]

RowsStay == index'.row = index.row /\ index'.receipts \subseteq index.receipts
RowOffered(i) ==
  \E victims \in SUBSET Item :
    /\ index.row[i] \in {"none", "receiving"}
    /\ index'.row = Dropped([index.row EXCEPT ![i] = "receiving"], victims)
    /\ index'.receipts = Trimmed(index'.row)
RowCommitted(t) ==
  \E victims \in SUBSET (Item \ {ItemOf[t]}) :
    /\ index.row[ItemOf[t]] = "receiving" /\ Stored(ItemOf[t])
    /\ index'.row = Dropped([index.row EXCEPT ![ItemOf[t]] = "cached"], victims)
    /\ index'.receipts \subseteq {u \in index.receipts \cup {t} : index'.row[ItemOf[u]] # "none"}
RowsRetired(items) ==
  /\ index'.row = [i \in Item |-> IF i \in items \cap Deliverable THEN "missing" ELSE index.row[i]]
  /\ index'.receipts \subseteq {t \in index.receipts : ItemOf[t] \notin items \cap Deliverable}
RowDeleted(i) ==
  /\ index'.row = [index.row EXCEPT ![i] = "none"]
  /\ index'.receipts = Trimmed(index'.row)
RowsReloaded ==
  index'.row = [i \in Item |-> Reloaded(i)] /\ index'.receipts = index.receipts

RowsMove ==
  \/ RowsStay
  \/ \E i \in Item : RowOffered(i) \/ RowDeleted(i)
  \/ \E t \in Transfer : RowCommitted(t)
  \/ \E items \in SUBSET Item : RowsRetired(items)
  \/ RowsReloaded

(* Eviction.                                                                 *)
LEMMA EvictionMoves ==
  ASSUME index \in Indexes, NEW items \in SUBSET Item, EvictItems(items)
  PROVE  /\ index' \in Indexes /\ index'.lease = index.lease
         /\ RowsRetired(items)
<1>1. Retire(index, items) \in Indexes /\ Saved(Retire(index, items))
  BY RetireKeeps DEF EvictItems
<1>2. /\ index' \in Indexes /\ index'.row = Retire(index, items).row
      /\ index'.lease = Retire(index, items).lease
      /\ index'.receipts \subseteq Retire(index, items).receipts
  BY <1>1, SavedKeeps
<1> QED
  BY <1>2, RetireKeeps DEF RowsRetired

(* A write of the document that leaves its rows.                             *)
LEMMA WriteKeepsRows ==
  ASSUME index \in Indexes, NEW idx \in Indexes, Saved(idx), idx.row = index.row,
         idx.receipts = index.receipts
  PROVE  index' \in Indexes /\ index'.lease = idx.lease /\ RowsStay
BY SavedKeeps DEF RowsStay

(* The offer.                                                                *)
LEMMA OfferMoves ==
  ASSUME index \in Indexes, NEW t \in Transfer, Offer(t)
  PROVE  index' \in Indexes /\ index'.lease = index.lease /\ (RowsStay \/ RowOffered(ItemOf[t]))
<1> DEFINE i == ItemOf[t]
           offered == [index EXCEPT !.row[i] = "receiving"]
<1>1. CASE Final(i)
  BY <1>1 DEF Offer, RowsStay
<1>2. CASE ~Final(i)
  <2>1. i \in Item
    BY Constants
  <2>2. index.row[i] \in {"none", "receiving"}
    BY <1>2, <2>1 DEF Final, Indexes, RowStates
  <2>3. [index.row EXCEPT ![i] = "receiving"] \in [Item -> RowStates]
    BY DEF Indexes, RowStates
  <2>4. /\ offered \in Indexes /\ offered.row = [index.row EXCEPT ![i] = "receiving"]
        /\ offered.receipts = index.receipts /\ offered.lease = index.lease
    BY <2>3 DEF Indexes
  <2>5. PICK victims \in EvictionPlans(offered) : Saved(WithoutRows(offered, victims))
    BY <1>2 DEF Offer
  <2> HIDE DEF offered
  <2>6. victims \in SUBSET Item
    BY <2>5, PlansNameItems
  <2>7. /\ WithoutRows(offered, victims) \in Indexes
        /\ WithoutRows(offered, victims).row = Dropped(offered.row, victims)
        /\ WithoutRows(offered, victims).receipts = index.receipts
        /\ WithoutRows(offered, victims).lease = index.lease
    BY <2>4, <2>6, RowsRemoved DEF Dropped
  <2>8. /\ index' \in Indexes /\ index'.lease = index.lease
        /\ index'.row = Dropped(offered.row, victims)
        /\ index'.receipts = Trimmed(index'.row)
    BY <2>5, <2>7, SavedKeeps DEF Trimmed
  <2> QED
    BY <2>2, <2>4, <2>6, <2>8 DEF RowOffered
<1> QED
  BY <1>1, <1>2

(* The commit.                                                               *)
LEMMA CommitMoves ==
  ASSUME index \in Indexes, NEW t \in Transfer, CommitIndex(t)
  PROVE  index' \in Indexes /\ index'.lease = index.lease /\ (RowsStay \/ RowCommitted(t))
<1> DEFINE i == ItemOf[t]
           final(current) ==
             [index EXCEPT !.row[i] = "cached",
                           !.cache = IF settings.cache THEN @ \cup {i} ELSE @,
                           !.receipts = @ \cup {t},
                           !.current = IF current THEN i ELSE @]
<1>1. i \in Item
  BY Constants
<1>2. PICK current \in BOOLEAN : \E victims \in EvictionPlans(final(current)) :
        IF Bound(t) /\ index.row[i] = "receiving" /\ i \notin victims
          THEN Saved(WithoutRows(final(current), victims))
          ELSE UNCHANGED index
  BY DEF CommitIndex
<1> DEFINE fin == final(current)
           rows == [index.row EXCEPT ![i] = "cached"]
           cache == IF settings.cache THEN index.cache \cup {i} ELSE index.cache
           now == IF current THEN i ELSE index.current
<1>3. rows \in [Item -> RowStates] /\ cache \subseteq Item /\ now \in Item \cup {None}
      /\ index.receipts \cup {t} \subseteq Transfer
  BY <1>1 DEF Indexes, RowStates
<1>4. fin = [index EXCEPT !.row = rows, !.cache = cache, !.receipts = index.receipts \cup {t},
                          !.current = now]
  BY DEF Indexes
<1>5. PICK victims \in EvictionPlans(fin) :
        IF Bound(t) /\ index.row[i] = "receiving" /\ i \notin victims
          THEN Saved(WithoutRows(fin, victims))
          ELSE UNCHANGED index
  BY <1>2
<1> HIDE DEF final, fin, rows, cache, now
<1>6. /\ fin \in Indexes /\ fin.row = rows /\ fin.receipts = index.receipts \cup {t}
      /\ fin.lease = index.lease
  BY <1>3, <1>4 DEF Indexes
<1>7. victims \in SUBSET Item
  BY <1>5, PlansNameItems
<1>8. CASE Bound(t) /\ index.row[i] = "receiving" /\ i \notin victims
  <2>1. Saved(WithoutRows(fin, victims)) /\ victims \in SUBSET (Item \ {i})
    BY <1>5, <1>7, <1>8
  <2>2. /\ WithoutRows(fin, victims) \in Indexes
        /\ WithoutRows(fin, victims).row = Dropped(rows, victims)
        /\ WithoutRows(fin, victims).receipts = index.receipts \cup {t}
        /\ WithoutRows(fin, victims).lease = index.lease
    BY <1>6, <1>7, RowsRemoved DEF Dropped
  <2>3. /\ index' \in Indexes /\ index'.lease = index.lease
        /\ index'.row = Dropped(rows, victims)
        /\ index'.receipts = {u \in index.receipts \cup {t} : index'.row[ItemOf[u]] # "none"}
    BY <2>1, <2>2, SavedKeeps
  <2> QED
    BY <1>8, <2>1, <2>3 DEF RowCommitted, Bound, rows
<1>9. CASE ~(Bound(t) /\ index.row[i] = "receiving" /\ i \notin victims)
  BY <1>5, <1>9 DEF RowsStay
<1> QED
  BY <1>8, <1>9

(* The enforcer, the paste and the leases.                                   *)
LEMMA CacheMoves ==
  ASSUME StoreTypes,
         \/ BeginEnforce \/ EvictExcess \/ PlanGlobal \/ CollectGarbage
         \/ \E i \in Item : RemoveCacheEntry(i)
  PROVE  index' \in Indexes /\ RowsMove
<1>0. index \in Indexes
  BY DEF StoreTypes
<1>1. CASE BeginEnforce
  <2>1. /\ [index EXCEPT !.cache = index.cache \cap Rows] \in Indexes
        /\ [index EXCEPT !.cache = index.cache \cap Rows].row = index.row
        /\ [index EXCEPT !.cache = index.cache \cap Rows].receipts = index.receipts
    BY <1>0 DEF Indexes
  <2>2. Saved([index EXCEPT !.cache = index.cache \cap Rows])
    BY <1>1 DEF BeginEnforce
  <2> QED
    BY <1>0, <2>1, <2>2, WriteKeepsRows DEF RowsMove
<1>2. CASE EvictExcess
  <2>1. PICK items \in SUBSET (index.cache \ (enforcer.items \cup KeptByCache(index))) :
          EvictItems(items)
    BY <1>2 DEF EvictExcess
  <2>2. items \in SUBSET Item
    BY <1>0 DEF Indexes
  <2> QED
    BY <1>0, <2>1, <2>2, EvictionMoves DEF RowsMove
<1>3. CASE PlanGlobal \/ CollectGarbage
  BY <1>0, <1>3 DEF PlanGlobal, CollectGarbage, RowsMove, RowsStay
<1>4. ASSUME NEW i \in Item, RemoveCacheEntry(i)
      PROVE  index' \in Indexes /\ RowsMove
  <2>1. EvictItems({i}) \/ UNCHANGED index
    BY <1>4 DEF RemoveCacheEntry
  <2>2. {i} \in SUBSET Item
    OBVIOUS
  <2>3. CASE EvictItems({i})
    BY <1>0, <2>2, <2>3, EvictionMoves DEF RowsMove
  <2> QED
    BY <1>0, <2>1, <2>3 DEF RowsMove, RowsStay
<1> QED
  BY <1>1, <1>2, <1>3, <1>4

(* Clipboard changes, pastes and their leases move a row only as the index   *)
(* allows.                                                                   *)
LEMMA ClipboardMoves ==
  ASSUME StoreTypes, Clipboard \/ ExternalCopy \/ \E i \in Item : BeginPaste(i) \/ AgeTree(i)
  PROVE  index' \in Indexes /\ RowsMove
<1>0. /\ index \in Indexes /\ index.lease \in Leases /\ (paste.at # "idle" => paste.item \in Item)
      /\ clipboard.seq \in Nat /\ events \subseteq Nat
  BY DEF StoreTypes, ShelfTypes, Indexes, Desktops
<1>1. ASSUME NEW lease \in Leases
      PROVE  /\ [index EXCEPT !.lease = lease] \in Indexes
             /\ [index EXCEPT !.lease = lease].row = index.row
             /\ [index EXCEPT !.lease = lease].receipts = index.receipts
  BY <1>0 DEF Indexes
<1>2. CASE UNCHANGED index
  BY <1>0, <1>2 DEF RowsMove, RowsStay
<1>3. CASE SetLease
  <2>1. [index.lease EXCEPT ![paste.item] = Lease("active", 0)] \in Leases
    BY <1>0, <1>3 DEF Leases, Lease
  <2>2. Saved([index EXCEPT !.lease = [index.lease EXCEPT ![paste.item] = Lease("active", 0)]])
    BY <1>0, <1>3 DEF SetLease, Indexes
  <2> QED
    BY <1>0, <1>1, <2>1, <2>2, WriteKeepsRows DEF RowsMove
<1>4. CASE LeaseOnly
  <2>1. EvictItems({paste.item}) \/ UNCHANGED index
    BY <1>4 DEF LeaseOnly
  <2>2. {paste.item} \in SUBSET Item
    BY <1>0, <1>4 DEF LeaseOnly
  <2>3. CASE EvictItems({paste.item})
    BY <1>0, <2>2, <2>3, EvictionMoves DEF RowsMove
  <2> QED
    BY <1>2, <2>1, <2>3
<1>5. CASE WriteClipboard
  <2> DEFINE i == paste.item
             seq == clipboard.seq + 1
             lease == Retired(BoundTo(index.lease, i, seq), seq)
             now == IF i \in Rows THEN i ELSE index.current
             idx == [index EXCEPT !.current = now, !.lease = lease]
  <2>1. i \in Item /\ seq \in Nat
    BY <1>0, <1>5 DEF WriteClipboard
  <2>2. lease \in Leases
    <3> HIDE DEF i, seq
    <3>1. BoundTo(index.lease, i, seq) \in Leases
      BY <1>0, <2>1, LeaseLife
    <3> QED
      BY <2>1, <3>1, LeaseLife
  <2>3. now \in Item \cup {None}
    BY <1>0, <2>1 DEF Indexes
  <2>4. [MadeCurrent(index, i) EXCEPT !.lease = Retired(BoundTo(@, i, seq), seq)] = idx
    <3>1. MadeCurrent(index, i) = [index EXCEPT !.current = now]
      BY <1>0 DEF MadeCurrent, Indexes
    <3>2. [index EXCEPT !.current = now].lease = index.lease
      BY <1>0 DEF Indexes
    <3> HIDE DEF now, i, seq
    <3> QED
      BY <1>0, <3>1, <3>2 DEF Indexes
  <2>5. Saved([MadeCurrent(index, i) EXCEPT !.lease = Retired(BoundTo(@, i, seq), seq)])
        \/ UNCHANGED index
    BY <1>5 DEF WriteClipboard
  <2> HIDE DEF lease, now, i, seq
  <2>6. idx \in Indexes /\ idx.row = index.row /\ idx.receipts = index.receipts
    BY <1>0, <2>2, <2>3 DEF Indexes
  <2> QED
    BY <1>0, <1>2, <2>4, <2>5, <2>6, WriteKeepsRows DEF RowsMove
<1>6. CASE WatcherTick
  <2>1. PICK seq, foreign :
          /\ seq = (CHOOSE s \in events : \A other \in events : s <= other)
          /\ Saved([index EXCEPT !.lease = Retired(@, seq), !.current = IF foreign THEN None ELSE @])
    BY <1>6 DEF WatcherTick
  <2> DEFINE now == IF foreign THEN None ELSE index.current
             lease == Retired(index.lease, seq)
             idx == [index EXCEPT !.lease = lease, !.current = now]
  <2>2. now \in Item \cup {None}
    BY <1>0 DEF Indexes
  <2>3. lease \in Leases
    BY <1>0 DEF Retired, Leases, Lease
  <2>4. Saved(idx)
    BY <1>0, <2>1 DEF Indexes
  <2> HIDE DEF now, lease
  <2>5. idx \in Indexes /\ idx.row = index.row /\ idx.receipts = index.receipts
    BY <1>0, <2>2, <2>3 DEF Indexes
  <2> QED
    BY <1>0, <2>4, <2>5, WriteKeepsRows DEF RowsMove
<1>7. CASE DropLeases
  <2> DEFINE lease == [i \in Item |-> IF i \in busy.items THEN NoLease ELSE index.lease[i]]
  <2>1. lease \in Leases
    BY <1>0 DEF Leases, NoLease, Lease
  <2>2. Saved([index EXCEPT !.lease = lease])
    BY <1>0, <1>7 DEF DropLeases, Indexes
  <2> HIDE DEF lease
  <2> QED
    BY <1>0, <1>1, <2>1, <2>2, WriteKeepsRows DEF RowsMove
<1>8. CASE \/ (\E o \in Object : PasteFile(o)) \/ PasteRename \/ CleanupLeases \/ ExternalCopy
           \/ \E i \in Item : BeginPaste(i) \/ AgeTree(i)
  <2>1. UNCHANGED index
    BY <1>8 DEF PasteFile, PasteRename, CleanupLeases, ExternalCopy, BeginPaste, AgeTree
  <2> QED
    BY <1>2, <2>1
<1> QED
  BY <1>3, <1>4, <1>5, <1>6, <1>7, <1>8 DEF Clipboard

(* The user and the restart.                                                 *)
LEMMA UserMoves ==
  ASSUME StoreTypes, Delete \/ Restart \/ \E i \in Item : TogglePin(i) \/ DeleteItem(i)
  PROVE  index' \in Indexes /\ RowsMove
<1>0. index \in Indexes /\ (deleter.at # "idle" => deleter.item \in Item)
  BY DEF StoreTypes, ShelfTypes
<1>1. ASSUME NEW i \in Item, TogglePin(i)
      PROVE  index' \in Indexes /\ RowsMove
  <2> DEFINE pinned == IF i \in index.pinned THEN index.pinned \ {i} ELSE index.pinned \cup {i}
  <2>1. pinned \subseteq Item
    BY <1>0 DEF Indexes
  <2>2. Saved([index EXCEPT !.pinned = pinned])
    BY <1>0, <1>1 DEF TogglePin, Indexes
  <2> HIDE DEF pinned
  <2>3. /\ [index EXCEPT !.pinned = pinned] \in Indexes
        /\ [index EXCEPT !.pinned = pinned].row = index.row
        /\ [index EXCEPT !.pinned = pinned].receipts = index.receipts
    BY <1>0, <2>1 DEF Indexes
  <2> QED
    BY <1>0, <2>2, <2>3, WriteKeepsRows DEF RowsMove
<1>2. CASE DeleteCancels \/ \E i \in Item : DeleteItem(i)
  BY <1>0, <1>2 DEF DeleteCancels, DeleteItem, RowsMove, RowsStay
<1>3. CASE DeleteRow
  <2> DEFINE i == deleter.item
             row == [index.row EXCEPT ![i] = "none"]
             now == IF index.current = i THEN None ELSE index.current
             idx == [index EXCEPT !.row = row, !.pinned = index.pinned \ {i}, !.current = now]
  <2>1. i \in Item /\ row \in [Item -> RowStates] /\ now \in Item \cup {None}
    BY <1>0, <1>3 DEF DeleteRow, Indexes, RowStates
  <2>2. Saved(idx)
    BY <1>0, <1>3 DEF DeleteRow, Indexes
  <2> HIDE DEF row, now, i
  <2>3. idx \in Indexes /\ idx.row = row /\ idx.receipts = index.receipts
    BY <1>0, <2>1 DEF Indexes
  <2>4. index' \in Indexes /\ index'.row = row /\ index'.receipts = Trimmed(index'.row)
    BY <2>2, <2>3, SavedKeeps DEF Trimmed
  <2>5. RowDeleted(i)
    BY <2>4 DEF RowDeleted, row
  <2> QED
    BY <2>1, <2>4, <2>5 DEF RowsMove
<1>4. CASE Restart
  <2> DEFINE row == [i \in Item |-> Reloaded(i)]
  <2>1. row \in [Item -> RowStates]
    BY <1>0 DEF Reloaded, Indexes, RowStates
  <2>2. index' = [index EXCEPT !.row = row]
    BY <1>4 DEF Restart
  <2>3. RowsReloaded
    BY <1>0, <2>2 DEF RowsReloaded, Indexes
  <2> HIDE DEF row
  <2> QED
    BY <1>0, <2>1, <2>2, <2>3 DEF Indexes, RowsMove
<1> QED
  BY <1>1, <1>2, <1>3, <1>4 DEF Delete

(* Publication and purge.                                                    *)
TransferMoves ==
  \/ Publish \/ Purge
  \/ \E t \in Transfer : Offer(t) \/ Cancel(t) \/ PublishFails(t) \/ CommitFails(t)

(* Publications, purges and cancels move a row only as the index allows.     *)
LEMMA PublicationMoves ==
  ASSUME StoreTypes, TransferMoves
  PROVE  index' \in Indexes /\ RowsMove
<1>0. index \in Indexes /\ \A t \in Transfer : ItemOf[t] \in Item
  BY Constants DEF StoreTypes
<1>1. ASSUME NEW t \in Transfer, Offer(t)
      PROVE  index' \in Indexes /\ RowsMove
  BY <1>0, <1>1, OfferMoves DEF RowsMove
<1>2. ASSUME NEW t \in Transfer, CommitIndex(t)
      PROVE  index' \in Indexes /\ RowsMove
  BY <1>0, <1>2, CommitMoves DEF RowsMove
<1>3. ASSUME UNCHANGED index
      PROVE  index' \in Indexes /\ RowsMove
  BY <1>0, <1>3 DEF RowsMove, RowsStay
<1>4. ASSUME NEW t \in Transfer,
             \/ Finalize(t) \/ PublishReceipt(t) \/ PublishManifest(t)
             \/ \E o \in Object : PublishObject(t, o)
             \/ ReleasePin(t) \/ CompletePublication(t) \/ BeginDiscard(t) \/ Discard(t)
             \/ Cancel(t) \/ PublishFails(t) \/ CommitFails(t)
      PROVE  UNCHANGED index
  BY <1>4 DEF Finalize, PublishReceipt, PublishManifest, PublishObject, ReleasePin,
              CompletePublication, BeginDiscard, Discard, Cancel, PublishFails, CommitFails
<1> QED
  BY <1>1, <1>2, <1>3, <1>4 DEF TransferMoves, Publish, Purge

(* Every step of the store moves a row only as the index allows.             *)
LEMMA IndexMoves ==
  ASSUME StoreTypes, [Next]_vars
  PROVE  index' \in Indexes /\ RowsMove
<1>1. CASE UNCHANGED vars
  BY <1>1 DEF vars, StoreTypes, RowsMove, RowsStay
<1> QED
  BY <1>1, PublicationMoves, CacheMoves, ClipboardMoves, UserMoves
  DEF Next, External, Cache, TransferMoves, Delete

----------------------------------------------------------------------------
(* Types                                                                     *)

(* No step but a restart starts the crash budget, and budgets stay numbers.   *)
LEMMA BudgetStays ==
  ASSUME StoreTypes, [Next]_vars
  PROVE  BudgetTypes'
<1>1. settings \in Settings /\ left \in [Kinds -> Nat]
  BY DEF StoreTypes, BudgetTypes
<1>2. ASSUME NEW k \in Kinds, Spend(k)
      PROVE  left' \in [Kinds -> Nat]
  BY <1>1, <1>2 DEF Spend
<1>3. {"offer", "crash", "io", "cancel", "delete", "paste", "copy", "pin", "enforce", "age"} = Kinds
  BY DEF Kinds
<1>4. UNCHANGED settings
  BY DEF Next, vars, Publish, Purge, Cache, Clipboard, Delete, External, Finalize, PublishReceipt,
         PublishManifest, PublishObject, CommitIndex, ReleasePin, CompletePublication, BeginDiscard,
         Discard, EvictExcess, PlanGlobal, CollectGarbage, RemoveCacheEntry, PasteFile, PasteRename,
         SetLease, LeaseOnly, WriteClipboard, WatcherTick, CleanupLeases, DropLeases, DeleteCancels,
         DeleteRow, Offer, Cancel, PublishFails, CommitFails, BeginPaste, AgeTree, TogglePin,
         DeleteItem, BeginEnforce, ExternalCopy, Restart
<1>5. UNCHANGED left \/ \E k \in Kinds : Spend(k)
  BY <1>3
  DEF Next, vars, Publish, Purge, Cache, Clipboard, Delete, External, Finalize, PublishReceipt,
      PublishManifest, PublishObject, CommitIndex, ReleasePin, CompletePublication, BeginDiscard,
      Discard, EvictExcess, PlanGlobal, CollectGarbage, RemoveCacheEntry, PasteFile, PasteRename,
      SetLease, LeaseOnly, WriteClipboard, WatcherTick, CleanupLeases, DropLeases, DeleteCancels,
      DeleteRow, Offer, Cancel, PublishFails, CommitFails, BeginPaste, AgeTree, TogglePin,
      DeleteItem, BeginEnforce, ExternalCopy, Restart
<1> QED
  BY <1>1, <1>2, <1>4, <1>5 DEF BudgetTypes

(* Publication leaves the shelf alone.                                       *)
LEMMA TransfersLeaveShelf ==
  ASSUME TransferMoves
  PROVE  UNCHANGED shelf
BY DEF TransferMoves, Publish, Purge, Finalize, PublishReceipt, PublishManifest, PublishObject,
       CommitIndex, ReleasePin, CompletePublication, BeginDiscard, Discard, Offer, Cancel,
       PublishFails, CommitFails, shelf

ShelfMoves ==
  \/ Cache \/ Clipboard \/ Delete \/ BeginEnforce \/ ExternalCopy \/ Restart
  \/ \E i \in Item : BeginPaste(i) \/ AgeTree(i) \/ TogglePin(i) \/ DeleteItem(i)

(* The rest leaves publication alone, but for garbage, deletion and restart.  *)
LEMMA ShelfLeavesPublication ==
  ASSUME ShelfMoves, ~CollectGarbage, ~DeleteCancels, ~Restart
  PROVE  UNCHANGED publication
BY DEF ShelfMoves, Cache, Clipboard, Delete, BeginEnforce, EvictExcess, PlanGlobal, RemoveCacheEntry,
       PasteFile, PasteRename, SetLease, LeaseOnly, WriteClipboard, WatcherTick, CleanupLeases,
       DropLeases, DeleteRow, BeginPaste, AgeTree, TogglePin, DeleteItem, ExternalCopy

(* A lease tree changes by the rename, by a cleanup, by the user or at the    *)
(* restart.                                                                  *)
LEMMA ShelfTypesStay ==
  ASSUME StoreTypes, ShelfMoves
  PROVE  ShelfTypes'
<1>0. /\ tree \in [Item -> SUBSET Object] /\ paste \in Pastes
      /\ paste.at # "idle" => paste.item \in Item
      /\ deleter \in Deleters /\ clipboard \in Desktops /\ events \subseteq Nat
      /\ deleter.at # "idle" => deleter.item \in Item
  BY DEF StoreTypes, ShelfTypes
<1>1. NoPaste \in Pastes /\ NoPaste.at = "idle" /\ NoDelete \in Deleters /\ NoDelete.at = "idle"
  BY DEF NoPaste, NoDelete, Pastes, Deleters
<1>2. ASSUME NEW items, RemoveTrees(items)
      PROVE  tree' \in [Item -> SUBSET Object]
  BY <1>0, <1>2 DEF RemoveTrees
<1>3. CASE Cache \/ BeginEnforce \/ SetLease \/ LeaseOnly \/ DropLeases
           \/ \E i \in Item : AgeTree(i) \/ TogglePin(i)
  <2>1. UNCHANGED <<tree, deleter, clipboard, events>>
    BY <1>3 DEF Cache, BeginEnforce, EvictExcess, PlanGlobal, CollectGarbage, RemoveCacheEntry,
                SetLease, LeaseOnly, DropLeases, AgeTree, TogglePin, shelf, desktop
  <2>2. UNCHANGED paste \/ PasteGoes("leased") \/ PasteGoes("ready")
    BY <1>3 DEF Cache, BeginEnforce, EvictExcess, PlanGlobal, CollectGarbage, RemoveCacheEntry,
                SetLease, LeaseOnly, DropLeases, AgeTree, TogglePin, shelf
  <2>3. paste' \in Pastes /\ paste'.item = paste.item
    BY <1>0, <2>2 DEF PasteGoes, Pastes
  <2>4. paste'.at # "idle" => paste.at # "idle"
    BY <1>0, <1>3, <2>2
    DEF Cache, BeginEnforce, EvictExcess, PlanGlobal, CollectGarbage, RemoveCacheEntry,
        SetLease, LeaseOnly, DropLeases, AgeTree, TogglePin, shelf
  <2> QED
    BY <1>0, <2>1, <2>3, <2>4 DEF ShelfTypes
<1>4. ASSUME NEW i \in Item, BeginPaste(i)
      PROVE  ShelfTypes'
  <2>1. paste' \in Pastes /\ paste'.item \in Item
    BY <1>4 DEF BeginPaste, Pastes
  <2> QED
    BY <1>0, <1>4, <2>1 DEF BeginPaste, ShelfTypes, desktop
<1>5. ASSUME NEW o \in Object, PasteFile(o)
      PROVE  ShelfTypes'
  <2>1. paste' = [paste EXCEPT !.linked = paste.linked \cup {o}] \/ paste' = NoPaste
    BY <1>0, <1>5 DEF PasteFile, Pastes
  <2>2. paste' \in Pastes /\ (paste'.at # "idle" => paste'.item \in Item)
    BY <1>0, <1>1, <2>1 DEF Pastes
  <2> QED
    BY <1>0, <1>5, <2>2 DEF PasteFile, ShelfTypes, desktop
<1>6. CASE PasteRename
  <2>1. tree' \in [Item -> SUBSET Object]
    BY <1>0, <1>6 DEF PasteRename, Pastes
  <2>2. paste' \in Pastes /\ paste'.item = paste.item /\ paste.at # "idle"
    BY <1>0, <1>6 DEF PasteRename, Pastes
  <2> QED
    BY <1>0, <1>6, <2>1, <2>2 DEF PasteRename, ShelfTypes, desktop
<1>7. CASE WriteClipboard
  <2>1. paste.item \in Item /\ paste' = NoPaste
    BY <1>0, <1>7 DEF WriteClipboard
  <2>2. clipboard.seq + 1 \in Nat
    BY <1>0 DEF Desktops
  <2>3. clipboard' \in Desktops /\ events' \subseteq Nat
    <3>1. \/ UNCHANGED desktop
          \/ /\ clipboard' = [seq |-> clipboard.seq + 1, item |-> paste.item]
             /\ events' = events \cup {clipboard.seq + 1}
      BY <1>7 DEF WriteClipboard
    <3>2. [seq |-> clipboard.seq + 1, item |-> paste.item] \in Desktops
      BY <2>1, <2>2 DEF Desktops
    <3>3. events \cup {clipboard.seq + 1} \subseteq Nat
      BY <1>0, <2>2
    <3> QED
      BY <1>0, <3>1, <3>2, <3>3 DEF desktop
  <2>4. UNCHANGED <<tree, deleter>>
    BY <1>7 DEF WriteClipboard
  <2> QED
    BY <1>0, <1>1, <2>1, <2>3, <2>4 DEF ShelfTypes
<1>8. CASE WatcherTick
  <2>1. UNCHANGED <<tree, paste, deleter, clipboard>> /\ events' \subseteq events
    BY <1>8 DEF WatcherTick
  <2> QED
    BY <1>0, <2>1 DEF ShelfTypes
<1>9. CASE ExternalCopy
  <2>1. clipboard.seq + 1 \in Nat
    BY <1>0 DEF Desktops
  <2>2. clipboard' \in Desktops /\ events' \subseteq Nat
    BY <1>0, <1>9, <2>1 DEF ExternalCopy, Desktops
  <2> QED
    BY <1>0, <1>9, <2>2 DEF ExternalCopy, ShelfTypes
<1>10. CASE CleanupLeases
  <2>1. tree' \in [Item -> SUBSET Object]
    BY <1>2, <1>10 DEF CleanupLeases
  <2> QED
    BY <1>0, <1>10, <2>1 DEF CleanupLeases, ShelfTypes, desktop
<1>11. ASSUME NEW i \in Item, DeleteItem(i)
       PROVE  ShelfTypes'
  <2>1. tree' \in [Item -> SUBSET Object]
    BY <1>0, <1>2, <1>11 DEF DeleteItem
  <2>2. deleter' \in Deleters /\ deleter'.item \in Item
    BY <1>11 DEF DeleteItem, Deleters
  <2> QED
    BY <1>0, <1>11, <2>1, <2>2 DEF DeleteItem, ShelfTypes, desktop
<1>12. CASE Delete
  <2>1. UNCHANGED <<tree, paste, clipboard, events>>
    BY <1>12 DEF Delete, DeleteCancels, DeleteRow, desktop
  <2>2. deleter' = NoDelete \/ (deleter.at = "cancel" /\ deleter' = [deleter EXCEPT !.at = "row"])
    BY <1>12 DEF Delete, DeleteCancels, DeleteRow
  <2>3. deleter' \in Deleters /\ (deleter'.at # "idle" => deleter'.item \in Item)
    BY <1>0, <1>1, <2>2 DEF Deleters
  <2> QED
    BY <1>0, <2>1, <2>3 DEF ShelfTypes
<1>13. CASE Restart
  <2>1. tree' \in [Item -> SUBSET Object]
    BY <1>0, <1>13 DEF Restart
  <2>2. paste' = NoPaste /\ deleter' = NoDelete /\ events' = {} /\ clipboard' = clipboard
    BY <1>13 DEF Restart
  <2> QED
    BY <1>0, <1>1, <2>1, <2>2 DEF ShelfTypes
<1> QED
  BY <1>3, <1>4, <1>5, <1>6, <1>7, <1>8, <1>9, <1>10, <1>11, <1>12, <1>13 DEF ShelfMoves, Clipboard

(* Publication and purge keep their types.                                   *)
LEMMA TransferTypesStay ==
  ASSUME StoreTypes, TransferMoves
  PROVE  PublicationTypes'
<1>0. /\ objects \subseteq Object /\ manifests \subseteq Item
      /\ pins \in [Transfer -> SUBSET Parts]
      /\ thread \in [Transfer -> Places] /\ fate \in [Transfer -> Fates] /\ lock \in Locks
      /\ \A t \in Transfer : ItemOf[t] \in Item
  BY Constants DEF StoreTypes, PublicationTypes
<1>1. /\ {"receiving", "staged", "publishing", "published", "releasing", "released", "completed",
          "failed"} \subseteq Places
      /\ {"cancelled", "purged"} \subseteq Fates /\ "receipt" \in Parts /\ "manifest" \in Parts
      /\ Object \subseteq Parts
  BY DEF Places, Fates, Parts
<1>2. ASSUME NEW t \in Transfer, NEW op \in {"publish", "release", "discard"}
      PROVE  Holder(op, t) \in Locks
  BY DEF Holder, Locks
<1>3. Free \in Locks
  BY DEF Free, Holder, Locks
<1>4. ASSUME NEW t \in Transfer, NEW place \in Places, Goes(t, place)
      PROVE  thread' \in [Transfer -> Places]
  BY <1>0, <1>4 DEF Goes
<1>5. ASSUME NEW t \in Transfer, NEW part \in Parts, pins' = [pins EXCEPT ![t] = @ \cup {part}]
      PROVE  pins' \in [Transfer -> SUBSET Parts]
  BY <1>0, <1>5
<1>6. ASSUME NEW t \in Transfer, NEW part, pins' = [pins EXCEPT ![t] = @ \ {part}]
      PROVE  pins' \in [Transfer -> SUBSET Parts]
  BY <1>0, <1>6
<1>7. ASSUME NEW t \in Transfer, NEW f \in Fates, fate' = [fate EXCEPT ![t] = f]
      PROVE  fate' \in [Transfer -> Fates]
  BY <1>0, <1>7
<1>8. ASSUME NEW t \in Transfer, Offer(t)
      PROVE  PublicationTypes'
  <2>1. fate' \in [Transfer -> Fates]
    <3>1. fate' = [fate EXCEPT ![t] = "cancelled"] \/ UNCHANGED fate
      BY <1>8 DEF Offer
    <3> QED
      BY <1>0, <1>1, <1>7, <3>1
  <2>2. thread' \in [Transfer -> Places]
    <3>1. Goes(t, "receiving") \/ Goes(t, "staged") \/ UNCHANGED thread
      BY <1>8 DEF Offer
    <3> QED
      BY <1>0, <1>1, <1>4, <3>1
  <2> QED
    BY <1>0, <1>8, <2>1, <2>2 DEF Offer, PublicationTypes
<1>9. ASSUME NEW t \in Transfer, Finalize(t) \/ PublishFails(t) \/ CommitFails(t)
                                 \/ CompletePublication(t)
      PROVE  PublicationTypes'
  <2>1. thread' \in [Transfer -> Places]
    <3>1. Goes(t, "staged") \/ Goes(t, "failed") \/ Goes(t, "completed")
      BY <1>9 DEF Finalize, PublishFails, CommitFails, CompletePublication
    <3> QED
      BY <1>1, <1>4, <3>1
  <2>2. lock' \in {lock, Free}
    BY <1>9 DEF Finalize, PublishFails, CommitFails, CompletePublication
  <2>3. UNCHANGED <<objects, manifests, pins, fate>>
    BY <1>9 DEF Finalize, PublishFails, CommitFails, CompletePublication
  <2> QED
    BY <1>0, <1>3, <2>1, <2>2, <2>3 DEF PublicationTypes
<1>10. ASSUME NEW t \in Transfer, PublishReceipt(t)
       PROVE  PublicationTypes'
  <2>1. thread' \in [Transfer -> Places]
    <3>1. Goes(t, "publishing") \/ Goes(t, "failed")
      BY <1>10 DEF PublishReceipt
    <3> QED
      BY <1>1, <1>4, <3>1
  <2>2. /\ lock' = Holder("publish", t) \/ UNCHANGED lock
        /\ pins' = [pins EXCEPT ![t] = @ \cup {"receipt"}] \/ UNCHANGED pins
        /\ UNCHANGED <<objects, manifests, fate>>
    BY <1>10 DEF PublishReceipt
  <2>3. pins' \in [Transfer -> SUBSET Parts]
    BY <1>0, <1>1, <1>5, <2>2
  <2> QED
    BY <1>0, <1>2, <2>1, <2>2, <2>3 DEF PublicationTypes
<1>11. ASSUME NEW t \in Transfer, NEW o \in Object, PublishObject(t, o)
       PROVE  PublicationTypes'
  <2>1. pins' \in [Transfer -> SUBSET Parts]
    BY <1>1, <1>5, <1>11 DEF PublishObject
  <2> QED
    BY <1>0, <1>11, <2>1 DEF PublishObject, PublicationTypes
<1>12. ASSUME NEW t \in Transfer, PublishManifest(t)
       PROVE  PublicationTypes'
  <2>1. pins' \in [Transfer -> SUBSET Parts] /\ thread' \in [Transfer -> Places]
    BY <1>1, <1>4, <1>5, <1>12 DEF PublishManifest
  <2> QED
    BY <1>0, <1>3, <1>12, <2>1 DEF PublishManifest, PublicationTypes
<1>13. ASSUME NEW t \in Transfer, CommitIndex(t)
       PROVE  PublicationTypes'
  <2>1. /\ Goes(t, "releasing") \/ Goes(t, "failed")
        /\ lock' = Holder("release", t) \/ UNCHANGED lock
        /\ UNCHANGED <<objects, manifests, pins, fate>>
    BY <1>13 DEF CommitIndex
  <2>2. thread' \in [Transfer -> Places]
    BY <1>1, <1>4, <2>1
  <2> QED
    BY <1>0, <1>2, <2>1, <2>2 DEF PublicationTypes
<1>14. ASSUME NEW t \in Transfer, ReleasePin(t)
       PROVE  PublicationTypes'
  <2>1. /\ UNCHANGED pins \/ \E part \in pins[t] : pins' = [pins EXCEPT ![t] = @ \ {part}]
        /\ lock' \in {lock, Free} /\ UNCHANGED <<objects, manifests, fate>>
        /\ Goes(t, "released") \/ UNCHANGED thread
    BY <1>14 DEF ReleasePin
  <2>2. pins' \in [Transfer -> SUBSET Parts]
    BY <1>0, <1>6, <2>1
  <2>3. thread' \in [Transfer -> Places]
    BY <1>0, <1>1, <1>4, <2>1
  <2> QED
    BY <1>0, <1>3, <2>1, <2>2, <2>3 DEF PublicationTypes
<1>15. ASSUME NEW t \in Transfer, Cancel(t) \/ BeginDiscard(t)
       PROVE  PublicationTypes'
  <2>1. /\ fate' = [fate EXCEPT ![t] = "cancelled"] \/ UNCHANGED fate
        /\ lock' = Holder("discard", t) \/ UNCHANGED lock
        /\ UNCHANGED <<objects, manifests, pins, thread>>
    BY <1>15 DEF Cancel, BeginDiscard
  <2>2. fate' \in [Transfer -> Fates]
    BY <1>0, <1>1, <1>7, <2>1
  <2> QED
    BY <1>0, <1>2, <2>1, <2>2 DEF PublicationTypes
<1>16. ASSUME NEW t \in Transfer, Discard(t)
       PROVE  PublicationTypes'
  <2>1. /\ UNCHANGED pins \/ \E part \in Discardable(t) : pins' = [pins EXCEPT ![t] = @ \ {part}]
        /\ fate' = [fate EXCEPT ![t] = "purged"] \/ UNCHANGED fate
        /\ lock' \in {lock, Free} /\ UNCHANGED <<objects, manifests, thread>>
    BY <1>16 DEF Discard
  <2>2. pins' \in [Transfer -> SUBSET Parts]
    BY <1>0, <1>6, <2>1
  <2>3. fate' \in [Transfer -> Fates]
    BY <1>0, <1>1, <1>7, <2>1
  <2> QED
    BY <1>0, <1>3, <2>1, <2>2, <2>3 DEF PublicationTypes
<1> QED
  BY <1>8, <1>9, <1>10, <1>11, <1>12, <1>13, <1>14, <1>15, <1>16 DEF TransferMoves, Publish, Purge

(* Every step keeps the types of the store.                                  *)
LEMMA StoreTypesStay ==
  ASSUME StoreTypes, [Next]_vars
  PROVE  StoreTypes'
<1>1. index' \in Indexes /\ BudgetTypes'
  BY IndexMoves, BudgetStays
<1>2. CASE TransferMoves
  <2>1. ShelfTypes'
    BY <1>2, TransfersLeaveShelf DEF StoreTypes, ShelfTypes, shelf, desktop
  <2> QED
    BY <1>1, <1>2, <2>1, TransferTypesStay DEF StoreTypes
<1>3. CASE ShelfMoves
  <2>1. CASE ~CollectGarbage /\ ~DeleteCancels /\ ~Restart
    <3>1. PublicationTypes'
      BY <1>3, <2>1, ShelfLeavesPublication DEF StoreTypes, PublicationTypes, publication
    <3> QED
      BY <1>1, <1>3, <3>1, ShelfTypesStay DEF StoreTypes
  <2>2. CASE CollectGarbage
    <3>1. PublicationTypes'
      BY <2>2 DEF CollectGarbage, StoreTypes, PublicationTypes
    <3> QED
      BY <1>1, <1>3, <3>1, ShelfTypesStay DEF StoreTypes
  <2>3. CASE DeleteCancels
    <3>1. PublicationTypes'
      BY <2>3 DEF DeleteCancels, StoreTypes, PublicationTypes, Fates
    <3> QED
      BY <1>1, <1>3, <3>1, ShelfTypesStay DEF StoreTypes
  <2>4. CASE Restart
    <3>1. fate' \in [Transfer -> Fates] /\ thread' \in [Transfer -> Places]
      BY <2>4 DEF Restart, StoreTypes, PublicationTypes, Fates, Places
    <3>2. lock' \in Locks
      BY <2>4 DEF Restart, Free, Holder, Locks
    <3>3. PublicationTypes'
      BY <2>4, <3>1, <3>2 DEF Restart, StoreTypes, PublicationTypes
    <3> QED
      BY <1>1, <1>3, <3>3, ShelfTypesStay DEF StoreTypes
  <2> QED
    BY <2>1, <2>2, <2>3, <2>4
<1>4. CASE UNCHANGED vars
  BY <1>4 DEF vars, StoreTypes, PublicationTypes, ShelfTypes, BudgetTypes
<1> QED
  BY <1>2, <1>3, <1>4 DEF Next, External, TransferMoves, ShelfMoves

----------------------------------------------------------------------------
(* Publication                                                               *)

(* The invariant of one transfer.                                            *)
TransferFits(t) ==
  /\ lock = Holder("publish", t) => At(t, "publishing") /\ "receipt" \in pins[t]
  /\ lock = Holder("release", t) => At(t, "releasing")
  /\ lock = Holder("discard", t) => fate[t] = "cancelled"
  /\ pins[t] \cap Object \subseteq objects
  /\ "manifest" \in pins[t] => ItemOf[t] \in manifests
  /\ At(t, "published") /\ fate[t] = "live" =>
       FilesOf[ItemOf[t]] \cup {"receipt", "manifest"} \subseteq pins[t]

(* The publication part of the invariant, transfer by transfer.              *)
LEMMA PublicationFits == PublicationInv <=> \A t \in Transfer : TransferFits(t)
BY DEF PublicationInv, LockIsTrue, PinsHold, PublishedIsPinned, TransferFits

(* The same after a step.                                                    *)
LEMMA PublicationFitsLater == PublicationInv' <=> \A t \in Transfer : TransferFits(t)'
BY DEF PublicationInv, LockIsTrue, PinsHold, PublishedIsPinned, TransferFits

(* A lock tells who holds it and for what, and a held lock is not free.      *)
LEMMA HolderIs ==
  /\ \A a, b, t, u : Holder(a, t) = Holder(b, u) => a = b /\ t = u
  /\ \A a, t : a # "free" => Holder(a, t) # Free
BY DEF Holder, Free

(* A step of one transfer leaves the others as they are.                      *)
OnlyMoves(t) ==
  /\ \A u \in Transfer \ {t} : thread'[u] = thread[u] /\ pins'[u] = pins[u] /\ fate'[u] = fate[u]
  /\ objects \subseteq objects' /\ manifests \subseteq manifests'
  /\ lock' = lock \/ lock' = Free \/ \E op : lock' = Holder(op, t)

(* A step of one transfer that only adds data keeps what is known of the     *)
(* others.                                                                   *)
LEMMA OthersFit ==
  ASSUME PublicationInv, NEW t \in Transfer, OnlyMoves(t), TransferFits(t)'
  PROVE  PublicationInv'
<1>1. ASSUME NEW u \in Transfer \ {t}
      PROVE  TransferFits(u)'
  <2>1. TransferFits(u)
    BY PublicationFits
  <2>2. \A op \in {"publish", "release", "discard"} :
          lock' = Holder(op, u) => lock = Holder(op, u)
    BY HolderIs DEF OnlyMoves
  <2>3. thread'[u] = thread[u] /\ pins'[u] = pins[u] /\ fate'[u] = fate[u]
        /\ objects \subseteq objects' /\ manifests \subseteq manifests'
    BY DEF OnlyMoves
  <2> QED
    BY <2>1, <2>2, <2>3 DEF TransferFits, At
<1> QED
  BY <1>1, PublicationFitsLater

(* The steps of publications, purges and cancels keep locks and pins true.   *)
LEMMA TransfersFit ==
  ASSUME StoreTypes, PublicationInv, TransferMoves
  PROVE  PublicationInv'
<1>0. /\ pins \in [Transfer -> SUBSET Parts] /\ thread \in [Transfer -> Places]
      /\ fate \in [Transfer -> Fates]
      /\ \A t \in Transfer : ItemOf[t] \in Item
      /\ \A i \in Item : FilesOf[i] \subseteq Object
      /\ "receipt" \notin Object /\ "manifest" \notin Object
  BY Constants DEF StoreTypes, PublicationTypes
<1>1. \A t \in Transfer : TransferFits(t)
  BY PublicationFits
<1>2. ASSUME NEW t \in Transfer, NEW place, Goes(t, place)
      PROVE  thread'[t] = place /\ \A u \in Transfer \ {t} : thread'[u] = thread[u]
  BY <1>0, <1>2 DEF Goes
<1>3. ASSUME NEW t \in Transfer, NEW f, fate' = [fate EXCEPT ![t] = f]
      PROVE  fate'[t] = f /\ \A u \in Transfer \ {t} : fate'[u] = fate[u]
  BY <1>0, <1>3
<1>4. ASSUME NEW t \in Transfer, NEW part,
             pins' = [pins EXCEPT ![t] = @ \cup {part}]
      PROVE  pins'[t] = pins[t] \cup {part} /\ \A u \in Transfer \ {t} : pins'[u] = pins[u]
  BY <1>0, <1>4
<1>5. ASSUME NEW t \in Transfer, NEW part,
             pins' = [pins EXCEPT ![t] = @ \ {part}]
      PROVE  pins'[t] = pins[t] \ {part} /\ \A u \in Transfer \ {t} : pins'[u] = pins[u]
  BY <1>0, <1>5
<1>6. ASSUME NEW t \in Transfer, Offer(t)
      PROVE  PublicationInv'
  <2>1. /\ thread[t] \in {"none", "failed"} /\ fate[t] = "live"
        /\ UNCHANGED <<objects, manifests, pins, lock>>
        /\ \/ fate' = [fate EXCEPT ![t] = "cancelled"] /\ UNCHANGED thread
           \/ UNCHANGED fate /\ \E place \in {"receiving", "staged"} : Goes(t, place)
    BY <1>6 DEF Offer
  <2>2. OnlyMoves(t) /\ thread'[t] # "published" /\ thread'[t] \in {"none", "failed", "receiving", "staged"}
    BY <1>2, <1>3, <2>1 DEF OnlyMoves
  <2>3. TransferFits(t)'
    BY <1>1, <2>1, <2>2 DEF TransferFits, At
  <2> QED
    BY <2>2, <2>3, OthersFit
<1>7. ASSUME NEW t \in Transfer, Finalize(t)
      PROVE  PublicationInv'
  <2>1. /\ thread[t] = "receiving" /\ Goes(t, "staged")
        /\ UNCHANGED <<objects, manifests, pins, fate, lock>>
    BY <1>7 DEF Finalize, At
  <2>2. OnlyMoves(t) /\ thread'[t] = "staged"
    BY <1>2, <2>1 DEF OnlyMoves
  <2>3. TransferFits(t)'
    BY <1>1, <2>1, <2>2 DEF TransferFits, At
  <2> QED
    BY <2>2, <2>3, OthersFit
<1>8. ASSUME NEW t \in Transfer, PublishReceipt(t)
      PROVE  PublicationInv'
  <2>1. /\ lock = Free /\ UNCHANGED <<objects, manifests, fate>>
        /\ \/ /\ lock' = Holder("publish", t) /\ pins' = [pins EXCEPT ![t] = @ \cup {"receipt"}]
              /\ Goes(t, "publishing")
           \/ Goes(t, "failed") /\ UNCHANGED <<lock, pins>>
    BY <1>8 DEF PublishReceipt, StoreFree
  <2>2. CASE /\ lock' = Holder("publish", t) /\ pins' = [pins EXCEPT ![t] = @ \cup {"receipt"}]
             /\ Goes(t, "publishing")
    <3>1. /\ thread'[t] = "publishing" /\ pins'[t] = pins[t] \cup {"receipt"}
          /\ OnlyMoves(t)
      BY <1>2, <1>4, <2>1, <2>2 DEF OnlyMoves
    <3>2. lock' # Holder("release", t) /\ lock' # Holder("discard", t)
      BY <2>2, HolderIs
    <3>3. pins'[t] \cap Object \subseteq objects /\ ("manifest" \in pins'[t] => "manifest" \in pins[t])
      BY <1>0, <1>1, <3>1 DEF TransferFits
    <3>4. TransferFits(t)'
      BY <1>1, <2>1, <3>1, <3>2, <3>3 DEF TransferFits, At
    <3> QED
      BY <3>1, <3>4, OthersFit
  <2>3. CASE Goes(t, "failed") /\ UNCHANGED <<lock, pins>>
    <3>1. thread'[t] = "failed" /\ OnlyMoves(t)
      BY <1>2, <2>1, <2>3 DEF OnlyMoves
    <3>2. TransferFits(t)'
      BY <1>1, <2>1, <2>3, <3>1, HolderIs DEF TransferFits, At
    <3> QED
      BY <3>1, <3>2, OthersFit
  <2> QED
    BY <2>1, <2>2, <2>3
<1>9. ASSUME NEW t \in Transfer, NEW o \in Object, PublishObject(t, o)
      PROVE  PublicationInv'
  <2>1. /\ lock = Holder("publish", t) /\ UNCHANGED <<manifests, thread, fate, lock>>
        /\ objects' = objects \cup {o} /\ pins' = [pins EXCEPT ![t] = @ \cup {o}]
    BY <1>9 DEF PublishObject
  <2>2. pins'[t] = pins[t] \cup {o} /\ OnlyMoves(t)
    BY <1>4, <2>1 DEF OnlyMoves
  <2>3. thread[t] = "publishing" /\ "receipt" \in pins[t]
    BY <1>1, <2>1 DEF TransferFits, At
  <2>4. pins'[t] \cap Object \subseteq objects' /\ ("manifest" \in pins'[t] => "manifest" \in pins[t])
    BY <1>0, <1>1, <2>1, <2>2 DEF TransferFits
  <2>5. lock' # Holder("release", t) /\ lock' # Holder("discard", t)
    BY <2>1, HolderIs
  <2>6. TransferFits(t)'
    BY <1>1, <2>1, <2>2, <2>3, <2>4, <2>5 DEF TransferFits, At
  <2> QED
    BY <2>2, <2>6, OthersFit
<1>10. ASSUME NEW t \in Transfer, PublishManifest(t)
       PROVE  PublicationInv'
  <2>1. /\ lock = Holder("publish", t) /\ lock' = Free /\ UNCHANGED <<objects, fate>>
        /\ FilesOf[ItemOf[t]] \subseteq pins[t] /\ manifests' = manifests \cup {ItemOf[t]}
        /\ pins' = [pins EXCEPT ![t] = @ \cup {"manifest"}] /\ Goes(t, "published")
    BY <1>10 DEF PublishManifest
  <2>2. pins'[t] = pins[t] \cup {"manifest"} /\ thread'[t] = "published" /\ OnlyMoves(t)
    BY <1>2, <1>4, <2>1 DEF OnlyMoves
  <2>3. "receipt" \in pins[t] /\ pins[t] \cap Object \subseteq objects
    BY <1>1, <2>1 DEF TransferFits
  <2>4. pins'[t] \cap Object \subseteq objects
    BY <1>0, <2>2, <2>3
  <2>5. lock' # Holder("publish", t) /\ lock' # Holder("release", t) /\ lock' # Holder("discard", t)
    BY <2>1, HolderIs
  <2>6. TransferFits(t)'
    BY <2>1, <2>2, <2>3, <2>4, <2>5 DEF TransferFits, At
  <2> QED
    BY <2>2, <2>6, OthersFit
<1>11. ASSUME NEW t \in Transfer, PublishFails(t) \/ CommitFails(t) \/ CompletePublication(t)
       PROVE  PublicationInv'
  <2>1. /\ lock = Free \/ lock = Holder("publish", t)
        /\ UNCHANGED <<objects, manifests, pins, fate>> /\ lock' = Free
        /\ \E place \in {"failed", "completed"} : Goes(t, place)
    BY <1>11 DEF PublishFails, CommitFails, CompletePublication, StoreFree
  <2>2. thread'[t] \in {"failed", "completed"} /\ OnlyMoves(t)
    BY <1>2, <2>1 DEF OnlyMoves
  <2>3. TransferFits(t)'
    BY <1>1, <2>1, <2>2, HolderIs DEF TransferFits, At
  <2> QED
    BY <2>2, <2>3, OthersFit
<1>12. ASSUME NEW t \in Transfer, CommitIndex(t)
       PROVE  PublicationInv'
  <2>1. /\ lock = Free /\ UNCHANGED <<objects, manifests, pins, fate>>
        /\ \/ lock' = Holder("release", t) /\ Goes(t, "releasing")
           \/ UNCHANGED lock /\ Goes(t, "failed")
    BY <1>12 DEF CommitIndex, StoreFree
  <2>2. /\ thread'[t] \in {"failed", "releasing"} /\ OnlyMoves(t)
        /\ lock' = Holder("release", t) => thread'[t] = "releasing"
    BY <1>2, <2>1, HolderIs DEF OnlyMoves
  <2>3. lock' # Holder("publish", t) /\ lock' # Holder("discard", t)
    BY <2>1, HolderIs
  <2>4. TransferFits(t)'
    BY <1>1, <2>1, <2>2, <2>3 DEF TransferFits, At
  <2> QED
    BY <2>2, <2>4, OthersFit
<1>13. ASSUME NEW t \in Transfer, ReleasePin(t)
       PROVE  PublicationInv'
  <2>1. /\ lock = Holder("release", t) /\ UNCHANGED <<objects, manifests, fate>>
        /\ \/ lock' = Free /\ Goes(t, "released") /\ UNCHANGED pins
           \/ /\ UNCHANGED <<lock, thread>>
              /\ \E part \in pins[t] : pins' = [pins EXCEPT ![t] = @ \ {part}]
    BY <1>13 DEF ReleasePin
  <2>2. thread[t] = "releasing"
    BY <1>1, <2>1 DEF TransferFits, At
  <2>3. /\ thread'[t] \in {"released", "releasing"} /\ pins'[t] \subseteq pins[t] /\ OnlyMoves(t)
        /\ lock' = lock => thread'[t] = "releasing"
    BY <1>2, <1>5, <2>1, <2>2, HolderIs DEF OnlyMoves
  <2>4. /\ lock' # Holder("publish", t) /\ lock' # Holder("discard", t)
        /\ lock' = Holder("release", t) => thread'[t] = "releasing"
    BY <2>1, <2>3, HolderIs
  <2>5. TransferFits(t)'
    BY <1>1, <2>1, <2>3, <2>4 DEF TransferFits, At
  <2> QED
    BY <2>3, <2>5, OthersFit
<1>14. ASSUME NEW t \in Transfer, Cancel(t)
       PROVE  PublicationInv'
  <2>1. fate' = [fate EXCEPT ![t] = "cancelled"] /\ UNCHANGED <<objects, manifests, pins, thread, lock>>
    BY <1>14 DEF Cancel
  <2>2. fate'[t] = "cancelled" /\ OnlyMoves(t)
    BY <1>3, <2>1 DEF OnlyMoves
  <2>3. TransferFits(t)'
    BY <1>1, <2>1, <2>2 DEF TransferFits, At
  <2> QED
    BY <2>2, <2>3, OthersFit
<1>15. ASSUME NEW t \in Transfer, BeginDiscard(t)
       PROVE  PublicationInv'
  <2>1. /\ fate[t] = "cancelled" /\ lock' = Holder("discard", t)
        /\ UNCHANGED <<objects, manifests, pins, thread, fate>>
    BY <1>15 DEF BeginDiscard
  <2>2. OnlyMoves(t) /\ lock' # Holder("publish", t) /\ lock' # Holder("release", t)
    BY <2>1, HolderIs DEF OnlyMoves
  <2>3. TransferFits(t)'
    BY <1>1, <2>1, <2>2 DEF TransferFits, At
  <2> QED
    BY <2>2, <2>3, OthersFit
<1>16. ASSUME NEW t \in Transfer, Discard(t)
       PROVE  PublicationInv'
  <2>1. /\ lock = Holder("discard", t) /\ UNCHANGED <<objects, manifests, thread>>
        /\ \/ lock' = Free /\ fate' = [fate EXCEPT ![t] = "purged"] /\ UNCHANGED pins
           \/ /\ UNCHANGED <<lock, fate>>
              /\ \E part \in Discardable(t) : pins' = [pins EXCEPT ![t] = @ \ {part}]
    BY <1>16 DEF Discard
  <2>2. fate[t] = "cancelled"
    BY <1>1, <2>1 DEF TransferFits
  <2>3. /\ fate'[t] \in {"cancelled", "purged"} /\ pins'[t] \subseteq pins[t] /\ OnlyMoves(t)
        /\ lock' = lock => fate'[t] = "cancelled"
    BY <1>3, <1>5, <2>1, <2>2, HolderIs DEF OnlyMoves
  <2>4. /\ lock' # Holder("publish", t) /\ lock' # Holder("release", t)
        /\ lock' = Holder("discard", t) => fate'[t] = "cancelled"
    BY <2>1, <2>3, HolderIs
  <2>5. TransferFits(t)'
    BY <1>1, <2>1, <2>3, <2>4 DEF TransferFits, At
  <2> QED
    BY <2>3, <2>5, OthersFit
<1> QED
  BY <1>6, <1>7, <1>8, <1>9, <1>10, <1>11, <1>12, <1>13, <1>14, <1>15, <1>16
  DEF TransferMoves, Publish, Purge

(* Garbage collection leaves what is pinned, a restart ends the publications. *)
LEMMA ShelfFits ==
  ASSUME StoreTypes, PublicationInv, ShelfMoves
  PROVE  PublicationInv'
<1>0. /\ pins \in [Transfer -> SUBSET Parts] /\ thread \in [Transfer -> Places]
      /\ fate \in [Transfer -> Fates]
      /\ \A t \in Transfer : ItemOf[t] \in Item
  BY Constants DEF StoreTypes, PublicationTypes
<1>1. \A t \in Transfer : TransferFits(t)
  BY PublicationFits
<1>2. SUFFICES ASSUME NEW t \in Transfer
               PROVE  TransferFits(t)'
  BY PublicationFitsLater
<1>3. CASE ~CollectGarbage /\ ~DeleteCancels /\ ~Restart
  BY <1>1, <1>3, ShelfLeavesPublication DEF publication, TransferFits, At
<1>4. CASE CollectGarbage
  <2>1. UNCHANGED <<pins, thread, fate, lock>>
    BY <1>4 DEF CollectGarbage
  <2>2. pins[t] \cap Object \subseteq objects'
    BY <1>1, <1>4 DEF CollectGarbage, Linked, TransferFits
  <2>3. "manifest" \in pins[t] => ItemOf[t] \in manifests'
    BY <1>0, <1>1, <1>4 DEF CollectGarbage, ManifestLinked, Transfers, TransferFits
  <2> QED
    BY <1>1, <2>1, <2>2, <2>3 DEF TransferFits, At
<1>5. CASE DeleteCancels
  <2>1. fate'[t] = fate[t] \/ fate'[t] = "cancelled"
    BY <1>5 DEF DeleteCancels
  <2>2. UNCHANGED <<objects, manifests, pins, thread, lock>>
    BY <1>5 DEF DeleteCancels
  <2> QED
    BY <1>1, <2>1, <2>2 DEF TransferFits, At
<1>6. CASE Restart
  <2>1. /\ lock' = Free /\ thread'[t] # "published" /\ UNCHANGED <<objects, manifests, pins>>
    BY <1>0, <1>6 DEF Restart
  <2>2. \A op \in {"publish", "release", "discard"} : lock' # Holder(op, t)
    BY <2>1, HolderIs
  <2> QED
    BY <1>1, <2>1, <2>2 DEF TransferFits, At
<1> QED
  BY <1>3, <1>4, <1>5, <1>6

----------------------------------------------------------------------------
(* The index and the trees                                                   *)

(* Objects and manifests only go by the collection of garbage.                *)
LEMMA BytesStay ==
  ASSUME [Next]_vars, ~CollectGarbage
  PROVE  objects \subseteq objects' /\ manifests \subseteq manifests'
<1>1. CASE TransferMoves
  BY <1>1
  DEF TransferMoves, Publish, Purge, Finalize, PublishReceipt, PublishManifest, PublishObject,
      CommitIndex, ReleasePin, CompletePublication, BeginDiscard, Discard, Offer, Cancel,
      PublishFails, CommitFails
<1>2. CASE ShelfMoves
  <2>1. CASE DeleteCancels \/ Restart
    BY <2>1 DEF DeleteCancels, Restart
  <2>2. CASE ~DeleteCancels /\ ~Restart
    BY <1>2, <2>2, ShelfLeavesPublication DEF publication
  <2> QED
    BY <2>1, <2>2
<1>3. CASE UNCHANGED vars
  BY <1>3 DEF vars
<1> QED
  BY <1>1, <1>2, <1>3 DEF Next, External, TransferMoves, ShelfMoves

(* What the moves of the rows keep.                                          *)
LEMMA RowsKeep ==
  ASSUME index \in Indexes, index' \in Indexes, RowsMove, IndexInv
  PROVE  /\ \A i \in Item : index'.row[i] = "cached" => index.row[i] = "cached" \/ Stored(i)
         /\ ReceiptMeansDeliverable'
<1>0. /\ \A t \in Transfer : ItemOf[t] \in Item
      /\ index.row \in [Item -> RowStates] /\ index.receipts \subseteq Transfer
      /\ \A i \in Item : index.row[i] = "cached" => Stored(i)
      /\ \A t \in index.receipts : index.row[ItemOf[t]] = "cached"
  BY Constants DEF Indexes, IndexInv, DeliverableComplete, ReceiptMeansDeliverable, Deliverable
<1>1. SUFFICES /\ \A i \in Item : index'.row[i] = "cached" => index.row[i] = "cached" \/ Stored(i)
               /\ \A t \in index'.receipts : t \in Transfer /\ index'.row[ItemOf[t]] = "cached"
  BY <1>0 DEF ReceiptMeansDeliverable, Deliverable
<1>2. CASE RowsStay
  BY <1>0, <1>2 DEF RowsStay
<1>3. ASSUME NEW i \in Item, RowOffered(i)
      PROVE  /\ \A k \in Item : index'.row[k] = "cached" => index.row[k] = "cached" \/ Stored(k)
             /\ \A t \in index'.receipts : t \in Transfer /\ index'.row[ItemOf[t]] = "cached"
  <2>1. PICK victims \in SUBSET Item :
          /\ index.row[i] \in {"none", "receiving"}
          /\ index'.row = Dropped([index.row EXCEPT ![i] = "receiving"], victims)
          /\ index'.receipts = Trimmed(index'.row)
    BY <1>3 DEF RowOffered
  <2>2. \A k \in Item : index'.row[k] = IF k \in victims THEN "none"
                                        ELSE IF k = i THEN "receiving" ELSE index.row[k]
    BY <1>0, <2>1 DEF Dropped
  <2>3. \A t \in index'.receipts : t \in index.receipts /\ index'.row[ItemOf[t]] # "none"
    BY <2>1 DEF Trimmed
  <2> QED
    BY <1>0, <2>1, <2>2, <2>3
<1>4. ASSUME NEW i \in Item, RowDeleted(i)
      PROVE  /\ \A k \in Item : index'.row[k] = "cached" => index.row[k] = "cached" \/ Stored(k)
             /\ \A t \in index'.receipts : t \in Transfer /\ index'.row[ItemOf[t]] = "cached"
  <2>1. \A k \in Item : index'.row[k] = IF k = i THEN "none" ELSE index.row[k]
    BY <1>0, <1>4 DEF RowDeleted
  <2>2. \A t \in index'.receipts : t \in index.receipts /\ index'.row[ItemOf[t]] # "none"
    BY <1>4 DEF RowDeleted, Trimmed
  <2> QED
    BY <1>0, <2>1, <2>2
<1>5. ASSUME NEW t \in Transfer, RowCommitted(t)
      PROVE  /\ \A k \in Item : index'.row[k] = "cached" => index.row[k] = "cached" \/ Stored(k)
             /\ \A u \in index'.receipts : u \in Transfer /\ index'.row[ItemOf[u]] = "cached"
  <2>1. PICK victims \in SUBSET (Item \ {ItemOf[t]}) :
          /\ index.row[ItemOf[t]] = "receiving" /\ Stored(ItemOf[t])
          /\ index'.row = Dropped([index.row EXCEPT ![ItemOf[t]] = "cached"], victims)
          /\ index'.receipts \subseteq {u \in index.receipts \cup {t} : index'.row[ItemOf[u]] # "none"}
    BY <1>5 DEF RowCommitted
  <2>2. \A k \in Item : index'.row[k] = IF k \in victims THEN "none"
                                        ELSE IF k = ItemOf[t] THEN "cached" ELSE index.row[k]
    BY <1>0, <2>1 DEF Dropped
  <2>3. \A u \in index'.receipts : (u \in index.receipts \/ u = t) /\ index'.row[ItemOf[u]] # "none"
    BY <2>1
  <2> QED
    BY <1>0, <2>1, <2>2, <2>3
<1>6. ASSUME NEW items \in SUBSET Item, RowsRetired(items)
      PROVE  /\ \A k \in Item : index'.row[k] = "cached" => index.row[k] = "cached" \/ Stored(k)
             /\ \A u \in index'.receipts : u \in Transfer /\ index'.row[ItemOf[u]] = "cached"
  BY <1>0, <1>6 DEF RowsRetired
<1>7. CASE RowsReloaded
  BY <1>0, <1>7 DEF RowsReloaded, Reloaded
<1> QED
  BY <1>2, <1>3, <1>4, <1>5, <1>6, <1>7 DEF RowsMove

(* A row that can be delivered keeps its data and its receipt over every     *)
(* step.                                                                     *)
LEMMA IndexInvStays ==
  ASSUME StoreTypes, IndexInv, [Next]_vars
  PROVE  IndexInv'
<1>0. index \in Indexes /\ index' \in Indexes /\ RowsMove
  BY IndexMoves DEF StoreTypes
<1>1. /\ \A i \in Item : index'.row[i] = "cached" => index.row[i] = "cached" \/ Stored(i)
      /\ ReceiptMeansDeliverable'
  BY <1>0, RowsKeep
<1>2. \A i \in Item : index.row[i] = "cached" => Stored(i)
  BY DEF IndexInv, DeliverableComplete, Deliverable
<1>3. CASE CollectGarbage
  <2>1. \A i \in Item : index'.row[i] = "cached" => Stored(i)'
    BY <1>2, <1>3 DEF CollectGarbage, Stored, Deliverable
  <2> QED
    BY <1>1, <2>1 DEF IndexInv, DeliverableComplete, Deliverable
<1>4. CASE ~CollectGarbage
  <2>1. \A i \in Item : Stored(i) => Stored(i)'
    BY <1>4, BytesStay DEF Stored
  <2>2. \A i \in Item : index'.row[i] = "cached" => Stored(i)'
    BY <1>1, <1>2, <2>1
  <2> QED
    BY <1>1, <2>2 DEF IndexInv, DeliverableComplete, Deliverable
<1> QED
  BY <1>3, <1>4

(* What a step does to the lease trees.                                      *)
TreesMove ==
  \/ UNCHANGED tree
  \/ /\ paste.item \in Item /\ paste.linked = FilesOf[paste.item]
     /\ tree' = [tree EXCEPT ![paste.item] = paste.linked]
  \/ \E items : /\ tree' = [i \in Item |-> IF i \in items THEN {} ELSE tree[i]]
                /\ \A i \in items : \/ index.lease[i].state = "stale"
                                    \/ deleter'.item = i
                                    \/ left' = [left EXCEPT !["crash"] = @ - 1] /\ left["crash"] > 0

(* Every step changes a materialized tree only in one of the ways TreesMove  *)
(* names.                                                                    *)
LEMMA TreeMoves ==
  ASSUME StoreTypes, [Next]_vars
  PROVE  TreesMove
<1>1. CASE TransferMoves
  BY <1>1, TransfersLeaveShelf DEF shelf, TreesMove
<1>2. CASE PasteRename
  BY <1>2 DEF PasteRename, TreesMove, StoreTypes, ShelfTypes
<1>3. CASE CleanupLeases
  <2>1. RemoveTrees({i \in old : index.lease[i].state = "stale"})
    BY <1>3 DEF CleanupLeases
  <2> QED
    BY <2>1 DEF RemoveTrees, TreesMove
<1>4. ASSUME NEW i \in Item, DeleteItem(i)
      PROVE  TreesMove
  <2>1. UNCHANGED tree \/ RemoveTrees({i})
    BY <1>4 DEF DeleteItem
  <2>2. deleter'.item = i
    BY <1>4 DEF DeleteItem
  <2> QED
    BY <2>1, <2>2 DEF RemoveTrees, TreesMove
<1>5. CASE Restart
  <2>1. /\ tree' = [i \in Item |-> IF i \in old THEN {} ELSE tree[i]]
        /\ left["crash"] > 0 /\ left' = [left EXCEPT !["crash"] = @ - 1]
    BY <1>5 DEF Restart, Spend
  <2> QED
    BY <2>1 DEF TreesMove
<1>6. CASE \/ ShelfMoves /\ ~PasteRename /\ ~CleanupLeases /\ ~Restart
              /\ ~(\E i \in Item : DeleteItem(i))
           \/ UNCHANGED vars
  <2>1. UNCHANGED tree
    BY <1>6
    DEF ShelfMoves, Cache, Clipboard, Delete, BeginEnforce, EvictExcess, PlanGlobal, RemoveCacheEntry,
        CollectGarbage, PasteFile, SetLease, LeaseOnly, WriteClipboard, WatcherTick, DropLeases,
        DeleteCancels, DeleteRow, BeginPaste, AgeTree, TogglePin, ExternalCopy, vars, shelf
  <2> QED
    BY <2>1 DEF TreesMove
<1> QED
  BY <1>1, <1>2, <1>3, <1>4, <1>5, <1>6 DEF Next, External, TransferMoves, ShelfMoves

(* A tree changed in one of these ways is whole or gone.                     *)
LEMMA TreesStayWhole ==
  ASSUME StoreTypes, TreeIsWhole, TreesMove
  PROVE  TreeIsWhole'
<1>1. tree \in [Item -> SUBSET Object]
  BY DEF StoreTypes, ShelfTypes
<1> QED
  BY <1>1 DEF TreesMove, TreeIsWhole

(* The empty store satisfies the invariant.                                  *)
LEMMA InitStore == Init => StoreInv
<1> SUFFICES ASSUME Init
             PROVE  StoreInv
  OBVIOUS
<1>1. index \in Indexes
  <2>1. [i \in Item |-> "none"] \in [Item -> RowStates] /\ [i \in Item |-> NoLease] \in Leases
    BY DEF RowStates, Leases, NoLease, Lease
  <2> QED
    BY <2>1 DEF Init, Indexes
<1>2. PublicationTypes
  BY DEF Init, PublicationTypes, Places, Fates, Locks, Free, Holder, Parts
<1>3. ShelfTypes
  BY DEF Init, ShelfTypes, Pastes, Deleters, Desktops, NoPaste, NoDelete
<1>4. BudgetTypes
  BY StoreAssumption DEF Init, BudgetTypes
<1>5. LockIsTrue /\ PinsHold /\ PublishedIsPinned
  BY HolderIs DEF Init, LockIsTrue, PinsHold, PublishedIsPinned, At
<1>6. IndexInv /\ TreeIsWhole
  BY DEF Init, IndexInv, DeliverableComplete, ReceiptMeansDeliverable, Deliverable, TreeIsWhole
<1> QED
  BY <1>1, <1>2, <1>3, <1>4, <1>5, <1>6 DEF StoreInv, StoreTypes, PublicationInv

(* Every step of the store keeps the invariant.                              *)
LEMMA NextStore == StoreInv /\ [Next]_vars => StoreInv'
<1> SUFFICES ASSUME StoreInv, [Next]_vars
             PROVE  StoreInv'
  OBVIOUS
<1>1. StoreTypes /\ PublicationInv /\ IndexInv /\ TreeIsWhole
  BY DEF StoreInv
<1>2. StoreTypes' /\ IndexInv' /\ TreeIsWhole'
  BY <1>1, StoreTypesStay, IndexInvStays, TreeMoves, TreesStayWhole
<1>3. PublicationInv'
  <2>1. CASE UNCHANGED vars
    BY <1>1, <2>1 DEF vars, PublicationInv, LockIsTrue, PinsHold, PublishedIsPinned, At
  <2> QED
    BY <1>1, <2>1, TransfersFit, ShelfFits DEF Next, External, TransferMoves, ShelfMoves
<1> QED
  BY <1>2, <1>3 DEF StoreInv

(* The lock, the pins, the index and the trees keep their relation in every   *)
(* reachable state, whatever the sets of items, transfers and objects.       *)
THEOREM StoreInvariant == Spec => []StoreInv
BY InitStore, NextStore, PTL DEF Spec

(* A deliverable item has its manifest and all of its objects.                *)
THEOREM DeliverableIsStored == Spec => []DeliverableComplete
<1>1. StoreInv => DeliverableComplete
  BY DEF StoreInv, IndexInv
<1> QED
  BY <1>1, StoreInvariant, PTL

(* A receipt means that the item is deliverable.                              *)
THEOREM ReceiptsAreTrue == Spec => []ReceiptMeansDeliverable
<1>1. StoreInv => ReceiptMeansDeliverable
  BY DEF StoreInv, IndexInv
<1> QED
  BY <1>1, StoreInvariant, PTL

(* A lease directory holds all of its item or nothing.                        *)
THEOREM TreesAreWhole == Spec => []TreeIsWhole
<1>1. StoreInv => TreeIsWhole
  BY DEF StoreInv
<1> QED
  BY <1>1, StoreInvariant, PTL

(* A publication that nobody cancelled is complete when it comes to its       *)
(* commit: neither garbage collection nor eviction takes what it pinned.      *)
THEOREM CommitsFindTheirObjects == Spec => []PublicationsAreBound
<1>1. StoreInv => PublicationsAreBound
  <2> SUFFICES ASSUME StoreInv, NEW t \in Transfer, At(t, "published"), fate[t] = "live"
               PROVE  Bound(t)
    BY DEF PublicationsAreBound
  <2>1. ItemOf[t] \in Item /\ FilesOf[ItemOf[t]] \subseteq Object
    BY Constants
  <2>2. /\ FilesOf[ItemOf[t]] \cup {"receipt", "manifest"} \subseteq pins[t]
        /\ pins[t] \cap Object \subseteq objects
        /\ "manifest" \in pins[t] => ItemOf[t] \in manifests
    BY DEF StoreInv, PublicationInv, PinsHold, PublishedIsPinned
  <2> QED
    BY <2>1, <2>2 DEF Bound, Stored
<1> QED
  BY <1>1, StoreInvariant, PTL

----------------------------------------------------------------------------
(* What a step never does                                                    *)

PinsRecognised ==
  \A t \in Transfer : Recognised(pins[t]) => Recognised(pins'[t]) \/ lock = Holder("release", t)

(* A recognised set of pins stays recognised, or its lock is being released. *)
LEMMA StepRecognises ==
  ASSUME StoreInv, [Next]_vars
  PROVE  PinsRecognised
<1>0. pins \in [Transfer -> SUBSET Parts]
  BY DEF StoreInv, StoreTypes, PublicationTypes
<1>1. CASE UNCHANGED pins
  BY <1>1 DEF PinsRecognised
<1>2. ASSUME NEW t \in Transfer, \A u \in Transfer \ {t} : pins'[u] = pins[u],
             Recognised(pins[t]) => Recognised(pins'[t]) \/ lock = Holder("release", t)
      PROVE  PinsRecognised
  BY <1>2 DEF PinsRecognised
<1>3. ASSUME NEW t \in Transfer, PublishReceipt(t)
      PROVE  PinsRecognised
  <2>1. pins' = [pins EXCEPT ![t] = @ \cup {"receipt"}] \/ UNCHANGED pins
    BY <1>3 DEF PublishReceipt
  <2> QED
    BY <1>0, <1>1, <1>2, <2>1 DEF Recognised
<1>4. ASSUME NEW t \in Transfer, PublishManifest(t) \/ \E o \in Object : PublishObject(t, o)
      PROVE  PinsRecognised
  <2>1. /\ lock = Holder("publish", t)
        /\ \E part : pins' = [pins EXCEPT ![t] = @ \cup {part}]
    BY <1>4 DEF PublishManifest, PublishObject
  <2>2. "receipt" \in pins[t]
    BY <2>1 DEF StoreInv, PublicationInv, LockIsTrue
  <2> QED
    BY <1>0, <1>2, <2>1, <2>2 DEF Recognised
<1>5. ASSUME NEW t \in Transfer, ReleasePin(t)
      PROVE  PinsRecognised
  <2>1. /\ lock = Holder("release", t)
        /\ UNCHANGED pins \/ \E part : pins' = [pins EXCEPT ![t] = @ \ {part}]
    BY <1>5 DEF ReleasePin
  <2> QED
    BY <1>0, <1>1, <1>2, <2>1
<1>6. ASSUME NEW t \in Transfer, Discard(t)
      PROVE  PinsRecognised
  <2>1. UNCHANGED pins \/ \E part \in Discardable(t) : pins' = [pins EXCEPT ![t] = @ \ {part}]
    BY <1>6 DEF Discard
  <2>2. ASSUME NEW part \in Discardable(t), pins' = [pins EXCEPT ![t] = @ \ {part}]
        PROVE  PinsRecognised
    <3>1. pins'[t] = pins[t] \ {part} /\ \A u \in Transfer \ {t} : pins'[u] = pins[u]
      BY <1>0, <2>2
    <3>2. Recognised(pins[t]) => Recognised(pins'[t])
      BY <2>2, <3>1 DEF Recognised, Discardable
    <3> QED
      BY <1>2, <3>1, <3>2
  <2> QED
    BY <1>1, <2>1, <2>2
<1>7. ASSUME NEW t \in Transfer,
             \/ Finalize(t) \/ CommitIndex(t) \/ CompletePublication(t) \/ BeginDiscard(t)
             \/ Offer(t) \/ Cancel(t) \/ PublishFails(t) \/ CommitFails(t)
      PROVE  PinsRecognised
  <2>1. UNCHANGED pins
    BY <1>7 DEF Finalize, CommitIndex, CompletePublication, BeginDiscard, Offer, Cancel,
                PublishFails, CommitFails
  <2> QED
    BY <1>1, <2>1
<1>8. CASE ShelfMoves
  <2>1. UNCHANGED pins
    BY <1>8, ShelfLeavesPublication DEF publication, CollectGarbage, DeleteCancels, Restart
  <2> QED
    BY <1>1, <2>1
<1>9. CASE UNCHANGED vars
  BY <1>1, <1>9 DEF vars
<1> QED
  BY <1>3, <1>4, <1>5, <1>6, <1>7, <1>8, <1>9 DEF Next, External, Publish, Purge, ShelfMoves

(* Neither a publication nor a purge leaves a pending directory that a later  *)
(* purge does not recognise, wherever it stops.                              *)
THEOREM PendingIsRecognised == Spec => PendingRecognised
<1>1. StoreInv /\ [Next]_vars =>
        [\A t \in Transfer :
           Recognised(pins[t]) => Recognised(pins'[t]) \/ lock = Holder("release", t)]_vars
  BY StepRecognises DEF PinsRecognised
<1> QED
  BY <1>1, StoreInvariant, PTL DEF Spec, PendingRecognised

(* An active lease keeps its files, but for the user who deletes the item and *)
(* the sweep of a restart.                                                    *)
THEOREM LeasesKeepTheirFiles == Spec => LeasedDataKept
<1>1. StoreInv /\ [Next]_vars =>
        [left'["crash"] = left["crash"] => \A i \in Item : KeepsLeasedData(i)]_vars
  <2> SUFFICES ASSUME StoreInv, [Next]_vars, left'["crash"] = left["crash"], NEW i \in Item
               PROVE  KeepsLeasedData(i)
    OBVIOUS
  <2>1. /\ StoreTypes /\ TreeIsWhole /\ tree \in [Item -> SUBSET Object]
        /\ left \in [Kinds -> Nat] /\ "crash" \in Kinds
    BY DEF StoreInv, StoreTypes, ShelfTypes, BudgetTypes, Kinds
  <2>2. ~(left' = [left EXCEPT !["crash"] = @ - 1] /\ left["crash"] > 0)
    BY <2>1
  <2>3. TreesMove
    BY <2>1, TreeMoves
  <2>4. CASE UNCHANGED tree
    BY <2>4 DEF KeepsLeasedData
  <2>5. CASE /\ paste.item \in Item /\ paste.linked = FilesOf[paste.item]
             /\ tree' = [tree EXCEPT ![paste.item] = paste.linked]
    <3>1. tree[i] \subseteq FilesOf[i]
      BY <2>1 DEF TreeIsWhole
    <3> QED
      BY <2>1, <2>5, <3>1 DEF KeepsLeasedData
  <2>6. ASSUME NEW items, tree' = [k \in Item |-> IF k \in items THEN {} ELSE tree[k]],
               \A k \in items : index.lease[k].state = "stale" \/ deleter'.item = k
        PROVE  KeepsLeasedData(i)
    BY <2>6 DEF KeepsLeasedData, LeaseActive
  <2> QED
    BY <2>2, <2>3, <2>4, <2>5, <2>6 DEF TreesMove
<1> QED
  BY <1>1, StoreInvariant, PTL DEF Spec, LeasedDataKept

----------------------------------------------------------------------------
(* The shelf                                                                 *)

Shown(row) ==
  CASE row = "none" -> "absent" [] row = "receiving" -> "announced"
    [] row = "cached" -> "deliverable" [] row = "missing" -> "withdrawn"

(* The abstract shelf shows each row by its state.                           *)
LEMMA ShelfOfRows ==
  /\ ShelfOf = [i \in Item |-> Shown(index.row[i])]
  /\ ShelfOf' = [i \in Item |-> Shown(index'.row[i])]
  /\ Shown("none") = "absent" /\ Shown("receiving") = "announced"
  /\ Shown("cached") = "deliverable" /\ Shown("missing") = "withdrawn"
BY DEF ShelfOf, Shown

(* What the index lets a row do is a step of the abstract shelf, or none.    *)
LEMMA RowsMoveTheShelf ==
  ASSUME index \in Indexes, index' \in Indexes, RowsMove, IndexInv
  PROVE  Shelf!Next \/ UNCHANGED ShelfOf
<1>0. /\ index.row \in [Item -> RowStates] /\ \A t \in Transfer : ItemOf[t] \in Item
      /\ \A i \in Item : index.row[i] = "cached" => Stored(i)
  BY Constants DEF Indexes, IndexInv, DeliverableComplete, Deliverable
<1>1. CASE RowsStay \/ RowsReloaded
  <2>1. \A i \in Item : index'.row[i] = index.row[i]
    BY <1>0, <1>1 DEF RowsStay, RowsReloaded, Reloaded
  <2> QED
    BY <2>1, ShelfOfRows
<1>2. ASSUME NEW i \in Item, RowOffered(i)
      PROVE  Shelf!Next \/ UNCHANGED ShelfOf
  <2>1. PICK victims \in SUBSET Item :
          /\ index.row[i] \in {"none", "receiving"}
          /\ index'.row = Dropped([index.row EXCEPT ![i] = "receiving"], victims)
    BY <1>2 DEF RowOffered
  <2>2. \A k \in Item : index'.row[k] = IF k \in victims THEN "none"
                                        ELSE IF k = i THEN "receiving" ELSE index.row[k]
    BY <1>0, <2>1 DEF Dropped
  <2>3. CASE i \in victims \/ index.row[i] = "receiving"
    <3>1. ShelfOf' = [k \in Item |-> IF k \in victims THEN "absent" ELSE ShelfOf[k]]
      BY <2>2, <2>3, ShelfOfRows
    <3> QED
      BY <3>1 DEF Shelf!Next, Shelf!Remove, Shelf!Moved
  <2>4. CASE i \notin victims /\ index.row[i] = "none"
    <3>1. ShelfOf[i] = "absent"
      BY <2>4, ShelfOfRows
    <3>2. ShelfOf' = [[k \in Item |-> IF k \in victims THEN "absent" ELSE ShelfOf[k]]
                        EXCEPT ![i] = "announced"]
      BY <2>2, <2>4, ShelfOfRows
    <3>3. victims \in SUBSET (Item \ {i})
      BY <2>4
    <3> QED
      BY <3>1, <3>2, <3>3 DEF Shelf!Next, Shelf!Announce, Shelf!Advance, Shelf!Moved
  <2> QED
    BY <2>1, <2>3, <2>4
<1>3. ASSUME NEW i \in Item, RowDeleted(i)
      PROVE  Shelf!Next \/ UNCHANGED ShelfOf
  <2>1. \A k \in Item : index'.row[k] = IF k = i THEN "none" ELSE index.row[k]
    BY <1>0, <1>3 DEF RowDeleted
  <2>2. ShelfOf' = [k \in Item |-> IF k \in {i} THEN "absent" ELSE ShelfOf[k]]
    BY <2>1, ShelfOfRows
  <2> QED
    BY <2>2 DEF Shelf!Next, Shelf!Remove, Shelf!Moved
<1>4. ASSUME NEW t \in Transfer, RowCommitted(t)
      PROVE  Shelf!Next \/ UNCHANGED ShelfOf
  <2> DEFINE i == ItemOf[t]
  <2>0. i \in Item
    BY <1>0
  <2>1. PICK victims \in SUBSET (Item \ {i}) :
          /\ index.row[i] = "receiving"
          /\ index'.row = Dropped([index.row EXCEPT ![i] = "cached"], victims)
    BY <1>4 DEF RowCommitted
  <2> HIDE DEF i
  <2>2. \A k \in Item : index'.row[k] = IF k \in victims THEN "none"
                                        ELSE IF k = i THEN "cached" ELSE index.row[k]
    BY <1>0, <2>1 DEF Dropped
  <2>3. ShelfOf[i] = "announced"
    BY <2>0, <2>1, ShelfOfRows
  <2>4. ShelfOf' = [[k \in Item |-> IF k \in victims THEN "absent" ELSE ShelfOf[k]]
                      EXCEPT ![i] = "deliverable"]
    BY <2>1, <2>2, ShelfOfRows
  <2> QED
    BY <2>0, <2>3, <2>4 DEF Shelf!Next, Shelf!Deliver, Shelf!Advance, Shelf!Moved
<1>5. ASSUME NEW items \in SUBSET Item, RowsRetired(items)
      PROVE  Shelf!Next \/ UNCHANGED ShelfOf
  <2> DEFINE gone == items \cap Deliverable
  <2>1. /\ gone \in SUBSET Item /\ \A i \in gone : index.row[i] = "cached"
        /\ \A i \in Item : index'.row[i] = IF i \in gone THEN "missing" ELSE index.row[i]
    BY <1>5 DEF RowsRetired, Deliverable
  <2> HIDE DEF gone
  <2>2. \A i \in gone : ShelfOf[i] = "deliverable"
    BY <2>1, ShelfOfRows
  <2>3. ShelfOf' = [i \in Item |-> IF i \in gone THEN "withdrawn" ELSE ShelfOf[i]]
    BY <2>1, ShelfOfRows
  <2> QED
    BY <2>1, <2>2, <2>3 DEF Shelf!Next, Shelf!Withdraw, Shelf!Moved
<1> QED
  BY <1>1, <1>2, <1>3, <1>4, <1>5 DEF RowsMove

(* The store implements the shelf: an item is announced, becomes deliverable  *)
(* at once and as a whole, is withdrawn when its bytes are given up, and only *)
(* the removal of its row lets it start again.                                *)
THEOREM ShelfImplemented == Spec => ImplementsShelf
<1>1. Init => Shelf!Init
  BY ShelfOfRows DEF Init, Shelf!Init
<1>2. StoreInv /\ [Next]_vars => [Shelf!Next]_ShelfOf
  <2> SUFFICES ASSUME StoreInv, [Next]_vars
               PROVE  Shelf!Next \/ UNCHANGED ShelfOf
    OBVIOUS
  <2>1. index \in Indexes /\ index' \in Indexes /\ RowsMove /\ IndexInv
    BY IndexMoves DEF StoreInv, StoreTypes
  <2> QED
    BY <2>1, RowsMoveTheShelf
<1> QED
  BY <1>1, <1>2, StoreInvariant, PTL DEF Spec, ImplementsShelf, Shelf!Spec
=============================================================================
