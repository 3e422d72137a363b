--------------------------- MODULE LegacyReceiver ----------------------------
(***************************************************************************)
(* The receiving ClipboardManager: assemblers per transfer, finalization    *)
(* and the commit of item and receipt in one index write.  One thread reads *)
(* the link; the user deletes items on another.                              *)
(***************************************************************************)
EXTENDS LegacySender

theirs == <<job, queue, worker, sender>>
Handles(kind) ==
  /\ receiver.at = "idle"
  /\ link.toReceiver # <<>> /\ Head(link.toReceiver).kind = kind
Inbox == Head(link.toReceiver)
Read == [link EXCEPT !.toReceiver = Tail(@)]
Entry(t) == receiver.entry[t]

(* The item is asked for, by a peer that knows of final acks or by one that   *)
(* does not.                                                                  *)
RequestItem(t) ==
  /\ link.up /\ Spend("request")
  /\ \A j \in Job : TransferOf(j) = t => job[j] = NoJob
  /\ \A i \in 1 .. Len(link.toSender) : link.toSender[i].kind # "request"
  /\ \E final \in BOOLEAN :
       link' = [link EXCEPT !.toSender = Append(@, [Msg("request", t) EXCEPT !.ok = final])]
  /\ UNCHANGED <<theirs, receiver, hist>>

OnPreflight ==
  /\ Handles("preflight")
  /\ \E ok \in BOOLEAN :
       link' = Reply(Read, [Msg("answer", Inbox.of) EXCEPT !.request = Inbox.request, !.ok = ok])
  /\ UNCHANGED <<theirs, receiver, hist, left>>

(* A start takes the deletion mark of the item back; the assembler is open    *)
(* only some steps later.                                                     *)
OnStart ==
  /\ Handles("start")
  /\ receiver' = [receiver EXCEPT !.tombstone = FALSE, !.at = "opening", !.transfer = Inbox.of]
  /\ hist' = [hist EXCEPT !.gone = FALSE]
  /\ link' = Read
  /\ UNCHANGED <<theirs, left>>
Open ==
  /\ receiver.at = "opening"
  /\ LET t == receiver.transfer
         done == [receiver EXCEPT !.at = "idle", !.transfer = None]
     IN  \/ Entry(t).open /\ receiver' = done /\ UNCHANGED link
         \/ ~Entry(t).open /\ receiver' = done /\ link' = Reply(link, Msg("error", t))
         \/ /\ ~Entry(t).open
            /\ receiver' = [done EXCEPT !.entry[t] = [NoEntry EXCEPT !.open = TRUE],
                                        !.known = @ \cup {t}]
            /\ UNCHANGED link
  /\ UNCHANGED <<theirs, hist, left>>

NextIndex(e) == CHOOSE i \in 0 .. Chunks : i \notin e.have /\ \A k \in 0 .. i - 1 : k \in e.have
OnChunk ==
  /\ Handles("chunk")
  /\ LET t == Inbox.of
         e == Entry(t)
         fresh == e.open /\ ~e.cancelled /\ Inbox.index \notin e.have
         again == MayRetry(e.retries + 1)
     IN  \/ ~fresh /\ link' = Read /\ UNCHANGED receiver
         \/ /\ fresh /\ Inbox.ok /\ link' = Read
            /\ receiver' = [receiver EXCEPT !.entry[t].have = @ \cup {Inbox.index}]
         \/ /\ fresh /\ ~Inbox.ok
            /\ receiver' = [receiver EXCEPT !.entry[t].retries = @ + 1, !.entry[t].dead = @ \/ ~again]
            /\ link' = Reply(Read, IF again THEN [Msg("resume", t) EXCEPT !.index = NextIndex(e)]
                                   ELSE Msg("error", t))
  /\ UNCHANGED <<theirs, hist, left>>

(* Completion of what an assembler holds, or of what is stored already: then  *)
(* the durable receipt answers.                                               *)
Complete(e) == e.have = 0 .. Chunks - 1
HasReceipt(t) == receiver.stored /\ t \in receiver.receipts
OnComplete ==
  /\ Handles("complete")
  /\ LET t == Inbox.of
     IN  \/ /\ ~Entry(t).open /\ UNCHANGED receiver
            /\ link' = IF HasReceipt(t) THEN Reply(Read, Msg("ack", t)) ELSE Read
         \/ Entry(t).open /\ ~Complete(Entry(t)) /\ link' = Read /\ UNCHANGED receiver
         \/ /\ Entry(t).open /\ Complete(Entry(t)) /\ link' = Read
            /\ receiver' = [receiver EXCEPT !.entry[t].finalizing = TRUE,
                                            !.at = "finalizing", !.transfer = t]
  /\ UNCHANGED <<theirs, hist, left>>

(* (mutant: only the assembler is asked)                                      *)
CommitUnlessCancelled(t) == ~Entry(t).cancelled
CommitAllowed(t) == ~Entry(t).cancelled /\ ~receiver.tombstone
(* Verification and commit; the disk may refuse, and a job that has failed    *)
(* before cannot be completed.                                                *)
Commit ==
  /\ receiver.at = "finalizing"
  /\ LET t == receiver.transfer
         closed == [receiver EXCEPT !.entry[t] = NoEntry, !.at = "idle", !.transfer = None]
     IN  \/ /\ ~CommitAllowed(t) /\ receiver' = closed /\ UNCHANGED <<link, hist>>
         \/ receiver' = closed /\ link' = Reply(link, Msg("error", t)) /\ UNCHANGED hist
         \/ /\ CommitAllowed(t) /\ ~Entry(t).dead
            /\ receiver' = [closed EXCEPT !.stored = TRUE, !.receipts = @ \cup {t},
                                          !.at = "acking", !.transfer = t]
            /\ hist' = [hist EXCEPT !.stored = @ \cup {t}]
            /\ UNCHANGED link
  /\ UNCHANGED <<theirs, left>>
Acknowledge ==
  /\ receiver.at = "acking"
  /\ link' = Reply(link, Msg("ack", receiver.transfer))
  /\ receiver' = [receiver EXCEPT !.at = "idle", !.transfer = None]
  /\ UNCHANGED <<theirs, hist, left>>

OnSenderError ==
  /\ Handles("error")
  /\ LET t == Inbox.of
     IN  receiver' = IF t \in receiver.known THEN [receiver EXCEPT !.entry[t] = NoEntry] ELSE receiver
  /\ link' = Read
  /\ UNCHANGED <<theirs, hist, left>>

(* --- delete_item: the mark, the transfers, the store ----------------------- *)
MarkDeleted ==
  /\ receiver.deleting = "no" /\ Spend("delete")
  /\ receiver' = [receiver EXCEPT !.tombstone = TRUE, !.deleting = "transfers"]
  /\ UNCHANGED <<theirs, link, hist>>
RemoveTransfers ==
  /\ receiver.deleting = "transfers"
  /\ receiver' = [receiver EXCEPT !.deleting = "store", !.known = {},
       !.entry = [t \in Transfer |->
         IF t \notin receiver.known \/ ~@[t].open THEN @[t]
         ELSE IF @[t].finalizing THEN [@[t] EXCEPT !.cancelled = TRUE] ELSE NoEntry]]
  /\ UNCHANGED <<theirs, link, hist, left>>
DeleteFromStore ==
  /\ receiver.deleting = "store"
  /\ receiver' = [receiver EXCEPT !.deleting = "no", !.stored = FALSE, !.receipts = {}]
  /\ hist' = [hist EXCEPT !.gone = receiver.tombstone]
  /\ UNCHANGED <<theirs, link, left>>

(* The receiver's process ends and starts again: only the index is left.       *)
Restart ==
  /\ Spend("restart")
  /\ receiver' = [receiver EXCEPT !.tombstone = FALSE, !.entry = [t \in Transfer |-> NoEntry],
                    !.known = {}, !.at = "idle", !.transfer = None, !.deleting = "no"]
  /\ link' = [up |-> FALSE, toReceiver |-> <<>>, toSender |-> <<>>]
  /\ UNCHANGED <<theirs, hist>>
==============================================================================
