--------------------------- MODULE TransferReceiver ---------------------------
(***************************************************************************)
(* The receiver of a stream_v2 transfer: the offer and cancel handlers of   *)
(* the control link, the channel thread of ReceiverSession, the durable     *)
(* IncomingTransferStage behind it, the finalization into the clipboard     *)
(* store, and the maintenance timer.                                        *)
(*                                                                          *)
(* rcv.state = "none" means that no session is registered; rcv.step is the  *)
(* position inside _finalize, which holds the session lock throughout, so   *)
(* that every other handler waits while it is not "run".                    *)
(***************************************************************************)
EXTENDS TransferState

senderVars == <<snd, sj, edited>>

Unlocked == rcv.step = "run"
Reject == Message("reject")

(* The file that starts at position p ends at position e.                    *)
EndsNext(e, p) == e > p /\ \A f \in Ends : f > p => e <= f

(* _checkpoint: flush and fsync the part file, then commit its offset.       *)
NotFlushed(st) == st    \* (mutant: no fsync before the commit)
Flushed(st) == [st EXCEPT !.synced = Len(st.data)]
Checkpointed(j, st) ==
  IF CanEnter(j, "transferring")
    THEN [j EXCEPT !.state = "transferring", !.durable = Len(st.data)] ELSE j

(* pause: checkpoint what the open file holds, then commit the wait.         *)
PausedUnsaved(wait) == Entered(rj, wait)    \* (mutant: no forced checkpoint)
PausedJournal(wait) ==
  IF CanEnter(rj, wait)
    THEN [rj EXCEPT !.state = wait, !.durable = Len(stage.data)] ELSE rj

(* _read_prefix cuts each retained file back to its journal-durable offset;  *)
(* a file found renamed is recorded as verified; every reopen is a retry.    *)
ReopenedStage(j) ==
  [stage EXCEPT !.data = SubSeq(@, 1, j.durable), !.synced = j.durable]
ReopenedJournal(j) ==
  [j EXCEPT !.stored = IF stage.renamed > @ THEN stage.renamed ELSE @, !.retry = @ + 1]

----------------------------------------------------------------------------
(* Offers (_on_stream_v2_offer, prepare_stream_v2_receive)                   *)

(* A new stage, the provisional row, a fresh nonce and the acceptance.       *)
Accept(phase) ==
  /\ rcv' = [ReceiverIn("receiving") EXCEPT !.phase = phase]
  /\ row' = IF row.state = "receiving" THEN row ELSE [NoRow EXCEPT !.state = "receiving"]
  /\ nonce' = [live |-> nonce.issued + 1, issued |-> nonce.issued + 1]
  /\ ctl' = ReplyToSender([type |-> "accept", nonce |-> nonce.issued + 1])

AcceptFresh ==
  /\ rj' = NewJournal
  /\ stage' = [NoStage EXCEPT !.dir = TRUE]
  /\ Accept("preflight")

HandleOffer ==
  /\ AtReceiver("offer") /\ Unlocked
  /\ IF rcv.state # "none" \/ Exists(rj) \/ stage.dir
       THEN /\ ctl' = ReplyToSender(Reject)
            /\ UNCHANGED <<rcv, rj, stage, row, nonce>>
       ELSE AcceptFresh
  /\ UNCHANGED <<chan, left, hist, senderVars>>

(* Preflight (free space, policy, limits) says no.                           *)
RefuseOffer ==
  /\ AtReceiver("offer") /\ Unlocked
  /\ Spend("io")
  /\ ctl' = ReplyToSender(Reject)
  /\ UNCHANGED <<rcv, rj, nonce, stage, row, chan, hist, senderVars>>

(* The session check of a resume request reads the state without the session *)
(* lock: a session that is being finalized passes it, and the handler then   *)
(* waits in close_channel until the finalization has ended.                  *)
ResumeOvertakesFinalize ==
  /\ AtReceiver("resume") /\ ~Unlocked
  /\ ctl' = [ctl EXCEPT !.toR = <<Message("resume_checked")>> \o Tail(@)]
  /\ UNCHANGED <<rcv, rj, nonce, stage, row, chan, left, hist, senderVars>>

ResumeArrives == AtReceiver("resume") \/ AtReceiver("resume_checked")

(* transfer_terminal: a finished session answers for its transfer, except a  *)
(* failure whose journal still says failed.                                  *)
TransferTerminal ==
  /\ AtReceiver("resume")
  /\ rcv.state \in {"purged", "cancelled", "failed"}
  /\ ~(rcv.state = "failed" /\ rj.state = "failed")

(* What a resume request finds after the old channel was closed and a live   *)
(* stage paused.                                                             *)
SuspendedJournal ==
  IF rcv.state = "receiving" THEN PausedJournal("waiting_reconnect") ELSE rj
SuspendedReceiver ==
  IF rcv.state = "receiving" THEN ReceiverIn("waiting_reconnect") ELSE rcv

(* IncomingTransferStage.reopen, or create when no journal was found.        *)
Unavailable(j) ==
  IF Exists(j) THEN j.state \in NotReopenable \/ ~stage.dir \/ Len(stage.data) < j.durable
               ELSE stage.dir

(* add_item refuses to replace a finalized row by its provisional ancestor   *)
(* (same_item_lineage): item_identity_conflict.                              *)
RowReplaceable == FALSE    \* (mutant: a provisional row always replaces)
RowRegresses == row.state = "published"

HandleResume ==
  /\ ResumeArrives /\ Unlocked
  /\ IF TransferTerminal
       THEN /\ ctl' = ReplyToSender(Reject)
            /\ UNCHANGED <<rcv, rj, stage, row, nonce, chan>>
       ELSE LET journal == SuspendedJournal
            IN /\ chan' = IF chan.r THEN CloseR(chan) ELSE chan
               /\ IF Unavailable(journal)
                    THEN /\ ctl' = ReplyToSender(Reject)
                         /\ rcv' = SuspendedReceiver
                         /\ rj' = journal
                         /\ stage' = IF rcv.state = "receiving" THEN Flushed(stage) ELSE stage
                         /\ UNCHANGED <<row, nonce>>
                  ELSE IF RowRegresses
                    THEN /\ ctl' = ReplyToSender(Reject)
                         /\ rcv' = NoReceiver /\ rj' = NoJournal /\ stage' = NoStage
                         /\ UNCHANGED <<row, nonce>>
                  ELSE IF Exists(journal)
                    THEN /\ rj' = ReopenedJournal(journal)
                         /\ stage' = ReopenedStage(journal)
                         /\ Accept("receiving")
                    ELSE AcceptFresh
  /\ UNCHANGED <<left, hist, senderVars>>

(* The same request refused by preflight: the old session stays suspended.   *)
RefuseResume ==
  /\ ResumeArrives /\ Unlocked /\ ~TransferTerminal
  /\ Spend("io")
  /\ chan' = IF chan.r THEN CloseR(chan) ELSE chan
  /\ rcv' = SuspendedReceiver
  /\ rj' = SuspendedJournal
  /\ stage' = IF rcv.state = "receiving" THEN Flushed(stage) ELSE stage
  /\ ctl' = ReplyToSender(Reject)
  /\ UNCHANGED <<nonce, row, hist, senderVars>>

----------------------------------------------------------------------------
(* The channel thread (_channel_loop)                                        *)

Receiving == rcv.state = "receiving" /\ Unlocked

ReceiveManifest ==
  /\ Receiving /\ FrameAtReceiver("manifest")
  /\ rcv' = [rcv EXCEPT !.seen = TRUE]
  /\ chan' = PutS(TakeR(chan), [type |-> "manifest_ack", durable |-> rj.durable])
  /\ UNCHANGED <<rj, nonce, stage, row, ctl, left, hist, senderVars>>

(* accept: only the next expected range is written; a file's last chunk is   *)
(* checkpointed and acknowledged, any other when the thresholds say so.      *)
WriteChunk(frame) ==
  /\ \E checkpoint, ack \in (IF frame.pos \in Ends THEN {TRUE} ELSE BOOLEAN) :
       LET written == [stage EXCEPT !.data = Append(@, frame.byte)]
           journal == IF checkpoint THEN Checkpointed(rj, written) ELSE rj
       IN /\ stage' = IF checkpoint THEN Flushed(written) ELSE written
          /\ rj' = journal
          /\ rcv' = [rcv EXCEPT !.phase = "receiving",
                                !.acked = IF ack THEN frame.pos ELSE @]
          /\ chan' = IF ack
                       THEN PutS(TakeR(chan), [type |-> "ack", pos |-> frame.pos,
                                               durable |-> journal.durable])
                       ELSE TakeR(chan)
  /\ UNCHANGED ctl

(* _protocol_failure: cancel the stage and tell the sender.                  *)
ProtocolFailure ==
  /\ rj' = Entered(rj, "cancelled")
  /\ rcv' = ReceiverIn("cancelled")
  /\ chan' = CloseR(chan)
  /\ ctl' = IF ctl.up THEN [ctl EXCEPT !.toS = Append(@, Message("cancel"))] ELSE ctl
  /\ UNCHANGED stage

ReceiveChunk ==
  /\ Receiving /\ FrameAtReceiver("payload")
  /\ LET frame == Head(chan.toR)
     IN IF rcv.seen /\ frame.pos = Len(stage.data) + 1
          THEN WriteChunk(frame) ELSE ProtocolFailure
  /\ UNCHANGED <<nonce, row, left, hist, senderVars>>

(* A write or flush fails: the part is kept under a journal that says failed,*)
(* or, when the journal itself cannot be written, says what it said.         *)
ReceiveFails ==
  /\ Receiving /\ FrameAtReceiver("payload")
  /\ Spend("io")
  /\ rj' \in {rj, Entered(rj, "failed")}
  /\ rcv' = ReceiverIn("failed")
  /\ chan' = CloseR(chan)
  /\ UNCHANGED <<nonce, stage, row, ctl, hist, senderVars>>

(* (mutant: what was written is reported as durable)                         *)
PollAckAsDurable ==
  /\ Receiving /\ chan.r /\ chan.toR = <<>>
  /\ rcv.acked < Len(stage.data)
  /\ rcv' = [rcv EXCEPT !.acked = Len(stage.data)]
  /\ chan' = PutS(chan, [type |-> "ack", pos |-> Len(stage.data),
                         durable |-> Len(stage.data)])
  /\ UNCHANGED <<rj, nonce, stage, row, ctl, left, hist, senderVars>>

(* The ack interval elapses while no frame arrives.                          *)
PollAck ==
  /\ Receiving /\ chan.r /\ chan.toR = <<>>
  /\ rcv.acked < Len(stage.data)
  /\ rcv' = [rcv EXCEPT !.acked = Len(stage.data)]
  /\ chan' = PutS(chan, [type |-> "ack", pos |-> Len(stage.data), durable |-> rj.durable])
  /\ UNCHANGED <<rj, nonce, stage, row, ctl, left, hist, senderVars>>

(* End of stream or a failed write of an ack: keep the durable progress.     *)
ChannelEnds ==
  /\ Receiving /\ chan.r
  /\ ~chan.s \/ chan.dead
  /\ rcv' = ReceiverIn("waiting_reconnect")
  /\ rj' = PausedJournal("waiting_reconnect")
  /\ stage' = Flushed(stage)
  /\ chan' = CloseR(chan)
  /\ UNCHANGED <<nonce, row, ctl, left, hist, senderVars>>

----------------------------------------------------------------------------
(* Finalization (_finalize, finalize, publish, complete_publication)         *)

CompleteAck(ok) == [type |-> "complete_ack", ok |-> ok]
AnswerOk(ok) == CloseR(PutS(chan, CompleteAck(TRUE)))    \* (mutant: never negative)
Answer(ok) == CloseR(PutS(chan, CompleteAck(ok)))

(* Every file complete, and the sender's hashes equal to the receiver's.     *)
EvidenceMatches(content) == Len(stage.data) = Size /\ stage.data = content

(* A journal that refuses "finalizing" raises outside finalize's own error   *)
(* handling: the session is left "finalizing" and the sender told it failed. *)
ReceiveComplete ==
  /\ Receiving /\ FrameAtReceiver("complete")
  /\ IF ~EvidenceMatches(Head(chan.toR).content)
       THEN /\ rcv' = ReceiverIn("failed")
            /\ rj' = Entered(rj, "failed")
            /\ chan' = Answer(FALSE)
     ELSE IF CanEnter(rj, "finalizing")
       THEN /\ rcv' = [ReceiverIn("finalizing") EXCEPT !.step = "rename"]
            /\ rj' = Entered(rj, "finalizing")
            /\ chan' = TakeR(chan)
       ELSE /\ rcv' = ReceiverIn("finalizing")
            /\ chan' = Answer(FALSE)
            /\ UNCHANGED rj
  /\ UNCHANGED <<nonce, stage, row, ctl, left, hist, senderVars>>

(* durable_replace of one <index>.part by <index>.verified.                  *)
RenameNext ==
  /\ rcv.step = "rename"
  /\ \E end \in Ends :
       EndsNext(end, stage.renamed) /\ stage' = [stage EXCEPT !.renamed = end]
  /\ UNCHANGED <<rcv, rj, nonce, row, chan, ctl, left, hist, senderVars>>

(* finalize_incoming_files: one generation marks every file verified.        *)
StoreVerified ==
  /\ rcv.step = "rename" /\ stage.renamed = Size
  /\ rj' = [rj EXCEPT !.stored = Size]
  /\ rcv' = [rcv EXCEPT !.step = "commit"]
  /\ UNCHANGED <<nonce, stage, row, chan, ctl, left, hist, senderVars>>

(* publish_staged_transfer and commit_received_v2_item: the item is          *)
(* deliverable once the index row is committed.                              *)
CommitItem ==
  /\ rcv.step = "commit"
  /\ row' = [state |-> "published", data |-> stage.data]
  /\ rcv' = [rcv EXCEPT !.step = "receipt"]
  /\ UNCHANGED <<rj, nonce, stage, chan, ctl, left, hist, senderVars>>

(* The journal's completion receipt, the staging cleanup, the session's end  *)
(* and the sender's confirmation.                                            *)
CompletePublication ==
  /\ rcv.step = "receipt"
  /\ rj' = Entered(rj, "completed")
  /\ stage' = NoStage
  /\ rcv' = NoReceiver
  /\ chan' = Answer(TRUE)
  /\ UNCHANGED <<nonce, row, ctl, left, hist, senderVars>>

(* An I/O error at any of these steps: finalize fails the stage, publish     *)
(* leaves it "finalizing"; the sender is told that it failed.                *)
FinalizeFails ==
  /\ ~Unlocked
  /\ Spend("io")
  /\ IF rcv.step = "rename"
       THEN rcv' = ReceiverIn("failed") /\ rj' \in {rj, Entered(rj, "failed")}
       ELSE rcv' = ReceiverIn("finalizing") /\ UNCHANGED rj
  /\ chan' = Answer(FALSE)
  /\ UNCHANGED <<nonce, stage, row, ctl, hist, senderVars>>

----------------------------------------------------------------------------
(* Timers (check_timeouts, run_stream_v2_maintenance)                        *)

PurgedHist == [hist EXCEPT !.purged = TRUE]

(* The sender is finished and nothing of it is on its way: the deadline is   *)
(* the only way out.                                                         *)
Abandoned ==
  /\ snd.state \in SenderTerminal \cup {"none"}
  /\ snd.state = "none" => sj.state \notin OutgoingResumable
  /\ ctl.toR = <<>>
  /\ ~InFlight(ctl.toS, {"cancel"})
  /\ ~chan.r

Purge ==
  /\ rcv' = ReceiverIn("purged") /\ rj' = NoJournal /\ stage' = NoStage
  /\ hist' = PurgedHist

ReceiverTimeout ==
  /\ Unlocked
  /\ SpendUnless(Abandoned, "timeout")
  /\ \/ /\ rcv.state = "receiving" /\ rcv.phase = "preflight"
        /\ Purge
     \/ /\ rcv.state = "receiving" /\ rcv.phase = "receiving"
        /\ rcv' = ReceiverIn("paused") /\ rj' = PausedJournal("paused")
        /\ stage' = Flushed(stage)
        /\ UNCHANGED hist
     \/ /\ rcv.state \in {"paused", "waiting_reconnect"}
        /\ rcv' = ReceiverIn("failed") /\ rj' = Entered(rj, "failed")
        /\ UNCHANGED <<stage, hist>>
     \/ /\ rcv.state = "finalizing"
        /\ rcv' = ReceiverIn("failed")
        /\ UNCHANGED <<rj, stage, hist>>
     \/ /\ rcv.state = "cancelled"
        /\ Purge
  /\ chan' = IF chan.r THEN CloseR(chan) ELSE chan
  /\ UNCHANGED <<nonce, row, ctl, senderVars>>

(* (mutant: a failed session stays registered)                               *)
PrunePurged ==
  /\ rcv.state = "purged" /\ Unlocked
  /\ rcv' = NoReceiver
  /\ UNCHANGED <<rj, nonce, stage, row, chan, ctl, left, hist, senderVars>>

(* Maintenance unregisters failed and purged sessions.                       *)
Prune ==
  /\ rcv.state \in {"failed", "purged"} /\ Unlocked
  /\ rcv' = NoReceiver
  /\ UNCHANGED <<rj, nonce, stage, row, chan, ctl, left, hist, senderVars>>

----------------------------------------------------------------------------
(* Cancellation                                                              *)

(* The receiver's user cancels: partials and journal stay until the ack.     *)
ReceiverCancel ==
  /\ rcv.state \in {"receiving", "paused", "waiting_reconnect", "finalizing", "failed"}
  /\ Unlocked
  /\ Spend("cancel")
  /\ rcv' = ReceiverIn("cancelled")
  /\ rj' = Entered(SuspendedJournal, "cancelled")
  /\ stage' = IF rcv.state = "receiving" THEN Flushed(stage) ELSE stage
  /\ chan' = IF chan.r THEN CloseR(chan) ELSE chan
  /\ ctl' = IF ctl.up THEN [ctl EXCEPT !.toS = Append(@, Message("cancel"))] ELSE ctl
  /\ UNCHANGED <<nonce, row, hist, senderVars>>

(* T_CANCEL from the sender: cancel, acknowledge and purge.  Without a       *)
(* session the orphaned journal goes; its stage goes with it unless the      *)
(* journal is terminal or the row no longer carries the offered manifest.    *)
CancelFromPeer ==
  /\ AtReceiver("cancel") /\ Unlocked
  /\ ctl' = ReplyToSender(Message("cancel_ack"))
  /\ chan' = IF chan.r THEN CloseR(chan) ELSE chan
  /\ IF rcv.state = "purged" \/ (rcv.state = "none" /\ ~Exists(rj))
       THEN UNCHANGED <<rcv, rj, stage, hist>>
       ELSE /\ rcv' = NoReceiver
            /\ rj' = NoJournal
            /\ stage' = IF rcv.state = "none"
                             /\ (rj.state \in NotReopenable \/ row.state = "published")
                          THEN stage ELSE NoStage
            /\ hist' = PurgedHist
  /\ UNCHANGED <<nonce, row, left, senderVars>>

(* T_CANCEL_ACK from the sender.                                             *)
CancelAcknowledged ==
  /\ AtReceiver("cancel_ack") /\ Unlocked
  /\ ctl' = TakenByReceiver
  /\ IF rcv.state = "cancelled"
       THEN /\ rcv' = NoReceiver /\ rj' = NoJournal /\ stage' = NoStage
            /\ hist' = PurgedHist
       ELSE UNCHANGED <<rcv, rj, stage, hist>>
  /\ UNCHANGED <<nonce, row, chan, left, senderVars>>

----------------------------------------------------------------------------
(* The receiver process stops or dies: sessions and nonces are gone.         *)

ReceiverGone ==
  /\ Spend("rcrash")
  /\ rcv' = NoReceiver
  /\ nonce' = [nonce EXCEPT !.live = 0]
  /\ chan' = IF chan.r THEN CloseR(chan) ELSE chan
  /\ ctl' = LinkDown
  /\ UNCHANGED <<row, hist, senderVars>>

(* _shutdown_stream_v2_sessions: a receiving stage is paused first.          *)
ReceiverStop ==
  /\ rcv.state # "none" /\ Unlocked
  /\ ReceiverGone
  /\ rj' = IF rcv.state = "receiving" THEN PausedJournal("paused") ELSE rj
  /\ stage' = IF rcv.state = "receiving" THEN Flushed(stage) ELSE stage

(* What was written after the last fsync may be lost.                        *)
ReceiverCrash ==
  /\ rcv.state # "none" \/ Exists(rj)
  /\ ReceiverGone
  /\ \E kept \in stage.synced..Len(stage.data) :
       stage' = [stage EXCEPT !.data = SubSeq(@, 1, kept)]
  /\ UNCHANGED rj
=============================================================================
