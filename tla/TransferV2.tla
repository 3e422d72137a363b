------------------------------ MODULE TransferV2 ------------------------------
(***************************************************************************)
(* One stream_v2 transfer, end to end: both sessions, the two links and the *)
(* faults the code handles.  The receiver's store, the journals and the     *)
(* staging directory survive crashes; everything else does not.             *)
(***************************************************************************)
EXTENDS TransferSender, TransferReceiver

Init ==
  /\ snd = NewSender
  /\ sj = NoJournal
  /\ rcv = NoReceiver
  /\ rj = NoJournal
  /\ nonce = [live |-> 0, issued |-> 0]
  /\ stage = NoStage
  /\ row = NoRow
  /\ chan = Closed
  /\ ctl = [LinkDown EXCEPT !.up = TRUE]
  /\ left \in Budgets
  /\ edited = FALSE
  /\ hist = [purged |-> FALSE]

----------------------------------------------------------------------------
(* The environment                                                           *)

(* The data connection is reset; what was in flight is lost.                 *)
ChannelReset ==
  /\ chan.s \/ chan.r
  /\ ~chan.dead
  /\ Spend("drop")
  /\ chan' = [chan EXCEPT !.dead = TRUE, !.toR = <<>>, !.toS = <<>>]
  /\ UNCHANGED <<snd, sj, rcv, rj, nonce, stage, row, ctl, edited, hist>>

(* The control link breaks and loses a suffix of what was sent.              *)
LinkDrop ==
  /\ ctl.up
  /\ Spend("drop")
  /\ ctl' = LinkDown
  /\ UNCHANGED <<snd, sj, rcv, rj, nonce, stage, row, chan, edited, hist>>

(* Both processes run and have a peer link again (on_peer_connected).        *)
LinkUp ==
  /\ ~ctl.up
  /\ RestoredSender
  /\ UNCHANGED <<rcv, rj, nonce, stage, row, chan, left, edited, hist>>

(* The user changes a source file that was offered.                          *)
Edit ==
  /\ ~edited
  /\ Spend("edit")
  /\ edited' = TRUE
  /\ UNCHANGED <<snd, sj, rcv, rj, nonce, stage, row, chan, ctl, hist>>

----------------------------------------------------------------------------
SenderWorker ==
  \/ Offer \/ CreateJournal \/ EnterAccepted \/ OfferRejected
  \/ DialOpen \/ DialRefused
  \/ TakeManifestAck \/ SendChunk \/ SourceChanged \/ SourceDone \/ FinishSend
  \/ TakeCompleteAck \/ LoseChannel
  \/ AskResume \/ ResumeAccepted \/ ResumeRejected
  \/ EnterCancelled

SenderReader == TakeAck
SenderControl == DeliverAccept \/ DeliverReject \/ DeliverCancel \/ DeliverCancelAck
SenderTimers == PreflightTimeout \/ ResumeLate \/ CancelAckTimeout
SenderFaults ==
  DialLost \/ DialAckLost \/ SenderTimeout \/ BaselineAborted \/ GiveUp
  \/ CancelRequest \/ SenderCrash \/ SenderStop

ReceiverControl ==
  \/ HandleOffer \/ ResumeOvertakesFinalize \/ HandleResume
  \/ CancelFromPeer \/ CancelAcknowledged
ReceiverChannel ==
  \/ ReceiveManifest \/ ReceiveChunk \/ PollAck \/ ChannelEnds
  \/ ReceiveComplete \/ RenameNext \/ StoreVerified \/ CommitItem \/ CompletePublication
ReceiverTimers == ReceiverTimeout \/ Prune
ReceiverFaults ==
  RefuseOffer \/ RefuseResume \/ ReceiveFails \/ FinalizeFails \/ ReceiverCancel
  \/ ReceiverStop \/ ReceiverCrash

Environment == ChannelReset \/ LinkDrop \/ LinkUp \/ Edit

Next ==
  \/ SenderWorker \/ SenderReader \/ SenderControl \/ SenderTimers \/ SenderFaults
  \/ ReceiverControl \/ ReceiverChannel \/ ReceiverTimers \/ ReceiverFaults
  \/ Environment

Spec == Init /\ [][Next]_vars

(* Threads and timers run, delivered messages are handled, and a peer link   *)
(* that is down is re-established; no fault ever has to happen.  A timer is  *)
(* only forced when the awaited answer can no longer come.                   *)
FairSpec ==
  /\ Spec
  /\ WF_vars(SenderWorker) /\ WF_vars(SenderReader) /\ WF_vars(SenderControl)
  /\ WF_vars(SenderTimers /\ UNCHANGED left)
  /\ WF_vars(ReceiverControl) /\ WF_vars(ReceiverChannel)
  /\ WF_vars(ReceiverTimers /\ UNCHANGED left)
  /\ WF_vars(LinkUp)

----------------------------------------------------------------------------
(* Safety                                                                    *)

(* A sender that reports the transfer completed has a receiver whose index   *)
(* durably holds the whole offered content (_phase_transfer trusts only the  *)
(* complete_ack, _finalize sends it only after the publication).             *)
CompletedImpliesPublished ==
  snd.state = "completed" => row = [state |-> "published", data |-> Offered]

(* Nothing but the content the manifest described is ever published: not a   *)
(* prefix, not a mixture with bytes read after the source was changed, in    *)
(* whatever pieces and over however many connections it arrived.             *)
PublishedIsOffered == row.state = "published" => row.data = Offered

(* Every byte the incoming journal calls durable is on disk, so that a       *)
(* reopen after a crash never finds the part shorter than its journal.       *)
DurableIsOnDisk ==
  Exists(rj) /\ rj.state # "completed" =>
    /\ rj.durable <= stage.synced
    /\ stage.synced <= Len(stage.data)
    /\ stage.dir

(* The payload in flight on a channel continues the receiver's stage without *)
(* gap or repetition, with nothing in between, after any number of resumes:  *)
(* a durable byte does not travel twice and the protocol-failure branch of   *)
(* the receiver is not taken.                                                *)
FramesContinueStage ==
  chan.s /\ chan.r /\ rcv.state = "receiving" =>
    \A i \in 1..Len(chan.toR) :
      chan.toR[i].type = "payload" => chan.toR[i].pos = Len(stage.data) + i

(* What the update idle gate calls durably checkpointed has no unflushed     *)
(* byte and no open channel (durably_checkpointed).                          *)
IdleGateSafe ==
  rcv.state \in {"paused", "waiting_reconnect"} /\ rj.state = rcv.state =>
    /\ rj.durable = Len(stage.data) /\ stage.synced = Len(stage.data)
    /\ ~chan.r

(* The sender never records more receiver progress than the receiver's own   *)
(* journal holds, unless the receiver dropped its journal: a resume is not   *)
(* refused as a regression of durable progress.                              *)
OutgoingNeverAhead ==
  Exists(sj) /\ Exists(rj) /\ ~hist.purged => sj.durable <= rj.durable

(* A nonce is used up by the channel it admits: while a channel is attached  *)
(* no second one can be, and the session it feeds is a live one.             *)
OneChannel ==
  chan.r => nonce.live = 0 /\ rcv.state \in {"receiving", "finalizing"}

(* A published item is never taken back or overwritten by a late or repeated *)
(* offer of the transfer that produced it.                                   *)
PublishedStays == [][row.state = "published" => row' = row]_vars

----------------------------------------------------------------------------
(* What the documentation says and the code does not do; each is refuted by  *)
(* a run of its own.                                                         *)

(* A journal that failed with reconnect_timeout is kept for a resume: a      *)
(* resumed transfer that has received everything enters finalization.        *)
FailedJournalResumes == rcv.state = "finalizing" => rj.state = "finalizing"

----------------------------------------------------------------------------
(* Refinement: the transfer implements ClipboardDelivery.                    *)

Report ==
  CASE snd.state = "completed" -> "completed"
    [] snd.state \in SenderTerminal \ {"completed"} -> "failed"
    [] OTHER -> "pending"

Delivery ==
  INSTANCE ClipboardDelivery
    WITH Content <- Offered, Nothing <- <<>>,
         item <- IF row.state = "published" THEN row.data ELSE <<>>,
         report <- Report

(* At every point of every behaviour the receiver's user sees nothing or the *)
(* offered content, and the sender's success report is true.                 *)
ImplementsDelivery == Delivery!Spec

----------------------------------------------------------------------------
(* Liveness                                                                  *)

(* The faults that may happen are dropped connections and sender restarts.   *)
OnlyInterruptions == \A kind \in Kinds \ {"drop", "scrash"} : left[kind] = 0

(* Once both sides agreed on a transfer it is delivered, whatever is dropped *)
(* and however often the sender restarts within its attempts.                *)
AcceptedIsDelivered ==
  OnlyInterruptions => ((sj.state = "accepted") ~> (row.state = "published"))

(* No session waits for ever: the sender reaches a terminal state and the    *)
(* receiver releases its session.                                            *)
EventuallySettled ==
  <>[](/\ snd.state \in SenderTerminal \cup {"none"}
       /\ rcv.state = "none")
=============================================================================
