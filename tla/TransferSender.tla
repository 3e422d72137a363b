---------------------------- MODULE TransferSender ---------------------------
(***************************************************************************)
(* The sender of a stream_v2 transfer: the worker thread of                 *)
(* OutgoingTransferSession, its channel reader thread, the control-link     *)
(* handlers that run on the runtime's thread, and the restore of a durable  *)
(* journal after a restart.                                                 *)
(***************************************************************************)
EXTENDS TransferState

receiverVars == <<rcv, rj, stage, row, hist>>

(* The worker thread is in one of these states and its cancel check, made    *)
(* before every wait, chunk and frame, found nothing.                        *)
Working(states) == snd.state \in states /\ snd.cancel = "no"

(* The registry still holds the nonce the sender was given, and the session  *)
(* it belongs to waits for its channel.                                      *)
ChannelAdmitted ==
  /\ snd.accept = nonce.live
  /\ rcv.state = "receiving" /\ rcv.step = "run"
  /\ ~chan.r

(* consume: a nonce admits one channel.                                      *)
Reusable == nonce
Consumed == [nonce EXCEPT !.live = 0]

(* _set_failed: the journal is committed before the state is visible.        *)
Failed ==
  /\ snd' = SenderIn("failed")
  /\ sj' = Entered(sj, "failed")

(* (mutant: the session shows the state a restarted one has)                 *)
DisconnectedAsPaused ==
  /\ snd' = [SenderIn("paused") EXCEPT !.attempts = @ + 1]
  /\ sj' = Entered(sj, "paused")

(* _on_disconnected and the attempt bound of _run.  The bound counts the     *)
(* attempts of this process; retry_count only records them.                  *)
Disconnected ==
  LET waiting == IF CanEnter(sj, "waiting_reconnect")
                   THEN [sj EXCEPT !.state = "waiting_reconnect", !.retry = @ + 1]
                   ELSE sj
  IN IF snd.attempts + 1 > MaxAttempts
       THEN /\ snd' = SenderIn("failed")
            /\ sj' = Entered(waiting, "failed")
       ELSE /\ snd' = [SenderIn("waiting_reconnect") EXCEPT !.attempts = @ + 1]
            /\ sj' = waiting

(* No offer, resume request or answer is on its way.                         *)
AnswerLost ==
  /\ ~InFlight(ctl.toR, {"offer", "resume", "resume_checked"})
  /\ ~InFlight(ctl.toS, {"accept", "reject"})

----------------------------------------------------------------------------
(* Offer and acceptance (_phase_offer)                                       *)

Offer ==
  /\ Working({"created"})
  /\ snd' = IF ctl.up THEN [SenderIn("preflight") EXCEPT !.asked = TRUE]
                      ELSE SenderIn("failed")
  /\ ctl' = ToReceiver("offer")
  /\ UNCHANGED <<sj, nonce, chan, left, edited, receiverVars>>

(* create_outgoing and the commit of "accepted" are two durable steps.       *)
CreateJournal ==
  /\ Working({"preflight"}) /\ snd.accept # 0 /\ ~snd.rejected
  /\ ~Exists(sj)
  /\ sj' = NewJournal
  /\ UNCHANGED <<snd, nonce, chan, ctl, left, edited, receiverVars>>

EnterAccepted ==
  /\ Working({"preflight"}) /\ Exists(sj)
  /\ snd' = [SenderIn("accepted") EXCEPT !.accept = snd.accept]
  /\ sj' = Entered(sj, "accepted")
  /\ UNCHANGED <<nonce, chan, ctl, left, edited, receiverVars>>

OfferRejected ==
  /\ Working({"preflight"}) /\ snd.rejected /\ ~Exists(sj)
  /\ snd' = SenderIn("rejected")
  /\ UNCHANGED <<sj, nonce, chan, ctl, left, edited, receiverVars>>

PreflightTimeout ==
  /\ Working({"preflight"}) /\ snd.accept = 0 /\ ~snd.rejected
  /\ SpendUnless(AnswerLost, "timeout")
  /\ Failed
  /\ UNCHANGED <<nonce, chan, ctl, edited, receiverVars>>

----------------------------------------------------------------------------
(* The data channel (_open_data_channel, accept_stream_v2_channel)           *)

(* The hello consumes the nonce, the receiver attaches the socket and the    *)
(* sender's first frame is the manifest.                                     *)
DialOpen ==
  /\ Working({"accepted"}) /\ ChannelAdmitted
  /\ nonce' = Consumed
  /\ rcv' = [rcv EXCEPT !.seen = FALSE, !.acked = Len(stage.data)]
  /\ chan' = [Closed EXCEPT !.s = TRUE, !.r = TRUE, !.toR = <<[type |-> "manifest"]>>]
  /\ snd' = SenderIn("sending_manifest")
  /\ sj' = IF sj.state = "accepted" THEN Entered(sj, "sending_manifest") ELSE sj
  /\ UNCHANGED <<rj, stage, row, ctl, left, edited, hist>>

(* A negative channel_ack raises TransportV2Error, which _run turns into     *)
(* "failed".                                                                 *)
DialRefused ==
  /\ Working({"accepted"}) /\ ~ChannelAdmitted
  /\ nonce' = IF snd.accept = nonce.live THEN Consumed ELSE nonce
  /\ Failed
  /\ UNCHANGED <<chan, ctl, left, edited, receiverVars>>

(* The connection cannot be made: an OSError, hence _Disconnected.           *)
DialLost ==
  /\ Working({"accepted"})
  /\ SpendUnless(~ctl.up, "drop")
  /\ Disconnected
  /\ UNCHANGED <<nonce, chan, ctl, edited, receiverVars>>

(* The receiver attached the socket but its ack does not arrive: a timeout   *)
(* fails the session, a broken connection pauses it.                         *)
DialAckLost ==
  /\ Working({"accepted"}) /\ ChannelAdmitted
  /\ nonce' = Consumed
  /\ rcv' = [rcv EXCEPT !.seen = FALSE, !.acked = Len(stage.data)]
  /\ chan' = [Closed EXCEPT !.r = TRUE]
  /\ \/ Spend("timeout") /\ Failed
     \/ Spend("drop") /\ Disconnected
  /\ UNCHANGED <<rj, stage, row, ctl, edited, hist>>

----------------------------------------------------------------------------
(* Payload and completion (_phase_transfer, iter_chunks)                     *)

(* (mutant: the receiver's durable offset is not credited)                   *)
TakeManifestAckFromScratch ==
  /\ Working({"sending_manifest"}) /\ FrameAtSender("manifest_ack")
  /\ snd' = SenderIn("transferring")
  /\ sj' = Entered(sj, "transferring")
  /\ chan' = TakeS(chan)
  /\ UNCHANGED <<nonce, ctl, left, edited, receiverVars>>

(* resume_plan_from_files refuses a receiver that lost durable progress; the *)
(* source is validated and its prefix read again before anything is sent.    *)
TakeManifestAck ==
  /\ Working({"sending_manifest"}) /\ FrameAtSender("manifest_ack")
  /\ LET durable == Head(chan.toS).durable
     IN IF durable > 0 /\ (sj.durable > durable \/ edited)
          THEN Failed /\ chan' = CloseS(chan)
          ELSE /\ snd' = [SenderIn("transferring") EXCEPT
                            !.read = [p \in 1..durable |-> Source], !.acked = durable]
               /\ sj' = Entered(sj, "transferring")
               /\ chan' = TakeS(chan)
  /\ UNCHANGED <<nonce, ctl, left, edited, receiverVars>>

(* A file is opened, and its end accepted, only when its fingerprint still   *)
(* is the manifest's; in between the bytes are whatever the file holds.      *)
AtFileEdge == Len(snd.read) \in Ends \cup {0}

SendChunk ==
  /\ Working({"transferring"}) /\ ~snd.drained
  /\ Len(snd.read) < Size
  /\ Len(snd.read) - snd.acked < Inflight
  /\ AtFileEdge => ~edited
  /\ snd' = [snd EXCEPT !.read = Append(@, Source)]
  /\ chan' = PutR(chan, [type |-> "payload", pos |-> Len(snd.read) + 1, byte |-> Source])
  /\ UNCHANGED <<sj, nonce, ctl, left, edited, receiverVars>>

SourceChanged ==
  /\ Working({"transferring"}) /\ ~snd.drained
  /\ AtFileEdge /\ edited
  /\ Failed
  /\ chan' = CloseS(chan)
  /\ UNCHANGED <<nonce, ctl, left, edited, receiverVars>>

(* (mutant: the fingerprint is not read again after the last byte)           *)
SourceDoneUnchecked ==
  /\ Working({"transferring"}) /\ ~snd.drained
  /\ Len(snd.read) = Size
  /\ snd' = [snd EXCEPT !.drained = TRUE]
  /\ UNCHANGED <<sj, nonce, chan, ctl, left, edited, receiverVars>>

(* The last pass of iter_chunks over all sources.                            *)
SourceDone ==
  /\ Working({"transferring"}) /\ ~snd.drained
  /\ Len(snd.read) = Size /\ ~edited
  /\ snd' = [snd EXCEPT !.drained = TRUE]
  /\ UNCHANGED <<sj, nonce, chan, ctl, left, edited, receiverVars>>

(* (mutant: the last write to the socket counts as delivery)                 *)
FinishWithoutAck ==
  /\ Working({"transferring"}) /\ snd.drained /\ snd.acked = Size
  /\ snd' = SenderIn("completed")
  /\ sj' = Entered(sj, "finalizing")
  /\ chan' = PutR(chan, [type |-> "complete", content |-> snd.read])
  /\ UNCHANGED <<nonce, ctl, left, edited, receiverVars>>

(* wait_until_empty, then the completion evidence.                           *)
FinishSend ==
  /\ Working({"transferring"}) /\ snd.drained /\ snd.acked = Size
  /\ snd' = SenderIn("finalizing")
  /\ sj' = Entered(sj, "finalizing")
  /\ chan' = PutR(chan, [type |-> "complete", content |-> snd.read])
  /\ UNCHANGED <<nonce, ctl, left, edited, receiverVars>>

(* _on_channel_message: release the window, record the receiver's progress.  *)
TakeAck ==
  /\ snd.state \in {"transferring", "finalizing"} /\ FrameAtSender("ack")
  /\ LET ack == Head(chan.toS)
     IN /\ snd' = IF snd.state = "transferring" /\ ack.pos > snd.acked
                    THEN [snd EXCEPT !.acked = ack.pos] ELSE snd
        /\ sj' = IF sj.state = "transferring" /\ ack.durable > sj.durable
                   THEN [sj EXCEPT !.durable = ack.durable] ELSE sj
  /\ chan' = TakeS(chan)
  /\ UNCHANGED <<nonce, ctl, left, edited, receiverVars>>

TakeCompleteAck ==
  /\ Working({"finalizing"}) /\ FrameAtSender("complete_ack")
  /\ IF Head(chan.toS).ok
       THEN snd' = SenderIn("completed") /\ sj' = Entered(sj, "completed")
       ELSE Failed
  /\ chan' = CloseS(chan)
  /\ UNCHANGED <<nonce, ctl, left, edited, receiverVars>>

(* manifest_ack, window_ack and final_complete_ack deadlines.                *)
SenderTimeout ==
  /\ Working({"sending_manifest", "transferring", "finalizing"})
  /\ snd.state = "transferring" => Len(snd.read) > snd.acked
  /\ Spend("timeout")
  /\ Failed
  /\ chan' = CloseS(chan)
  /\ UNCHANGED <<nonce, ctl, edited, receiverVars>>

(* _init_resume_window: the reader thread has seen the end of the stream     *)
(* after the manifest_ack and aborted the window before the receiver's       *)
(* offset is entered in it.  The error is neither a disconnect nor a         *)
(* transfer error, so the last handler of _run fails the session.            *)
BaselineAborted ==
  /\ Working({"sending_manifest"}) /\ FrameAtSender("manifest_ack")
  /\ Head(chan.toS).durable > 0
  /\ Spend("abort")
  /\ Failed
  /\ chan' = CloseS(chan)
  /\ UNCHANGED <<nonce, ctl, edited, receiverVars>>

(* The reader thread sees the end of the stream, or a payload write fails.   *)
LoseChannel ==
  /\ Working({"sending_manifest", "transferring", "finalizing"})
  /\ ~chan.r \/ chan.dead
  /\ chan.toS = <<>> \/ snd.state = "transferring"
  /\ Disconnected
  /\ chan' = CloseS(chan)
  /\ UNCHANGED <<nonce, ctl, left, edited, receiverVars>>

----------------------------------------------------------------------------
(* Resume (_phase_reconnect)                                                 *)

AskResume ==
  /\ Working({"waiting_reconnect"}) /\ ~snd.asked
  /\ ctl.up
  /\ snd' = [snd EXCEPT !.asked = TRUE]
  /\ ctl' = ToReceiver("resume")
  /\ UNCHANGED <<sj, nonce, chan, left, edited, receiverVars>>

(* The preflight deadline of a resume request: ask again.                    *)
ResumeLate ==
  /\ Working({"waiting_reconnect"}) /\ snd.asked
  /\ snd.accept = 0 /\ ~snd.rejected
  /\ SpendUnless(AnswerLost, "timeout")
  /\ snd' = [snd EXCEPT !.asked = FALSE]
  /\ UNCHANGED <<sj, nonce, chan, ctl, edited, receiverVars>>

ResumeAccepted ==
  /\ Working({"waiting_reconnect"}) /\ snd.accept # 0 /\ ~snd.rejected
  /\ snd' = [SenderIn("accepted") EXCEPT !.accept = snd.accept]
  /\ UNCHANGED <<sj, nonce, chan, ctl, left, edited, receiverVars>>

ResumeRejected ==
  /\ Working({"waiting_reconnect"}) /\ snd.rejected
  /\ Failed
  /\ UNCHANGED <<nonce, chan, ctl, left, edited, receiverVars>>

(* The reconnect_wait deadline.                                              *)
GiveUp ==
  /\ Working({"waiting_reconnect"}) /\ ~snd.asked
  /\ Spend("timeout")
  /\ Failed
  /\ UNCHANGED <<nonce, chan, ctl, edited, receiverVars>>

----------------------------------------------------------------------------
(* Control-link handlers (_on_stream_v2_control)                             *)

(* on_accept: the answer counts while the worker waits for one.              *)
DeliverAccept ==
  /\ AtSender("accept")
  /\ snd' = IF snd.state \in {"preflight", "waiting_reconnect"} /\ snd.asked
              THEN [snd EXCEPT !.accept = Head(ctl.toS).nonce] ELSE snd
  /\ ctl' = TakenBySender
  /\ UNCHANGED <<sj, nonce, chan, left, edited, receiverVars>>

DeliverReject ==
  /\ AtSender("reject")
  /\ snd' = IF snd.state \in {"preflight", "waiting_reconnect"} /\ snd.asked
              THEN [snd EXCEPT !.rejected = TRUE] ELSE snd
  /\ ctl' = TakenBySender
  /\ UNCHANGED <<sj, nonce, chan, left, edited, receiverVars>>

(* on_peer_cancel: a live session is asked to stop; a finished one only      *)
(* answers, and purges when it was waiting for the peer's ack itself.        *)
DeliverCancel ==
  /\ AtSender("cancel")
  /\ IF snd.state \in SenderTerminal \cup {"none"}
       THEN /\ snd' = IF snd.state = "cancelled" THEN SenderIn("purged") ELSE snd
            /\ sj' = IF snd.state = "cancelled" THEN NoJournal ELSE sj
            /\ ctl' = ReplyToReceiver(Message("cancel_ack"))
       ELSE /\ snd' = [snd EXCEPT !.cancel = "peer"]
            /\ ctl' = TakenBySender
            /\ UNCHANGED sj
  /\ UNCHANGED <<nonce, chan, left, edited, receiverVars>>

DeliverCancelAck ==
  /\ AtSender("cancel_ack")
  /\ snd' = IF snd.state = "cancelled" THEN SenderIn("purged") ELSE snd
  /\ sj' = IF snd.state = "cancelled" THEN NoJournal ELSE sj
  /\ ctl' = TakenBySender
  /\ UNCHANGED <<nonce, chan, left, edited, receiverVars>>

----------------------------------------------------------------------------
(* Cancellation (cancel, _enter_cancelled, _purge)                           *)

CancelRequest ==
  /\ snd.state \notin SenderTerminal \cup {"none"} /\ snd.cancel = "no"
  /\ Spend("cancel")
  /\ snd' = [snd EXCEPT !.cancel = "local"]
  /\ UNCHANGED <<sj, nonce, chan, ctl, edited, receiverVars>>

(* Our own cancel notifies the peer and keeps the journal until its ack; the *)
(* peer's cancel is acknowledged and purged at once.                         *)
EnterCancelled ==
  /\ snd.state \notin SenderTerminal \cup {"none"} /\ snd.cancel # "no"
  /\ chan' = IF chan.s THEN CloseS(chan) ELSE chan
  /\ IF snd.cancel = "local"
       THEN /\ snd' = SenderIn("cancelled")
            /\ sj' = Entered(sj, "cancelled")
            /\ ctl' = ToReceiver("cancel")
       ELSE /\ snd' = SenderIn("purged")
            /\ sj' = NoJournal
            /\ ctl' = ToReceiver("cancel_ack")
  /\ UNCHANGED <<nonce, left, edited, receiverVars>>

CancelAckTimeout ==
  /\ snd.state = "cancelled"
  /\ SpendUnless(~InFlight(ctl.toR, {"cancel"}) /\ ~InFlight(ctl.toS, {"cancel", "cancel_ack"}),
                 "timeout")
  /\ snd' = SenderIn("purged")
  /\ sj' = NoJournal
  /\ UNCHANGED <<nonce, chan, ctl, edited, receiverVars>>

----------------------------------------------------------------------------
(* The sender process stops, dies and comes back                             *)

SenderGone ==
  /\ snd.state # "none"
  /\ Spend("scrash")
  /\ snd' = SenderIn("none")
  /\ chan' = IF chan.s THEN CloseS(chan) ELSE chan
  /\ ctl' = LinkDown
  /\ UNCHANGED <<nonce, edited, receiverVars>>

SenderCrash == SenderGone /\ UNCHANGED sj

(* _enter_closed keeps the journal as "paused" for a later resume.           *)
SenderStop ==
  /\ snd.state \notin SenderTerminal /\ snd.cancel = "no"
  /\ SenderGone
  /\ sj' = Entered(sj, "paused")

(* resume_outgoing_stream_v2, run when the peer link comes up: a finished    *)
(* journal is dropped, one whose source changed is dropped and the peer told *)
(* to cancel, a resumable one becomes a session that asks to resume.  A live *)
(* session is left alone; finished ones have been pruned by maintenance.     *)
Pruned == (SenderTerminal \ {"cancelled"}) \cup {"none"}

RestoredSender ==
  LET up == [LinkDown EXCEPT !.up = TRUE]
  IN IF ~Exists(sj) \/ snd.state \notin Pruned
       THEN UNCHANGED <<snd, sj>> /\ ctl' = up
     ELSE IF sj.state \notin OutgoingResumable
       THEN UNCHANGED snd /\ sj' = NoJournal /\ ctl' = up
     ELSE IF edited
       THEN /\ UNCHANGED snd
            /\ sj' = NoJournal
            /\ ctl' = [up EXCEPT !.toR = <<Message("cancel")>>]
       ELSE /\ snd' = [NewSender EXCEPT !.state = "waiting_reconnect"]
            /\ sj' = [Entered(sj, "waiting_reconnect") EXCEPT !.retry = @ + 1]
            /\ ctl' = up
=============================================================================
