------------------------- MODULE TransferStageProofs -------------------------
(*************************************************************************)
(* The durable stage of the receiver and what is in flight between it    *)
(* and the sender.  First what its journal promises about the disk,      *)
(* about channels and about interruptions: these invariants are proved   *)
(* together, since a channel may only feed a stage that nothing else     *)
(* writes, and a pause flushes what a channel has written.  Then what    *)
(* the frames on a channel are relative to the stage at its end, and     *)
(* what the sender's journal knows of the receiver's.                    *)
(*************************************************************************)
EXTENDS TransferDeliveryProofs

(* The sender and the requests *)

(* A session inside finalization has a journal that says so.             *)
Locked == rcv.step # "run" => rj.state = "finalizing"
(* The invariant of the stage: DurableIsOnDisk is not inductive without  *)
(* the other parts, since finalization commits the journal as            *)
(* "finalizing" first.                                                   *)
StageInv == Locked /\ DurableIsOnDisk /\ OneChannel /\ IdleGateSafe

(* Which operations on the channel close the receiver's end, and that    *)
(* none opens it.                                                        *)
LEMMA ChannelEnd ==
  ASSUME TypeOK
  PROVE  /\ ~CloseR(chan).r
         /\ CloseS(chan).r => chan.r
         /\ TakeR(chan).r = chan.r /\ TakeS(chan).r = chan.r
         /\ \A f : PutR(chan, f).r = chan.r /\ PutS(chan, f).r = chan.r
                  /\ PutS(TakeR(chan), f).r = chan.r
         /\ \A ok : ~Answer(ok).r
BY DEF TypeOK, Channels, CloseR, CloseS, TakeR, TakeS, PutR, PutS, Answer, Closed

(* The sender and the environment keep StageInv: they touch the receiver *)
(* only by attaching a channel, which consumes the nonce.                *)
LEMMA StageSender ==
  ASSUME TypeOK, StageInv,
         SenderWorker \/ SenderReader \/ SenderControl \/ SenderTimers \/ SenderFaults
           \/ Environment
  PROVE  StageInv'
<1> USE DEF StageInv, Locked, DurableIsOnDisk, OneChannel, IdleGateSafe
<1>1. CASE UNCHANGED <<rcv, rj, nonce, stage>> /\ (chan'.r => chan.r)
  BY <1>1 DEF Exists
<1>2. CASE \/ Offer \/ CreateJournal \/ EnterAccepted \/ OfferRejected \/ PreflightTimeout
           \/ DialLost \/ SourceDone \/ AskResume \/ ResumeLate
           \/ ResumeAccepted \/ ResumeRejected \/ GiveUp \/ SenderControl
           \/ CancelAckTimeout \/ CancelRequest \/ LinkDrop \/ LinkUp \/ Edit
  BY <1>1, <1>2
  DEF Offer, CreateJournal, EnterAccepted, OfferRejected, PreflightTimeout,
      DialLost, SourceDone, AskResume, ResumeLate, ResumeAccepted, ResumeRejected, GiveUp,
      SenderControl, DeliverAccept, DeliverReject, DeliverCancel, DeliverCancelAck,
      CancelAckTimeout, CancelRequest, LinkDrop, LinkUp, Edit, receiverVars
<1>3. CASE \/ TakeManifestAck \/ SendChunk \/ SourceChanged \/ FinishSend \/ TakeAck
           \/ TakeCompleteAck \/ SenderTimeout \/ BaselineAborted \/ LoseChannel \/ EnterCancelled
           \/ SenderCrash \/ SenderStop \/ ChannelReset
  BY <1>1, <1>3, ChannelEnd
  DEF TakeManifestAck, SendChunk, SourceChanged, FinishSend, TakeAck, TakeCompleteAck,
      SenderTimeout,
              BaselineAborted, LoseChannel, EnterCancelled, SenderCrash, SenderStop, SenderGone,
      ChannelReset, receiverVars, TypeOK, Channels
<1>4. CASE DialOpen \/ DialAckLost
  <2>1. /\ rcv'.state = rcv.state /\ rcv'.step = rcv.step /\ rcv.state = "receiving"
        /\ nonce'.live = 0
        /\ UNCHANGED <<rj, stage>>
    BY <1>4 DEF DialOpen, DialAckLost, ChannelAdmitted, Consumed, TypeOK, Receivers, Nonces
  <2> QED
    BY <2>1 DEF Exists
<1>5. CASE DialRefused
  <2>1. UNCHANGED <<rcv, rj, stage, chan>> /\ (nonce' = nonce \/ nonce'.live = 0)
    BY <1>5 DEF DialRefused, Consumed, receiverVars, TypeOK, Nonces
  <2> QED
    BY <2>1 DEF Exists
<1> QED
  BY <1>2, <1>3, <1>4, <1>5 DEF SenderWorker, SenderReader, SenderTimers, SenderFaults, Environment

(* DurableIsOnDisk, of any journal and stage.                            *)
OnDisk(j, st) ==
  Exists(j) /\ j.state # "completed" =>
    j.durable <= st.synced /\ st.synced <= Len(st.data) /\ st.dir

(* A journal commit that changes the state only leaves the durable       *)
(* offset on disk.                                                       *)
LEMMA EnteredOnDisk ==
  ASSUME NEW j \in Journals, NEW st, OnDisk(j, st), NEW state \in JournalStates \ {"purging"}
  PROVE  /\ OnDisk(Entered(j, state), st)
         /\ Entered(j, state).state \in {j.state, state}
BY DEF OnDisk, Entered, CanEnter, Exists, Journals, JournalStates, Transitions, Waits, Exits

(* pause flushes before it commits: what the paused journal calls        *)
(* durable is on disk.                                                   *)
LEMMA PausedOnDisk ==
  ASSUME TypeOK, OnDisk(rj, stage), NEW wait \in Waits
  PROVE  /\ OnDisk(PausedJournal(wait), Flushed(stage))
         /\ Flushed(stage).data = stage.data /\ Flushed(stage).synced = Len(stage.data)
         /\ PausedJournal(wait).state = wait => PausedJournal(wait).durable = Len(stage.data)
<1>1. /\ Flushed(stage).data = stage.data /\ Flushed(stage).synced = Len(stage.data)
      /\ Flushed(stage).dir = stage.dir
  BY DEF TypeOK, Stages, Flushed
<1>2. Len(stage.data) \in Nat /\ rj.durable \in Nat /\ stage.synced \in Nat
  BY StageFieldType DEF TypeOK, Journals, Stages
<1>3. CASE CanEnter(rj, wait)
  <2>1. rj.state # "completed" /\ Exists(rj)
    BY <1>3 DEF CanEnter, Exists, Transitions, Waits, Exits
  <2>2. /\ PausedJournal(wait).state = wait
        /\ PausedJournal(wait).durable = Len(stage.data)
    BY <1>3 DEF PausedJournal, TypeOK, Journals
  <2> QED
    BY <1>1, <1>2, <2>1, <2>2 DEF OnDisk
<1>4. CASE ~CanEnter(rj, wait)
  <2>1. PausedJournal(wait) = rj
    BY <1>4 DEF PausedJournal
  <2>2. rj.state # wait
    BY <1>4 DEF CanEnter, Exists, Transitions, Waits, Exits, TypeOK, Journals, JournalStates
  <2> QED
    BY <1>1, <1>2, <2>1, <2>2 DEF OnDisk
<1> QED
  BY <1>3, <1>4

(* The same for the pause a resume request forces on a live session.     *)
LEMMA SuspendedOnDisk ==
  ASSUME TypeOK, OnDisk(rj, stage),
         NEW st, st = IF rcv.state = "receiving" THEN Flushed(stage) ELSE stage
  PROVE  /\ OnDisk(SuspendedJournal, st)
         /\ st.data = stage.data
         /\ rcv.state = "receiving" /\ SuspendedJournal.state = "waiting_reconnect" =>
              /\ SuspendedJournal.durable = Len(stage.data)
              /\ st.synced = Len(stage.data)
BY PausedOnDisk DEF SuspendedJournal, Waits

(* A receiver that enters a state is outside finalization.               *)
LEMMA RunningStates ==
  ASSUME TypeOK
  PROVE  /\ \A state \in ReceiverStates : /\ ReceiverIn(state).state = state
                                         /\ ReceiverIn(state).step = "run"
         /\ NoReceiver.state = "none" /\ NoReceiver.step = "run"
         /\ Unlocked => SuspendedReceiver.step = "run"
         /\ SuspendedReceiver.state = IF rcv.state = "receiving" THEN "waiting_reconnect"
                                       ELSE rcv.state
BY DEF ReceiverIn, NoReceiver, SuspendedReceiver, Unlocked, TypeOK, Receivers

(* The session waits for its sender.                                     *)
Suspended == rcv.state \in {"paused", "waiting_reconnect"}
(* What has to be shown of a step whose receiver is outside              *)
(* finalization.                                                         *)
StageParts ==
  /\ rcv.step = "run"
  /\ OnDisk(rj, stage)
  /\ chan.r => nonce.live = 0 /\ rcv.state \in {"receiving", "finalizing"}
  /\ Suspended /\ rj.state = rcv.state =>
       rj.durable = Len(stage.data) /\ stage.synced = Len(stage.data)

(* Outside finalization StageParts is StageInv.                          *)
LEMMA StageFromParts ==
  /\ StageParts => StageInv
  /\ StageParts' => StageInv'
  /\ StageInv /\ Unlocked => StageParts
BY DEF StageParts, StageInv, Locked, DurableIsOnDisk, OneChannel, IdleGateSafe, OnDisk,
       Suspended, Unlocked

(* The offer and resume handlers keep StageInv: a reopened part is cut   *)
(* back to its journal.                                                  *)
LEMMA StageRequests ==
  ASSUME TypeOK, StageInv,
         HandleOffer \/ RefuseOffer \/ HandleResume \/ RefuseResume
  PROVE  StageInv'
<1>1. Unlocked
  BY DEF HandleOffer, RefuseOffer, HandleResume, RefuseResume
<1>2. StageParts
  BY <1>1, StageFromParts
<1>3. Len(<<>>) = 0 /\ [NoStage EXCEPT !.dir = TRUE].data = <<>>
        /\ [NoStage EXCEPT !.dir = TRUE].synced = 0 /\ [NoStage EXCEPT !.dir = TRUE].dir
  BY EmptySeq DEF NoStage
<1>4. OnDisk(NewJournal, [NoStage EXCEPT !.dir = TRUE]) /\ OnDisk(NoJournal, NoStage)
  BY <1>3 DEF OnDisk, NewJournal, NoJournal, Exists
<1>5. ~chan'.r => (AcceptFresh => StageParts')
  BY <1>4 DEF StageParts, AcceptFresh, Accept, Suspended, ReceiverIn, NoReceiver
<1>6. CASE HandleOffer
  <2>1. CASE rcv.state # "none" \/ Exists(rj) \/ stage.dir
    BY <1>2, <1>6, <2>1, StageFromParts DEF HandleOffer, StageParts, Suspended, OnDisk, Exists
  <2>2. CASE ~(rcv.state # "none" \/ Exists(rj) \/ stage.dir)
    BY <1>2, <1>5, <1>6, <2>2, StageFromParts DEF HandleOffer, StageParts
  <2> QED
    BY <2>1, <2>2
<1>7. CASE RefuseOffer
  BY <1>2, <1>7, StageFromParts DEF RefuseOffer, StageParts, Suspended, OnDisk, Exists
<1> DEFINE paused == IF rcv.state = "receiving" THEN Flushed(stage) ELSE stage
<1>8. /\ OnDisk(SuspendedJournal, paused)
      /\ rcv.state = "receiving" /\ SuspendedJournal.state = "waiting_reconnect" =>
           SuspendedJournal.durable = Len(paused.data) /\ paused.synced = Len(paused.data)
  BY <1>2, SuspendedOnDisk DEF StageParts
<1>9. ~chan'.r /\ rcv' = SuspendedReceiver /\ rj' = SuspendedJournal /\ stage' = paused
        => StageParts'
  <2> SUFFICES ASSUME ~chan'.r, rcv' = SuspendedReceiver, rj' = SuspendedJournal,
                      stage' = paused
               PROVE  StageParts'
    OBVIOUS
  <2>1. CASE rcv.state = "receiving"
    BY <1>1, <1>8, <2>1, RunningStates DEF StageParts, Suspended, OnDisk, Exists
  <2>2. CASE rcv.state # "receiving"
    BY <1>1, <1>2, <2>2, RunningStates
    DEF StageParts, Suspended, OnDisk, Exists, SuspendedReceiver, SuspendedJournal
  <2> QED
    BY <2>1, <2>2
<1>10. CASE HandleResume /\ TransferTerminal
  BY <1>2, <1>10, StageFromParts DEF HandleResume, StageParts, Suspended, OnDisk, Exists
<1>11. CASE HandleResume /\ ~TransferTerminal
  <2>1. ~chan'.r
    BY <1>11, ChannelEnd DEF HandleResume
  <2>2. CASE Unavailable(SuspendedJournal)
    BY <1>9, <1>11, <2>1, <2>2, StageFromParts DEF HandleResume
  <2>3. CASE ~Unavailable(SuspendedJournal) /\ RowRegresses
    BY <1>4, <1>11, <2>1, <2>3, StageFromParts, RunningStates
    DEF HandleResume, StageParts, Suspended
  <2>4. CASE ~Unavailable(SuspendedJournal) /\ ~RowRegresses /\ Exists(SuspendedJournal)
    <3> DEFINE j == SuspendedJournal
    <3>1. j \in Journals /\ j.durable <= Len(stage.data) /\ stage.dir
      BY <2>4, SuspendedType, StageFieldType DEF Unavailable, Journals
    <3>2. /\ rj' = ReopenedJournal(j) /\ stage' = ReopenedStage(j)
          /\ rcv'.state = "receiving" /\ rcv'.step = "run"
      BY <1>11, <2>4 DEF HandleResume, Accept, ReceiverIn, NoReceiver
    <3>3. rj'.durable = j.durable
      BY <3>1, <3>2 DEF ReopenedJournal, Journals
    <3>4. /\ stage'.synced = j.durable /\ stage'.dir
          /\ Len(stage'.data) = j.durable
      <4>1. j.durable \in 0..Len(stage.data) /\ stage.data \in Seq(Bytes)
        BY <3>1, StageFieldType DEF TypeOK, Stages, Journals
      <4>2. Len(SubSeq(stage.data, 1, j.durable)) = j.durable
        BY <4>1, SubSeqProperties
      <4> QED
        BY <3>1, <3>2, <4>2 DEF ReopenedStage, TypeOK, Stages
    <3> QED
      BY <2>1, <3>1, <3>2, <3>3, <3>4, StageFromParts
      DEF StageParts, Suspended, OnDisk, Journals
  <2>5. CASE ~Unavailable(SuspendedJournal) /\ ~RowRegresses /\ ~Exists(SuspendedJournal)
    <3>1. AcceptFresh
      BY <1>11, <2>5 DEF HandleResume
    <3> QED
      BY <1>5, <2>1, <3>1, StageFromParts
  <2> QED
    BY <2>2, <2>3, <2>4, <2>5
<1>12. CASE RefuseResume
  BY <1>9, <1>12, ChannelEnd, StageFromParts DEF RefuseResume
<1> QED
  BY <1>6, <1>7, <1>10, <1>11, <1>12

----------------------------------------------------------------------------
(* Receiving and finalization *)

(* The channel thread keeps StageInv: a checkpoint commits an offset     *)
(* after the fsync of it.                                                *)
LEMMA StageReceiving ==
  ASSUME TypeOK, StageInv,
         ReceiveManifest \/ ReceiveChunk \/ ReceiveFails \/ PollAck \/ ChannelEnds
  PROVE  StageInv'
<1>1. StageParts /\ rcv.state = "receiving" /\ Unlocked
  BY StageFromParts
  DEF ReceiveManifest, ReceiveChunk, ReceiveFails, PollAck, ChannelEnds, Receiving
<1>2. /\ OnDisk(rj, stage) /\ rcv.step = "run"
      /\ chan.r => nonce.live = 0
  BY <1>1 DEF StageParts
<1>3. /\ Len(stage.data) \in Nat /\ stage.synced \in Nat /\ rj.durable \in Nat
      /\ stage.data \in Seq(Bytes)
  BY StageFieldType DEF TypeOK, Journals, Stages
<1>4. CASE /\ rcv'.state = rcv.state /\ rcv'.step = rcv.step /\ (chan'.r => chan.r)
           /\ nonce' = nonce /\ OnDisk(rj', stage')
  BY <1>1, <1>2, <1>4, StageFromParts DEF StageParts, Suspended
<1>5. CASE ReceiveManifest
  <2>1. rcv'.state = rcv.state /\ rcv'.step = rcv.step
    BY <1>5 DEF ReceiveManifest, TypeOK, Receivers
  <2>2. UNCHANGED <<rj, stage, nonce>> /\ (chan'.r => chan.r)
    BY <1>5, ChannelEnd DEF ReceiveManifest
  <2> QED
    BY <1>2, <1>4, <2>1, <2>2
<1>6. CASE PollAck
  <2>1. rcv'.state = rcv.state /\ rcv'.step = rcv.step
    BY <1>6 DEF PollAck, TypeOK, Receivers
  <2>2. UNCHANGED <<rj, stage, nonce>> /\ (chan'.r => chan.r)
    BY <1>6, ChannelEnd DEF PollAck
  <2> QED
    BY <1>2, <1>4, <2>1, <2>2
<1>7. CASE ReceiveFails
  <2>1. OnDisk(rj', stage')
    BY <1>2, <1>7, EnteredOnDisk DEF ReceiveFails, TypeOK, JournalStates
  <2>2. ~chan'.r /\ rcv' = ReceiverIn("failed")
    BY <1>7, ChannelEnd DEF ReceiveFails
  <2> QED
    BY <2>1, <2>2, RunningStates, StageFromParts DEF StageParts, Suspended, ReceiverStates
<1>8. CASE ChannelEnds
  <2>1. rj' = PausedJournal("waiting_reconnect") /\ stage' = Flushed(stage)
    BY <1>8 DEF ChannelEnds
  <2>2. ~chan'.r /\ rcv' = ReceiverIn("waiting_reconnect")
    BY <1>8, ChannelEnd DEF ChannelEnds
  <2>3. rcv'.state = "waiting_reconnect" /\ rcv'.step = "run"
    BY <2>2, RunningStates DEF ReceiverStates
  <2> QED
    BY <1>2, <2>1, <2>2, <2>3, PausedOnDisk, StageFromParts DEF StageParts, Suspended, Waits
<1>9. CASE ReceiveChunk /\ ProtocolFailure
  <2>1. OnDisk(rj', stage')
    BY <1>2, <1>9, EnteredOnDisk DEF ProtocolFailure, TypeOK, JournalStates
  <2>2. ~chan'.r /\ rcv' = ReceiverIn("cancelled")
    BY <1>9, ChannelEnd DEF ProtocolFailure
  <2> QED
    BY <2>1, <2>2, RunningStates, StageFromParts DEF StageParts, Suspended, ReceiverStates
<1>10. CASE ReceiveChunk /\ WriteChunk(Head(chan.toR))
  <2> DEFINE frame == Head(chan.toR)
             written == [stage EXCEPT !.data = Append(@, frame.byte)]
  <2>1. PICK checkpoint, ack \in BOOLEAN :
          LET journal == IF checkpoint THEN Checkpointed(rj, written) ELSE rj
          IN /\ stage' = IF checkpoint THEN Flushed(written) ELSE written
             /\ rj' = journal
             /\ rcv' = [rcv EXCEPT !.phase = "receiving",
                                   !.acked = IF ack THEN frame.pos ELSE @]
             /\ chan' = IF ack
                          THEN PutS(TakeR(chan), [type |-> "ack", pos |-> frame.pos,
                                                  durable |-> journal.durable])
                          ELSE TakeR(chan)
    BY <1>10 DEF WriteChunk
  <2>2. rcv'.state = rcv.state /\ rcv'.step = rcv.step /\ nonce' = nonce
    BY <1>10, <2>1 DEF ReceiveChunk, TypeOK, Receivers
  <2>3. chan'.r => chan.r
    BY <2>1, ChannelEnd
  <2>4. /\ written.synced = stage.synced /\ written.dir = stage.dir
        /\ written.data = Append(stage.data, frame.byte)
    BY DEF TypeOK, Stages
  <2>5. Len(written.data) = Len(stage.data) + 1
    BY <1>3, <2>4, LenProperties, AppendProperties
  <2>6. OnDisk(rj', stage')
    <3>1. CASE ~checkpoint
      BY <1>2, <1>3, <2>1, <2>4, <2>5, <3>1 DEF OnDisk
    <3>2. CASE checkpoint /\ CanEnter(rj, "transferring")
      <4>1. Exists(rj) /\ rj.state # "completed"
        BY <3>2 DEF CanEnter, Exists, Transitions, Waits, Exits
      <4>2. rj'.durable = Len(written.data)
        BY <2>1, <3>2 DEF Checkpointed, TypeOK, Journals
      <4>3. /\ stage'.data = written.data /\ stage'.synced = Len(written.data)
            /\ stage'.dir = stage.dir
        BY <2>1, <3>2 DEF Flushed, TypeOK, Stages
      <4> QED
        BY <1>2, <1>3, <2>5, <4>1, <4>2, <4>3 DEF OnDisk
    <3>3. CASE checkpoint /\ ~CanEnter(rj, "transferring")
      <4>1. rj' = rj
        BY <2>1, <3>3 DEF Checkpointed
      <4>2. /\ stage'.data = written.data /\ stage'.synced = Len(written.data)
            /\ stage'.dir = stage.dir
        BY <2>1, <3>3 DEF Flushed, TypeOK, Stages
      <4> QED
        BY <1>2, <1>3, <2>5, <4>1, <4>2 DEF OnDisk
    <3> QED
      BY <3>1, <3>2, <3>3
  <2> QED
    BY <1>4, <2>2, <2>3, <2>6
<1> QED
  BY <1>5, <1>6, <1>7, <1>8, <1>9, <1>10 DEF ReceiveChunk

(* Finalization keeps StageInv, whichever of its steps fails.            *)
LEMMA StageFinalization ==
  ASSUME TypeOK, StageInv,
         ReceiveComplete \/ RenameNext \/ StoreVerified \/ CommitItem
           \/ CompletePublication \/ FinalizeFails \/ ResumeOvertakesFinalize
  PROVE  StageInv'
<1>1. /\ OnDisk(rj, stage)
      /\ chan.r => nonce.live = 0 /\ rcv.state \in {"receiving", "finalizing"}
      /\ rcv.step # "run" => rj.state = "finalizing"
  BY DEF StageInv, Locked, DurableIsOnDisk, OnDisk, OneChannel
<1>2. CASE /\ OnDisk(rj', stage') /\ ~chan'.r
           /\ \E state \in {"failed", "finalizing", "none"} :
                 rcv'.state = state /\ rcv'.step = "run"
  BY <1>2, StageFromParts DEF StageParts, Suspended
<1>3. CASE /\ OnDisk(rj', stage') /\ rj'.state = "finalizing"
           /\ rcv'.state \in {"receiving", "finalizing"}
           /\ (chan'.r => chan.r) /\ nonce' = nonce
  BY <1>1, <1>3 DEF StageInv, Locked, DurableIsOnDisk, OnDisk, OneChannel, IdleGateSafe
<1>4. CASE ReceiveComplete
  <2> DEFINE good == EvidenceMatches(Head(chan.toR).content)
  <2>1. CASE ~good
    <3>1. OnDisk(rj', stage')
      BY <1>1, <1>4, <2>1, EnteredOnDisk DEF ReceiveComplete, TypeOK, JournalStates
    <3> QED
      BY <1>2, <1>4, <2>1, <3>1, ChannelEnd, RunningStates DEF ReceiveComplete, ReceiverStates
  <2>2. CASE good /\ CanEnter(rj, "finalizing")
    <3>1. OnDisk(rj', stage') /\ rj'.state = "finalizing"
      BY <1>1, <1>4, <2>2, EnteredOnDisk
      DEF ReceiveComplete, Entered, TypeOK, Journals, JournalStates
    <3>2. rcv'.state = "finalizing"
      BY <1>4, <2>2 DEF ReceiveComplete, ReceiverIn, NoReceiver
    <3> QED
      BY <1>3, <1>4, <2>2, <3>1, <3>2, ChannelEnd DEF ReceiveComplete
  <2>3. CASE good /\ ~CanEnter(rj, "finalizing")
    BY <1>1, <1>2, <1>4, <2>3, ChannelEnd, RunningStates DEF ReceiveComplete, ReceiverStates
  <2> QED
    BY <2>1, <2>2, <2>3
<1>5. CASE RenameNext
  <2>1. /\ stage'.data = stage.data /\ stage'.synced = stage.synced /\ stage'.dir = stage.dir
        /\ UNCHANGED <<rcv, rj, nonce, chan>> /\ rcv.step # "run"
    BY <1>5 DEF RenameNext, TypeOK, Stages
  <2> QED
    BY <2>1 DEF StageInv, Locked, DurableIsOnDisk, OneChannel, IdleGateSafe, Exists
<1>6. CASE StoreVerified
  <2>1. /\ rj'.state = rj.state /\ rj'.durable = rj.durable
        /\ rcv'.state = rcv.state /\ rcv.step # "run"
        /\ UNCHANGED <<stage, nonce, chan>>
    BY <1>6 DEF StoreVerified, TypeOK, Journals, Receivers
  <2> QED
    BY <1>1, <2>1
    DEF StageInv, Locked, DurableIsOnDisk, OneChannel, IdleGateSafe, Exists
<1>7. CASE CommitItem
  <2>1. rcv'.state = rcv.state /\ rcv.step # "run" /\ UNCHANGED <<rj, stage, nonce, chan>>
    BY <1>7 DEF CommitItem, TypeOK, Receivers
  <2> QED
    BY <1>1, <2>1
    DEF StageInv, Locked, DurableIsOnDisk, OneChannel, IdleGateSafe, Exists
<1>8. CASE CompletePublication
  <2>1. rj'.state = "completed"
    BY <1>1, <1>8
    DEF CompletePublication, Entered, CanEnter, Exists, Transitions, Exits, Waits, TypeOK,
        Journals
  <2>2. OnDisk(rj', stage')
    BY <2>1 DEF OnDisk
  <2> QED
    BY <1>2, <1>8, <2>2, ChannelEnd, RunningStates DEF CompletePublication
<1>9. CASE FinalizeFails
  <2>1. OnDisk(rj', stage')
    BY <1>1, <1>9, EnteredOnDisk DEF FinalizeFails, TypeOK, JournalStates
  <2>2. rcv' = ReceiverIn("failed") \/ rcv' = ReceiverIn("finalizing")
    BY <1>9 DEF FinalizeFails
  <2> QED
    BY <1>2, <1>9, <2>1, <2>2, ChannelEnd, RunningStates DEF FinalizeFails, ReceiverStates
<1>10. CASE ResumeOvertakesFinalize
  BY <1>10 DEF ResumeOvertakesFinalize, StageInv, Locked, DurableIsOnDisk, OneChannel,
               IdleGateSafe, Exists
<1> QED
  BY <1>4, <1>5, <1>6, <1>7, <1>8, <1>9, <1>10

----------------------------------------------------------------------------
(* Timers, cancels, crashes, and the theorems *)

(* The deadlines and the peer's cancel keep StageInv.                    *)
LEMMA StageTimers ==
  ASSUME TypeOK, StageInv, ReceiverTimers \/ CancelFromPeer \/ CancelAcknowledged
  PROVE  StageInv'
<1>1. Unlocked /\ StageParts
  <2>1. Unlocked
    BY DEF ReceiverTimers, ReceiverTimeout, Prune, CancelFromPeer, CancelAcknowledged
  <2> QED
    BY <2>1, StageFromParts
<1>2. OnDisk(NoJournal, NoStage)
  BY DEF OnDisk, NoJournal, Exists
<1>3. CASE Prune
  <2>1. chan.r => rcv.state \in {"receiving", "finalizing"}
    BY <1>1 DEF StageParts
  <2>2. rcv' = NoReceiver /\ UNCHANGED <<rj, stage, chan, nonce>>
        /\ rcv.state \in {"failed", "purged"}
    BY <1>3 DEF Prune
  <2> QED
    BY <1>1, <2>1, <2>2, RunningStates, StageFromParts DEF StageParts, Suspended, OnDisk, Exists
<1>4. CASE ReceiverTimeout
  <2>1. ~chan'.r /\ UNCHANGED nonce
    BY <1>4, ChannelEnd DEF ReceiverTimeout
  <2>2. CASE Purge
    BY <1>2, <2>1, <2>2, RunningStates, StageFromParts
    DEF Purge, StageParts, Suspended, ReceiverStates
  <2>3. CASE /\ rcv' = ReceiverIn("paused") /\ rj' = PausedJournal("paused")
             /\ stage' = Flushed(stage)
    <3>1. rcv'.state = "paused" /\ rcv'.step = "run"
      BY <2>3, RunningStates DEF ReceiverStates
    <3> QED
      BY <1>1, <2>1, <2>3, <3>1, PausedOnDisk, StageFromParts DEF StageParts, Suspended, Waits
  <2>4. CASE rcv' = ReceiverIn("failed") /\ rj' \in {rj, Entered(rj, "failed")} /\ stage' = stage
    <3>1. rcv'.state = "failed" /\ rcv'.step = "run"
      BY <2>4, RunningStates DEF ReceiverStates
    <3>2. OnDisk(rj', stage')
      BY <1>1, <2>4, EnteredOnDisk DEF StageParts, TypeOK, JournalStates
    <3> QED
      BY <2>1, <3>1, <3>2, StageFromParts DEF StageParts, Suspended
  <2> QED
    BY <1>4, <2>2, <2>3, <2>4 DEF ReceiverTimeout
<1>5. CASE CancelFromPeer
  <2>1. ~chan'.r
    BY <1>5, ChannelEnd DEF CancelFromPeer
  <2>2. CASE UNCHANGED <<rcv, rj, stage>>
    BY <1>1, <2>1, <2>2, StageFromParts DEF StageParts, Suspended, OnDisk, Exists
  <2>3. CASE rcv' = NoReceiver /\ rj' = NoJournal
    BY <2>1, <2>3, RunningStates, StageFromParts
    DEF StageParts, Suspended, OnDisk, NoJournal, Exists
  <2> QED
    BY <1>5, <2>2, <2>3 DEF CancelFromPeer
<1>6. CASE CancelAcknowledged
  <2>1. CASE UNCHANGED <<rcv, rj, stage>>
    BY <1>1, <1>6, <2>1, StageFromParts
    DEF CancelAcknowledged, StageParts, Suspended, OnDisk, Exists
  <2>2. CASE rcv.state = "cancelled" /\ rcv' = NoReceiver /\ rj' = NoJournal /\ stage' = NoStage
    <3>1. ~chan'.r
      BY <1>1, <1>6, <2>2 DEF CancelAcknowledged, StageParts
    <3> QED
      BY <1>2, <2>2, <3>1, RunningStates, StageFromParts DEF StageParts, Suspended
  <2> QED
    BY <1>6, <2>1, <2>2 DEF CancelAcknowledged
<1> QED
  BY <1>3, <1>4, <1>5, <1>6 DEF ReceiverTimers

(* A cancel, a stop and a crash keep StageInv: a crash loses only bytes  *)
(* that no journal calls durable.                                        *)
LEMMA StageInterrupted ==
  ASSUME TypeOK, StageInv, ReceiverCancel \/ ReceiverStop \/ ReceiverCrash
  PROVE  StageInv'
<1>1. OnDisk(rj, stage)
  BY DEF StageInv, DurableIsOnDisk, OnDisk
<1>2. ~chan'.r
  BY ChannelEnd DEF ReceiverCancel, ReceiverStop, ReceiverCrash, ReceiverGone
<1>3. CASE OnDisk(rj', stage') /\ rcv'.step = "run" /\ ~Suspended'
  BY <1>2, <1>3, StageFromParts DEF StageParts
<1>4. CASE ReceiverCancel
  <2> DEFINE st == IF rcv.state = "receiving" THEN Flushed(stage) ELSE stage
  <2>1. OnDisk(SuspendedJournal, st) /\ SuspendedJournal \in Journals
    BY <1>1, SuspendedOnDisk, SuspendedType
  <2>2. OnDisk(rj', stage')
    BY <1>4, <2>1, EnteredOnDisk DEF ReceiverCancel, JournalStates
  <2>3. rcv'.state = "cancelled" /\ rcv'.step = "run"
    BY <1>4, RunningStates DEF ReceiverCancel, ReceiverStates
  <2> QED
    BY <1>3, <2>2, <2>3 DEF Suspended
<1>5. CASE ReceiverStop
  <2>1. OnDisk(rj', stage')
    BY <1>1, <1>5, PausedOnDisk DEF ReceiverStop, Waits
  <2>2. rcv'.state = "none" /\ rcv'.step = "run"
    BY <1>5, RunningStates DEF ReceiverStop, ReceiverGone
  <2> QED
    BY <1>3, <2>1, <2>2 DEF Suspended
<1>6. CASE ReceiverCrash
  <2>1. rcv'.state = "none" /\ rcv'.step = "run" /\ rj' = rj
    BY <1>6, RunningStates DEF ReceiverCrash, ReceiverGone
  <2>2. PICK kept \in stage.synced..Len(stage.data) :
          stage' = [stage EXCEPT !.data = SubSeq(@, 1, kept)]
    BY <1>6 DEF ReceiverCrash
  <2>3. /\ stage.data \in Seq(Bytes) /\ stage.synced \in Nat /\ kept \in 0..Len(stage.data)
        /\ stage.synced <= kept
    BY <2>2, StageFieldType DEF TypeOK, Stages
  <2>4. Len(SubSeq(stage.data, 1, kept)) = kept
    BY <2>3, SubSeqProperties
  <2>5. /\ stage'.synced = stage.synced /\ stage'.dir = stage.dir
        /\ Len(stage'.data) = kept
    BY <2>2, <2>4 DEF TypeOK, Stages
  <2>6. OnDisk(rj', stage')
    BY <1>1, <2>1, <2>3, <2>5 DEF OnDisk
  <2> QED
    BY <1>3, <2>1, <2>6 DEF Suspended
<1> QED
  BY <1>4, <1>5, <1>6

(* StageInv holds initially.                                             *)
LEMMA StageInit == Init => StageInv
BY DEF Init, StageInv, Locked, DurableIsOnDisk, OneChannel, IdleGateSafe, NoReceiver,
       NoJournal, Closed, Exists

(* Every step keeps StageInv.                                            *)
LEMMA StageStep ==
  ASSUME TypeOK, StageInv, [Next]_vars
  PROVE  StageInv'
<1>1. CASE UNCHANGED vars
  BY <1>1 DEF vars, StageInv, Locked, DurableIsOnDisk, OneChannel, IdleGateSafe, Exists
<1>2. CASE \/ SenderWorker \/ SenderReader \/ SenderControl \/ SenderTimers \/ SenderFaults
           \/ Environment
  BY <1>2, StageSender
<1>3. CASE ReceiverControl \/ ReceiverChannel \/ ReceiverTimers \/ ReceiverFaults
  BY <1>3, StageRequests, StageReceiving, StageFinalization, StageTimers, StageInterrupted
  DEF ReceiverControl, ReceiverChannel, ReceiverFaults
<1> QED
  BY <1>1, <1>2, <1>3 DEF Next

(* The invariant of the receiver's stage holds throughout every          *)
(* behaviour.                                                            *)
THEOREM StageInvariant == Spec => []StageInv
<1>1. Init => StageInv
  BY StageInit
<1>2. TypeOK /\ StageInv /\ [Next]_vars => StageInv'
  BY StageStep
<1> QED
  BY <1>1, <1>2, TypeCorrect, PTL DEF Spec

(* Every byte the incoming journal calls durable survives a crash, so a  *)
(* reopen never finds a part shorter than its journal (_checkpoint       *)
(* commits after the fsync, _read_prefix relies on it).                  *)
THEOREM DurableBytesAreOnDisk == Spec => []DurableIsOnDisk
<1>1. StageInv => DurableIsOnDisk
  BY DEF StageInv
<1> QED
  BY <1>1, StageInvariant, PTL

(* While a channel is attached its nonce is used up, and the session it  *)
(* feeds is a live one: no second connection can feed the same stage     *)
(* (ChannelNonceRegistry.consume, attach_channel).                       *)
THEOREM ChannelsAreSingle == Spec => []OneChannel
<1>1. StageInv => OneChannel
  BY DEF StageInv
<1> QED
  BY <1>1, StageInvariant, PTL

(* A session the update idle gate takes for safely interruptible         *)
(* (durably_checkpointed) has every received byte on disk and in the     *)
(* journal, and no open channel.                                         *)
THEOREM PausedIsCheckpointed == Spec => []IdleGateSafe
<1>1. StageInv => IdleGateSafe
  BY DEF StageInv
<1> QED
  BY <1>1, StageInvariant, PTL
----------------------------------------------------------------------------
(* What is on its way *)

(* A channel that is open at the sender belongs to a session that uses   *)
(* it.                                                                   *)
SenderHolds == chan.s => snd.state \in {"sending_manifest", "transferring", "finalizing"}

(* A reset channel carries nothing.                                      *)
DeadIsEmpty == chan.dead => chan.toR = <<>>

(* A stage that waits for payload is checkpointed: what the receiver     *)
(* will answer to the manifest is all it holds.                          *)
WaitsCheckpointed ==
  rcv.state = "receiving" /\ (~chan.r \/ (chan.s /\ snd.state = "sending_manifest")) =>
    rj.durable = Len(stage.data)

(* Both ends of the channel are open and the stage is being filled.      *)
Linked == chan.s /\ chan.r /\ rcv.state = "receiving"

(* The manifest travels alone; then its answer says where to go on.      *)
ManifestFits ==
  Linked /\ snd.state = "sending_manifest" =>
    /\ \A i \in 1..Len(chan.toR) : chan.toR[i].type = "manifest"
    /\ chan.toR # <<>> => \A i \in 1..Len(chan.toS) : chan.toS[i].type # "manifest_ack"
    /\ Len(chan.toR) <= 1
    /\ \A i \in 1..Len(chan.toS) : chan.toS[i].type = "manifest_ack" =>
         chan.toS[i].durable = Len(stage.data)

(* What the sender has read is in the stage or in flight.                *)
ReadFits ==
  Linked /\ snd.state = "transferring" =>
    /\ \A i \in 1..Len(chan.toR) : chan.toR[i].type = "payload"
    /\ ~chan.dead => Len(snd.read) = Len(stage.data) + Len(chan.toR)

ManifestIsFirst ==
  Linked /\ snd.state = "finalizing" =>
    \A i \in 1..Len(chan.toR) : chan.toR[i].type # "manifest"

ChannelInv ==
  /\ SenderHolds /\ DeadIsEmpty /\ WaitsCheckpointed /\ ManifestFits /\ ReadFits
  /\ ManifestIsFirst /\ FramesContinueStage

(* Replies whose acknowledgements claim no more than d as durable.       *)
KnownReplies(d) == {f \in Replies : f.type = "ack" => f.durable <= d}

(* The sender's journal and what is on its way to it are not ahead of    *)
(* the receiver's journal.  The receiver drops its journal with a purge, *)
(* or when it finds that the item is published already.                  *)
ProgressKnown == sj.durable <= rj.durable /\ chan.toS \in Seq(KnownReplies(rj.durable))
ProgressFits ==
  /\ ~Exists(rj) => rj.durable = 0
  /\ ~hist.purged => (row.state = "published" /\ ~Exists(rj)) \/ ProgressKnown

----------------------------------------------------------------------------
(* The sender's record of the receiver's progress *)

(* What the receiver's journal may claim only grows.                     *)
LEMMA KnownMore ==
  ASSUME NEW d \in Nat, NEW e \in Nat, d <= e
  PROVE  Seq(KnownReplies(d)) \subseteq Seq(KnownReplies(e))
<1>1. KnownReplies(d) \subseteq KnownReplies(e)
  <2> SUFFICES ASSUME NEW f \in Replies, f.type = "ack", f.durable <= d
               PROVE  f.durable <= e
    BY DEF KnownReplies
  <2>1. f.durable \in Nat
    BY FrameFields
  <2> QED
    BY <2>1
<1> QED
  BY <1>1, SeqMonotonic

(* A commit that changes the state keeps the durable offset and the file.*)
LEMMA EnteredKeeps ==
  ASSUME NEW j \in Journals, NEW state \in JournalStates
  PROVE  /\ Entered(j, state).durable = j.durable
         /\ Exists(Entered(j, state)) <=> Exists(j)
BY DEF Entered, CanEnter, Exists, Journals, JournalStates

(* A failure and a disconnect keep the sender's record.                  *)
LEMMA DropKeepsRecord ==
  ASSUME TypeOK, Failed \/ Disconnected
  PROVE  sj'.durable = sj.durable
<1>1. CASE Failed
  BY <1>1, EnteredKeeps DEF Failed, TypeOK, JournalStates
<1>2. CASE Disconnected
  <2> DEFINE waiting == IF CanEnter(sj, "waiting_reconnect")
                          THEN [sj EXCEPT !.state = "waiting_reconnect", !.retry = @ + 1]
                          ELSE sj
  <2>1. waiting \in Journals /\ waiting.durable = sj.durable
    <3>1. sj \in Journals /\ "waiting_reconnect" \in JournalStates
      BY DEF TypeOK, JournalStates
    <3>2. sj.retry + 1 \in Nat
      BY <3>1 DEF Journals
    <3>3. \A s \in JournalStates, n \in Nat :
            /\ [sj EXCEPT !.state = s, !.retry = n] \in Journals
            /\ [sj EXCEPT !.state = s, !.retry = n].durable = sj.durable
      BY <3>1 DEF Journals
    <3> QED
      BY <3>1, <3>2, <3>3
  <2>2. sj' = waiting \/ sj' = Entered(waiting, "failed")
    BY <1>2 DEF Disconnected
  <2> QED
    BY <2>1, <2>2, EnteredKeeps DEF JournalStates
<1> QED
  BY <1>1, <1>2

(* The sender starts its record anew or keeps it, unless an              *)
(* acknowledgement arrives.                                              *)
LEMMA RecordStep ==
  ASSUME TypeOK,
         SenderWorker \/ SenderControl \/ SenderTimers \/ SenderFaults \/ Environment
  PROVE  sj'.durable \in {0, sj.durable}
<1>1. NoJournal.durable = 0 /\ NewJournal.durable = 0
  BY DEF NoJournal, NewJournal
<1>2. \A state \in JournalStates : Entered(sj, state).durable = sj.durable
  BY EnteredKeeps DEF TypeOK
<1>3. CASE UNCHANGED sj \/ Failed \/ Disconnected
           \/ \E state \in JournalStates : sj' = Entered(sj, state)
  BY <1>2, <1>3, DropKeepsRecord
<1>4. CASE \/ Offer \/ CreateJournal \/ OfferRejected \/ SourceDone \/ AskResume \/ ResumeLate
           \/ ResumeAccepted \/ CancelRequest \/ DeliverAccept \/ DeliverReject
           \/ DeliverCancel \/ DeliverCancelAck \/ CancelAckTimeout \/ SendChunk
           \/ ChannelReset \/ LinkDrop \/ Edit
  BY <1>1, <1>4
  DEF Offer, CreateJournal, OfferRejected, SourceDone, AskResume, ResumeLate, ResumeAccepted,
      CancelRequest, DeliverAccept, DeliverReject, DeliverCancel, DeliverCancelAck,
      CancelAckTimeout, SendChunk, ChannelReset, LinkDrop, Edit
<1>5. CASE EnterAccepted \/ DialOpen \/ FinishSend \/ TakeCompleteAck \/ TakeManifestAck
           \/ SenderCrash \/ SenderStop
  BY <1>3, <1>5
  DEF EnterAccepted, DialOpen, FinishSend, TakeCompleteAck, TakeManifestAck, SenderCrash,
      SenderStop, JournalStates
<1>6. CASE \/ DialRefused \/ SourceChanged \/ LoseChannel \/ ResumeRejected \/ PreflightTimeout
           \/ DialLost \/ DialAckLost \/ SenderTimeout \/ BaselineAborted \/ GiveUp
  BY <1>3, <1>6
  DEF DialRefused, SourceChanged, LoseChannel, ResumeRejected, PreflightTimeout, DialLost,
      DialAckLost, SenderTimeout, BaselineAborted, GiveUp
<1>7. CASE EnterCancelled
  BY <1>1, <1>2, <1>7 DEF EnterCancelled, JournalStates
<1>8. CASE LinkUp
  <2>1. \A j \in Journals : [j EXCEPT !.retry = @ + 1].durable = j.durable
    BY DEF Journals
  <2>2. Entered(sj, "waiting_reconnect") \in Journals
    BY JournalType DEF TypeOK, JournalStates
  <2> QED
    BY <1>1, <1>2, <1>8, <2>1, <2>2 DEF LinkUp, RestoredSender, JournalStates
<1> QED
  BY <1>4, <1>5, <1>6, <1>7, <1>8
  DEF SenderWorker, SenderControl, SenderTimers, SenderFaults, Environment

(* What a step of the receiver does to its journal: it keeps it, with no *)
(* less progress than before; it purges it; it drops it because the item *)
(* is there; or it starts one for an item that is not.                   *)
JournalKept ==
  /\ (Exists(rj') <=> Exists(rj)) /\ hist' = hist
  /\ rj'.durable >= rj.durable
  /\ ~Exists(rj) => rj'.durable = rj.durable
JournalPurged == rj' = NoJournal /\ hist'.purged
JournalDropped == rj' = NoJournal /\ hist' = hist /\ row.state = "published"
JournalBegun ==
  rj' = NewJournal /\ hist' = hist /\ ~Exists(rj) /\ row.state # "published"

(* A pause commits all the bytes of the stage, which are no fewer than   *)
(* the journal held.                                                     *)
LEMMA PauseKeeps ==
  ASSUME TypeOK, StageInv, NEW wait \in Waits
  PROVE  /\ (Exists(PausedJournal(wait)) <=> Exists(rj))
         /\ PausedJournal(wait).durable >= rj.durable
         /\ ~Exists(rj) => PausedJournal(wait).durable = rj.durable
<1>1. rj.durable \in Nat /\ Len(stage.data) \in Nat /\ stage.synced \in Nat
  BY StageFieldType DEF TypeOK, Journals, Stages
<1>2. CASE CanEnter(rj, wait)
  <2>1. rj.state # "completed" /\ Exists(rj)
    BY <1>2 DEF CanEnter, Exists, Transitions, Waits, Exits
  <2>2. rj.durable <= Len(stage.data)
    BY <1>1, <2>1 DEF StageInv, DurableIsOnDisk
  <2>3. PausedJournal(wait).state = wait /\ PausedJournal(wait).durable = Len(stage.data)
    BY <1>2 DEF PausedJournal, TypeOK, Journals
  <2>4. Exists(PausedJournal(wait))
    BY <2>3 DEF Exists, Waits
  <2> QED
    BY <1>1, <2>1, <2>2, <2>3, <2>4
<1>3. CASE ~CanEnter(rj, wait)
  BY <1>1, <1>3 DEF PausedJournal
<1> QED
  BY <1>2, <1>3

LEMMA SuspendKeeps ==
  ASSUME TypeOK, StageInv
  PROVE  /\ (Exists(SuspendedJournal) <=> Exists(rj))
         /\ SuspendedJournal.durable >= rj.durable
         /\ ~Exists(rj) => SuspendedJournal.durable = rj.durable
<1>1. rj.durable \in Nat
  BY DEF TypeOK, Journals
<1> QED
  BY <1>1, PauseKeeps DEF SuspendedJournal, Waits

(* Every step of the receiver does one of the four.                      *)
LEMMA JournalStep ==
  ASSUME TypeOK, StageInv, FirstContact,
         ReceiverControl \/ ReceiverChannel \/ ReceiverTimers \/ ReceiverFaults
  PROVE  JournalKept \/ JournalPurged \/ JournalDropped \/ JournalBegun
<1>1. rj.durable \in Nat /\ rj \in Journals
  BY DEF TypeOK, Journals
<1>2. ASSUME UNCHANGED <<rj, hist>>
      PROVE  JournalKept
  BY <1>1, <1>2 DEF JournalKept, Exists
<1>3. ASSUME NEW state \in JournalStates, rj' = Entered(rj, state), hist' = hist
      PROVE  JournalKept
  BY <1>1, <1>3, EnteredKeeps DEF JournalKept
<1>4. ASSUME NEW wait \in Waits, rj' = PausedJournal(wait), hist' = hist
      PROVE  JournalKept
  BY <1>1, <1>4, PauseKeeps DEF JournalKept
<1>5. ASSUME rj' = SuspendedJournal, hist' = hist
      PROVE  JournalKept
  BY <1>1, <1>5, SuspendKeeps DEF JournalKept
<1>6. CASE HandleOffer
  <2>1. CASE rcv.state # "none" \/ Exists(rj) \/ stage.dir
    BY <1>2, <1>6, <2>1 DEF HandleOffer
  <2>2. CASE ~(rcv.state # "none" \/ Exists(rj) \/ stage.dir)
    <3>1. row.state = "absent"
      BY <1>6 DEF HandleOffer, FirstContact, Untouched
    <3> QED
      BY <1>6, <2>2, <3>1 DEF HandleOffer, AcceptFresh, JournalBegun
  <2> QED
    BY <2>1, <2>2
<1>7. CASE HandleResume
  <2>1. CASE TransferTerminal
    BY <1>2, <1>7, <2>1 DEF HandleResume
  <2>2. CASE ~TransferTerminal /\ Unavailable(SuspendedJournal)
    BY <1>5, <1>7, <2>2 DEF HandleResume
  <2>3. CASE ~TransferTerminal /\ ~Unavailable(SuspendedJournal) /\ RowRegresses
    BY <1>7, <2>3 DEF HandleResume, RowRegresses, JournalDropped
  <2>4. CASE /\ ~TransferTerminal /\ ~Unavailable(SuspendedJournal) /\ ~RowRegresses
             /\ Exists(SuspendedJournal)
    <3>1. rj' = ReopenedJournal(SuspendedJournal) /\ hist' = hist
      BY <1>7, <2>4 DEF HandleResume
    <3>2. SuspendedJournal \in Journals
      BY SuspendedType
    <3>3. /\ rj'.durable = SuspendedJournal.durable
          /\ (Exists(rj') <=> Exists(SuspendedJournal))
      BY <3>1, <3>2 DEF ReopenedJournal, Journals, Exists
    <3> QED
      BY <3>1, <3>3, SuspendKeeps DEF JournalKept
  <2>5. CASE /\ ~TransferTerminal /\ ~Unavailable(SuspendedJournal) /\ ~RowRegresses
             /\ ~Exists(SuspendedJournal)
    BY <1>7, <2>5, SuspendKeeps DEF HandleResume, AcceptFresh, JournalBegun, RowRegresses
  <2> QED
    BY <2>1, <2>2, <2>3, <2>4, <2>5
<1>8. CASE ReceiveChunk
  <2>1. CASE ProtocolFailure
    BY <1>3, <1>8, <2>1 DEF ReceiveChunk, ProtocolFailure, JournalStates
  <2>2. CASE WriteChunk(Head(chan.toR))
    <3> DEFINE written == [stage EXCEPT !.data = Append(@, Head(chan.toR).byte)]
    <3>1. rj' = rj \/ rj' = Checkpointed(rj, written)
      BY <2>2 DEF WriteChunk
    <3>2. hist' = hist
      BY <1>8 DEF ReceiveChunk
    <3>3. CASE rj' = Checkpointed(rj, written) /\ CanEnter(rj, "transferring")
      <4>1. rj.state # "completed" /\ Exists(rj)
        BY <3>3 DEF CanEnter, Exists, Transitions, Waits, Exits
      <4>2. /\ rj.durable <= Len(stage.data) /\ Len(stage.data) \in Nat
            /\ stage.data \in Seq(Bytes)
        <5>1. Len(stage.data) \in Nat /\ stage.synced \in Nat /\ stage.data \in Seq(Bytes)
          BY StageFieldType DEF TypeOK, Stages
        <5> QED
          BY <1>1, <4>1, <5>1 DEF StageInv, DurableIsOnDisk
      <4>3. written.data = Append(stage.data, Head(chan.toR).byte)
        BY DEF TypeOK, Stages
      <4>4. Len(written.data) = Len(stage.data) + 1
        BY <4>2, <4>3, LenProperties, AppendProperties
      <4> HIDE DEF written
      <4>5. rj'.durable = Len(written.data) /\ rj'.state = "transferring"
        BY <1>1, <3>3 DEF Checkpointed, Journals
      <4>6. Exists(rj')
        BY <4>5 DEF Exists
      <4> QED
        BY <1>1, <3>2, <4>1, <4>2, <4>4, <4>5, <4>6 DEF JournalKept
    <3>4. CASE rj' = rj \/ ~CanEnter(rj, "transferring")
      BY <1>2, <3>1, <3>2, <3>4 DEF Checkpointed
    <3> QED
      BY <3>1, <3>3, <3>4
  <2> QED
    BY <1>8, <2>1, <2>2 DEF ReceiveChunk
<1>9. CASE ReceiverCancel
  <2>1. rj' = Entered(SuspendedJournal, "cancelled") /\ hist' = hist
    BY <1>9 DEF ReceiverCancel
  <2>2. SuspendedJournal \in Journals
    BY SuspendedType
  <2>3. rj'.durable = SuspendedJournal.durable /\ (Exists(rj') <=> Exists(SuspendedJournal))
    BY <2>1, <2>2, EnteredKeeps DEF JournalStates
  <2> QED
    BY <2>1, <2>3, SuspendKeeps DEF JournalKept
<1>10. CASE StoreVerified
  <2>1. rj'.durable = rj.durable /\ rj'.state = rj.state /\ hist' = hist
    BY <1>1, <1>10 DEF StoreVerified, Journals
  <2> QED
    BY <1>1, <2>1 DEF JournalKept, Exists
<1>11. CASE \/ RefuseOffer \/ ResumeOvertakesFinalize \/ ReceiveManifest \/ PollAck
            \/ RenameNext \/ CommitItem \/ Prune
  BY <1>2, <1>11 DEF RefuseOffer, ResumeOvertakesFinalize, ReceiveManifest, PollAck,
                     RenameNext, CommitItem, Prune
<1>12. CASE RefuseResume
  BY <1>5, <1>12 DEF RefuseResume
<1>13. CASE ReceiveFails \/ ReceiveComplete \/ CompletePublication \/ FinalizeFails
  <2>1. hist' = hist /\ (rj' = rj \/ \E state \in JournalStates : rj' = Entered(rj, state))
    BY <1>13 DEF ReceiveFails, ReceiveComplete, CompletePublication, FinalizeFails, JournalStates
  <2> QED
    BY <1>2, <1>3, <2>1
<1>14. CASE ChannelEnds \/ ReceiverStop \/ ReceiverCrash
  <2>1. hist' = hist /\ (rj' = rj \/ \E wait \in Waits : rj' = PausedJournal(wait))
    BY <1>14 DEF ChannelEnds, ReceiverStop, ReceiverCrash, ReceiverGone, Waits
  <2> QED
    BY <1>2, <1>4, <2>1
<1>15. CASE ReceiverTimeout
  <2>1. \/ Purge
        \/ hist' = hist /\ (\/ rj' = rj \/ rj' = PausedJournal("paused")
                            \/ rj' = Entered(rj, "failed"))
    BY <1>15 DEF ReceiverTimeout
  <2>2. Purge => JournalPurged
    BY DEF Purge, JournalPurged, PurgedHist, TypeOK
  <2> QED
    BY <1>2, <1>3, <1>4, <2>1, <2>2 DEF Waits, JournalStates
<1>16. CASE CancelFromPeer \/ CancelAcknowledged
  <2>1. UNCHANGED <<rj, hist>> \/ (rj' = NoJournal /\ hist' = PurgedHist)
    BY <1>16 DEF CancelFromPeer, CancelAcknowledged
  <2> QED
    BY <1>2, <2>1 DEF JournalPurged, PurgedHist, TypeOK
<1> QED
  BY <1>6, <1>7, <1>8, <1>9, <1>10, <1>11, <1>12, <1>13, <1>14, <1>15, <1>16
  DEF ReceiverControl, ReceiverChannel, ReceiverTimers, ReceiverFaults

(* Every step keeps ProgressFits.                                        *)
LEMMA ProgressStep ==
  ASSUME IndInv, IndInv', StageInv, ProgressFits, [Next]_vars
  PROVE  ProgressFits'
<1>1. /\ TypeOK /\ FirstContact /\ ContentFlow
      /\ rj.durable \in Nat /\ rj'.durable \in Nat /\ sj.durable \in Nat /\ sj'.durable \in Nat
      /\ chan \in Channels
  BY DEF IndInv, TypeOK, Journals
<1>2. row.state = "published" => row'.state = "published"
  BY <1>1, RowStep
<1>3. CASE UNCHANGED vars
  BY <1>3 DEF vars, ProgressFits, ProgressKnown, Exists
<1>4. CASE SenderWorker \/ SenderReader \/ SenderControl \/ SenderTimers \/ SenderFaults
             \/ Environment
  <2>1. UNCHANGED <<rj, hist>>
    BY <1>4
    DEF SenderWorker, SenderReader, SenderControl, SenderTimers, SenderFaults, Environment,
        Offer, CreateJournal, EnterAccepted, OfferRejected, DialOpen, DialRefused,
        TakeManifestAck, SendChunk, SourceChanged, SourceDone, FinishSend, TakeCompleteAck,
        LoseChannel, AskResume, ResumeAccepted, ResumeRejected, EnterCancelled, TakeAck,
        DeliverAccept, DeliverReject, DeliverCancel, DeliverCancelAck, PreflightTimeout,
        ResumeLate, CancelAckTimeout, DialLost, DialAckLost, SenderTimeout, BaselineAborted,
        GiveUp, CancelRequest, SenderCrash, SenderStop, SenderGone, ChannelReset, LinkDrop,
        LinkUp, Edit, receiverVars
  <2>2. ASSUME ProgressKnown
        PROVE  ProgressKnown'
    <3>1. chan'.toS \in Seq(KnownReplies(rj.durable))
      BY <1>1, <1>4, <2>2, RepliesSender DEF ProgressKnown
    <3>2. CASE TakeAck
      <4>1. chan.toS # <<>> /\ Head(chan.toS).type = "ack"
        BY <3>2 DEF TakeAck, FrameAtSender
      <4>2. Head(chan.toS) \in KnownReplies(rj.durable)
        BY <2>2, <4>1, QueueType DEF ProgressKnown
      <4>3. Head(chan.toS).durable <= rj.durable /\ Head(chan.toS).durable \in Nat
        BY <4>1, <4>2, FrameFields DEF KnownReplies
      <4>4. sj'.durable \in {sj.durable, Head(chan.toS).durable}
        BY <1>1, <3>2 DEF TakeAck, TypeOK, Journals
      <4> QED
        BY <1>1, <2>1, <2>2, <3>1, <4>3, <4>4 DEF ProgressKnown
    <3>3. CASE SenderWorker \/ SenderControl \/ SenderTimers \/ SenderFaults \/ Environment
      <4>1. sj'.durable <= rj.durable
        BY <1>1, <2>2, <3>3, RecordStep DEF ProgressKnown
      <4> QED
        BY <2>1, <3>1, <4>1 DEF ProgressKnown
    <3> QED
      BY <1>4, <3>2, <3>3 DEF SenderReader
  <2> QED
    BY <1>2, <2>1, <2>2 DEF ProgressFits, Exists
<1>5. CASE ReceiverControl \/ ReceiverChannel \/ ReceiverTimers \/ ReceiverFaults
  <2>1. sj' = sj
    BY <1>5
    DEF ReceiverControl, ReceiverChannel, ReceiverTimers, ReceiverFaults, HandleOffer,
        ResumeOvertakesFinalize, HandleResume, CancelFromPeer, CancelAcknowledged,
        ReceiveManifest, ReceiveChunk, PollAck, ChannelEnds, ReceiveComplete, RenameNext,
        StoreVerified, CommitItem, CompletePublication, ReceiverTimeout, Prune, RefuseOffer,
        RefuseResume, ReceiveFails, FinalizeFails, ReceiverCancel, ReceiverStop, ReceiverCrash,
        ReceiverGone, senderVars
  <2>2. ASSUME ProgressKnown, rj'.durable >= rj.durable
        PROVE  ProgressKnown'
    <3> DEFINE S == KnownReplies(rj'.durable)
    <3>1. chan.toS \in Seq(S)
      BY <1>1, <2>2, KnownMore DEF ProgressKnown
    <3>2. /\ \A d \in Nat : [type |-> "manifest_ack", durable |-> d] \in S
          /\ \A p \in Nat : [type |-> "ack", pos |-> p, durable |-> rj'.durable] \in S
          /\ \A ok \in BOOLEAN : CompleteAck(ok) \in S
      BY <1>1, FrameType DEF KnownReplies, CompleteAck
    <3> HIDE DEF S
    <3>3. chan'.toS \in Seq(S)
      BY <1>1, <1>5, <3>1, <3>2, RepliesReceiver
    <3>4. sj'.durable <= rj'.durable
      BY <1>1, <2>1, <2>2 DEF ProgressKnown
    <3> QED
      BY <3>3, <3>4 DEF ProgressKnown, S
  <2>3. CASE JournalKept
    BY <1>2, <2>2, <2>3, <1>1 DEF JournalKept, ProgressFits
  <2>4. CASE JournalPurged
    BY <2>4 DEF JournalPurged, ProgressFits, NoJournal, Exists
  <2>5. CASE JournalDropped
    BY <1>2, <2>5 DEF JournalDropped, ProgressFits, NoJournal, Exists
  <2>6. CASE JournalBegun
    <3>1. rj.durable = 0 /\ rj'.durable = 0 /\ rj'.state = "created"
      BY <2>6 DEF JournalBegun, ProgressFits, NewJournal, NoJournal
    <3> QED
      BY <2>2, <2>6, <3>1 DEF JournalBegun, ProgressFits, Exists
  <2> QED
    BY <1>1, <1>5, <2>3, <2>4, <2>5, <2>6, JournalStep
<1> QED
  BY <1>3, <1>4, <1>5 DEF Next

----------------------------------------------------------------------------
(* The payload in flight *)

(* What is left of a queue when its head is taken.                       *)
LEMMA TailOf ==
  ASSUME NEW S, NEW q \in Seq(S), q # <<>>
  PROVE  /\ Tail(q) \in Seq(S) /\ Len(Tail(q)) = Len(q) - 1 /\ Head(q) = q[1] /\ 1 \in 1..Len(q)
         /\ \A i \in 1..Len(Tail(q)) : i + 1 \in 1..Len(q) /\ Tail(q)[i] = q[i + 1]
BY HeadTailProperties, EmptySeq, LenProperties

(* One more on either side.                                              *)
LEMMA OneMore == \A a, b \in Nat : (a + b) + 1 = a + (b + 1)
OBVIOUS

(* A queue with one more element.                                        *)
LEMMA AppendOf ==
  ASSUME NEW S, NEW q \in Seq(S), NEW x \in S
  PROVE  /\ Append(q, x) \in Seq(S) /\ Len(Append(q, x)) = Len(q) + 1
         /\ \A i \in 1..Len(q) : Append(q, x)[i] = q[i]
         /\ Append(q, x)[Len(q) + 1] = x
BY AppendProperties

(* What each operation does to the parts of a channel.                   *)
LEMMA ChannelParts ==
  ASSUME NEW c \in Channels
  PROVE  /\ ~CloseS(c).s /\ CloseS(c).r = c.r
         /\ CloseS(c).dead => c.dead /\ CloseS(c).toR = c.toR
         /\ ~CloseR(c).r /\ CloseR(c).s = c.s /\ CloseR(c).toR = <<>>
         /\ TakeS(c) = [c EXCEPT !.toS = Tail(c.toS)]
         /\ TakeR(c) = [c EXCEPT !.toR = Tail(c.toR)]
         /\ \A f : PutS(c, f) = c \/ PutS(c, f) = [c EXCEPT !.toS = Append(c.toS, f)]
         /\ \A f : PutR(c, f) = IF c.r /\ ~c.dead THEN [c EXCEPT !.toR = Append(c.toR, f)] ELSE c
BY DEF Channels, CloseS, CloseR, TakeS, TakeR, PutS, PutR, Closed

(* What taking and sending a frame leave as it was, and what they change. *)
LEMMA ChannelFields ==
  ASSUME NEW c \in Channels
  PROVE  /\ TakeS(c).s = c.s /\ TakeS(c).r = c.r /\ TakeS(c).dead = c.dead
         /\ TakeS(c).toR = c.toR /\ TakeS(c).toS = Tail(c.toS)
         /\ TakeR(c).s = c.s /\ TakeR(c).r = c.r /\ TakeR(c).dead = c.dead
         /\ TakeR(c).toS = c.toS /\ TakeR(c).toR = Tail(c.toR)
         /\ \A f : /\ PutS(c, f).s = c.s /\ PutS(c, f).r = c.r /\ PutS(c, f).dead = c.dead
                   /\ PutS(c, f).toR = c.toR
                   /\ PutS(c, f).toS = c.toS \/ PutS(c, f).toS = Append(c.toS, f)
         /\ \A f : /\ PutR(c, f).s = c.s /\ PutR(c, f).r = c.r /\ PutR(c, f).dead = c.dead
                   /\ PutR(c, f).toS = c.toS
                   /\ PutR(c, f).toR = IF c.r /\ ~c.dead THEN Append(c.toR, f) ELSE c.toR
BY DEF Channels, TakeS, TakeR, PutS, PutR

(* Nothing moves on the channel.                                         *)
LEMMA ChannelIdle ==
  ASSUME ChannelInv, UNCHANGED <<chan, rj, stage>>, rcv'.state = rcv.state,
         chan.s => snd'.state = snd.state /\ snd'.read = snd.read
  PROVE  ChannelInv'
BY DEF ChannelInv, SenderHolds, DeadIsEmpty, WaitsCheckpointed, Linked, ManifestFits, ReadFits,
       ManifestIsFirst, FramesContinueStage

(* The sender lets go of the channel.                                    *)
LEMMA SenderLetsGo ==
  ASSUME TypeOK, ChannelInv, chan' = CloseS(chan), UNCHANGED <<rcv, rj, stage>>
  PROVE  ChannelInv'
<1>1. /\ ~chan'.s /\ chan'.r = chan.r
      /\ chan'.dead => chan.dead /\ chan'.toR = chan.toR
  BY ChannelParts DEF TypeOK
<1> QED
  BY <1>1 DEF ChannelInv, SenderHolds, DeadIsEmpty, WaitsCheckpointed, Linked, ManifestFits,
              ReadFits, ManifestIsFirst, FramesContinueStage

(* The receiver's session stops receiving.                               *)
LEMMA StopsReceiving ==
  ASSUME ChannelInv, rcv'.state # "receiving", UNCHANGED snd,
         chan'.s => chan.s, chan'.dead => chan'.toR = <<>>
  PROVE  ChannelInv'
BY DEF ChannelInv, SenderHolds, DeadIsEmpty, WaitsCheckpointed, Linked, ManifestFits, ReadFits,
       ManifestIsFirst, FramesContinueStage

(* The receiver starts to receive, before any channel is attached.       *)
LEMMA StartsReceiving ==
  ASSUME ChannelInv, UNCHANGED snd, rj'.durable = Len(stage'.data), ~chan'.r,
         chan'.s => chan.s, chan'.dead => chan'.toR = <<>>
  PROVE  ChannelInv'
BY DEF ChannelInv, SenderHolds, DeadIsEmpty, WaitsCheckpointed, Linked, ManifestFits, ReadFits,
       ManifestIsFirst, FramesContinueStage

(* The sender's steps that leave the channel alone.                      *)
LEMMA ChannelUntouched ==
  ASSUME TypeOK, ChannelInv,
         \/ Offer \/ CreateJournal \/ EnterAccepted \/ OfferRejected \/ PreflightTimeout
         \/ DialRefused \/ DialLost \/ SourceDone \/ AskResume \/ ResumeLate
         \/ ResumeAccepted \/ ResumeRejected \/ GiveUp \/ SenderControl
         \/ CancelAckTimeout \/ CancelRequest \/ LinkDrop \/ LinkUp \/ Edit
  PROVE  ChannelInv'
<1>1. UNCHANGED <<chan, rj, stage, rcv>>
  BY DEF Offer, CreateJournal, EnterAccepted, OfferRejected, PreflightTimeout, DialRefused,
      DialLost, SourceDone, AskResume, ResumeLate, ResumeAccepted, ResumeRejected, GiveUp,
      SenderControl, DeliverAccept, DeliverReject, DeliverCancel, DeliverCancelAck,
      CancelAckTimeout, CancelRequest, LinkDrop, LinkUp, Edit, receiverVars
<1>2. chan.s => snd.state \in {"sending_manifest", "transferring", "finalizing"}
  BY DEF ChannelInv, SenderHolds
<1>3. chan.s => snd'.state = snd.state /\ snd'.read = snd.read
  <2>1. CASE \/ Offer \/ EnterAccepted \/ OfferRejected \/ PreflightTimeout \/ DialRefused
             \/ DialLost \/ AskResume \/ ResumeLate \/ ResumeAccepted \/ ResumeRejected \/ GiveUp
             \/ CancelAckTimeout
    BY <1>2, <2>1
    DEF Offer, EnterAccepted, OfferRejected, PreflightTimeout, DialRefused, DialLost, AskResume,
        ResumeLate, ResumeAccepted, ResumeRejected, GiveUp, CancelAckTimeout, Working
  <2>2. CASE CreateJournal \/ LinkDrop \/ Edit
    BY <2>2 DEF CreateJournal, LinkDrop, Edit
  <2>3. CASE SourceDone \/ CancelRequest \/ DeliverAccept \/ DeliverReject
    BY <2>3 DEF SourceDone, CancelRequest, DeliverAccept, DeliverReject, TypeOK, Senders
  <2>4. CASE DeliverCancel \/ DeliverCancelAck
    BY <1>2, <2>4 DEF DeliverCancel, DeliverCancelAck, SenderTerminal, TypeOK, Senders
  <2>5. CASE LinkUp
    BY <1>2, <2>5 DEF LinkUp, RestoredSender, Pruned, SenderTerminal
  <2> QED
    BY <2>1, <2>2, <2>3, <2>4, <2>5 DEF SenderControl
<1> QED
  BY <1>1, <1>3, ChannelIdle

(* A channel is attached.                                                *)
LEMMA ChannelAttached ==
  ASSUME TypeOK, ChannelInv, DialOpen \/ DialAckLost
  PROVE  ChannelInv'
<1>1. /\ rcv.state = "receiving" /\ ~chan.r /\ rcv'.state = "receiving"
      /\ UNCHANGED <<rj, stage>>
  BY DEF DialOpen, DialAckLost, ChannelAdmitted, TypeOK, Receivers
<1>2. rj'.durable = Len(stage'.data)
  BY <1>1 DEF ChannelInv, WaitsCheckpointed
<1>3. CASE DialOpen
  <2>1. /\ chan'.s /\ chan'.r /\ ~chan'.dead /\ chan'.toR = <<[type |-> "manifest"]>>
        /\ chan'.toS = <<>> /\ snd'.state = "sending_manifest"
    BY <1>3 DEF DialOpen, Closed, SenderIn, NewSender, SenderTerminal
  <2>2. /\ Len(chan'.toR) = 1 /\ Len(chan'.toS) = 0
        /\ \A i \in 1..Len(chan'.toR) : chan'.toR[i].type = "manifest"
    BY <2>1
  <2>3. ManifestFits'
    BY <2>1, <2>2 DEF ManifestFits
  <2>4. FramesContinueStage'
    BY <2>2 DEF FramesContinueStage
  <2> QED
    BY <1>2, <2>1, <2>3, <2>4
    DEF ChannelInv, SenderHolds, DeadIsEmpty, WaitsCheckpointed, ReadFits, ManifestIsFirst
<1>4. CASE DialAckLost
  <2>1. ~chan'.s /\ chan'.r /\ ~chan'.dead
    BY <1>4 DEF DialAckLost, Closed
  <2> QED
    BY <2>1 DEF ChannelInv, SenderHolds, DeadIsEmpty, WaitsCheckpointed, Linked, ManifestFits,
                ReadFits, ManifestIsFirst, FramesContinueStage
<1> QED
  BY <1>3, <1>4

(* The sender goes on where the receiver's answer says, reads on, and    *)
(* takes acknowledgements.                                               *)
LEMMA ChannelSending ==
  ASSUME TypeOK, ChannelInv, TakeManifestAck \/ SendChunk \/ FinishSend \/ TakeAck
  PROVE  ChannelInv'
<1>1. UNCHANGED <<rcv, rj, stage>>
  BY DEF TakeManifestAck, SendChunk, FinishSend, TakeAck, receiverVars
<1>2. /\ chan \in Channels /\ chan.toR \in Seq(Frames) /\ chan.toS \in Seq(Replies)
      /\ Len(stage.data) \in Nat /\ Len(chan.toR) \in Nat
      /\ Len(snd.read) \in Nat /\ Len(<<>>) = 0
  BY StageFieldType, SenderFieldType, LenProperties DEF TypeOK, Channels
<1>3. CASE TakeManifestAck /\ chan' = CloseS(chan)
  BY <1>1, <1>3, SenderLetsGo
<1>4. CASE TakeManifestAck /\ chan' # CloseS(chan)
  <2> DEFINE durable == Head(chan.toS).durable
  <2>1. /\ chan.s /\ chan.toS # <<>> /\ Head(chan.toS).type = "manifest_ack"
        /\ snd.state = "sending_manifest" /\ chan' = TakeS(chan)
        /\ snd' = [SenderIn("transferring") EXCEPT
                            !.read = [p \in 1..durable |-> Source], !.acked = durable]
    BY <1>4 DEF TakeManifestAck, FrameAtSender, Working
  <2>2. Head(chan.toS) = chan.toS[1] /\ 1 \in 1..Len(chan.toS) /\ durable \in Nat
    BY <1>2, <2>1, TailOf, QueueType, FrameFields
  <2>3. snd'.state = "transferring" /\ snd'.read = [p \in 1..durable |-> Source]
    BY <2>1 DEF SenderIn, NewSender, SenderTerminal
  <2>4. chan'.s = chan.s /\ chan'.r = chan.r /\ chan'.dead = chan.dead /\ chan'.toR = chan.toR
    BY <1>2, <2>1, ChannelFields
  <2>5. Linked => chan.toR = <<>> /\ durable = Len(stage.data)
    BY <2>1, <2>2 DEF ChannelInv, ManifestFits
  <2>6. Len([p \in 1..durable |-> Source]) = durable
    BY <2>2
  <2>7. ReadFits'
    <3> SUFFICES ASSUME Linked'
                 PROVE  /\ \A i \in 1..Len(chan'.toR) : chan'.toR[i].type = "payload"
                        /\ Len(snd'.read) = Len(stage'.data) + Len(chan'.toR)
      BY DEF ReadFits
    <3>1. Linked
      BY <1>1, <2>4 DEF Linked
    <3>2. chan'.toR = <<>> /\ Len(chan'.toR) = 0
      BY <1>2, <2>4, <2>5, <3>1
    <3>3. Len(snd'.read) = Len(stage.data)
      BY <2>3, <2>5, <2>6, <3>1
    <3>4. Len(stage'.data) = Len(stage.data)
      BY <1>1
    <3> QED
      BY <1>2, <3>2, <3>3, <3>4
  <2>8. FramesContinueStage'
    BY <1>1, <1>2, <2>4 DEF FramesContinueStage, ChannelInv
  <2> HIDE DEF durable
  <2> QED
    BY <1>1, <2>3, <2>4, <2>7, <2>8
    DEF ChannelInv, SenderHolds, DeadIsEmpty, WaitsCheckpointed, ManifestFits, ManifestIsFirst
<1>5. CASE SendChunk
  <2> DEFINE f == [type |-> "payload", pos |-> Len(snd.read) + 1, byte |-> Source]
  <2>1. /\ snd.state = "transferring" /\ chan' = PutR(chan, f)
        /\ snd' = [snd EXCEPT !.read = Append(@, Source)]
    BY <1>5 DEF SendChunk, Working
  <2>2. snd'.state = "transferring" /\ snd'.read = Append(snd.read, Source)
    BY <2>1 DEF TypeOK, Senders
  <2>3. Len(snd'.read) = Len(snd.read) + 1
    BY <2>2, AppendProperties DEF TypeOK, Senders
  <2>4. f \in Frames /\ f.type = "payload" /\ f.pos = Len(snd.read) + 1
    <3>1. Source \in Bytes /\ Len(snd.read) + 1 \in Nat
      BY <1>2 DEF Source, Bytes
    <3> QED
      BY <3>1, FrameType
  <2> HIDE DEF f
  <2>5. /\ chan'.s = chan.s /\ chan'.r = chan.r /\ chan'.dead = chan.dead
        /\ chan'.toR = IF chan.r /\ ~chan.dead THEN Append(chan.toR, f) ELSE chan.toR
    BY <1>2, <2>1, ChannelFields
  <2>6. CASE chan.r /\ ~chan.dead
    <3>1. /\ Len(chan'.toR) = Len(chan.toR) + 1
          /\ \A i \in 1..Len(chan.toR) : chan'.toR[i] = chan.toR[i]
          /\ chan'.toR[Len(chan.toR) + 1] = f
      BY <1>2, <2>4, <2>5, <2>6, AppendOf
    <3>2. Linked' => Linked
      BY <1>1, <2>5 DEF Linked
    <3>3. \A i \in 1..Len(chan'.toR) :
             \/ i \in 1..Len(chan.toR) /\ chan'.toR[i] = chan.toR[i]
             \/ i = Len(chan.toR) + 1 /\ chan'.toR[i] = f
      BY <1>2, <3>1
    <3>4. Linked => /\ \A i \in 1..Len(chan.toR) : chan.toR[i].type = "payload"
                    /\ Len(snd.read) = Len(stage.data) + Len(chan.toR)
      BY <2>1, <2>6 DEF ChannelInv, ReadFits
    <3>5. Len(stage'.data) = Len(stage.data) /\ rcv'.state = rcv.state
      BY <1>1
    <3>6. ReadFits'
      <4>1. Linked' => \A i \in 1..Len(chan'.toR) : chan'.toR[i].type = "payload"
        BY <2>4, <3>2, <3>3, <3>4
      <4>2. Linked' => Len(snd'.read) = Len(stage'.data) + Len(chan'.toR)
        <5>1. Len(chan'.toR) = Len(chan.toR) + 1
          BY <3>1
        <5>2. Linked' => Len(snd.read) = Len(stage.data) + Len(chan.toR)
          BY <3>2, <3>4
        <5>3. Len(stage.data) \in Nat /\ Len(chan.toR) \in Nat
          BY <1>2
        <5>4. Len(stage'.data) = Len(stage.data)
          BY <3>5
        <5> QED
          BY <2>3, <5>1, <5>2, <5>3, <5>4, OneMore, Zenon
      <4> QED
        BY <4>1, <4>2 DEF ReadFits
    <3>7. FramesContinueStage'
      <4> SUFFICES ASSUME Linked', NEW i \in 1..Len(chan'.toR), chan'.toR[i].type = "payload"
                   PROVE  chan'.toR[i].pos = Len(stage'.data) + i
        BY DEF FramesContinueStage, Linked
      <4>1. CASE i \in 1..Len(chan.toR) /\ chan'.toR[i] = chan.toR[i]
        <5>1. chan.toR[i].pos = Len(stage.data) + i
          BY <3>2, <4>1 DEF ChannelInv, FramesContinueStage, Linked
        <5> QED
          BY <3>5, <4>1, <5>1
      <4>2. CASE i = Len(chan.toR) + 1 /\ chan'.toR[i] = f
        <5>1. Len(snd.read) = Len(stage.data) + Len(chan.toR)
          BY <3>2, <3>4
        <5>2. chan'.toR[i].pos = Len(snd.read) + 1
          BY <2>4, <4>2
        <5>3. Len(stage.data) \in Nat /\ Len(chan.toR) \in Nat
          BY <1>2
        <5>4. Len(stage'.data) = Len(stage.data)
          BY <3>5
        <5> QED
          BY <4>2, <5>1, <5>2, <5>3, <5>4, OneMore, Zenon
      <4> QED
        BY <3>3, <4>1, <4>2
    <3> QED
      BY <1>1, <2>1, <2>2, <2>5, <2>6, <3>6, <3>7
      DEF ChannelInv, SenderHolds, DeadIsEmpty, WaitsCheckpointed, ManifestFits, ManifestIsFirst
  <2>7. CASE ~(chan.r /\ ~chan.dead)
    <3>1. chan'.toR = chan.toR
      BY <2>5, <2>7
    <3>2. ReadFits'
      BY <1>1, <2>1, <2>5, <2>7, <3>1 DEF ReadFits, ChannelInv, Linked
    <3>3. FramesContinueStage'
      BY <1>1, <2>5, <3>1 DEF FramesContinueStage, ChannelInv
    <3> QED
      BY <1>1, <2>1, <2>2, <2>5, <3>1, <3>2, <3>3
      DEF ChannelInv, SenderHolds, DeadIsEmpty, WaitsCheckpointed, ManifestFits, ManifestIsFirst
  <2> QED
    BY <2>6, <2>7
<1>6. CASE FinishSend
  <2> DEFINE f == [type |-> "complete", content |-> snd.read]
  <2>1. snd.state = "transferring" /\ chan' = PutR(chan, f) /\ snd' = SenderIn("finalizing")
    BY <1>6 DEF FinishSend, Working
  <2>2. snd'.state = "finalizing"
    BY <2>1 DEF SenderIn, NewSender, SenderTerminal
  <2>3. f \in Frames /\ f.type = "complete"
    BY FrameType DEF TypeOK, Senders
  <2> HIDE DEF f
  <2>4. /\ chan'.s = chan.s /\ chan'.r = chan.r /\ chan'.dead = chan.dead
        /\ chan'.toR = IF chan.r /\ ~chan.dead THEN Append(chan.toR, f) ELSE chan.toR
    BY <1>2, <2>1, ChannelFields
  <2>5. Linked' => Linked
    BY <1>1, <2>4 DEF Linked
  <2>6. /\ \A i \in 1..Len(chan'.toR) : \/ i \in 1..Len(chan.toR) /\ chan'.toR[i] = chan.toR[i]
                                       \/ chan'.toR[i] = f
    <3>1. CASE chan'.toR = Append(chan.toR, f)
      BY <1>2, <2>3, <3>1, AppendOf
    <3> QED
      BY <2>4, <3>1
  <2>7. ManifestIsFirst'
    BY <2>1, <2>3, <2>5, <2>6 DEF ManifestIsFirst, ChannelInv, ReadFits
  <2>8. FramesContinueStage'
    BY <1>1, <2>3, <2>5, <2>6 DEF FramesContinueStage, ChannelInv, Linked
  <2>9. DeadIsEmpty'
    BY <2>4 DEF DeadIsEmpty, ChannelInv
  <2> QED
    BY <1>1, <2>2, <2>4, <2>7, <2>8, <2>9
    DEF ChannelInv, SenderHolds, WaitsCheckpointed, ManifestFits, ReadFits
<1>7. CASE TakeAck
  <2>1. /\ snd.state \in {"transferring", "finalizing"} /\ chan' = TakeS(chan)
        /\ snd'.state = snd.state /\ snd'.read = snd.read
    BY <1>7 DEF TakeAck, TypeOK, Senders
  <2>2. chan'.s = chan.s /\ chan'.r = chan.r /\ chan'.dead = chan.dead /\ chan'.toR = chan.toR
    BY <1>2, <2>1, ChannelFields
  <2> QED
    BY <1>1, <2>1, <2>2
    DEF ChannelInv, SenderHolds, DeadIsEmpty, WaitsCheckpointed, Linked, ManifestFits, ReadFits,
        ManifestIsFirst, FramesContinueStage
<1> QED
  BY <1>3, <1>4, <1>5, <1>6, <1>7

(* A reset channel is empty.                                             *)
LEMMA ChannelEmptied ==
  ASSUME TypeOK, ChannelInv, ChannelReset
  PROVE  ChannelInv'
<1>1. /\ UNCHANGED <<snd, rcv, rj, stage>>
      /\ chan'.s = chan.s /\ chan'.r = chan.r /\ chan'.dead
      /\ chan'.toR = <<>> /\ chan'.toS = <<>>
  BY DEF ChannelReset, TypeOK, Channels
<1>2. Len(chan'.toR) = 0 /\ Len(chan'.toS) = 0
  BY <1>1
<1> QED
  BY <1>1, <1>2
  DEF ChannelInv, SenderHolds, DeadIsEmpty, WaitsCheckpointed, Linked, ManifestFits, ReadFits,
      ManifestIsFirst, FramesContinueStage

(* The sender and the environment keep ChannelInv.                       *)
LEMMA ChannelSender ==
  ASSUME TypeOK, ChannelInv,
         SenderWorker \/ SenderReader \/ SenderControl \/ SenderTimers \/ SenderFaults
           \/ Environment
  PROVE  ChannelInv'
<1>1. CASE \/ SourceChanged \/ TakeCompleteAck \/ SenderTimeout \/ BaselineAborted \/ LoseChannel
           \/ (chan.s /\ (EnterCancelled \/ SenderCrash \/ SenderStop))
  <2>1. chan' = CloseS(chan) /\ UNCHANGED <<rcv, rj, stage>>
    BY <1>1 DEF SourceChanged, TakeCompleteAck, SenderTimeout, BaselineAborted, LoseChannel,
                EnterCancelled, SenderCrash, SenderStop, SenderGone, receiverVars
  <2> QED
    BY <2>1, SenderLetsGo
<1>2. CASE ~chan.s /\ (EnterCancelled \/ SenderCrash \/ SenderStop)
  <2>1. UNCHANGED <<chan, rcv, rj, stage>>
    BY <1>2 DEF EnterCancelled, SenderCrash, SenderStop, SenderGone, receiverVars
  <2> QED
    BY <1>2, <2>1, ChannelIdle
<1> QED
  BY <1>1, <1>2, ChannelUntouched, ChannelAttached, ChannelSending, ChannelEmptied
  DEF SenderWorker, SenderReader, SenderTimers, SenderFaults, Environment

(* Closing the receiver's end leaves the sender's as it was and discards *)
(* what had not been read.                                               *)
LEMMA ReceiverCloses ==
  ASSUME TypeOK
  PROVE  /\ CloseR(chan).s = chan.s /\ CloseR(chan).toR = <<>> /\ ~CloseR(chan).r
         /\ \A ok : Answer(ok).s = chan.s /\ Answer(ok).toR = <<>>
<1>1. chan \in Channels
  BY DEF TypeOK
<1>2. CloseR(chan).s = chan.s /\ CloseR(chan).toR = <<>> /\ ~CloseR(chan).r
  BY <1>1, ChannelParts
<1>3. ASSUME NEW ok
      PROVE  Answer(ok).s = chan.s /\ Answer(ok).toR = <<>>
  <2>1. PutS(chan, CompleteAck(ok)).s = chan.s
    BY <1>1, ChannelFields
  <2> DEFINE c == PutS(chan, CompleteAck(ok))
  <2>2. CloseR(c).s = (IF c.s THEN c.s ELSE FALSE) /\ CloseR(c).toR = <<>>
    BY <1>1 DEF CloseR, Closed, PutS, Channels
  <2> QED
    BY <1>1, <2>1, <2>2 DEF Answer, Channels
<1> QED
  BY <1>2, <1>3

(* The session leaves receiving, or is not receiving: a pause, a         *)
(* failure, an end, a cancel, a crash, a step of finalization.           *)
LEMMA ChannelStops ==
  ASSUME TypeOK, ContentFlow, ChannelInv,
         \/ RefuseResume \/ ReceiveFails \/ ChannelEnds \/ (ReceiveChunk /\ ProtocolFailure)
         \/ ReceiveComplete \/ RenameNext \/ StoreVerified \/ CommitItem
         \/ CompletePublication \/ FinalizeFails \/ ReceiverTimers
         \/ ReceiverCancel \/ CancelFromPeer \/ ReceiverStop \/ ReceiverCrash
  PROVE  ChannelInv'
<1>1. UNCHANGED snd
  BY DEF RefuseResume, ReceiveFails, ChannelEnds, ReceiveChunk, ReceiveComplete, RenameNext,
         StoreVerified, CommitItem, CompletePublication, FinalizeFails, ReceiverTimers,
         ReceiverTimeout, Prune, ReceiverCancel, CancelFromPeer, ReceiverStop, ReceiverCrash,
         ReceiverGone, senderVars
<1>2. /\ \A state \in ReceiverStates : ReceiverIn(state).state = state
      /\ NoReceiver.state # "receiving" /\ SuspendedReceiver.state # "receiving"
      /\ rcv.step # "run" => rcv.state # "receiving"
      /\ chan.dead => chan.toR = <<>>
  BY RunningStates DEF ContentFlow, ChannelInv, DeadIsEmpty
<1>3. /\ {"waiting_reconnect", "failed", "cancelled", "paused", "purged", "finalizing"}
           \subseteq ReceiverStates
      /\ rcv \in Receivers /\ chan \in Channels
  BY DEF ReceiverStates, TypeOK
<1>4. chan' = CloseR(chan) => chan'.s = chan.s /\ chan'.toR = <<>>
  BY ReceiverCloses
<1>5. \A ok : chan' = Answer(ok) => chan'.s = chan.s /\ chan'.toR = <<>>
  BY ReceiverCloses
<1>6. CASE rcv'.state # "receiving" /\ (chan' = chan \/ chan' = CloseR(chan))
  BY <1>1, <1>2, <1>4, <1>6, StopsReceiving
<1>7. CASE rcv'.state # "receiving" /\ \E ok : chan' = Answer(ok)
  BY <1>1, <1>5, <1>7, StopsReceiving
<1>8. CASE RefuseResume \/ ReceiveFails \/ ChannelEnds \/ (ReceiveChunk /\ ProtocolFailure)
  BY <1>2, <1>3, <1>6, <1>8
  DEF RefuseResume, ReceiveFails, ChannelEnds, ProtocolFailure
<1>9. CASE ReceiveComplete
  <2>1. CASE /\ rcv' = [ReceiverIn("finalizing") EXCEPT !.step = "rename"]
             /\ chan' = TakeR(chan)
    <3>1. rcv'.state = "finalizing"
      BY <2>1 DEF ReceiverIn, NoReceiver
    <3>2. chan.toR # <<>>
      BY <1>9 DEF ReceiveComplete, FrameAtReceiver
    <3>3. chan'.s = chan.s /\ chan'.dead = chan.dead
      BY <1>3, <2>1, ChannelFields
    <3> QED
      BY <1>1, <1>2, <3>1, <3>2, <3>3, StopsReceiving
  <2>2. CASE /\ rcv' = ReceiverIn("failed") \/ rcv' = ReceiverIn("finalizing")
             /\ chan' = Answer(FALSE)
    BY <1>2, <1>3, <1>7, <2>2
  <2> QED
    BY <1>9, <2>1, <2>2 DEF ReceiveComplete
<1>10. CASE RenameNext \/ StoreVerified \/ CommitItem
  <2>1. chan' = chan /\ rcv'.state = rcv.state /\ rcv.step # "run"
    BY <1>3, <1>10 DEF RenameNext, StoreVerified, CommitItem, Receivers
  <2> QED
    BY <1>2, <1>6, <2>1
<1>11. CASE CompletePublication \/ FinalizeFails
  BY <1>2, <1>3, <1>7, <1>11 DEF CompletePublication, FinalizeFails
<1>12. CASE ReceiverTimers
  <2>1. chan' = chan \/ chan' = CloseR(chan)
    BY <1>12 DEF ReceiverTimers, ReceiverTimeout, Prune
  <2>2. rcv'.state # "receiving"
    BY <1>2, <1>3, <1>12 DEF ReceiverTimers, ReceiverTimeout, Prune, Purge
  <2> QED
    BY <1>6, <2>1, <2>2
<1>13. CASE ReceiverCancel \/ CancelFromPeer \/ ReceiverStop \/ ReceiverCrash
  <2>1. chan' = chan \/ chan' = CloseR(chan)
    BY <1>13 DEF ReceiverCancel, CancelFromPeer, ReceiverStop, ReceiverCrash, ReceiverGone
  <2>2. rcv'.state # "receiving"
    BY <1>2, <1>3, <1>13
    DEF ReceiverCancel, CancelFromPeer, ReceiverStop, ReceiverCrash, ReceiverGone
  <2> QED
    BY <1>6, <2>1, <2>2
<1> QED
  BY <1>8, <1>9, <1>10, <1>11, <1>12, <1>13

(* Offers, resume requests and acknowledged cancels: a session that      *)
(* starts to receive has no channel yet, and a reopened stage is what    *)
(* its journal calls durable.                                            *)
LEMMA ChannelRequests ==
  ASSUME TypeOK, OneChannel, ContentFlow, ChannelInv,
         HandleOffer \/ RefuseOffer \/ ResumeOvertakesFinalize \/ HandleResume
           \/ CancelAcknowledged
  PROVE  ChannelInv'
<1>1. UNCHANGED snd
  BY DEF HandleOffer, RefuseOffer, ResumeOvertakesFinalize, HandleResume, CancelAcknowledged,
         senderVars
<1>2. /\ NoReceiver.state # "receiving" /\ SuspendedReceiver.state # "receiving"
      /\ chan.dead => chan.toR = <<>>
      /\ chan.r => rcv.state # "none"
  BY RunningStates DEF ChannelInv, DeadIsEmpty, OneChannel
<1>3. CASE UNCHANGED <<rcv, rj, stage, chan>>
  BY <1>1, <1>3, ChannelIdle
<1>4. CASE RefuseOffer \/ ResumeOvertakesFinalize
  BY <1>3, <1>4 DEF RefuseOffer, ResumeOvertakesFinalize
<1>5. CASE CancelAcknowledged
  <2>1. UNCHANGED chan
    BY <1>5 DEF CancelAcknowledged
  <2>2. UNCHANGED <<rcv, rj, stage>> \/ rcv' = NoReceiver
    BY <1>5 DEF CancelAcknowledged
  <2> QED
    BY <1>1, <1>2, <1>3, <2>1, <2>2, StopsReceiving
<1>6. AcceptFresh => rj'.durable = Len(stage'.data)
  <2>1. NewJournal.durable = 0 /\ [NoStage EXCEPT !.dir = TRUE].data = <<>> /\ Len(<<>>) = 0
    BY DEF NewJournal, NoJournal, NoStage
  <2> QED
    BY <2>1 DEF AcceptFresh
<1>7. CASE HandleOffer
  <2>1. CASE rcv.state # "none" \/ Exists(rj) \/ stage.dir
    BY <1>3, <1>7, <2>1 DEF HandleOffer
  <2>2. CASE ~(rcv.state # "none" \/ Exists(rj) \/ stage.dir)
    <3>1. UNCHANGED chan /\ ~chan.r /\ AcceptFresh
      BY <1>2, <1>7, <2>2 DEF HandleOffer
    <3> QED
      BY <1>1, <1>2, <1>6, <3>1, StartsReceiving
  <2> QED
    BY <2>1, <2>2
<1>8. CASE HandleResume /\ TransferTerminal
  BY <1>3, <1>8 DEF HandleResume
<1>9. CASE HandleResume /\ ~TransferTerminal
  <2>1. chan' = IF chan.r THEN CloseR(chan) ELSE chan
    BY <1>9 DEF HandleResume
  <2>2. ~chan'.r /\ chan'.s = chan.s /\ (chan'.dead => chan'.toR = <<>>)
    BY <1>2, <2>1, ReceiverCloses
  <2>3. CASE Unavailable(SuspendedJournal) \/ RowRegresses
    <3>1. rcv' = SuspendedReceiver \/ rcv' = NoReceiver
      BY <1>9, <2>3 DEF HandleResume
    <3> QED
      BY <1>1, <1>2, <2>2, <3>1, StopsReceiving
  <2>4. CASE ~Unavailable(SuspendedJournal) /\ ~RowRegresses /\ Exists(SuspendedJournal)
    <3> DEFINE j == SuspendedJournal
    <3>1. j \in Journals /\ j.durable <= Len(stage.data)
      BY <2>4, SuspendedType, StageFieldType DEF Unavailable, Journals
    <3>2. rj' = ReopenedJournal(j) /\ stage' = ReopenedStage(j)
      BY <1>9, <2>4 DEF HandleResume
    <3>3. rj'.durable = j.durable
      BY <3>1, <3>2 DEF ReopenedJournal, Journals
    <3>4. j.durable \in 0..Len(stage.data) /\ stage.data \in Seq(Bytes)
      BY <3>1, StageFieldType DEF TypeOK, Stages, Journals
    <3>5. Len(SubSeq(stage.data, 1, j.durable)) = j.durable
      BY <3>4, SubSeqProperties
    <3>6. Len(stage'.data) = j.durable
      BY <3>2, <3>5 DEF ReopenedStage, TypeOK, Stages
    <3> QED
      BY <1>1, <2>2, <3>3, <3>6, StartsReceiving
  <2>5. CASE ~Unavailable(SuspendedJournal) /\ ~RowRegresses /\ ~Exists(SuspendedJournal)
    <3>1. AcceptFresh
      BY <1>9, <2>5 DEF HandleResume
    <3> QED
      BY <1>1, <1>6, <2>2, <3>1, StartsReceiving
  <2> QED
    BY <2>3, <2>4, <2>5
<1> QED
  BY <1>4, <1>5, <1>7, <1>8, <1>9

(* A reply that was sent is the last of the queue, or was lost.          *)
LEMMA ReplyAdded ==
  ASSUME NEW S, NEW q \in Seq(S), NEW x \in S, NEW p, p = q \/ p = Append(q, x)
  PROVE  \A i \in 1..Len(p) : (i \in 1..Len(q) /\ p[i] = q[i]) \/ p[i] = x
<1>1. CASE p = q
  BY <1>1
<1>2. CASE p = Append(q, x)
  <2>1. Len(p) = Len(q) + 1 /\ Len(q) \in Nat
    BY <1>2, AppendOf, LenProperties
  <2>2. \A i \in 1..Len(p) : i \in 1..Len(q) \/ i = Len(q) + 1
    BY <2>1
  <2> QED
    BY <1>2, <2>2, AppendOf
<1> QED
  BY <1>1, <1>2

(* The receiver takes the manifest and answers where its journal is.     *)
LEMMA ChannelManifest ==
  ASSUME TypeOK, ChannelInv, ReceiveManifest
  PROVE  ChannelInv'
<1> DEFINE f == [type |-> "manifest_ack", durable |-> rj.durable]
<1>1. /\ UNCHANGED <<snd, rj, stage>> /\ rcv.state = "receiving" /\ rcv'.state = "receiving"
      /\ chan.r /\ chan.toR # <<>> /\ Head(chan.toR).type = "manifest"
      /\ chan' = PutS(TakeR(chan), f)
  BY DEF ReceiveManifest, Receiving, FrameAtReceiver, TypeOK, Receivers, senderVars
<1>2. /\ chan \in Channels /\ chan.toR \in Seq(Frames) /\ chan.toS \in Seq(Replies)
      /\ f \in Replies
  BY FrameType DEF TypeOK, Channels, Journals
<1>3. f.type = "manifest_ack" /\ f.durable = rj.durable
  OBVIOUS
<1>4. chan.toR[1].type = "manifest" /\ 1 \in 1..Len(chan.toR) /\ Tail(chan.toR) \in Seq(Frames)
      /\ Len(Tail(chan.toR)) = Len(chan.toR) - 1
  BY <1>1, <1>2, TailOf
<1>5. TakeR(chan) \in Channels
  BY <1>2, <1>4 DEF TakeR, Channels
<1> HIDE DEF f
<1>6. /\ chan'.s = chan.s /\ chan'.r = chan.r /\ chan'.dead = chan.dead
      /\ chan'.toR = Tail(chan.toR)
      /\ chan'.toS = chan.toS \/ chan'.toS = Append(chan.toS, f)
  <2> DEFINE c == TakeR(chan)
  <2>1. /\ c \in Channels /\ c.s = chan.s /\ c.r = chan.r /\ c.dead = chan.dead
        /\ c.toR = Tail(chan.toR) /\ c.toS = chan.toS
    BY <1>2, <1>5, ChannelFields
  <2>2. chan' = PutS(c, f)
    BY <1>1
  <2> HIDE DEF c
  <2> QED
    BY <2>1, <2>2, ChannelFields
<1>7. Linked => snd.state = "sending_manifest"
  BY <1>4 DEF ChannelInv, SenderHolds, ReadFits, ManifestIsFirst, Linked
<1>8. Linked' <=> Linked
  BY <1>1, <1>6 DEF Linked
<1>9. Linked => rj.durable = Len(stage.data)
  BY <1>7 DEF ChannelInv, WaitsCheckpointed, Linked
<1>10. Linked => Len(chan'.toR) = 0 /\ chan'.toR = <<>>
  <2>1. Linked => Len(chan.toR) <= 1
    BY <1>7 DEF ChannelInv, ManifestFits
  <2>2. Len(chan.toR) \in Nat /\ Len(chan'.toR) = Len(chan.toR) - 1 /\ Len(chan.toR) > 0
    BY <1>1, <1>2, <1>4, <1>6, QueueType
  <2>3. chan'.toR \in Seq(Frames)
    BY <1>4, <1>6
  <2>4. \A n \in Nat : n > 0 /\ n <= 1 => n - 1 = 0
    OBVIOUS
  <2>5. Linked => Len(chan'.toR) = 0
    BY <2>1, <2>2, <2>4, Zenon
  <2> QED
    BY <2>3, <2>5, EmptySeq
<1>11. \A i \in 1..Len(chan'.toS) :
          (i \in 1..Len(chan.toS) /\ chan'.toS[i] = chan.toS[i]) \/ chan'.toS[i] = f
  BY <1>2, <1>6, ReplyAdded
<1>12. ManifestFits'
  <2>1. Linked => \A i \in 1..Len(chan'.toS) : chan'.toS[i].type = "manifest_ack" =>
                     chan'.toS[i].durable = Len(stage.data)
    BY <1>3, <1>7, <1>9, <1>11 DEF ChannelInv, ManifestFits
  <2> QED
    BY <1>1, <1>8, <1>10, <2>1 DEF ManifestFits
<1>13. FramesContinueStage' /\ ManifestIsFirst' /\ ReadFits'
  <2>1. Linked => \A i \in 1..Len(chan'.toR) : FALSE
    BY <1>10
  <2> QED
    BY <1>1, <1>7, <1>8, <2>1 DEF FramesContinueStage, ManifestIsFirst, ReadFits, Linked
<1>14. DeadIsEmpty' /\ SenderHolds' /\ WaitsCheckpointed'
  BY <1>1, <1>6 DEF ChannelInv, DeadIsEmpty, SenderHolds, WaitsCheckpointed
<1> QED
  BY <1>12, <1>13, <1>14 DEF ChannelInv

(* The receiver writes the payload at the head of the channel.           *)
LEMMA ChannelWrite ==
  ASSUME TypeOK, ChannelInv, ReceiveChunk, WriteChunk(Head(chan.toR))
  PROVE  ChannelInv'
<1> DEFINE frame == Head(chan.toR)
<1>1. /\ UNCHANGED snd /\ rcv.state = "receiving"
      /\ chan.r /\ chan.toR # <<>> /\ frame.type = "payload"
  BY DEF ReceiveChunk, Receiving, FrameAtReceiver, senderVars
<1>2. /\ chan \in Channels /\ chan.toR \in Seq(Frames) /\ chan.toS \in Seq(Replies)
      /\ stage.data \in Seq(Bytes) /\ Len(stage.data) \in Nat /\ Len(chan.toR) \in Nat
  BY StageFieldType, LenProperties DEF TypeOK, Channels, Stages
<1>3. frame \in Frames /\ frame.pos \in Nat /\ frame.byte \in Bytes
  BY <1>1, <1>2, QueueType, FrameFields
<1>4. /\ frame = chan.toR[1] /\ 1 \in 1..Len(chan.toR) /\ Tail(chan.toR) \in Seq(Frames)
      /\ Len(Tail(chan.toR)) = Len(chan.toR) - 1
      /\ \A i \in 1..Len(Tail(chan.toR)) :
           i + 1 \in 1..Len(chan.toR) /\ Tail(chan.toR)[i] = chan.toR[i + 1]
  BY <1>1, <1>2, TailOf
<1>5. TakeR(chan) \in Channels
  BY <1>2, <1>4 DEF TakeR, Channels
<1>6. /\ rcv'.state = "receiving"
      /\ chan' = TakeR(chan) \/ \E d : chan' = PutS(TakeR(chan), d)
      /\ stage'.data = Append(stage.data, frame.byte)
  <2> DEFINE written == [stage EXCEPT !.data = Append(@, frame.byte)]
  <2>1. stage' = written \/ stage' = Flushed(written)
    BY DEF WriteChunk
  <2>2. written.data = Append(stage.data, frame.byte) /\ Flushed(written).data = written.data
    BY DEF TypeOK, Stages, Flushed
  <2>3. rcv'.state = rcv.state /\ (chan' = TakeR(chan) \/ \E d : chan' = PutS(TakeR(chan), d))
    BY DEF WriteChunk, TypeOK, Receivers
  <2> HIDE DEF written
  <2> QED
    BY <1>1, <2>1, <2>2, <2>3
<1>7. Len(stage'.data) = Len(stage.data) + 1
  BY <1>2, <1>3, <1>6, AppendOf
<1>8. /\ chan'.s = chan.s /\ chan'.r = chan.r /\ chan'.dead = chan.dead
      /\ chan'.toR = Tail(chan.toR)
  BY <1>2, <1>5, <1>6, ChannelFields
<1> HIDE DEF frame
<1>9. Linked' <=> Linked
  BY <1>1, <1>6, <1>8 DEF Linked
<1>10. Linked => snd.state # "sending_manifest"
  BY <1>1, <1>4 DEF ChannelInv, ManifestFits
<1>11. ReadFits'
  <2>1. ASSUME Linked, snd.state = "transferring"
        PROVE  \A i \in 1..Len(chan'.toR) : chan'.toR[i].type = "payload"
    BY <1>4, <1>8, <2>1 DEF ChannelInv, ReadFits
  <2>2. ASSUME Linked, snd.state = "transferring", ~chan.dead
        PROVE  Len(snd.read) = Len(stage'.data) + Len(chan'.toR)
    <3>1. Len(snd.read) = Len(stage.data) + Len(chan.toR)
      BY <2>2 DEF ChannelInv, ReadFits
    <3>2. Len(chan'.toR) = Len(chan.toR) - 1
      BY <1>4, <1>8
    <3>3. \A a, b \in Nat : a + b = (a + 1) + (b - 1)
      OBVIOUS
    <3> QED
      BY <1>2, <1>7, <3>1, <3>2, <3>3, Zenon
  <2> QED
    BY <1>1, <1>8, <1>9, <2>1, <2>2 DEF ReadFits
<1>12. FramesContinueStage'
  <2> SUFFICES ASSUME Linked', NEW i \in 1..Len(chan'.toR), chan'.toR[i].type = "payload"
               PROVE  chan'.toR[i].pos = Len(stage'.data) + i
    BY DEF FramesContinueStage, Linked
  <2>1. i + 1 \in 1..Len(chan.toR) /\ chan'.toR[i] = chan.toR[i + 1] /\ i \in Nat
    BY <1>4, <1>8
  <2>2. chan'.toR[i].pos = Len(stage.data) + (i + 1)
    BY <1>9, <2>1 DEF ChannelInv, FramesContinueStage, Linked
  <2>3. \A a, b \in Nat : a + (b + 1) = (a + 1) + b
    OBVIOUS
  <2> QED
    BY <1>2, <1>7, <2>1, <2>2, <2>3, Zenon
<1>13. ManifestIsFirst'
  BY <1>1, <1>4, <1>8, <1>9 DEF ChannelInv, ManifestIsFirst
<1>14. ManifestFits'
  BY <1>1, <1>9, <1>10 DEF ManifestFits
<1>15. DeadIsEmpty' /\ SenderHolds'
  BY <1>1, <1>8 DEF ChannelInv, DeadIsEmpty, SenderHolds
<1>16. WaitsCheckpointed'
  BY <1>1, <1>8, <1>10 DEF WaitsCheckpointed, Linked
<1> QED
  BY <1>11, <1>12, <1>13, <1>14, <1>15, <1>16 DEF ChannelInv

(* The ack interval elapses.                                             *)
LEMMA ChannelPolled ==
  ASSUME TypeOK, ChannelInv, PollAck
  PROVE  ChannelInv'
<1> DEFINE f == [type |-> "ack", pos |-> Len(stage.data), durable |-> rj.durable]
<1>1. /\ UNCHANGED <<snd, rj, stage>> /\ rcv'.state = rcv.state /\ chan' = PutS(chan, f)
  BY DEF PollAck, TypeOK, Receivers, senderVars
<1>2. /\ chan \in Channels /\ chan.toS \in Seq(Replies) /\ f \in Replies /\ f.type = "ack"
  BY StageFieldType, FrameType DEF TypeOK, Channels, Journals
<1> HIDE DEF f
<1>3. /\ chan'.s = chan.s /\ chan'.r = chan.r /\ chan'.dead = chan.dead /\ chan'.toR = chan.toR
      /\ chan'.toS = chan.toS \/ chan'.toS = Append(chan.toS, f)
  BY <1>1, <1>2, ChannelFields
<1>4. \A i \in 1..Len(chan'.toS) :
         (i \in 1..Len(chan.toS) /\ chan'.toS[i] = chan.toS[i]) \/ chan'.toS[i] = f
  BY <1>2, <1>3, ReplyAdded
<1>5. Linked' <=> Linked
  BY <1>1, <1>3 DEF Linked
<1>6. ManifestFits'
  BY <1>1, <1>2, <1>3, <1>4, <1>5 DEF ChannelInv, ManifestFits
<1> QED
  BY <1>1, <1>3, <1>5, <1>6
  DEF ChannelInv, SenderHolds, DeadIsEmpty, WaitsCheckpointed, ReadFits, ManifestIsFirst,
      FramesContinueStage

(* Nothing is on its way initially.                                      *)
LEMMA ChannelInit == Init => ChannelInv /\ ProgressFits
<1>1. Len(<<>>) = 0
  OBVIOUS
<1>2. \A d : <<>> \in Seq(KnownReplies(d))
  BY EmptySeq
<1> QED
  BY <1>1, <1>2
  DEF Init, ChannelInv, SenderHolds, DeadIsEmpty, WaitsCheckpointed, Linked, ManifestFits,
      ReadFits, ManifestIsFirst, FramesContinueStage, ProgressFits, ProgressKnown, NoReceiver,
      NoJournal, Closed, Exists

(* Every step keeps ChannelInv.                                          *)
LEMMA ChannelStep ==
  ASSUME IndInv, StageInv, ChannelInv, [Next]_vars
  PROVE  ChannelInv'
<1>1. TypeOK /\ ContentFlow /\ OneChannel
  BY DEF IndInv, StageInv
<1>2. CASE UNCHANGED vars
  BY <1>2, ChannelIdle DEF vars
<1>3. CASE \/ SenderWorker \/ SenderReader \/ SenderControl \/ SenderTimers \/ SenderFaults
           \/ Environment
  BY <1>1, <1>3, ChannelSender
<1>4. CASE ReceiverControl \/ ReceiverChannel \/ ReceiverTimers \/ ReceiverFaults
  BY <1>1, <1>4, ChannelStops, ChannelRequests, ChannelManifest, ChannelWrite, ChannelPolled
  DEF ReceiverControl, ReceiverChannel, ReceiverFaults, ReceiveChunk
<1> QED
  BY <1>2, <1>3, <1>4 DEF Next

----------------------------------------------------------------------------
(* The theorems about what is in flight *)

(* The invariant of the channel and of the sender's record holds         *)
(* throughout every behaviour.                                           *)
THEOREM FlightInvariant == Spec => [](ChannelInv /\ ProgressFits)
<1>1. Init => ChannelInv /\ ProgressFits
  BY ChannelInit
<1>2. /\ IndInv /\ IndInv' /\ StageInv /\ ChannelInv /\ ProgressFits /\ [Next]_vars
      => (ChannelInv /\ ProgressFits)'
  BY ChannelStep, ProgressStep
<1> QED
  BY <1>1, <1>2, Inductive, StageInvariant, PTL DEF Spec

(* Every payload frame in flight is the next the stage expects, counted  *)
(* from what it holds: a resume never leaves a gap or an overlap, so the *)
(* receiver's check of the position never cancels an honest sender       *)
(* (accept, iter_chunks from the offset the manifest's answer names).    *)
THEOREM PayloadContinuesStage == Spec => []FramesContinueStage
<1>1. ChannelInv => FramesContinueStage
  BY DEF ChannelInv
<1> QED
  BY <1>1, FlightInvariant, PTL

(* The sender's journal never claims more durable progress than the      *)
(* receiver's while the transfer is in progress (apply_ack records what  *)
(* _checkpoint has committed).                                           *)
THEOREM RecordIsNotAhead == Spec => []OutgoingNeverAhead
<1>1. TypeOK /\ ProgressFits => OutgoingNeverAhead
  BY DEF TypeOK, ProgressFits, ProgressKnown, OutgoingNeverAhead
<1> QED
  BY <1>1, TypeCorrect, FlightInvariant, PTL

=============================================================================
