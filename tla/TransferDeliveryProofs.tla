----------------------- MODULE TransferDeliveryProofs ------------------------
(*************************************************************************)
(* The type invariant of the transfer, for every number of chunks, every *)
(* set of file ends, every window, attempt bound and fault budget, one   *)
(* lemma per group of actions; the lemmas about queues, channels, links, *)
(* journals and sessions are used by the other proofs as well.           *)
(* And what a transfer delivers.  The inductive invariant follows the    *)
(* content from the source to the report: what the sender reads          *)
(* (SourceRead), what travels, is staged and is published (ContentFlow), *)
(* and what is confirmed (Confirmation).  FirstContact is needed because *)
(* a first offer is accepted without looking at the index: it must come  *)
(* before anything else.  From the invariant follow the two properties   *)
(* of the published item, its stability, and the refinement of           *)
(* ClipboardDelivery.                                                    *)
(*************************************************************************)
EXTENDS TransferV2, SequenceTheorems, TLAPS

(* A queue stays a queue when it is appended to or its head is taken.    *)
LEMMA QueueType ==
  ASSUME NEW S, NEW q \in Seq(S)
  PROVE  /\ Len(q) \in Nat
         /\ \A x \in S : Append(q, x) \in Seq(S)
         /\ q # <<>> => Head(q) \in S /\ Tail(q) \in Seq(S) /\ Len(q) > 0
BY EmptySeq, HeadTailProperties, AppendProperties, LenProperties

(* A prefix of a sequence has the elements of the sequence: what a       *)
(* reopen or a crash leaves of a part file.                              *)
LEMMA PrefixType ==
  ASSUME NEW S, NEW q \in Seq(S), NEW n \in 0..Len(q)
  PROVE  SubSeq(q, 1, n) \in Seq(S)
BY SubSeqProperties

(* A chunk read again and again is a sequence of chunks.                 *)
LEMMA RepeatedType ==
  ASSUME NEW n \in Nat, NEW b \in Bytes
  PROVE  [p \in 1..n |-> b] \in Seq(Bytes)
<1>1. [p \in 1..n |-> b] \in [1..n -> Bytes]
  OBVIOUS
<1> QED
  BY <1>1, SeqDef

(* Sending, taking and closing leave the data channel a channel.         *)
LEMMA PutType ==
  ASSUME NEW c \in Channels
  PROVE  /\ \A f \in Frames : PutR(c, f) \in Channels
         /\ \A f \in Replies : PutS(c, f) \in Channels
         /\ CloseS(c) \in Channels /\ CloseR(c) \in Channels
         /\ c.toR # <<>> => TakeR(c) \in Channels
         /\ c.toS # <<>> => TakeS(c) \in Channels
<1> HIDE DEF Frames, Replies
<1>1. c.toR \in Seq(Frames) /\ c.toS \in Seq(Replies)
  BY DEF Channels
<1>2. Closed \in Channels
  BY EmptySeq DEF Channels, Closed
<1>3. <<>> \in Seq(Frames) /\ <<>> \in Seq(Replies)
  BY EmptySeq
<1> QED
  BY <1>1, <1>2, <1>3, QueueType DEF Channels, PutR, PutS, TakeR, TakeS, CloseS, CloseR

(* The frames the two sides send are frames of the protocol.             *)
LEMMA FrameType ==
  /\ [type |-> "manifest"] \in Frames
  /\ \A p \in Nat, b \in Bytes : [type |-> "payload", pos |-> p, byte |-> b] \in Frames
  /\ \A q \in Seq(Bytes) : [type |-> "complete", content |-> q] \in Frames
  /\ \A d \in Nat : [type |-> "manifest_ack", durable |-> d] \in Replies
  /\ \A p \in Nat, d \in Nat : [type |-> "ack", pos |-> p, durable |-> d] \in Replies
  /\ \A ok \in BOOLEAN : CompleteAck(ok) \in Replies
BY DEF Frames, Replies, CompleteAck

(* A frame of a type has the fields of that type.                        *)
LEMMA FrameFields ==
  /\ \A f \in Frames : f.type = "payload" => f.pos \in Nat /\ f.byte \in Bytes
  /\ \A f \in Frames : f.type = "complete" => f.content \in Seq(Bytes)
  /\ \A f \in Replies : f.type = "manifest_ack" => f.durable \in Nat
  /\ \A f \in Replies : f.type = "ack" => f.pos \in Nat /\ f.durable \in Nat
  /\ \A f \in Replies : f.type = "complete_ack" => f.ok \in BOOLEAN
BY DEF Frames, Replies

(* A cancel and its acknowledgement may travel either way on the control *)
(* link.                                                                 *)
LEMMA LinkType ==
  ASSUME NEW c \in Links, NEW k \in {"cancel", "cancel_ack"}
  PROVE  /\ Message(k) \in MessagesToR /\ Message(k) \in MessagesToS
         /\ [c EXCEPT !.toR = Append(@, Message(k))] \in Links
         /\ [c EXCEPT !.toS = Append(@, Message(k))] \in Links
         /\ LinkDown \in Links
         /\ [LinkDown EXCEPT !.up = TRUE] \in Links
BY EmptySeq, QueueType DEF Links, MessagesToR, MessagesToS, Message, LinkDown

(* A request to the receiver leaves the control link a link, up or down. *)
LEMMA RequestType ==
  ASSUME TypeOK, NEW k \in {"offer", "resume", "cancel", "cancel_ack"}
  PROVE  ToReceiver(k) \in Links
BY QueueType DEF TypeOK, Links, MessagesToR, Message, ToReceiver

(* Handling the head of a control queue, with or without an answer,      *)
(* leaves the control link a link.                                       *)
LEMMA TakenType ==
  ASSUME TypeOK
  PROVE  /\ ctl.toR # <<>> =>
              /\ TakenByReceiver \in Links
              /\ \A m \in MessagesToS : ReplyToSender(m) \in Links
         /\ ctl.toS # <<>> =>
              /\ TakenBySender \in Links
              /\ \A m \in MessagesToR : ReplyToReceiver(m) \in Links
              /\ Head(ctl.toS).nonce \in Nat
<1>1. ctl.toR \in Seq(MessagesToR) /\ ctl.toS \in Seq(MessagesToS)
  BY DEF TypeOK, Links
<1>2. \A m \in MessagesToS : m.nonce \in Nat
  BY DEF MessagesToS
<1>3. ctl.toS # <<>> => Head(ctl.toS) \in MessagesToS
  BY <1>1, QueueType
<1> QED
  BY <1>1, <1>2, <1>3, QueueType
  DEF TypeOK, Links, TakenByReceiver, TakenBySender, ReplyToSender, ReplyToReceiver

(* A session that enters a state is a session.                           *)
LEMMA SenderInType ==
  ASSUME TypeOK, NEW state \in SenderStates
  PROVE  SenderIn(state) \in Senders /\ NewSender \in Senders
<1>1. <<>> \in Seq(Bytes)
  BY EmptySeq
<1> QED
  BY <1>1 DEF TypeOK, Senders, SenderIn, NewSender, SenderStates, SenderTerminal

(* A receiver that enters a state is a receiver.                         *)
LEMMA ReceiverInType ==
  \A state \in ReceiverStates : ReceiverIn(state) \in Receivers /\ NoReceiver \in Receivers
BY DEF Receivers, ReceiverStates, ReceiverIn, NoReceiver

(* A journal commit leaves the journal a journal.                        *)
LEMMA JournalType ==
  ASSUME NEW j \in Journals, NEW state \in JournalStates
  PROVE  /\ Entered(j, state) \in Journals
         /\ NoJournal \in Journals /\ NewJournal \in Journals
         /\ \A n \in Nat : [j EXCEPT !.durable = n] \in Journals
         /\ \A n \in Nat : [j EXCEPT !.retry = n] \in Journals
BY DEF Journals, JournalStates, Entered, NoJournal, NewJournal

(* Using up a fault leaves a budget.                                     *)
LEMMA SpendType ==
  ASSUME TypeOK, NEW kind \in Kinds, NEW free
  PROVE  (Spend(kind) \/ SpendUnless(free, kind)) => left' \in [Kinds -> Nat]
BY DEF TypeOK, Spend, SpendUnless

(* _set_failed leaves a session and a journal.                           *)
LEMMA FailedType ==
  ASSUME TypeOK, Failed
  PROVE  snd' \in Senders /\ sj' \in Journals
BY SenderInType, JournalType DEF TypeOK, Failed, SenderStates, SenderTerminal, JournalStates

(* _on_disconnected with its attempt bound leaves a session and a        *)
(* journal.                                                              *)
LEMMA DisconnectedType ==
  ASSUME TypeOK, Disconnected
  PROVE  snd' \in Senders /\ sj' \in Journals
<1> DEFINE waiting == IF CanEnter(sj, "waiting_reconnect")
                        THEN [sj EXCEPT !.state = "waiting_reconnect", !.retry = @ + 1]
                        ELSE sj
<1>1. waiting \in Journals
  <2>1. \A j \in Journals : j.retry + 1 \in Nat /\ [j EXCEPT !.state = "waiting_reconnect"] \in Journals
    BY DEF Journals, JournalStates
  <2>2. \A j \in Journals, n \in Nat : [j EXCEPT !.retry = n] \in Journals
    BY DEF Journals
  <2>3. [sj EXCEPT !.state = "waiting_reconnect", !.retry = @ + 1]
          = [[sj EXCEPT !.state = "waiting_reconnect"] EXCEPT !.retry = sj.retry + 1]
    BY DEF TypeOK, Journals
  <2> QED
    BY <2>1, <2>2, <2>3 DEF TypeOK
<1>2. Entered(waiting, "failed") \in Journals
  BY <1>1, JournalType DEF JournalStates
<1>3. SenderIn("failed") \in Senders /\ SenderIn("waiting_reconnect") \in Senders
  BY SenderInType DEF SenderStates, SenderTerminal
<1>4. [SenderIn("waiting_reconnect") EXCEPT !.attempts = @ + 1] \in Senders
  <2>1. \A x \in Senders : [x EXCEPT !.attempts = @ + 1] \in Senders
    BY DEF Senders
  <2> QED
    BY <1>3, <2>1
<1> QED
  BY <1>1, <1>2, <1>3, <1>4 DEF Disconnected

(* An update of one field of a session leaves a session.                 *)
LEMMA SenderFieldType ==
  ASSUME NEW x \in Senders
  PROVE  /\ \A b \in BOOLEAN : /\ [x EXCEPT !.asked = b] \in Senders
                              /\ [x EXCEPT !.rejected = b] \in Senders
                              /\ [x EXCEPT !.drained = b] \in Senders
         /\ \A n \in Nat : /\ [x EXCEPT !.accept = n] \in Senders
                          /\ [x EXCEPT !.acked = n] \in Senders
         /\ \A q \in Seq(Bytes) : /\ [x EXCEPT !.read = q] \in Senders
                                 /\ \A n \in Nat : [x EXCEPT !.read = q, !.acked = n] \in Senders
         /\ \A b \in Bytes : /\ Append(x.read, b) \in Seq(Bytes)
                            /\ [x EXCEPT !.read = Append(@, b)] \in Senders
         /\ \A c \in {"no", "local", "peer"} : [x EXCEPT !.cancel = c] \in Senders
         /\ x.accept \in Nat /\ x.acked \in Nat /\ x.read \in Seq(Bytes)
         /\ Len(x.read) \in Nat
BY QueueType DEF Senders

(* The offer phase keeps the types.                                      *)
LEMMA OfferType ==
  ASSUME TypeOK,
         Offer \/ CreateJournal \/ EnterAccepted \/ OfferRejected \/ PreflightTimeout
  PROVE  TypeOK'
<1> USE DEF TypeOK
<1>1. CASE Offer
  <2>1. snd' \in Senders
    BY <1>1, SenderInType, SenderFieldType DEF Offer, SenderStates, SenderTerminal
  <2>2. ctl' \in Links
    BY <1>1, RequestType DEF Offer
  <2> QED
    BY <1>1, <2>1, <2>2 DEF Offer, receiverVars
<1>2. CASE CreateJournal
  BY <1>2, JournalType DEF CreateJournal, receiverVars, JournalStates
<1>3. CASE EnterAccepted
  <2>1. snd' \in Senders
    BY <1>3, SenderInType, SenderFieldType DEF EnterAccepted, SenderStates
  <2> QED
    BY <1>3, <2>1, JournalType DEF EnterAccepted, receiverVars, JournalStates
<1>4. CASE OfferRejected
  BY <1>4, SenderInType DEF OfferRejected, receiverVars, SenderStates, SenderTerminal
<1>5. CASE PreflightTimeout
  BY <1>5, FailedType, SpendType DEF PreflightTimeout, receiverVars, Kinds
<1> QED
  BY <1>1, <1>2, <1>3, <1>4, <1>5

(* Opening the data channel keeps the types, whatever becomes of the     *)
(* connection.                                                           *)
LEMMA DialType ==
  ASSUME TypeOK, DialOpen \/ DialRefused \/ DialLost \/ DialAckLost
  PROVE  TypeOK'
<1> USE DEF TypeOK
<1>1. Consumed \in Nonces
  BY DEF Nonces, Consumed
<1>2. Len(stage.data) \in Nat
  BY QueueType DEF Stages
<1>3. [rcv EXCEPT !.seen = FALSE, !.acked = Len(stage.data)] \in Receivers
  BY <1>2 DEF Receivers
<1>4. [Closed EXCEPT !.r = TRUE] \in Channels
  BY EmptySeq DEF Closed, Channels
<1>5. [Closed EXCEPT !.s = TRUE, !.r = TRUE, !.toR = <<[type |-> "manifest"]>>] \in Channels
  <2>1. <<[type |-> "manifest"]>> \in Seq(Frames) /\ <<>> \in Seq(Replies)
    BY FrameType, EmptySeq
  <2> QED
    BY <2>1 DEF Closed, Channels
<1>6. CASE DialOpen
  <2>1. snd' \in Senders
    BY <1>6, SenderInType DEF DialOpen, SenderStates
  <2>2. sj' \in Journals
    BY <1>6, JournalType DEF DialOpen, JournalStates
  <2> QED
    BY <1>1, <1>3, <1>5, <1>6, <2>1, <2>2 DEF DialOpen
<1>7. CASE DialRefused
  BY <1>1, <1>7, FailedType DEF DialRefused, receiverVars
<1>8. CASE DialLost
  BY <1>8, DisconnectedType, SpendType DEF DialLost, receiverVars, Kinds
<1>9. CASE DialAckLost
  BY <1>1, <1>3, <1>4, <1>9, FailedType, DisconnectedType, SpendType DEF DialAckLost, Kinds
<1> QED
  BY <1>6, <1>7, <1>8, <1>9

(* The payload phase keeps the types.                                    *)
LEMMA PayloadType ==
  ASSUME TypeOK,
         TakeManifestAck \/ SendChunk \/ SourceChanged \/ SourceDone \/ FinishSend
           \/ TakeAck \/ TakeCompleteAck \/ SenderTimeout \/ BaselineAborted \/ LoseChannel
  PROVE  TypeOK'
<1> USE DEF TypeOK
<1>1. Source \in Bytes
  BY DEF Source, Bytes
<1>2. chan.toS # <<>> => Head(chan.toS) \in Replies
  BY QueueType DEF Channels
<1>3. CloseS(chan) \in Channels
  BY PutType
<1>4. CASE TakeManifestAck
  <2> DEFINE durable == Head(chan.toS).durable
  <2>1. durable \in Nat /\ TakeS(chan) \in Channels
    BY <1>2, <1>4, FrameFields, PutType DEF TakeManifestAck, FrameAtSender
  <2>2. [p \in 1..durable |-> Source] \in Seq(Bytes)
    BY <1>1, <2>1, RepeatedType
  <2>3. CASE durable > 0 /\ (sj.durable > durable \/ edited)
    BY <1>3, <1>4, <2>3, FailedType DEF TakeManifestAck, receiverVars
  <2>4. CASE ~(durable > 0 /\ (sj.durable > durable \/ edited))
    <3>1. snd' \in Senders
      <4>1. SenderIn("transferring") \in Senders
        BY SenderInType DEF SenderStates
      <4>2. [SenderIn("transferring") EXCEPT
               !.read = [p \in 1..durable |-> Source], !.acked = durable] \in Senders
        BY <2>1, <2>2, <4>1, SenderFieldType
      <4> QED
        BY <1>4, <2>4, <4>2 DEF TakeManifestAck
    <3>2. sj' \in Journals
      BY <1>4, <2>4, JournalType DEF TakeManifestAck, JournalStates
    <3> QED
      BY <1>4, <2>1, <2>4, <3>1, <3>2 DEF TakeManifestAck, receiverVars
  <2> QED
    BY <2>3, <2>4
<1>5. CASE SendChunk
  <2>1. [type |-> "payload", pos |-> Len(snd.read) + 1, byte |-> Source] \in Frames
    <3>1. Len(snd.read) \in Nat
      BY SenderFieldType
    <3>2. Len(snd.read) + 1 \in Nat
      BY <3>1
    <3> QED
      BY <1>1, <3>2, FrameType
  <2> QED
    BY <1>1, <1>5, <2>1, SenderFieldType, PutType DEF SendChunk, receiverVars
<1>6. CASE SourceChanged
  BY <1>3, <1>6, FailedType DEF SourceChanged, receiverVars
<1>7. CASE SourceDone
  BY <1>7, SenderFieldType DEF SourceDone, receiverVars
<1>8. CASE FinishSend
  <2>1. [type |-> "complete", content |-> snd.read] \in Frames
    BY SenderFieldType, FrameType
  <2>2. snd' \in Senders
    BY <1>8, SenderInType DEF FinishSend, SenderStates
  <2> QED
    BY <1>8, <2>1, <2>2, PutType, JournalType DEF FinishSend, receiverVars, JournalStates
<1>9. CASE TakeAck
  <2> DEFINE ack == Head(chan.toS)
  <2>1. ack.pos \in Nat /\ ack.durable \in Nat /\ TakeS(chan) \in Channels
    BY <1>2, <1>9, FrameFields, PutType DEF TakeAck, FrameAtSender
  <2>2. snd' \in Senders
    BY <1>9, <2>1, SenderFieldType DEF TakeAck
  <2>3. sj' \in Journals
    <3>1. [sj EXCEPT !.durable = ack.durable] \in Journals
      BY <2>1 DEF Journals
    <3> QED
      BY <1>9, <3>1 DEF TakeAck
  <2> QED
    BY <1>9, <2>1, <2>2, <2>3 DEF TakeAck, receiverVars
<1>10. CASE TakeCompleteAck
  <2>1. snd' \in Senders /\ sj' \in Journals
    BY <1>10, FailedType, SenderInType, JournalType
    DEF TakeCompleteAck, SenderStates, SenderTerminal, JournalStates
  <2> QED
    BY <1>3, <1>10, <2>1 DEF TakeCompleteAck, receiverVars
<1>11. CASE SenderTimeout \/ BaselineAborted
  BY <1>3, <1>11, FailedType, SpendType DEF SenderTimeout, BaselineAborted, receiverVars, Kinds
<1>12. CASE LoseChannel
  BY <1>3, <1>12, DisconnectedType DEF LoseChannel, receiverVars
<1> QED
  BY <1>4, <1>5, <1>6, <1>7, <1>8, <1>9, <1>10, <1>11, <1>12

(* The reconnect phase keeps the types.                                  *)
LEMMA ResumeType ==
  ASSUME TypeOK,
         AskResume \/ ResumeLate \/ ResumeAccepted \/ ResumeRejected \/ GiveUp
  PROVE  TypeOK'
<1> USE DEF TypeOK
<1>1. CASE AskResume
  BY <1>1, SenderFieldType, RequestType DEF AskResume, receiverVars
<1>2. CASE ResumeLate
  BY <1>2, SenderFieldType, SpendType DEF ResumeLate, receiverVars, Kinds
<1>3. CASE ResumeAccepted
  <2>1. snd' \in Senders
    BY <1>3, SenderInType, SenderFieldType DEF ResumeAccepted, SenderStates
  <2> QED
    BY <1>3, <2>1 DEF ResumeAccepted, receiverVars
<1>4. CASE ResumeRejected
  BY <1>4, FailedType DEF ResumeRejected, receiverVars
<1>5. CASE GiveUp
  BY <1>5, FailedType, SpendType DEF GiveUp, receiverVars, Kinds
<1> QED
  BY <1>1, <1>2, <1>3, <1>4, <1>5

(* The sender's control-link handlers and its cancellation keep the      *)
(* types.                                                                *)
LEMMA SenderControlType ==
  ASSUME TypeOK,
         SenderControl \/ CancelRequest \/ EnterCancelled \/ CancelAckTimeout
  PROVE  TypeOK'
<1> USE DEF TypeOK
<1>1. SenderIn("purged") \in Senders /\ SenderIn("cancelled") \in Senders
  BY SenderInType DEF SenderStates, SenderTerminal
<1>2. NoJournal \in Journals /\ Entered(sj, "cancelled") \in Journals
  BY JournalType DEF JournalStates
<1>3. Message("cancel_ack") \in MessagesToR
  BY LinkType
<1>4. CASE DeliverAccept
  BY <1>4, SenderFieldType, TakenType DEF DeliverAccept, AtSender, receiverVars
<1>5. CASE DeliverReject
  BY <1>5, SenderFieldType, TakenType DEF DeliverReject, AtSender, receiverVars
<1>6. CASE DeliverCancel
  BY <1>1, <1>2, <1>3, <1>6, SenderFieldType, TakenType
  DEF DeliverCancel, AtSender, receiverVars
<1>7. CASE DeliverCancelAck
  BY <1>1, <1>2, <1>7, TakenType DEF DeliverCancelAck, AtSender, receiverVars
<1>8. CASE CancelRequest
  BY <1>8, SenderFieldType, SpendType DEF CancelRequest, receiverVars, Kinds
<1>9. CASE EnterCancelled
  BY <1>1, <1>2, <1>9, RequestType, PutType DEF EnterCancelled, receiverVars
<1>10. CASE CancelAckTimeout
  BY <1>1, <1>2, <1>10, SpendType DEF CancelAckTimeout, receiverVars, Kinds
<1> QED
  BY <1>4, <1>5, <1>6, <1>7, <1>8, <1>9, <1>10 DEF SenderControl

(* A stop, a crash and the restart of the sender keep the types.         *)
LEMMA SenderProcessType ==
  ASSUME TypeOK, SenderCrash \/ SenderStop \/ LinkUp
  PROVE  TypeOK'
<1> USE DEF TypeOK
<1>1. SenderGone => /\ snd' \in Senders /\ chan' \in Channels /\ ctl' \in Links
                    /\ left' \in [Kinds -> Nat]
                    /\ UNCHANGED <<nonce, edited, receiverVars>>
  BY SenderInType, PutType, LinkType, SpendType DEF SenderGone, SenderStates, Kinds
<1>2. CASE SenderCrash
  BY <1>1, <1>2 DEF SenderCrash, receiverVars
<1>3. CASE SenderStop
  BY <1>1, <1>3, JournalType DEF SenderStop, receiverVars, JournalStates
<1>4. CASE LinkUp
  <2> DEFINE up == [LinkDown EXCEPT !.up = TRUE]
  <2>1. up \in Links /\ [up EXCEPT !.toR = <<Message("cancel")>>] \in Links
    <3>1. Message("cancel") \in MessagesToR
      BY LinkType
    <3>2. <<Message("cancel")>> \in Seq(MessagesToR)
      BY <3>1
    <3>3. up \in Links
      BY LinkType
    <3> QED
      BY <3>2, <3>3 DEF Links
  <2>2. [NewSender EXCEPT !.state = "waiting_reconnect"] \in Senders
    BY SenderInType DEF Senders, SenderStates
  <2>3. [Entered(sj, "waiting_reconnect") EXCEPT !.retry = @ + 1] \in Journals
    <3>1. \A j \in Journals : [j EXCEPT !.retry = @ + 1] \in Journals
      BY DEF Journals
    <3> QED
      BY <3>1, JournalType DEF JournalStates
  <2>4. snd' \in Senders /\ sj' \in Journals /\ ctl' \in Links
    BY <1>4, <2>1, <2>2, <2>3, JournalType DEF LinkUp, RestoredSender, JournalStates
  <2> QED
    BY <1>4, <2>4 DEF LinkUp
<1> QED
  BY <1>2, <1>3, <1>4

(* The values a checkpoint, a reopen and a crash compute have their      *)
(* types.                                                                *)
LEMMA StageFieldType ==
  ASSUME TypeOK
  PROVE  /\ Len(stage.data) \in Nat
         /\ Flushed(stage) \in Stages /\ NoStage \in Stages
         /\ [NoStage EXCEPT !.dir = TRUE] \in Stages
         /\ NoRow \in Rows /\ [NoRow EXCEPT !.state = "receiving"] \in Rows
<1>1. Len(stage.data) \in Nat
  BY QueueType DEF TypeOK, Stages
<1>2. <<>> \in Seq(Bytes) /\ 0 \in 0..Size
  BY EmptySeq, SizeAssumption
<1> QED
  BY <1>1, <1>2 DEF TypeOK, Stages, Rows, Flushed, NoStage, NoRow

(* A paused stage leaves a journal and a stage.                          *)
LEMMA PausedType ==
  ASSUME TypeOK, NEW wait \in Waits
  PROVE  PausedJournal(wait) \in Journals
<1>1. [rj EXCEPT !.state = wait, !.durable = Len(stage.data)] \in Journals
  BY StageFieldType DEF TypeOK, Journals, JournalStates, Waits
<1> QED
  BY <1>1 DEF TypeOK, PausedJournal

(* What a resume request finds of the old session is a journal and a     *)
(* receiver.                                                             *)
LEMMA SuspendedType ==
  ASSUME TypeOK
  PROVE  SuspendedJournal \in Journals /\ SuspendedReceiver \in Receivers
BY PausedType, ReceiverInType
DEF TypeOK, SuspendedJournal, SuspendedReceiver, Waits, ReceiverStates

(* An acceptance leaves a receiver, a row, a nonce and a link.           *)
LEMMA AcceptType ==
  ASSUME TypeOK, ctl.toR # <<>>, NEW phase \in {"preflight", "receiving"}, Accept(phase)
  PROVE  rcv' \in Receivers /\ row' \in Rows /\ nonce' \in Nonces /\ ctl' \in Links
<1> USE DEF TypeOK, Accept
<1>1. rcv' \in Receivers
  <2>1. ReceiverIn("receiving") \in Receivers
    BY ReceiverInType DEF ReceiverStates
  <2> QED
    BY <2>1 DEF Receivers
<1>2. row' \in Rows
  BY StageFieldType
<1>3. nonce.issued + 1 \in Nat
  BY DEF Nonces
<1>4. nonce' \in Nonces
  BY <1>3 DEF Nonces
<1>5. [type |-> "accept", nonce |-> nonce.issued + 1] \in MessagesToS
  BY <1>3 DEF MessagesToS
<1> QED
  BY <1>1, <1>2, <1>4, <1>5, TakenType

(* A fresh stage and its journal have their types.                       *)
LEMMA FreshType ==
  ASSUME TypeOK, ctl.toR # <<>>, AcceptFresh
  PROVE  /\ rj' \in Journals /\ stage' \in Stages
         /\ rcv' \in Receivers /\ row' \in Rows /\ nonce' \in Nonces /\ ctl' \in Links
<1>1. rj' \in Journals /\ stage' \in Stages
  BY JournalType, StageFieldType DEF TypeOK, AcceptFresh, JournalStates
<1> QED
  BY <1>1, AcceptType DEF AcceptFresh

(* A rejection leaves the control link a link.                           *)
LEMMA RejectType ==
  ASSUME TypeOK, ctl.toR # <<>>
  PROVE  ReplyToSender(Reject) \in Links
<1>1. Reject \in MessagesToS
  BY DEF Reject, Message, MessagesToS
<1> QED
  BY <1>1, TakenType

(* A reopened stage and its journal have their types.                    *)
LEMMA ReopenedType ==
  ASSUME TypeOK, NEW j \in Journals, j.durable <= Len(stage.data)
  PROVE  ReopenedStage(j) \in Stages /\ ReopenedJournal(j) \in Journals
<1>1. j.durable \in 0..Len(stage.data) /\ j.durable \in Nat
  BY StageFieldType DEF Journals
<1>2. SubSeq(stage.data, 1, j.durable) \in Seq(Bytes)
  BY <1>1, PrefixType DEF TypeOK, Stages
<1>3. ReopenedStage(j) \in Stages
  BY <1>1, <1>2 DEF TypeOK, Stages, ReopenedStage
<1>4. stage.renamed \in Nat
  BY SizeAssumption DEF TypeOK, Stages
<1>5. ReopenedJournal(j) \in Journals
  <2>1. \A n, r \in Nat : [j EXCEPT !.stored = n, !.retry = r] \in Journals
    BY DEF Journals
  <2>2. j.stored \in Nat /\ j.retry + 1 \in Nat
    BY DEF Journals
  <2> QED
    BY <1>4, <2>1, <2>2 DEF ReopenedJournal
<1> QED
  BY <1>3, <1>5

(* The offer and resume handlers keep the types.                         *)
LEMMA RequestsType ==
  ASSUME TypeOK,
         HandleOffer \/ RefuseOffer \/ ResumeOvertakesFinalize \/ HandleResume
           \/ RefuseResume
  PROVE  TypeOK'
<1> USE DEF TypeOK
<1>1. CloseR(chan) \in Channels
  BY PutType
<1>2. CASE HandleOffer
  BY <1>2, FreshType, RejectType DEF HandleOffer, AtReceiver, senderVars
<1>3. CASE RefuseOffer
  BY <1>3, RejectType, SpendType DEF RefuseOffer, AtReceiver, senderVars, Kinds
<1>4. CASE ResumeOvertakesFinalize
  <2>1. Message("resume_checked") \in MessagesToR /\ Tail(ctl.toR) \in Seq(MessagesToR)
    BY <1>4, QueueType DEF ResumeOvertakesFinalize, AtReceiver, Message, MessagesToR, Links
  <2>2. <<Message("resume_checked")>> \o Tail(ctl.toR) \in Seq(MessagesToR)
    BY <2>1
  <2>3. ctl' \in Links
    BY <1>4, <2>2 DEF ResumeOvertakesFinalize, Links
  <2> QED
    BY <1>4, <2>3 DEF ResumeOvertakesFinalize, senderVars
<1>5. CASE HandleResume
  <2>1. ctl.toR # <<>>
    BY <1>5 DEF HandleResume, ResumeArrives, AtReceiver
  <2>2. CASE TransferTerminal
    BY <1>5, <2>1, <2>2, RejectType DEF HandleResume, senderVars
  <2>3. CASE ~TransferTerminal /\ Unavailable(SuspendedJournal)
    BY <1>1, <1>5, <2>1, <2>3, RejectType, SuspendedType, StageFieldType
    DEF HandleResume, senderVars
  <2>4. CASE ~TransferTerminal /\ ~Unavailable(SuspendedJournal) /\ RowRegresses
    BY <1>1, <1>5, <2>1, <2>4, RejectType, ReceiverInType, JournalType, StageFieldType
    DEF HandleResume, senderVars, ReceiverStates, JournalStates
  <2>5. CASE /\ ~TransferTerminal /\ ~Unavailable(SuspendedJournal) /\ ~RowRegresses
             /\ Exists(SuspendedJournal)
    <3>1. SuspendedJournal.durable <= Len(stage.data)
      BY <2>5, SuspendedType, StageFieldType DEF Unavailable, Journals
    <3>2. rj' \in Journals /\ stage' \in Stages /\ Accept("receiving")
      BY <1>5, <2>5, <3>1, ReopenedType, SuspendedType DEF HandleResume
    <3> QED
      BY <1>1, <1>5, <2>1, <2>5, <3>2, AcceptType DEF HandleResume, senderVars
  <2>6. CASE /\ ~TransferTerminal /\ ~Unavailable(SuspendedJournal) /\ ~RowRegresses
             /\ ~Exists(SuspendedJournal)
    <3>1. AcceptFresh
      BY <1>5, <2>6 DEF HandleResume
    <3> QED
      BY <1>1, <1>5, <2>1, <2>6, <3>1, FreshType DEF HandleResume, senderVars
  <2> QED
    BY <2>2, <2>3, <2>4, <2>5, <2>6
<1>6. CASE RefuseResume
  <2>1. ctl.toR # <<>>
    BY <1>6 DEF RefuseResume, ResumeArrives, AtReceiver
  <2> QED
    BY <1>1, <1>6, <2>1, RejectType, SuspendedType, StageFieldType, SpendType
    DEF RefuseResume, senderVars, Kinds
<1> QED
  BY <1>2, <1>3, <1>4, <1>5, <1>6

(* The receiver's channel thread keeps the types.                        *)
LEMMA ChannelThreadType ==
  ASSUME TypeOK,
         ReceiveManifest \/ ReceiveChunk \/ ReceiveFails \/ PollAck \/ ChannelEnds
  PROVE  TypeOK'
<1> USE DEF TypeOK
<1>1. CloseR(chan) \in Channels
  BY PutType
<1>2. chan.toR # <<>> => Head(chan.toR) \in Frames /\ TakeR(chan) \in Channels
  BY QueueType, PutType DEF Channels
<1>3. \A n \in Nat : [rcv EXCEPT !.acked = n] \in Receivers
  BY DEF Receivers
<1>4. rj.durable \in Nat
  BY DEF Journals
<1>5. CASE ReceiveManifest
  <2>1. [type |-> "manifest_ack", durable |-> rj.durable] \in Replies
    BY <1>4, FrameType
  <2>2. chan' \in Channels
    BY <1>2, <1>5, <2>1, PutType DEF ReceiveManifest, FrameAtReceiver
  <2>3. rcv' \in Receivers
    BY <1>5 DEF ReceiveManifest, Receivers
  <2> QED
    BY <1>5, <2>2, <2>3 DEF ReceiveManifest, senderVars
<1>6. CASE ReceiveChunk
  <2> DEFINE frame == Head(chan.toR)
  <2>1. /\ frame \in Frames /\ TakeR(chan) \in Channels
        /\ frame.pos \in Nat /\ frame.byte \in Bytes
    BY <1>2, <1>6, FrameFields DEF ReceiveChunk, FrameAtReceiver
  <2>2. CASE WriteChunk(frame)
    <3>1. PICK checkpoint \in BOOLEAN, ack \in BOOLEAN :
            LET written == [stage EXCEPT !.data = Append(@, frame.byte)]
                journal == IF checkpoint THEN Checkpointed(rj, written) ELSE rj
            IN /\ stage' = IF checkpoint THEN Flushed(written) ELSE written
               /\ rj' = journal
               /\ rcv' = [rcv EXCEPT !.phase = "receiving",
                                     !.acked = IF ack THEN frame.pos ELSE @]
               /\ chan' = IF ack
                            THEN PutS(TakeR(chan), [type |-> "ack", pos |-> frame.pos,
                                                    durable |-> journal.durable])
                            ELSE TakeR(chan)
      BY <2>2 DEF WriteChunk
    <3> DEFINE written == [stage EXCEPT !.data = Append(@, frame.byte)]
    <3>2. Append(stage.data, frame.byte) \in Seq(Bytes)
      BY <2>1, QueueType DEF Stages
    <3>3. written \in Stages /\ Len(written.data) \in Nat
      BY <3>2, QueueType DEF Stages
    <3>4. Flushed(written) \in Stages
      BY <3>3 DEF Stages, Flushed
    <3>5. Checkpointed(rj, written) \in Journals
      <4> HIDE DEF written
      <4> QED
        BY <3>3 DEF Journals, JournalStates, Checkpointed
    <3>6. rj' \in Journals
      BY <3>1, <3>5
    <3>7. [type |-> "ack", pos |-> frame.pos, durable |-> rj'.durable] \in Replies
      BY <2>1, <3>6, FrameType DEF Journals
    <3>8. chan' \in Channels
      BY <2>1, <3>1, <3>7, PutType
    <3>9. rcv' \in Receivers
      BY <2>1, <3>1 DEF Receivers
    <3>10. stage' \in Stages
      BY <3>1, <3>3, <3>4
    <3> QED
      BY <1>6, <2>2, <3>6, <3>8, <3>9, <3>10 DEF ReceiveChunk, WriteChunk, senderVars
  <2>3. CASE ProtocolFailure
    BY <1>1, <1>6, <2>3, JournalType, ReceiverInType, LinkType
    DEF ReceiveChunk, ProtocolFailure, senderVars, JournalStates, ReceiverStates
  <2> QED
    BY <1>6, <2>2, <2>3 DEF ReceiveChunk
<1>7. CASE ReceiveFails
  BY <1>1, <1>7, JournalType, ReceiverInType, SpendType
  DEF ReceiveFails, senderVars, JournalStates, ReceiverStates, Kinds
<1>8. CASE PollAck
  <2>1. Len(stage.data) \in Nat
    BY StageFieldType
  <2>2. [type |-> "ack", pos |-> Len(stage.data), durable |-> rj.durable] \in Replies
    BY <1>4, <2>1, FrameType
  <2> QED
    BY <1>3, <1>8, <2>1, <2>2, PutType DEF PollAck, senderVars
<1>9. CASE ChannelEnds
  BY <1>1, <1>9, PausedType, ReceiverInType, StageFieldType
  DEF ChannelEnds, senderVars, Waits, ReceiverStates
<1> QED
  BY <1>5, <1>6, <1>7, <1>8, <1>9

(* Finalization keeps the types, step by step and when a step fails.     *)
LEMMA FinalizationType ==
  ASSUME TypeOK,
         ReceiveComplete \/ RenameNext \/ StoreVerified \/ CommitItem
           \/ CompletePublication \/ FinalizeFails
  PROVE  TypeOK'
<1> USE DEF TypeOK
<1>1. \A ok \in BOOLEAN : Answer(ok) \in Channels
  <2> TAKE ok \in BOOLEAN
  <2>1. PutS(chan, CompleteAck(ok)) \in Channels
    BY FrameType, PutType
  <2> QED
    BY <2>1, PutType DEF Answer
<1>2. /\ ReceiverIn("failed") \in Receivers /\ ReceiverIn("finalizing") \in Receivers
      /\ NoReceiver \in Receivers
  BY ReceiverInType DEF ReceiverStates
<1>3. \A step \in {"rename", "commit", "receipt"} :
        \A r \in Receivers : [r EXCEPT !.step = step] \in Receivers
  BY DEF Receivers
<1>4. \A state \in JournalStates : Entered(rj, state) \in Journals
  BY JournalType
<1>5. CASE ReceiveComplete
  <2>1. TakeR(chan) \in Channels
    BY <1>5, PutType DEF ReceiveComplete, FrameAtReceiver
  <2> QED
    BY <1>1, <1>2, <1>3, <1>4, <1>5, <2>1 DEF ReceiveComplete, senderVars, JournalStates
<1>6. CASE RenameNext
  <2>1. stage' \in Stages
    BY <1>6, EndsAssumption, SizeAssumption DEF RenameNext, Stages
  <2> QED
    BY <1>6, <2>1 DEF RenameNext, senderVars
<1>7. CASE StoreVerified
  <2>1. rj' \in Journals
    BY <1>7, SizeAssumption DEF StoreVerified, Journals
  <2> QED
    BY <1>3, <1>7, <2>1 DEF StoreVerified, senderVars
<1>8. CASE CommitItem
  <2>1. row' \in Rows
    BY <1>8 DEF CommitItem, Rows, Stages
  <2> QED
    BY <1>3, <1>8, <2>1 DEF CommitItem, senderVars
<1>9. CASE CompletePublication
  BY <1>1, <1>2, <1>4, <1>9, StageFieldType
  DEF CompletePublication, senderVars, JournalStates
<1>10. CASE FinalizeFails
  BY <1>1, <1>2, <1>4, <1>10, SpendType
  DEF FinalizeFails, senderVars, JournalStates, Kinds
<1> QED
  BY <1>5, <1>6, <1>7, <1>8, <1>9, <1>10

(* The receiver's deadlines keep the types.                              *)
LEMMA ReceiverTimerType ==
  ASSUME TypeOK, ReceiverTimeout \/ Prune
  PROVE  TypeOK'
<1> USE DEF TypeOK
<1>1. CloseR(chan) \in Channels /\ NoStage \in Stages /\ Flushed(stage) \in Stages
  BY PutType, StageFieldType
<1>2. \A state \in ReceiverStates : ReceiverIn(state) \in Receivers /\ NoReceiver \in Receivers
  BY ReceiverInType
<1>3. NoJournal \in Journals /\ PausedJournal("paused") \in Journals
        /\ Entered(rj, "failed") \in Journals
  BY JournalType, PausedType DEF JournalStates, Waits
<1>4. PurgedHist \in [purged : BOOLEAN]
  BY DEF PurgedHist
<1>5. CASE ReceiverTimeout
  <2>1. rcv' \in Receivers /\ rj' \in Journals /\ stage' \in Stages
    BY <1>1, <1>2, <1>3, <1>5 DEF ReceiverTimeout, Purge, ReceiverStates
  <2>2. hist' \in [purged : BOOLEAN]
    BY <1>4, <1>5 DEF ReceiverTimeout, Purge
  <2>3. chan' \in Channels /\ left' \in [Kinds -> Nat]
    BY <1>1, <1>5, SpendType DEF ReceiverTimeout, Kinds
  <2> QED
    BY <1>5, <2>1, <2>2, <2>3 DEF ReceiverTimeout, senderVars
<1>6. CASE Prune
  BY <1>2, <1>6 DEF Prune, senderVars, ReceiverStates
<1> QED
  BY <1>5, <1>6

(* Cancellation on the receiver keeps the types.                         *)
LEMMA ReceiverCancelType ==
  ASSUME TypeOK, ReceiverCancel \/ CancelFromPeer \/ CancelAcknowledged
  PROVE  TypeOK'
<1> USE DEF TypeOK
<1>1. CloseR(chan) \in Channels /\ NoStage \in Stages /\ Flushed(stage) \in Stages
  BY PutType, StageFieldType
<1>2. NoReceiver \in Receivers /\ ReceiverIn("cancelled") \in Receivers
  BY ReceiverInType DEF ReceiverStates
<1>3. NoJournal \in Journals /\ Entered(SuspendedJournal, "cancelled") \in Journals
  BY JournalType, SuspendedType DEF JournalStates
<1>4. PurgedHist \in [purged : BOOLEAN]
  BY DEF PurgedHist
<1>5. CASE ReceiverCancel
  <2>1. ctl' \in Links
    BY <1>5, LinkType DEF ReceiverCancel
  <2> QED
    BY <1>1, <1>2, <1>3, <1>4, <1>5, <2>1, SpendType DEF ReceiverCancel, senderVars, Kinds
<1>6. CASE CancelFromPeer
  <2>1. ctl' \in Links
    BY <1>6, LinkType, TakenType DEF CancelFromPeer, AtReceiver
  <2> QED
    BY <1>1, <1>2, <1>3, <1>4, <1>6, <2>1 DEF CancelFromPeer, senderVars
<1>7. CASE CancelAcknowledged
  <2>1. ctl' \in Links
    BY <1>7, TakenType DEF CancelAcknowledged, AtReceiver
  <2> QED
    BY <1>1, <1>2, <1>3, <1>4, <1>7, <2>1 DEF CancelAcknowledged, senderVars
<1> QED
  BY <1>5, <1>6, <1>7

(* A stop and a crash of the receiver keep the types.                    *)
LEMMA ReceiverProcessType ==
  ASSUME TypeOK, ReceiverStop \/ ReceiverCrash
  PROVE  TypeOK'
<1> USE DEF TypeOK
<1>1. ReceiverGone => /\ rcv' \in Receivers /\ nonce' \in Nonces /\ chan' \in Channels
                      /\ ctl' \in Links /\ left' \in [Kinds -> Nat]
                      /\ UNCHANGED <<row, hist, senderVars>>
  <2>1. [nonce EXCEPT !.live = 0] \in Nonces
    BY DEF Nonces
  <2> QED
    BY <2>1, ReceiverInType, PutType, LinkType, SpendType
    DEF ReceiverGone, ReceiverStates, Kinds
<1>2. CASE ReceiverStop
  BY <1>1, <1>2, PausedType, StageFieldType DEF ReceiverStop, senderVars, Waits
<1>3. CASE ReceiverCrash
  <2>1. PICK kept \in stage.synced..Len(stage.data) :
          stage' = [stage EXCEPT !.data = SubSeq(@, 1, kept)]
    BY <1>3 DEF ReceiverCrash
  <2>2. kept \in 0..Len(stage.data)
    BY StageFieldType DEF Stages
  <2>3. SubSeq(stage.data, 1, kept) \in Seq(Bytes)
    BY <2>2, PrefixType DEF Stages
  <2>4. stage' \in Stages
    BY <2>1, <2>3 DEF Stages
  <2> QED
    BY <1>1, <1>3, <2>4 DEF ReceiverCrash, senderVars
<1> QED
  BY <1>2, <1>3

(* Broken connections and edits keep the types.                          *)
LEMMA EnvironmentType ==
  ASSUME TypeOK, ChannelReset \/ LinkDrop \/ Edit
  PROVE  TypeOK'
<1> USE DEF TypeOK
<1>1. [chan EXCEPT !.dead = TRUE, !.toR = <<>>, !.toS = <<>>] \in Channels
  <2>1. <<>> \in Seq(Frames) /\ <<>> \in Seq(Replies)
    BY EmptySeq
  <2> QED
    BY <2>1 DEF Channels
<1>2. CASE ChannelReset
  BY <1>1, <1>2, SpendType DEF ChannelReset, Kinds
<1>3. CASE LinkDrop
  BY <1>3, LinkType, SpendType DEF LinkDrop, Kinds
<1>4. CASE Edit
  BY <1>4, SpendType DEF Edit, Kinds
<1> QED
  BY <1>2, <1>3, <1>4

(* The initial state is well typed.                                      *)
LEMMA InitType == Init => TypeOK
<1> SUFFICES ASSUME Init PROVE TypeOK
  OBVIOUS
<1>1. <<>> \in Seq(Frames) /\ <<>> \in Seq(Replies) /\ <<>> \in Seq(MessagesToR)
        /\ <<>> \in Seq(MessagesToS) /\ <<>> \in Seq(Bytes)
  BY EmptySeq
<1>2. snd \in Senders /\ sj \in Journals /\ rcv \in Receivers /\ rj \in Journals
  BY <1>1 DEF Init, Senders, NewSender, SenderStates, SenderTerminal, Journals,
              JournalStates, NoJournal, Receivers, ReceiverStates, NoReceiver
<1>3. nonce \in Nonces /\ stage \in Stages /\ row \in Rows
  BY <1>1, SizeAssumption DEF Init, Nonces, Stages, NoStage, Rows, NoRow
<1>4. chan \in Channels /\ ctl \in Links
  BY <1>1 DEF Init, Channels, Closed, Links, LinkDown
<1>5. left \in [Kinds -> Nat] /\ edited \in BOOLEAN
        /\ hist \in [purged : BOOLEAN]
  BY BudgetAssumption DEF Init
<1> QED
  BY <1>2, <1>3, <1>4, <1>5 DEF TypeOK

(* Every step keeps the types.                                           *)
LEMMA TypeStep == TypeOK /\ [Next]_vars => TypeOK'
<1> SUFFICES ASSUME TypeOK, [Next]_vars PROVE TypeOK'
  OBVIOUS
<1>1. CASE SenderWorker \/ SenderReader
  BY <1>1, OfferType, DialType, PayloadType, ResumeType, SenderControlType
  DEF SenderWorker, SenderReader
<1>2. CASE SenderControl \/ SenderTimers
  BY <1>2, OfferType, ResumeType, SenderControlType DEF SenderTimers
<1>3. CASE SenderFaults
  BY <1>3, DialType, PayloadType, ResumeType, SenderControlType, SenderProcessType
  DEF SenderFaults
<1>4. CASE ReceiverControl \/ ReceiverTimers
  BY <1>4, RequestsType, ReceiverCancelType, ReceiverTimerType
  DEF ReceiverControl, ReceiverTimers
<1>5. CASE ReceiverChannel
  BY <1>5, ChannelThreadType, FinalizationType DEF ReceiverChannel
<1>6. CASE ReceiverFaults
  BY <1>6, RequestsType, ChannelThreadType, FinalizationType, ReceiverCancelType,
     ReceiverProcessType
  DEF ReceiverFaults
<1>7. CASE Environment
  BY <1>7, EnvironmentType, SenderProcessType DEF Environment
<1>8. CASE UNCHANGED vars
  BY <1>8 DEF vars, TypeOK
<1> QED
  BY <1>1, <1>2, <1>3, <1>4, <1>5, <1>6, <1>7, <1>8 DEF Next

(* Every variable of the transfer holds a value of its kind, for files   *)
(* of any length, any number of faults and any attempt bound: a journal  *)
(* never leaves the documented states (_STATE_TRANSITIONS), no handler   *)
(* leaves a session in a state the code does not name.                   *)
THEOREM TypeCorrect == Spec => []TypeOK
BY InitType, TypeStep, PTL DEF Spec

-----------------------------------------------------------------------------
(* The invariant, and the order of the first messages *)

(* Completion evidence in flight is the offered content.                 *)
OfferedFrames == {f \in Frames : f.type = "complete" => f.content = Offered}
(* A positive complete_ack in flight is true.                            *)
TrueReplies ==
  {f \in Replies : f.type = "complete_ack" => (f.ok => row.state = "published")}
(* What the sender may send after its offer.                             *)
LaterMessages == {m \in MessagesToR : m.type # "offer"}

(* An offer can only be the first message on the link.                   *)
OffersFirst(q) ==
  \/ q \in Seq(LaterMessages)
  \/ q # <<>> /\ Head(q).type = "offer" /\ Tail(q) \in Seq(LaterMessages)
(* The receiver has not heard of the transfer.                           *)
Untouched == rcv = NoReceiver /\ row.state = "absent"

(* The offer is the first thing the receiver hears, hence HandleOffer    *)
(* never finds a published row.                                          *)
FirstContact ==
  /\ OffersFirst(ctl.toR)
  /\ AtReceiver("offer") => Untouched
  /\ snd.state = "created" => ctl.toR = <<>> /\ ctl.toS = <<>> /\ Untouched
(* What the sender has read is the offered content unless the source was *)
(* edited, and a drained source was read whole.                          *)
SourceRead ==
  /\ ~edited => \A p \in 1..Len(snd.read) : snd.read[p] = "orig"
  /\ snd.drained => snd.read = Offered
(* Evidence, the stage in finalization and the published row are the     *)
(* offered content.                                                      *)
ContentFlow ==
  /\ chan.toR \in Seq(OfferedFrames)
  /\ rcv.step # "run" => stage.data = Offered /\ rcv.state = "finalizing"
  /\ PublishedIsOffered
(* A confirmation, on its way or taken, follows the publication.         *)
Confirmation ==
  /\ rcv.step = "receipt" => row.state = "published"
  /\ chan.toS \in Seq(TrueReplies)
  /\ snd.state = "completed" => row.state = "published"
(* The inductive invariant.                                              *)
IndInv == TypeOK /\ FirstContact /\ SourceRead /\ ContentFlow /\ Confirmation

(* Appending a message that is not an offer leaves the offer, if there   *)
(* is one, at the head, and what follows the head is no offer.           *)
LEMMA LaterQueue ==
  ASSUME NEW q \in Seq(MessagesToR), OffersFirst(q), NEW m \in LaterMessages
  PROVE  /\ OffersFirst(Append(q, m))
         /\ Head(Append(q, m)).type = "offer" => q # <<>> /\ Head(q).type = "offer"
         /\ Append(q, m) # <<>>
         /\ q # <<>> => OffersFirst(Tail(q)) /\ (Tail(q) # <<>> => Head(Tail(q)).type # "offer")
<1>1. /\ LaterMessages \subseteq MessagesToR
      /\ \A s \in Seq(LaterMessages) : s # <<>> => Head(s).type # "offer"
  BY QueueType DEF LaterMessages
<1>2. Append(q, m) # <<>>
  BY <1>1, AppendProperties
<1>3. /\ Head(Append(q, m)) = IF q = <<>> THEN m ELSE Head(q)
      /\ Tail(Append(q, m)) = IF q = <<>> THEN <<>> ELSE Append(Tail(q), m)
  BY HeadTailAppend
<1>4. CASE q \in Seq(LaterMessages)
  <2>1. Append(q, m) \in Seq(LaterMessages) /\ (q # <<>> => Tail(q) \in Seq(LaterMessages))
    BY <1>4, QueueType
  <2> QED
    BY <1>1, <1>2, <2>1 DEF OffersFirst
<1>5. CASE q # <<>> /\ Head(q).type = "offer" /\ Tail(q) \in Seq(LaterMessages)
  <2>1. Append(Tail(q), m) \in Seq(LaterMessages)
    BY <1>5, QueueType
  <2> QED
    BY <1>1, <1>2, <1>3, <1>5, <2>1 DEF OffersFirst
<1> QED
  BY <1>4, <1>5 DEF OffersFirst

(* An empty link and a link with one message obey OffersFirst; the       *)
(* requests other than the offer are later messages.                     *)
LEMMA FirstQueue ==
  /\ OffersFirst(<<>>)
  /\ \A m : OffersFirst(<<m>>) <=> m.type = "offer" \/ m \in LaterMessages
  /\ \A k \in {"resume", "resume_checked", "cancel", "cancel_ack"} : Message(k) \in LaterMessages
  /\ Message("offer").type = "offer"
<1>1. <<>> \in Seq(LaterMessages)
  BY EmptySeq
<1>2. \A k \in {"resume", "resume_checked", "cancel", "cancel_ack"} : Message(k) \in LaterMessages
  BY DEF LaterMessages, MessagesToR, Message
<1>3. \A m : Head(<<m>>) = m /\ Tail(<<m>>) = <<>> /\ <<m>> # <<>>
  OBVIOUS
<1>4. \A m : <<m>> \in Seq(LaterMessages) <=> m \in LaterMessages
  OBVIOUS
<1> QED
  BY <1>1, <1>2, <1>3, <1>4 DEF OffersFirst, Message

(* A resume, a cancel or an acknowledgement never becomes an offer at    *)
(* the head of the link.                                                 *)
LEMMA RequestQueue ==
  ASSUME TypeOK, FirstContact, NEW k \in {"resume", "cancel", "cancel_ack"},
         ctl' = ToReceiver(k) \/ (ctl.toS # <<>> /\ ctl' = ReplyToReceiver(Message(k)))
  PROVE  /\ OffersFirst(ctl'.toR)
         /\ AtReceiver("offer")' => AtReceiver("offer")
<1>1. Message(k) \in LaterMessages /\ ctl.toR \in Seq(MessagesToR)
  BY FirstQueue DEF TypeOK, Links
<1>2. ctl'.toR = ctl.toR \/ ctl'.toR = Append(ctl.toR, Message(k))
  BY DEF TypeOK, Links, ToReceiver, ReplyToReceiver
<1> QED
  BY <1>1, <1>2, LaterQueue DEF FirstContact, AtReceiver

(* A failure or a disconnect leaves the state before the offer.          *)
LEMMA LeavesCreated ==
  ASSUME Failed \/ Disconnected
  PROVE  snd'.state # "created"
BY DEF Failed, Disconnected, SenderIn, NewSender, SenderTerminal

(* The sender keeps FirstContact: only Offer sends an offer, and it is   *)
(* the first message the receiver gets.                                  *)
LEMMA FirstContactSender ==
  ASSUME TypeOK, FirstContact, SenderWorker \/ SenderReader \/ SenderControl \/ SenderTimers
  PROVE  FirstContact'
<1> USE DEF FirstContact
<1>1. (rcv' = rcv /\ row' = row) => (Untouched => Untouched')
  BY DEF Untouched
<1>2. CASE Offer
  <2>1. ctl.toR = <<>> /\ ctl.toS = <<>> /\ Untouched /\ UNCHANGED <<rcv, row>>
    BY <1>2 DEF Offer, Working, receiverVars
  <2>2. ctl'.toR = <<>> \/ ctl'.toR = <<Message("offer")>>
    BY <1>2, <2>1 DEF Offer, ToReceiver, TypeOK, Links
  <2>3. snd'.state # "created"
    BY <1>2 DEF Offer, SenderIn, NewSender, SenderTerminal
  <2> QED
    BY <1>1, <2>1, <2>2, <2>3, FirstQueue
<1>3. CASE /\ UNCHANGED <<ctl, rcv, row>>
           /\ snd'.state = "created" => snd.state = "created"
  BY <1>1, <1>3 DEF AtReceiver
<1>4. CASE CreateJournal \/ EnterAccepted \/ OfferRejected \/ PreflightTimeout
  BY <1>3, <1>4 DEF CreateJournal, EnterAccepted, OfferRejected, PreflightTimeout, Failed,
                    SenderIn, NewSender, SenderTerminal, receiverVars
<1>5. CASE DialOpen
  BY <1>5 DEF DialOpen, ChannelAdmitted, Untouched, NoReceiver, AtReceiver,
              SenderIn, NewSender, SenderTerminal
<1>6. CASE DialRefused
  BY <1>3, <1>6, LeavesCreated DEF DialRefused, receiverVars
<1>7. CASE TakeManifestAck \/ SendChunk \/ SourceChanged \/ SourceDone \/ FinishSend
             \/ TakeAck \/ TakeCompleteAck
  <2>1. UNCHANGED <<ctl, rcv, row>>
    BY <1>7 DEF TakeManifestAck, SendChunk, SourceChanged, SourceDone, FinishSend,
                TakeAck, TakeCompleteAck, receiverVars
  <2>2. CASE SendChunk \/ SourceDone
    <3>1. snd'.state = snd.state
      BY <2>2 DEF SendChunk, SourceDone, Senders, TypeOK
    <3> QED
      BY <3>1, <1>3, <2>1
  <2>3. CASE TakeAck
    <3>1. snd'.state = snd.state
      BY <2>3 DEF TakeAck, Senders, TypeOK
    <3> QED
      BY <3>1, <1>3, <2>1
  <2>4. CASE SourceChanged
    BY <1>3, <2>1, <2>4, LeavesCreated DEF SourceChanged
  <2>5. CASE TakeManifestAck
    <3>1. Failed \/ \E r, a : snd' = [SenderIn("transferring") EXCEPT !.read = r, !.acked = a]
      BY <2>5 DEF TakeManifestAck
    <3>2. snd'.state # "created"
      BY <3>1, LeavesCreated DEF SenderIn, NewSender, SenderTerminal
    <3> QED
      BY <1>3, <2>1, <3>2
  <2>6. CASE FinishSend \/ TakeCompleteAck
    <3>1. Failed \/ snd' = SenderIn("finalizing") \/ snd' = SenderIn("completed")
      BY <2>6 DEF FinishSend, TakeCompleteAck
    <3>2. snd'.state # "created"
      BY <3>1, LeavesCreated DEF SenderIn, NewSender, SenderTerminal
    <3> QED
      BY <1>3, <2>1, <3>2
  <2> QED
    BY <1>7, <2>2, <2>3, <2>4, <2>5, <2>6
<1>8. CASE LoseChannel
  BY <1>3, <1>8, LeavesCreated DEF LoseChannel, receiverVars
<1>9. CASE ResumeLate \/ ResumeAccepted \/ ResumeRejected
  BY <1>3, <1>9 DEF ResumeLate, ResumeAccepted, ResumeRejected, Failed, SenderIn, NewSender,
                    SenderTerminal, Senders, TypeOK, Working, receiverVars
<1>10. CASE AskResume \/ EnterCancelled
  <2>1. /\ UNCHANGED <<rcv, row>> /\ snd'.state # "created"
        /\ \E k \in {"resume", "cancel", "cancel_ack"} : ctl' = ToReceiver(k)
    BY <1>10 DEF AskResume, EnterCancelled, SenderIn, NewSender, SenderTerminal, Senders,
                 TypeOK, Working, receiverVars
  <2> QED
    BY <1>1, <2>1, RequestQueue
<1>11. CASE DeliverAccept \/ DeliverReject \/ DeliverCancelAck
  <2>1. /\ UNCHANGED <<rcv, row>>
        /\ snd'.state = "created" => snd.state = "created"
        /\ ctl.toS # <<>> /\ ctl'.toR = ctl.toR
    BY <1>11 DEF DeliverAccept, DeliverReject, DeliverCancelAck, AtSender, TakenBySender,
                 SenderIn, NewSender, SenderTerminal, Senders, TypeOK, Links, receiverVars
  <2> QED
    BY <1>1, <2>1 DEF AtReceiver
<1>12. CASE DeliverCancel
  <2>1. /\ UNCHANGED <<rcv, row>>
        /\ snd'.state = "created" => snd.state = "created"
        /\ ctl.toS # <<>>
        /\ ctl'.toR = ctl.toR \/ ctl' = ReplyToReceiver(Message("cancel_ack"))
    BY <1>12 DEF DeliverCancel, AtSender, TakenBySender,
                 SenderIn, NewSender, SenderTerminal, Senders, TypeOK, Links, receiverVars
  <2> QED
    BY <1>1, <2>1, RequestQueue DEF AtReceiver
<1>13. CASE CancelAckTimeout
  BY <1>3, <1>13 DEF CancelAckTimeout, SenderIn, NewSender, SenderTerminal, receiverVars
<1> QED
  BY <1>2, <1>4, <1>5, <1>6, <1>7, <1>8, <1>9, <1>10, <1>11, <1>12, <1>13
  DEF SenderWorker, SenderReader, SenderControl, SenderTimers

(* Faults, restarts and new peer links keep FirstContact: a restored     *)
(* session asks to resume, it never offers again.                        *)
LEMMA FirstContactSenderFaults ==
  ASSUME TypeOK, FirstContact, SenderFaults \/ Environment
  PROVE  FirstContact'
<1> USE DEF FirstContact
<1>1. (rcv' = rcv /\ row' = row) => (Untouched => Untouched')
  BY DEF Untouched
<1>2. CASE /\ UNCHANGED <<ctl, rcv, row>>
           /\ snd'.state = "created" => snd.state = "created"
  BY <1>1, <1>2 DEF AtReceiver
<1>3. CASE DialLost
  BY <1>2, <1>3, LeavesCreated DEF DialLost, receiverVars
<1>4. CASE DialAckLost
  BY <1>4, LeavesCreated DEF DialAckLost, ChannelAdmitted, Untouched, NoReceiver, AtReceiver
<1>5. CASE SenderTimeout \/ BaselineAborted \/ GiveUp
  BY <1>2, <1>5, LeavesCreated DEF SenderTimeout, BaselineAborted, GiveUp, receiverVars
<1>6. CASE CancelRequest
  BY <1>2, <1>6 DEF CancelRequest, Senders, TypeOK, receiverVars
<1>7. CASE SenderCrash \/ SenderStop \/ LinkDrop
  <2>1. /\ UNCHANGED <<rcv, row>>
        /\ snd'.state = "created" => snd.state = "created"
        /\ ctl' = LinkDown
    BY <1>7 DEF SenderCrash, SenderStop, SenderGone, LinkDrop, SenderIn, NewSender,
                SenderTerminal, receiverVars
  <2> QED
    BY <1>1, <2>1, FirstQueue DEF LinkDown, AtReceiver
<1>8. CASE LinkUp
  <2>1. /\ UNCHANGED <<rcv, row>>
        /\ snd'.state = "created" => snd.state = "created"
    BY <1>8 DEF LinkUp, RestoredSender, NewSender
  <2>2. \/ ctl'.toR = <<>> /\ ctl'.toS = <<>>
        \/ ctl'.toR = <<Message("cancel")>> /\ snd.state \in Pruned /\ snd' = snd
    BY <1>8 DEF LinkUp, RestoredSender, LinkDown
  <2>3. /\ Head(<<Message("cancel")>>).type # "offer"
        /\ snd.state \in Pruned => snd.state # "created"
    BY DEF Message, Pruned, SenderTerminal
  <2>4. CASE ctl'.toR = <<>> /\ ctl'.toS = <<>>
    BY <1>1, <2>1, <2>4, FirstQueue DEF AtReceiver
  <2>5. CASE ctl'.toR = <<Message("cancel")>> /\ snd.state \in Pruned /\ snd' = snd
    <3>1. OffersFirst(ctl'.toR)
      BY <2>5, FirstQueue
    <3> QED
      BY <2>3, <2>5, <3>1 DEF AtReceiver
  <2> QED
    BY <2>2, <2>4, <2>5
<1>9. CASE ChannelReset \/ Edit
  BY <1>2, <1>9 DEF ChannelReset, Edit
<1> QED
  BY <1>3, <1>4, <1>5, <1>6, <1>7, <1>8, <1>9 DEF SenderFaults, Environment

(* The handler of the head leaves a queue without an offer at its head.  *)
LEMMA TakenQueue ==
  ASSUME TypeOK, FirstContact, ctl.toR # <<>>, ctl'.toR = Tail(ctl.toR),
         snd'.state = snd.state
  PROVE  FirstContact'
<1>1. OffersFirst(Tail(ctl.toR)) /\ (Tail(ctl.toR) # <<>> => Head(Tail(ctl.toR)).type # "offer")
  <2>1. Message("cancel") \in LaterMessages /\ ctl.toR \in Seq(MessagesToR)
    BY FirstQueue DEF TypeOK, Links
  <2> QED
    BY <2>1, LaterQueue DEF FirstContact
<1>2. snd.state # "created"
  BY DEF FirstContact
<1> QED
  BY <1>1, <1>2 DEF FirstContact, AtReceiver

(* The receiver keeps FirstContact: before it has handled the offer it   *)
(* has done nothing.                                                     *)
LEMMA FirstContactReceiver ==
  ASSUME TypeOK, FirstContact,
         ReceiverControl \/ ReceiverChannel \/ ReceiverTimers \/ ReceiverFaults
  PROVE  FirstContact'
<1>1. CASE /\ rcv.state # "none" \/ rcv.step # "run"
           /\ snd' = snd /\ ctl'.toR = ctl.toR
  BY <1>1 DEF FirstContact, Untouched, NoReceiver, AtReceiver
<1>2. CASE HandleOffer \/ RefuseOffer
  <2>1. ctl.toR # <<>> /\ ctl'.toR = Tail(ctl.toR) /\ snd' = snd
    BY <1>2 DEF HandleOffer, RefuseOffer, AcceptFresh, Accept, AtReceiver, ReplyToSender,
                senderVars, TypeOK, Links
  <2> QED
    BY <2>1, TakenQueue
<1>3. CASE HandleResume \/ RefuseResume
  <2>1. ctl.toR # <<>> /\ ctl'.toR = Tail(ctl.toR) /\ snd' = snd
    BY <1>3 DEF HandleResume, RefuseResume, AcceptFresh, Accept, ResumeArrives, AtReceiver,
                ReplyToSender, senderVars, TypeOK, Links
  <2> QED
    BY <2>1, TakenQueue
<1>4. CASE CancelFromPeer \/ CancelAcknowledged
  <2>1. ctl.toR # <<>> /\ ctl'.toR = Tail(ctl.toR) /\ snd' = snd
    BY <1>4 DEF CancelFromPeer, CancelAcknowledged, AtReceiver, TakenByReceiver,
                ReplyToSender, senderVars, TypeOK, Links
  <2> QED
    BY <2>1, TakenQueue
<1>5. CASE ResumeOvertakesFinalize
  <2>1. ctl.toR # <<>> /\ Head(ctl.toR).type = "resume" /\ snd' = snd
    BY <1>5 DEF ResumeOvertakesFinalize, AtReceiver, senderVars
  <2>2. Tail(ctl.toR) \in Seq(LaterMessages)
    BY <2>1, QueueType DEF FirstContact, OffersFirst
  <2>3. ctl'.toR = <<Message("resume_checked")>> \o Tail(ctl.toR)
    BY <1>5 DEF ResumeOvertakesFinalize, TypeOK, Links
  <2>4. Message("resume_checked") \in LaterMessages
    BY FirstQueue
  <2>5. ctl'.toR \in Seq(LaterMessages) /\ ctl'.toR # <<>> /\ Head(ctl'.toR).type # "offer"
    BY <2>2, <2>3, <2>4 DEF LaterMessages
  <2> QED
    BY <2>1, <2>5 DEF FirstContact, AtReceiver, OffersFirst
<1>6. CASE ReceiverChannel \/ ReceiveFails \/ FinalizeFails
  <2>1. /\ rcv.state # "none" \/ rcv.step # "run"
        /\ snd' = snd
    BY <1>6 DEF ReceiverChannel, ReceiveManifest, ReceiveChunk, PollAck, ChannelEnds,
                ReceiveComplete, RenameNext, StoreVerified, CommitItem, CompletePublication,
                ReceiveFails, FinalizeFails, Receiving, Unlocked, senderVars
  <2>2. ctl'.toR = ctl.toR
    BY <1>6 DEF ReceiverChannel, ReceiveManifest, ReceiveChunk, PollAck, ChannelEnds,
                ReceiveComplete, RenameNext, StoreVerified, CommitItem, CompletePublication,
                ReceiveFails, FinalizeFails, WriteChunk, ProtocolFailure, TypeOK, Links
  <2> QED
    BY <1>1, <2>1, <2>2
<1>7. CASE ReceiverTimers \/ ReceiverCancel
  <2>1. /\ rcv.state # "none"
        /\ snd' = snd /\ ctl'.toR = ctl.toR
    BY <1>7 DEF ReceiverTimers, ReceiverTimeout, Prune, ReceiverCancel, senderVars, TypeOK,
                Links
  <2> QED
    BY <1>1, <2>1
<1>8. CASE ReceiverStop \/ ReceiverCrash
  <2>1. rcv' = NoReceiver /\ ctl' = LinkDown /\ UNCHANGED <<row, snd>>
    BY <1>8 DEF ReceiverStop, ReceiverCrash, ReceiverGone, senderVars
  <2> QED
    BY <2>1, FirstQueue DEF FirstContact, Untouched, AtReceiver, LinkDown
<1> QED
  BY <1>2, <1>3, <1>4, <1>5, <1>6, <1>7, <1>8 DEF ReceiverControl, ReceiverFaults

(* Every step keeps FirstContact.                                        *)
LEMMA FirstContactStep ==
  ASSUME TypeOK, FirstContact, [Next]_vars
  PROVE  FirstContact'
<1>1. CASE Next
  BY <1>1, FirstContactSender, FirstContactSenderFaults, FirstContactReceiver DEF Next
<1>2. CASE UNCHANGED vars
  BY <1>2 DEF vars, FirstContact, AtReceiver, Untouched
<1> QED
  BY <1>1, <1>2

----------------------------------------------------------------------------
(* What the sender has read *)

(* The stream position stays, and an edit is not undone.                 *)
ReadKept ==
  snd'.read = snd.read /\ snd'.drained = snd.drained /\ (edited => edited')
(* The stream position is dropped with its phase.                        *)
ReadDropped == snd'.read = <<>> /\ ~snd'.drained

(* A session that enters a state has read nothing.                       *)
LEMMA DroppedStates ==
  \A state : SenderIn(state).read = <<>> /\ ~SenderIn(state).drained
BY DEF SenderIn, NewSender

(* A failure or a disconnect drops the stream position.                  *)
LEMMA DroppedRead ==
  ASSUME Failed \/ Disconnected
  PROVE  ReadDropped
BY DEF Failed, Disconnected, ReadDropped, SenderIn, NewSender

(* A step keeps the stream position, drops it, or is one of the three    *)
(* that read the source.                                                 *)
LEMMA ReadStep ==
  ASSUME TypeOK, [Next]_vars
  PROVE  ReadKept \/ ReadDropped \/ TakeManifestAck \/ SendChunk \/ SourceDone
<1> USE DEF ReadKept, ReadDropped
<1>1. CASE UNCHANGED <<snd, edited>>
  BY <1>1
<1>2. CASE SenderWorker
  <2>1. CASE Offer \/ EnterAccepted \/ OfferRejected \/ DialOpen \/ FinishSend
               \/ ResumeAccepted \/ EnterCancelled
    BY <2>1 DEF Offer, EnterAccepted, OfferRejected, DialOpen, FinishSend, ResumeAccepted,
                EnterCancelled, SenderIn, NewSender, SenderTerminal
  <2>2. CASE DialRefused \/ SourceChanged \/ LoseChannel \/ ResumeRejected
    BY <2>2, DroppedRead DEF DialRefused, SourceChanged, LoseChannel, ResumeRejected
  <2>3. CASE TakeCompleteAck
    BY <2>3, DroppedRead, DroppedStates DEF TakeCompleteAck
  <2>4. CASE CreateJournal \/ AskResume
    BY <2>4 DEF CreateJournal, AskResume, TypeOK, Senders
  <2> QED
    BY <1>2, <2>1, <2>2, <2>3, <2>4 DEF SenderWorker
<1>3. CASE SenderReader \/ SenderControl \/ SenderTimers
  <2>1. CASE TakeAck
    BY <2>1 DEF TakeAck, TypeOK, Senders
  <2>2. CASE DeliverAccept \/ DeliverReject
    BY <2>2 DEF DeliverAccept, DeliverReject, TypeOK, Senders
  <2>3. CASE DeliverCancel \/ DeliverCancelAck \/ CancelAckTimeout \/ ResumeLate
    BY <2>3, DroppedStates
    DEF DeliverCancel, DeliverCancelAck, CancelAckTimeout, ResumeLate, TypeOK, Senders
  <2>4. CASE PreflightTimeout
    BY <2>4, DroppedRead DEF PreflightTimeout
  <2> QED
    BY <1>3, <2>1, <2>2, <2>3, <2>4 DEF SenderReader, SenderControl, SenderTimers
<1>4. CASE SenderFaults
  <2>1. CASE DialLost \/ DialAckLost \/ SenderTimeout \/ BaselineAborted \/ GiveUp
    BY <2>1, DroppedRead DEF DialLost, DialAckLost, SenderTimeout, BaselineAborted, GiveUp
  <2>2. CASE SenderCrash \/ SenderStop
    BY <2>2, DroppedStates DEF SenderCrash, SenderStop, SenderGone
  <2>3. CASE CancelRequest
    BY <2>3 DEF CancelRequest, TypeOK, Senders
  <2> QED
    BY <1>4, <2>1, <2>2, <2>3 DEF SenderFaults
<1>5. CASE ReceiverControl \/ ReceiverTimers
  <2>1. UNCHANGED senderVars
    BY <1>5 DEF ReceiverControl, ReceiverTimers, HandleOffer, ResumeOvertakesFinalize,
                HandleResume, CancelFromPeer, CancelAcknowledged, ReceiverTimeout, Prune
  <2> QED
    BY <1>1, <2>1 DEF senderVars
<1>6. CASE ReceiverChannel \/ ReceiverFaults
  <2>1. UNCHANGED senderVars
    BY <1>6 DEF ReceiverChannel, ReceiveManifest, ReceiveChunk, PollAck, ChannelEnds,
                ReceiveComplete, RenameNext, StoreVerified, CommitItem, CompletePublication,
                ReceiverFaults, RefuseOffer, RefuseResume, ReceiveFails, FinalizeFails,
                ReceiverCancel, ReceiverStop, ReceiverCrash, ReceiverGone
  <2> QED
    BY <1>1, <2>1 DEF senderVars
<1>7. CASE Environment
  BY <1>7, <1>1 DEF Environment, ChannelReset, LinkDrop, LinkUp, RestoredSender, Edit, NewSender
<1> QED
  BY <1>1, <1>2, <1>3, <1>4, <1>5, <1>6, <1>7 DEF Next, vars

(* Every step keeps SourceRead: a read that began before an edit is not  *)
(* accepted as complete after it.                                        *)
LEMMA SourceReadStep ==
  ASSUME TypeOK, SourceRead, [Next]_vars
  PROVE  SourceRead'
<1> USE DEF SourceRead
<1>1. ~edited => Source = "orig"
  BY DEF Source
<1>2. CASE ReadKept \/ ReadDropped
  BY <1>2 DEF ReadKept, ReadDropped
<1>3. CASE TakeManifestAck
  <2>1. CASE Failed
    BY <2>1, DroppedRead DEF ReadDropped
  <2> DEFINE durable == Head(chan.toS).durable
  <2>2. CASE /\ snd' = [SenderIn("transferring") EXCEPT
                          !.read = [p \in 1..durable |-> Source], !.acked = durable]
             /\ edited' = edited
    <3>1. durable \in Nat
      BY <1>3, QueueType, FrameFields DEF TakeManifestAck, FrameAtSender, TypeOK, Channels
    <3>2. snd'.read = [p \in 1..durable |-> Source] /\ ~snd'.drained
      BY <2>2, DroppedStates DEF SenderIn, NewSender
    <3> QED
      BY <1>1, <2>2, <3>1, <3>2
  <2> QED
    BY <1>3, <2>1, <2>2 DEF TakeManifestAck
<1>4. CASE SendChunk
  <2>1. snd'.read = Append(snd.read, Source) /\ ~snd'.drained /\ edited' = edited
    BY <1>4 DEF SendChunk, TypeOK, Senders
  <2>2. snd.read \in Seq(Bytes) /\ Source \in Bytes
    BY DEF TypeOK, Senders, Source, Bytes
  <2> QED
    BY <1>1, <2>1, <2>2, AppendProperties
<1>5. CASE SourceDone
  <2>1. /\ snd'.read = snd.read /\ edited' = edited /\ ~edited
        /\ Len(snd.read) = Size
    BY <1>5 DEF SourceDone, TypeOK, Senders
  <2>2. snd.read = [p \in 1..Size |-> snd.read[p]]
    BY <2>1 DEF TypeOK, Senders
  <2>3. snd.read = Offered
    BY <2>1, <2>2 DEF Offered
  <2> QED
    BY <2>1, <2>3
<1> QED
  BY <1>2, <1>3, <1>4, <1>5, ReadStep

----------------------------------------------------------------------------
(* The published row and the frames in flight *)

(* A published row does not change, and only CommitItem publishes: a     *)
(* provisional row never replaces a finalized one (same_item_lineage).   *)
LEMMA RowStep ==
  ASSUME TypeOK, FirstContact, ContentFlow, [Next]_vars
  PROVE  /\ row.state = "published" => row' = row
         /\ row'.state = "published" => row' = row \/ CommitItem
<1>1. CASE UNCHANGED row
  BY <1>1
<1>2. CASE SenderWorker \/ SenderReader \/ SenderControl \/ SenderTimers
  BY <1>1, <1>2
  DEF SenderWorker, SenderReader, SenderControl, SenderTimers, Offer, CreateJournal,
      EnterAccepted, OfferRejected, PreflightTimeout, DialOpen, DialRefused, TakeManifestAck,
      SendChunk, SourceChanged, SourceDone, FinishSend, TakeAck, TakeCompleteAck, LoseChannel,
      AskResume, ResumeLate, ResumeAccepted, ResumeRejected, DeliverAccept, DeliverReject,
      DeliverCancel, DeliverCancelAck, EnterCancelled, CancelAckTimeout, receiverVars
<1>3. CASE SenderFaults \/ Environment
  BY <1>1, <1>3
  DEF SenderFaults, DialLost, DialAckLost, SenderTimeout,
      BaselineAborted, GiveUp, CancelRequest, SenderCrash,
      SenderStop, SenderGone, Environment, ChannelReset, LinkDrop, LinkUp, Edit, receiverVars
<1>4. CASE HandleOffer
  BY <1>1, <1>4 DEF HandleOffer, AcceptFresh, Accept, FirstContact, Untouched, NoRow
<1>5. CASE HandleResume
  BY <1>1, <1>5 DEF HandleResume, RowRegresses, AcceptFresh, Accept, NoRow
<1>6. CASE CommitItem
  <2>1. row' = [state |-> "published", data |-> Offered]
    BY <1>6 DEF CommitItem, ContentFlow
  <2>2. row.state = "published" => row = [state |-> "published", data |-> Offered]
    BY DEF ContentFlow, PublishedIsOffered, TypeOK, Rows
  <2> QED
    BY <1>6, <2>1, <2>2
<1>7. CASE ResumeOvertakesFinalize \/ CancelFromPeer \/ CancelAcknowledged \/ ReceiverTimers
  BY <1>1, <1>7 DEF ResumeOvertakesFinalize, CancelFromPeer, CancelAcknowledged,
                    ReceiverTimers, ReceiverTimeout, Prune
<1>8. CASE \/ ReceiveManifest \/ ReceiveChunk \/ PollAck \/ ChannelEnds
           \/ ReceiveComplete \/ RenameNext \/ StoreVerified \/ CompletePublication
  BY <1>1, <1>8 DEF ReceiveManifest, ReceiveChunk, PollAck, ChannelEnds,
                    ReceiveComplete, RenameNext, StoreVerified, CompletePublication
<1>9. CASE ReceiverFaults
  BY <1>1, <1>9 DEF ReceiverFaults, RefuseOffer, RefuseResume, ReceiveFails, FinalizeFails,
                    ReceiverCancel, ReceiverStop, ReceiverCrash, ReceiverGone
<1> QED
  BY <1>1, <1>2, <1>3, <1>4, <1>5, <1>6, <1>7, <1>8, <1>9
  DEF Next, ReceiverControl, ReceiverChannel, vars

(* Channel operations only carry completion evidence that was put into   *)
(* the channel.                                                          *)
LEMMA FrameFlow ==
  ASSUME NEW c \in Channels, c.toR \in Seq(OfferedFrames)
  PROVE  /\ \A f \in OfferedFrames : PutR(c, f).toR \in Seq(OfferedFrames)
         /\ \A f : PutS(c, f).toR \in Seq(OfferedFrames)
         /\ CloseS(c).toR \in Seq(OfferedFrames) /\ CloseR(c).toR \in Seq(OfferedFrames)
         /\ TakeS(c).toR \in Seq(OfferedFrames)
         /\ c.toR # <<>> => TakeR(c).toR \in Seq(OfferedFrames)
<1>1. <<>> \in Seq(OfferedFrames)
  BY EmptySeq
<1> QED
  BY <1>1, QueueType DEF Channels, PutR, PutS, CloseS, CloseR, TakeR, TakeS, Closed

(* The sender keeps the evidence true: it sends complete only for a      *)
(* source it has read whole and unchanged.                               *)
LEMMA FramesSender ==
  ASSUME TypeOK, SourceRead, chan.toR \in Seq(OfferedFrames),
         SenderWorker \/ SenderReader \/ SenderControl \/ SenderTimers \/ SenderFaults
           \/ Environment
  PROVE  chan'.toR \in Seq(OfferedFrames)
<1>1. CASE UNCHANGED chan
  BY <1>1
<1>2. <<>> \in Seq(OfferedFrames)
  BY EmptySeq
<1>3. CASE chan' = chan \/ chan' = CloseS(chan) \/ chan' = TakeS(chan)
  BY <1>3, FrameFlow DEF TypeOK
<1>4. CASE \/ TakeManifestAck \/ SourceChanged \/ TakeAck \/ TakeCompleteAck
           \/ SenderTimeout \/ BaselineAborted
           \/ LoseChannel \/ EnterCancelled \/ SenderCrash \/ SenderStop
  BY <1>3, <1>4 DEF TakeManifestAck, SourceChanged, TakeAck, TakeCompleteAck, SenderTimeout,
          BaselineAborted,
                    LoseChannel, EnterCancelled, SenderCrash, SenderStop, SenderGone
<1>5. CASE DialOpen
  <2>1. [type |-> "manifest"] \in OfferedFrames
    BY FrameType DEF OfferedFrames
  <2>2. <<[type |-> "manifest"]>> \in Seq(OfferedFrames)
    BY <2>1
  <2> QED
    BY <1>5, <2>2 DEF DialOpen, Closed
<1>6. CASE DialAckLost \/ ChannelReset
  BY <1>2, <1>6 DEF DialAckLost, ChannelReset, Closed, TypeOK, Channels
<1>7. CASE SendChunk
  <2>1. Len(snd.read) \in Nat /\ Source \in Bytes
    BY SenderFieldType DEF TypeOK, Source, Bytes
  <2>2. Len(snd.read) + 1 \in Nat
    BY <2>1
  <2>3. [type |-> "payload", pos |-> Len(snd.read) + 1, byte |-> Source] \in OfferedFrames
    BY <2>1, <2>2, FrameType DEF OfferedFrames
  <2> QED
    BY <1>7, <2>3, FrameFlow DEF SendChunk, TypeOK
<1>8. CASE FinishSend
  <2>1. snd.read = Offered /\ snd.read \in Seq(Bytes)
    BY <1>8 DEF FinishSend, SourceRead, TypeOK, Senders
  <2>2. [type |-> "complete", content |-> snd.read] \in OfferedFrames
    BY <2>1, FrameType DEF OfferedFrames
  <2> QED
    BY <1>8, <2>2, FrameFlow DEF FinishSend, TypeOK
<1>9. CASE \/ Offer \/ CreateJournal \/ EnterAccepted \/ OfferRejected \/ PreflightTimeout
           \/ DialRefused \/ DialLost \/ SourceDone \/ AskResume \/ ResumeLate
           \/ ResumeAccepted \/ ResumeRejected \/ GiveUp \/ SenderControl
           \/ CancelAckTimeout \/ CancelRequest \/ LinkDrop \/ LinkUp \/ Edit
  BY <1>1, <1>9
  DEF Offer, CreateJournal, EnterAccepted, OfferRejected, PreflightTimeout, DialRefused,
      DialLost, SourceDone, AskResume, ResumeLate, ResumeAccepted, ResumeRejected, GiveUp,
      SenderControl, DeliverAccept, DeliverReject, DeliverCancel, DeliverCancelAck,
      CancelAckTimeout, CancelRequest, LinkDrop, LinkUp, Edit
<1> QED
  BY <1>4, <1>5, <1>6, <1>7, <1>8, <1>9
  DEF SenderWorker, SenderReader, SenderTimers, SenderFaults, Environment

(* The receiver adds nothing to the frames it is sent.                   *)
LEMMA FramesReceiver ==
  ASSUME TypeOK, chan.toR \in Seq(OfferedFrames),
         ReceiverControl \/ ReceiverChannel \/ ReceiverTimers \/ ReceiverFaults
  PROVE  chan'.toR \in Seq(OfferedFrames)
<1>1. CASE chan' = chan \/ chan' = CloseR(chan)
  BY <1>1, FrameFlow DEF TypeOK
<1>2. chan.toR # <<>> => /\ TakeR(chan) \in Channels
                         /\ TakeR(chan).toR \in Seq(OfferedFrames)
  BY FrameFlow, PutType DEF TypeOK
<1>3. \A ok \in BOOLEAN : Answer(ok).toR \in Seq(OfferedFrames)
  <2> TAKE ok \in BOOLEAN
  <2>1. PutS(chan, CompleteAck(ok)) \in Channels
    BY FrameType, PutType DEF TypeOK
  <2>2. PutS(chan, CompleteAck(ok)).toR \in Seq(OfferedFrames)
    BY FrameFlow DEF TypeOK
  <2> QED
    BY <2>1, <2>2, FrameFlow DEF Answer
<1>4. CASE ReceiverControl \/ ReceiverTimers
  BY <1>1, <1>4
  DEF ReceiverControl, ReceiverTimers, HandleOffer, ResumeOvertakesFinalize, HandleResume,
      CancelFromPeer, CancelAcknowledged, ReceiverTimeout, Prune
<1>5. CASE ReceiveManifest
  BY <1>2, <1>5, FrameFlow DEF ReceiveManifest, FrameAtReceiver
<1>6. CASE ReceiveChunk
  <2>1. CASE ProtocolFailure
    BY <1>1, <2>1 DEF ProtocolFailure
  <2>2. CASE WriteChunk(Head(chan.toR))
    BY <1>2, <1>6, <2>2, FrameFlow DEF ReceiveChunk, WriteChunk, FrameAtReceiver
  <2> QED
    BY <1>6, <2>1, <2>2 DEF ReceiveChunk
<1>7. CASE PollAck
  BY <1>7, FrameFlow DEF PollAck, TypeOK
<1>8. CASE ReceiveComplete \/ CompletePublication \/ FinalizeFails
  BY <1>2, <1>3, <1>8 DEF ReceiveComplete, CompletePublication, FinalizeFails, FrameAtReceiver
<1>9. CASE \/ ChannelEnds \/ RenameNext \/ StoreVerified \/ CommitItem \/ RefuseOffer
           \/ RefuseResume \/ ReceiveFails \/ ReceiverCancel \/ ReceiverStop \/ ReceiverCrash
  BY <1>1, <1>9 DEF ChannelEnds, RenameNext, StoreVerified, CommitItem, RefuseOffer,
      RefuseResume, ReceiveFails, ReceiverCancel, ReceiverStop, ReceiverCrash, ReceiverGone
<1> QED
  BY <1>4, <1>5, <1>6, <1>7, <1>8, <1>9 DEF ReceiverChannel, ReceiverFaults

----------------------------------------------------------------------------
(* Finalization *)

(* A session in finalization holds the whole offered content, and        *)
(* nothing touches its stage: the session lock is held until it has      *)
(* ended.                                                                *)
LEMMA FinalizationStep ==
  ASSUME TypeOK, ContentFlow, [Next]_vars
  PROVE  rcv'.step # "run" => stage'.data = Offered /\ rcv'.state = "finalizing"
<1>1. CASE /\ rcv'.step # "run" => rcv'.step = rcv.step /\ rcv'.state = rcv.state
           /\ rcv.step # "run" => stage' = stage
  BY <1>1 DEF ContentFlow
<1>2. CASE rcv' = rcv /\ stage' = stage
  BY <1>1, <1>2
<1>3. \A state : ReceiverIn(state).step = "run" /\ NoReceiver.step = "run"
  BY DEF ReceiverIn, NoReceiver
<1>4. CASE rcv'.step = "run"
  BY <1>4
<1>5. CASE SenderWorker \/ SenderReader \/ SenderControl \/ SenderTimers
  <2>1. CASE DialOpen
    BY <1>4, <2>1 DEF DialOpen, ChannelAdmitted, TypeOK, Receivers
  <2>2. CASE ~DialOpen
    BY <1>2, <1>5, <2>2
    DEF SenderWorker, SenderReader, SenderControl, SenderTimers, Offer, CreateJournal,
        EnterAccepted, OfferRejected, PreflightTimeout, DialRefused, TakeManifestAck,
        SendChunk, SourceChanged, SourceDone, FinishSend, TakeAck, TakeCompleteAck, LoseChannel,
        AskResume, ResumeLate, ResumeAccepted, ResumeRejected, DeliverAccept, DeliverReject,
        DeliverCancel, DeliverCancelAck, EnterCancelled, CancelAckTimeout, receiverVars
  <2> QED
    BY <2>1, <2>2
<1>6. CASE SenderFaults \/ Environment
  <2>1. CASE DialAckLost
    BY <1>4, <2>1 DEF DialAckLost, ChannelAdmitted, TypeOK, Receivers
  <2>2. CASE ~DialAckLost
    BY <1>2, <1>6, <2>2
    DEF SenderFaults, DialLost, SenderTimeout, BaselineAborted, GiveUp, CancelRequest, SenderCrash,
        SenderStop, SenderGone, Environment, ChannelReset, LinkDrop, LinkUp, Edit, receiverVars
  <2> QED
    BY <2>1, <2>2
<1>7. CASE HandleOffer
  BY <1>2, <1>3, <1>4, <1>7
  DEF HandleOffer, Unlocked, AcceptFresh, Accept, ReceiverIn, NoReceiver
<1>8. CASE HandleResume
  BY <1>2, <1>3, <1>4, <1>8
  DEF HandleResume, Unlocked, AcceptFresh, Accept, SuspendedReceiver, ReceiverIn, NoReceiver
<1>9. CASE CancelFromPeer \/ CancelAcknowledged \/ ReceiverTimers
  BY <1>2, <1>3, <1>4, <1>9
  DEF CancelFromPeer, CancelAcknowledged, ReceiverTimers, ReceiverTimeout, Purge, Prune,
      Unlocked
<1>10. CASE ReceiveManifest \/ ReceiveChunk \/ PollAck \/ ChannelEnds
  BY <1>3, <1>4, <1>10
  DEF ReceiveManifest, ReceiveChunk, WriteChunk, ProtocolFailure, PollAck, ChannelEnds,
      Receiving, Unlocked, TypeOK, Receivers
<1>11. CASE ReceiveComplete
  <2>1. chan.toR # <<>> => Head(chan.toR) \in OfferedFrames
    BY QueueType DEF ContentFlow
  <2>2. EvidenceMatches(Head(chan.toR).content) => stage.data = Offered
    BY <1>11, <2>1 DEF ReceiveComplete, FrameAtReceiver, EvidenceMatches, OfferedFrames
  <2>3. [ReceiverIn("finalizing") EXCEPT !.step = "rename"].state = "finalizing"
    BY DEF ReceiverIn, NoReceiver
  <2> QED
    BY <1>3, <1>4, <1>11, <2>2, <2>3 DEF ReceiveComplete
<1>12. CASE RenameNext
  <2>1. stage'.data = stage.data /\ rcv' = rcv
    BY <1>12 DEF RenameNext, TypeOK, Stages
  <2> QED
    BY <2>1 DEF ContentFlow
<1>13. CASE StoreVerified \/ CommitItem
  <2>1. stage' = stage /\ rcv'.state = rcv.state /\ rcv.step # "run"
    BY <1>13 DEF StoreVerified, CommitItem, TypeOK, Receivers
  <2> QED
    BY <2>1 DEF ContentFlow
<1>14. CASE CompletePublication \/ FinalizeFails
  BY <1>3, <1>4, <1>14 DEF CompletePublication, FinalizeFails
<1>15. CASE ReceiverFaults /\ ~FinalizeFails
  BY <1>2, <1>3, <1>4, <1>15
  DEF ReceiverFaults, RefuseOffer, RefuseResume, SuspendedReceiver, ReceiveFails,
      ReceiverCancel, ReceiverStop, ReceiverCrash, ReceiverGone, Receiving, Unlocked
<1>16. CASE ResumeOvertakesFinalize \/ UNCHANGED vars
  BY <1>2, <1>16 DEF ResumeOvertakesFinalize, vars
<1> QED
  BY <1>5, <1>6, <1>7, <1>8, <1>9, <1>10, <1>11, <1>12, <1>13, <1>14, <1>15, <1>16
  DEF Next, ReceiverControl, ReceiverChannel, ReceiverFaults

(* Every step keeps ContentFlow.                                         *)
LEMMA ContentFlowStep ==
  ASSUME TypeOK, FirstContact, SourceRead, ContentFlow, [Next]_vars
  PROVE  ContentFlow'
<1>1. chan'.toR \in Seq(OfferedFrames)
  <2>1. CASE Next
    BY <2>1, FramesSender, FramesReceiver DEF ContentFlow, Next
  <2>2. CASE UNCHANGED vars
    BY <2>2 DEF vars, ContentFlow
  <2> QED
    BY <2>1, <2>2
<1>2. PublishedIsOffered'
  <2>1. CASE row' = row
    BY <2>1 DEF ContentFlow, PublishedIsOffered
  <2>2. CASE CommitItem
    BY <2>2 DEF CommitItem, ContentFlow, PublishedIsOffered
  <2> QED
    BY <2>1, <2>2, RowStep DEF PublishedIsOffered
<1>3. rcv'.step # "run" => stage'.data = Offered /\ rcv'.state = "finalizing"
  BY FinalizationStep
<1> QED
  BY <1>1, <1>2, <1>3 DEF ContentFlow

----------------------------------------------------------------------------
(* Confirmations *)

(* Channel operations only carry replies that were put into the channel. *)
LEMMA ReplyFlow ==
  ASSUME NEW S, NEW c \in Channels, c.toS \in Seq(S)
  PROVE  /\ \A f \in S : PutS(c, f).toS \in Seq(S)
         /\ \A f : PutR(c, f).toS \in Seq(S)
         /\ CloseS(c).toS \in Seq(S) /\ CloseR(c).toS \in Seq(S)
         /\ TakeR(c).toS \in Seq(S)
         /\ c.toS # <<>> => TakeS(c).toS \in Seq(S)
<1>1. <<>> \in Seq(S)
  BY EmptySeq
<1> QED
  BY <1>1, QueueType DEF Channels, PutR, PutS, CloseS, CloseR, TakeR, TakeS, Closed

(* The sender adds nothing to the replies.                               *)
LEMMA RepliesSender ==
  ASSUME TypeOK, NEW S, chan.toS \in Seq(S),
         SenderWorker \/ SenderReader \/ SenderControl \/ SenderTimers \/ SenderFaults
           \/ Environment
  PROVE  chan'.toS \in Seq(S)
<1>1. CASE \/ chan' = chan \/ chan' = CloseS(chan)
           \/ chan.toS # <<>> /\ chan' = TakeS(chan)
           \/ \E f : chan' = PutR(chan, f)
  BY <1>1, ReplyFlow DEF TypeOK
<1>2. CASE chan'.toS = <<>>
  BY <1>2, EmptySeq
<1>3. CASE \/ TakeManifestAck \/ SourceChanged \/ TakeAck \/ TakeCompleteAck
           \/ SenderTimeout \/ BaselineAborted
           \/ LoseChannel \/ EnterCancelled \/ SenderCrash \/ SenderStop
           \/ SendChunk \/ FinishSend
  BY <1>1, <1>3 DEF TakeManifestAck, SourceChanged, TakeAck, TakeCompleteAck, SenderTimeout,
          BaselineAborted,
                    LoseChannel, EnterCancelled, SenderCrash, SenderStop, SenderGone,
                    SendChunk, FinishSend, FrameAtSender
<1>4. CASE DialOpen \/ DialAckLost \/ ChannelReset
  BY <1>2, <1>4 DEF DialOpen, DialAckLost, ChannelReset, Closed, TypeOK, Channels
<1>5. CASE \/ Offer \/ CreateJournal \/ EnterAccepted \/ OfferRejected \/ PreflightTimeout
           \/ DialRefused \/ DialLost \/ SourceDone \/ AskResume \/ ResumeLate
           \/ ResumeAccepted \/ ResumeRejected \/ GiveUp \/ SenderControl
           \/ CancelAckTimeout \/ CancelRequest \/ LinkDrop \/ LinkUp \/ Edit
  BY <1>1, <1>5
  DEF Offer, CreateJournal, EnterAccepted, OfferRejected, PreflightTimeout, DialRefused,
      DialLost, SourceDone, AskResume, ResumeLate, ResumeAccepted, ResumeRejected, GiveUp,
      SenderControl, DeliverAccept, DeliverReject, DeliverCancel, DeliverCancelAck,
      CancelAckTimeout, CancelRequest, LinkDrop, LinkUp, Edit
<1> QED
  BY <1>3, <1>4, <1>5 DEF SenderWorker, SenderReader, SenderTimers, SenderFaults, Environment

(* What the receiver adds to the replies: the answer to a manifest, an   *)
(* acknowledgement of what its journal then holds, a refusal, and, after *)
(* the publication only, a positive complete_ack.                        *)
LEMMA RepliesReceiver ==
  ASSUME TypeOK, NEW S, chan.toS \in Seq(S),
         \A d \in Nat : [type |-> "manifest_ack", durable |-> d] \in S,
         \A p \in Nat : [type |-> "ack", pos |-> p, durable |-> rj'.durable] \in S,
         CompleteAck(FALSE) \in S, rcv.step = "receipt" => CompleteAck(TRUE) \in S,
         ReceiverControl \/ ReceiverChannel \/ ReceiverTimers \/ ReceiverFaults
  PROVE  chan'.toS \in Seq(S)
<1>1. CASE chan' = chan \/ chan' = CloseR(chan)
  BY <1>1, ReplyFlow DEF TypeOK
<1>2. chan.toR # <<>> => /\ TakeR(chan) \in Channels
                         /\ TakeR(chan).toS \in Seq(S)
  BY ReplyFlow, PutType DEF TypeOK
<1>3. \A ok \in BOOLEAN :
        CompleteAck(ok) \in S => Answer(ok).toS \in Seq(S)
  <2> SUFFICES ASSUME NEW ok \in BOOLEAN, CompleteAck(ok) \in S
               PROVE  Answer(ok).toS \in Seq(S)
    OBVIOUS
  <2>2. PutS(chan, CompleteAck(ok)) \in Channels
    BY FrameType, PutType DEF TypeOK
  <2>3. PutS(chan, CompleteAck(ok)).toS \in Seq(S)
    BY ReplyFlow DEF TypeOK
  <2> QED
    BY <2>2, <2>3, ReplyFlow DEF Answer
<1>4. CASE ReceiverControl \/ ReceiverTimers
  BY <1>1, <1>4
  DEF ReceiverControl, ReceiverTimers, HandleOffer, ResumeOvertakesFinalize, HandleResume,
      CancelFromPeer, CancelAcknowledged, ReceiverTimeout, Prune
<1>6. rj.durable \in Nat /\ Len(stage.data) \in Nat
  BY StageFieldType DEF TypeOK, Journals
<1>7. CASE ReceiveManifest
  BY <1>2, <1>6, <1>7, ReplyFlow DEF ReceiveManifest, FrameAtReceiver
<1>8. CASE ReceiveChunk
  <2>1. CASE ProtocolFailure
    BY <1>1, <2>1 DEF ProtocolFailure
  <2>2. CASE WriteChunk(Head(chan.toR))
    <3>1. chan.toR # <<>> /\ Head(chan.toR) \in Frames /\ Head(chan.toR).pos \in Nat
      BY <1>8, QueueType, FrameFields DEF ReceiveChunk, FrameAtReceiver, TypeOK, Channels
    <3>3. [type |-> "ack", pos |-> Head(chan.toR).pos, durable |-> rj'.durable] \in S
      BY <3>1
    <3>4. \/ chan' = TakeR(chan)
          \/ chan' = PutS(TakeR(chan), [type |-> "ack", pos |-> Head(chan.toR).pos,
                                        durable |-> rj'.durable])
      BY <2>2 DEF WriteChunk
    <3> QED
      BY <1>2, <3>1, <3>3, <3>4, ReplyFlow
  <2> QED
    BY <1>8, <2>1, <2>2 DEF ReceiveChunk
<1>9. CASE PollAck
  BY <1>6, <1>9, ReplyFlow DEF PollAck, TypeOK
<1>10. CASE ReceiveComplete \/ CompletePublication \/ FinalizeFails
  BY <1>2, <1>3, <1>10 DEF ReceiveComplete, CompletePublication, FinalizeFails, FrameAtReceiver
<1>11. CASE \/ ChannelEnds \/ RenameNext \/ StoreVerified \/ CommitItem \/ RefuseOffer
            \/ RefuseResume \/ ReceiveFails \/ ReceiverCancel \/ ReceiverStop \/ ReceiverCrash
  BY <1>1, <1>11 DEF ChannelEnds, RenameNext, StoreVerified, CommitItem, RefuseOffer,
      RefuseResume, ReceiveFails, ReceiverCancel, ReceiverStop, ReceiverCrash, ReceiverGone
<1> QED
  BY <1>4, <1>7, <1>8, <1>9, <1>10, <1>11 DEF ReceiverChannel, ReceiverFaults

(* Finalization reaches the receipt only through CommitItem.             *)
LEMMA ReceiptStep ==
  ASSUME TypeOK, [Next]_vars, rcv'.step = "receipt"
  PROVE  rcv.step = "receipt" \/ CommitItem
<1>1. CASE rcv' = rcv
  BY <1>1
<1>2. \A state : ReceiverIn(state).step = "run" /\ NoReceiver.step = "run"
  BY DEF ReceiverIn, NoReceiver
<1>3. CASE SenderWorker \/ SenderReader \/ SenderControl \/ SenderTimers
  BY <1>1, <1>3
  DEF SenderWorker, SenderReader, SenderControl, SenderTimers, Offer, CreateJournal,
      EnterAccepted, OfferRejected, PreflightTimeout, DialRefused, TakeManifestAck,
      SendChunk, SourceChanged, SourceDone, FinishSend, TakeAck, TakeCompleteAck, LoseChannel,
      AskResume, ResumeLate, ResumeAccepted, ResumeRejected, DeliverAccept, DeliverReject,
      DeliverCancel, DeliverCancelAck, EnterCancelled, CancelAckTimeout, receiverVars,
      DialOpen, TypeOK, Receivers
<1>4. CASE SenderFaults \/ Environment
  BY <1>1, <1>4
  DEF SenderFaults, DialLost, SenderTimeout, BaselineAborted, GiveUp, CancelRequest, SenderCrash,
      SenderStop, SenderGone, Environment, ChannelReset, LinkDrop, LinkUp, Edit, receiverVars,
      DialAckLost, TypeOK, Receivers
<1>5. CASE ReceiverControl \/ ReceiverTimers
  BY <1>1, <1>2, <1>5
  DEF ReceiverControl, ReceiverTimers, HandleOffer, ResumeOvertakesFinalize, HandleResume,
      CancelFromPeer, CancelAcknowledged, ReceiverTimeout, Purge, Prune, AcceptFresh, Accept,
      SuspendedReceiver, ReceiverIn, NoReceiver
<1>6. CASE ReceiverFaults
  BY <1>1, <1>2, <1>6
  DEF ReceiverFaults, RefuseOffer, RefuseResume, SuspendedReceiver, ReceiveFails, FinalizeFails,
      ReceiverCancel, ReceiverStop, ReceiverCrash, ReceiverGone
<1>7. CASE ReceiverChannel
  BY <1>1, <1>2, <1>7
  DEF ReceiverChannel, ReceiveManifest, ReceiveChunk, WriteChunk, ProtocolFailure, PollAck,
      ChannelEnds, ReceiveComplete, RenameNext, StoreVerified, CompletePublication,
      TypeOK, Receivers, ReceiverIn, NoReceiver
<1> QED
  BY <1>1, <1>3, <1>4, <1>5, <1>6, <1>7 DEF Next, vars

----------------------------------------------------------------------------
(* The invariant is inductive *)

(* The sender completes only when it takes a positive complete_ack.      *)
LEMMA CompletedStep ==
  ASSUME TypeOK, [Next]_vars, snd'.state = "completed"
  PROVE  \/ snd.state = "completed"
         \/ /\ TakeCompleteAck /\ Head(chan.toS).ok
<1>1. CASE snd'.state = snd.state
  BY <1>1
<1>2. \A state : SenderIn(state).state = state
  BY DEF SenderIn, NewSender
<1>3. Failed \/ Disconnected => snd'.state # "completed"
  <2>1. ASSUME Failed PROVE snd'.state # "completed"
    BY <1>2, <2>1 DEF Failed
  <2>2. ASSUME Disconnected PROVE snd'.state # "completed"
    BY <2>2 DEF Disconnected, SenderIn, NewSender, SenderTerminal
  <2> QED
    BY <2>1, <2>2
<1>4. CASE SenderWorker
  <2>1. CASE DialRefused \/ SourceChanged \/ LoseChannel \/ ResumeRejected
    BY <1>3, <2>1 DEF DialRefused, SourceChanged, LoseChannel, ResumeRejected
  <2>2. CASE TakeManifestAck
    BY <1>3, <2>2 DEF TakeManifestAck, SenderIn, NewSender, SenderTerminal
  <2>3. CASE Offer \/ EnterAccepted \/ OfferRejected \/ DialOpen \/ FinishSend
               \/ ResumeAccepted \/ EnterCancelled
    BY <2>3 DEF Offer, EnterAccepted, OfferRejected, DialOpen, FinishSend, ResumeAccepted,
                EnterCancelled, SenderIn, NewSender, SenderTerminal
  <2>4. CASE CreateJournal \/ SendChunk \/ SourceDone \/ AskResume
    BY <1>1, <2>4 DEF CreateJournal, SendChunk, SourceDone, AskResume, TypeOK, Senders
  <2>5. CASE TakeCompleteAck
    BY <1>3, <2>5 DEF TakeCompleteAck
  <2> QED
    BY <1>4, <2>1, <2>2, <2>3, <2>4, <2>5 DEF SenderWorker
<1>5. CASE SenderReader \/ SenderControl \/ SenderTimers
  BY <1>1, <1>2, <1>3, <1>5
  DEF SenderReader, SenderControl, SenderTimers, TakeAck, DeliverAccept, DeliverReject,
      DeliverCancel, DeliverCancelAck, PreflightTimeout, ResumeLate, CancelAckTimeout, TypeOK,
      Senders
<1>6. CASE SenderFaults
  BY <1>1, <1>2, <1>3, <1>6
  DEF SenderFaults, DialLost, DialAckLost, SenderTimeout,
      BaselineAborted, GiveUp, CancelRequest, SenderCrash,
      SenderStop, SenderGone, TypeOK, Senders
<1>7. CASE ReceiverControl \/ ReceiverChannel \/ ReceiverTimers \/ ReceiverFaults
  BY <1>1, <1>7
  DEF ReceiverControl, ReceiverTimers, HandleOffer, ResumeOvertakesFinalize, HandleResume,
      CancelFromPeer, CancelAcknowledged, ReceiverTimeout, Prune, ReceiverChannel,
      ReceiveManifest, ReceiveChunk, PollAck, ChannelEnds, ReceiveComplete, RenameNext,
      StoreVerified, CommitItem, CompletePublication, ReceiverFaults, RefuseOffer, RefuseResume,
      ReceiveFails, FinalizeFails, ReceiverCancel, ReceiverStop, ReceiverCrash, ReceiverGone,
      senderVars
<1>8. CASE Environment
  BY <1>1, <1>8
  DEF Environment, ChannelReset, LinkDrop, LinkUp, RestoredSender, Edit, NewSender
<1> QED
  BY <1>1, <1>4, <1>5, <1>6, <1>7, <1>8 DEF Next, vars

(* Every step keeps Confirmation.                                        *)
LEMMA ConfirmationStep ==
  ASSUME TypeOK, FirstContact, SourceRead, ContentFlow, Confirmation, [Next]_vars
  PROVE  Confirmation'
<1>1. row.state = "published" => row'.state = "published"
  BY RowStep
<1>2. rcv'.step = "receipt" => row'.state = "published"
  BY <1>1, ReceiptStep DEF Confirmation, CommitItem
<1>3. chan'.toS \in Seq(TrueReplies')
  <2>1. chan'.toS \in Seq(TrueReplies)
    <3>1. /\ \A d \in Nat : [type |-> "manifest_ack", durable |-> d] \in TrueReplies
          /\ \A p \in Nat : [type |-> "ack", pos |-> p, durable |-> rj'.durable] \in TrueReplies
          /\ CompleteAck(FALSE) \in TrueReplies
          /\ rcv.step = "receipt" => CompleteAck(TRUE) \in TrueReplies
      <4>1. rj'.durable \in Nat
        BY TypeStep DEF TypeOK, Journals
      <4> QED
        BY <4>1, FrameType DEF TrueReplies, CompleteAck, Confirmation
    <3>2. CASE \/ SenderWorker \/ SenderReader \/ SenderControl \/ SenderTimers
               \/ SenderFaults \/ Environment
      BY <3>2, RepliesSender DEF Confirmation
    <3>3. CASE ReceiverControl \/ ReceiverChannel \/ ReceiverTimers \/ ReceiverFaults
      BY <3>1, <3>3, RepliesReceiver DEF Confirmation
    <3>4. CASE UNCHANGED vars
      BY <3>4 DEF vars, Confirmation
    <3> QED
      BY <3>2, <3>3, <3>4 DEF Next
  <2>2. TrueReplies \subseteq TrueReplies'
    BY <1>1 DEF TrueReplies
  <2> QED
    BY <2>1, <2>2, SeqMonotonic
<1>4. snd'.state = "completed" => row'.state = "published"
  <2>1. CASE snd.state = "completed"
    BY <1>1, <2>1 DEF Confirmation
  <2>2. CASE TakeCompleteAck /\ Head(chan.toS).ok
    <3>1. Head(chan.toS) \in TrueReplies /\ Head(chan.toS).type = "complete_ack"
      BY <2>2, QueueType DEF TakeCompleteAck, FrameAtSender, Confirmation
    <3> QED
      BY <1>1, <2>2, <3>1 DEF TrueReplies
  <2> QED
    BY <2>1, <2>2, CompletedStep
<1> QED
  BY <1>2, <1>3, <1>4 DEF Confirmation

(* The inductive invariant holds initially.                              *)
LEMMA IndInvInit == Init => IndInv
<1> SUFFICES ASSUME Init PROVE IndInv
  OBVIOUS
<1>1. /\ <<>> \in Seq(LaterMessages) /\ <<>> \in Seq(OfferedFrames)
      /\ <<>> \in Seq(TrueReplies) /\ Len(<<>>) = 0
  BY EmptySeq
<1>2. FirstContact
  BY <1>1 DEF Init, FirstContact, OffersFirst, AtReceiver, Untouched, LinkDown, NoRow
<1>3. SourceRead
  BY <1>1 DEF Init, SourceRead, NewSender
<1>4. ContentFlow
  BY <1>1 DEF Init, ContentFlow, Closed, NoReceiver, PublishedIsOffered, NoRow
<1>5. Confirmation
  BY <1>1 DEF Init, Confirmation, Closed, NoReceiver, NewSender
<1> QED
  BY <1>2, <1>3, <1>4, <1>5, InitType DEF IndInv

(* Every step keeps the inductive invariant.                             *)
LEMMA IndInvStep == IndInv /\ [Next]_vars => IndInv'
BY TypeStep, FirstContactStep, SourceReadStep, ContentFlowStep, ConfirmationStep DEF IndInv

(* The inductive invariant holds throughout every behaviour of the       *)
(* transfer.                                                             *)
THEOREM Inductive == Spec => []IndInv
BY IndInvInit, IndInvStep, PTL DEF Spec

(* The inductive invariant implies the two properties of the published   *)
(* content.                                                              *)
LEMMA IndInvImplies ==
  IndInv => CompletedImpliesPublished /\ PublishedIsOffered
<1> SUFFICES ASSUME IndInv PROVE CompletedImpliesPublished /\ PublishedIsOffered
  OBVIOUS
<1>1. row.state = "published" => row = [state |-> "published", data |-> Offered]
  BY DEF IndInv, TypeOK, Rows, ContentFlow, PublishedIsOffered
<1> QED
  BY <1>1 DEF IndInv, Confirmation, ContentFlow, CompletedImpliesPublished

(* A sender that reports the transfer completed has a receiver whose     *)
(* index holds the whole offered content: however often connections      *)
(* break, processes crash, deadlines fire and answers come late,         *)
(* _phase_transfer reaches completed only behind a publication.          *)
THEOREM CompletedIsPublished == Spec => []CompletedImpliesPublished
BY Inductive, IndInvImplies, PTL

(* Only the offered content is ever published: no prefix, no mixture of  *)
(* the source before and after an edit, whatever the number of chunks,   *)
(* files, resumes and crashes (iter_chunks, _read_prefix, finalize).     *)
THEOREM OnlyOfferedIsPublished == Spec => []PublishedIsOffered
BY Inductive, IndInvImplies, PTL

(* A published item is never taken back or overwritten: a late offer, a  *)
(* repeated resume or a restart finds the finalized row and is refused   *)
(* (add_item, same_item_lineage).                                        *)
THEOREM PublicationIsFinal == Spec => PublishedStays
<1>1. IndInv /\ [Next]_vars => [row.state = "published" => row' = row]_vars
  BY RowStep DEF IndInv
<1> QED
  BY <1>1, Inductive, PTL DEF Spec, PublishedStays

----------------------------------------------------------------------------
(* Refinement *)

(* A session that has ended stays ended until maintenance or a restart   *)
(* forgets it: a late answer, accept or acknowledgement revives nothing. *)
LEMMA TerminalStep ==
  ASSUME TypeOK, [Next]_vars, snd.state \in SenderTerminal
  PROVE  \/ snd'.state = snd.state
         \/ snd.state = "cancelled" /\ snd'.state = "purged"
         \/ snd'.state \in {"none", "waiting_reconnect"}
<1>1. CASE snd' = snd
  BY <1>1
<1>2. \A state : SenderIn(state).state = state
  BY DEF SenderIn, NewSender
<1>3. ~SenderWorker
  BY DEF SenderWorker, Working, SenderTerminal, Offer, CreateJournal, EnterAccepted,
         OfferRejected, DialOpen, DialRefused, TakeManifestAck, SendChunk, SourceChanged,
         SourceDone, FinishSend, TakeCompleteAck, LoseChannel, AskResume, ResumeAccepted,
         ResumeRejected, EnterCancelled
<1>4. CASE SenderReader \/ SenderControl \/ SenderTimers
  BY <1>2, <1>4
  DEF SenderReader, SenderControl, SenderTimers, Working, SenderTerminal, TakeAck,
      DeliverAccept, DeliverReject, DeliverCancel, DeliverCancelAck, PreflightTimeout,
      ResumeLate, CancelAckTimeout, TypeOK, Senders
<1>5. CASE SenderFaults
  BY <1>2, <1>5
  DEF SenderFaults, Working, SenderTerminal, DialLost, DialAckLost, SenderTimeout,
      BaselineAborted, GiveUp,
      CancelRequest, SenderCrash, SenderStop, SenderGone, TypeOK, Senders
<1>6. CASE ReceiverControl \/ ReceiverChannel \/ ReceiverTimers \/ ReceiverFaults
  BY <1>1, <1>6
  DEF ReceiverControl, ReceiverTimers, HandleOffer, ResumeOvertakesFinalize, HandleResume,
      CancelFromPeer, CancelAcknowledged, ReceiverTimeout, Prune, ReceiverChannel,
      ReceiveManifest, ReceiveChunk, PollAck, ChannelEnds, ReceiveComplete, RenameNext,
      StoreVerified, CommitItem, CompletePublication, ReceiverFaults, RefuseOffer, RefuseResume,
      ReceiveFails, FinalizeFails, ReceiverCancel, ReceiverStop, ReceiverCrash, ReceiverGone,
      senderVars
<1>7. CASE Environment
  BY <1>1, <1>7
  DEF Environment, ChannelReset, LinkDrop, LinkUp, RestoredSender, Edit, NewSender
<1> QED
  BY <1>1, <1>3, <1>4, <1>5, <1>6, <1>7 DEF Next, vars

(* No step changes both what the sender reports and what the receiver    *)
(* can paste.                                                            *)
LEMMA OneSideMoves ==
  ASSUME [Next]_vars
  PROVE  UNCHANGED snd \/ UNCHANGED row
<1>1. CASE SenderWorker \/ SenderReader \/ SenderControl \/ SenderTimers
  BY <1>1
  DEF SenderWorker, SenderReader, SenderControl, SenderTimers, Offer, CreateJournal,
      EnterAccepted, OfferRejected, PreflightTimeout, DialOpen, DialRefused, TakeManifestAck,
      SendChunk, SourceChanged, SourceDone, FinishSend, TakeAck, TakeCompleteAck, LoseChannel,
      AskResume, ResumeLate, ResumeAccepted, ResumeRejected, DeliverAccept, DeliverReject,
      DeliverCancel, DeliverCancelAck, EnterCancelled, CancelAckTimeout, receiverVars
<1>2. CASE SenderFaults \/ Environment
  BY <1>2
  DEF SenderFaults, DialLost, DialAckLost, SenderTimeout,
      BaselineAborted, GiveUp, CancelRequest, SenderCrash,
      SenderStop, SenderGone, Environment, ChannelReset, LinkDrop, LinkUp, Edit, receiverVars
<1>3. CASE ReceiverControl \/ ReceiverChannel \/ ReceiverTimers \/ ReceiverFaults
  BY <1>3
  DEF ReceiverControl, ReceiverTimers, HandleOffer, ResumeOvertakesFinalize, HandleResume,
      CancelFromPeer, CancelAcknowledged, ReceiverTimeout, Prune, ReceiverChannel,
      ReceiveManifest, ReceiveChunk, PollAck, ChannelEnds, ReceiveComplete, RenameNext,
      StoreVerified, CommitItem, CompletePublication, ReceiverFaults, RefuseOffer, RefuseResume,
      ReceiveFails, FinalizeFails, ReceiverCancel, ReceiverStop, ReceiverCrash, ReceiverGone,
      senderVars
<1> QED
  BY <1>1, <1>2, <1>3 DEF Next, vars

(* What the receiver can paste (the mapping of the refinement).          *)
Item == IF row.state = "published" THEN row.data ELSE <<>>

(* The item the receiver can paste appears once and does not change      *)
(* afterwards.                                                           *)
LEMMA ItemStep ==
  ASSUME IndInv, [Next]_vars
  PROVE  /\ Item \in {<<>>, Offered}
         /\ Item' = Item \/ (Item = <<>> /\ Item' = Offered)
         /\ row.state = "published" => Item = Offered
<1>1. PublishedIsOffered /\ PublishedIsOffered'
  BY ContentFlowStep DEF IndInv, ContentFlow
<1>2. row.state = "published" => row' = row
  BY RowStep DEF IndInv
<1> QED
  BY <1>1, <1>2 DEF PublishedIsOffered, Item

(* The sender's report moves from pending to completed or failed and is  *)
(* only reset by forgetting the session.                                 *)
LEMMA ReportStep ==
  ASSUME IndInv, [Next]_vars
  PROVE  \/ Report' = Report
         \/ Report = "pending" /\ Report' = "failed"
         \/ Report = "pending" /\ Report' = "completed" /\ snd'.state = "completed"
         \/ Report # "pending" /\ Report' = "pending"
<1>1. /\ snd.state = "completed" => Report = "completed"
      /\ snd.state \in SenderTerminal \ {"completed"} => Report = "failed"
      /\ snd.state \notin SenderTerminal => Report = "pending"
  BY DEF Report, SenderTerminal
<1>2. /\ snd'.state = "completed" => Report' = "completed"
      /\ snd'.state \in SenderTerminal \ {"completed"} => Report' = "failed"
      /\ snd'.state \notin SenderTerminal => Report' = "pending"
  BY DEF Report, SenderTerminal
<1>3. CASE snd.state \in SenderTerminal
  BY <1>1, <1>2, <1>3, TerminalStep DEF IndInv, SenderTerminal
<1>4. CASE snd.state \notin SenderTerminal
  BY <1>1, <1>2, <1>4
<1> QED
  BY <1>3, <1>4

(* The transfer implements ClipboardDelivery: with all its chunks,       *)
(* resumes, crashes and retries it shows both users nothing but an at-   *)
(* most-once delivery of the exact content, and a success report only    *)
(* after it.                                                             *)
THEOREM DeliveryImplemented == Spec => ImplementsDelivery
<1>1. Init => Delivery!Init
  BY DEF Init, Delivery!Init, NoRow, Report, NewSender, SenderTerminal
<1>2. IndInv /\ [Next]_vars => [Delivery!Next]_<<Item, Report>>
  <2> SUFFICES ASSUME IndInv, [Next]_vars
               PROVE  Delivery!Next \/ UNCHANGED <<Item, Report>>
    OBVIOUS
  <2>1. CASE UNCHANGED snd
    <3>1. Report' = Report
      BY <2>1 DEF Report
    <3> QED
      BY <3>1, ItemStep DEF Delivery!Next, Delivery!Deliver, Item
  <2>2. CASE UNCHANGED row
    <3>1. Item' = Item
      BY <2>2 DEF Item
    <3>2. snd'.state = "completed" => Item = Offered
      BY <2>2, IndInvStep, ItemStep DEF IndInv, Confirmation
    <3> QED
      BY <3>1, <3>2, ReportStep
      DEF Delivery!Next, Delivery!Confirm, Delivery!Fail, Delivery!Forget, Item
  <2> QED
    BY <2>1, <2>2, OneSideMoves
<1> QED
  BY <1>1, <1>2, Inductive, PTL DEF Spec, ImplementsDelivery, Delivery!Spec, Item
=============================================================================
