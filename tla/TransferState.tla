---------------------------- MODULE TransferState ----------------------------
(***************************************************************************)
(* The state of one stream_v2 clipboard transfer: a sender process          *)
(* (OutgoingTransferSession), a receiver process (ReceiverSession over an   *)
(* IncomingTransferStage), the two durable resume journals, the control     *)
(* link that carries offers and cancels, and the data channel that carries  *)
(* typed frames.  TransferSender and TransferReceiver hold the handlers of  *)
(* each side, TransferV2 composes them with the faults.                     *)
(*                                                                          *)
(* Data are abstracted to chunks.  The files are one sequence of Size       *)
(* chunks; Ends marks the chunk each file ends with.  A chunk is "orig"     *)
(* when it was read from the source the manifest was built from and "edit"  *)
(* when it was read after the source changed.                               *)
(***************************************************************************)
EXTENDS ResumeJournal, Sequences, FiniteSets

CONSTANTS
  Size,         \* chunks of the whole transfer
  Ends,         \* positions a file ends at
  Inflight,     \* max_inflight_chunks_per_transfer
  MaxAttempts,  \* MAX_RESUME_ATTEMPTS
  Budgets       \* how often each kind of fault may happen (bounds the model)

Kinds == {"drop", "scrash", "rcrash", "timeout", "cancel", "edit", "io", "abort"}

ASSUME SizeAssumption == Size \in Nat \ {0}
ASSUME EndsAssumption == Ends \subseteq 1..Size /\ Size \in Ends
ASSUME InflightAssumption == Inflight \in Nat \ {0}
ASSUME AttemptsAssumption == MaxAttempts \in Nat
ASSUME BudgetAssumption == Budgets \subseteq [Kinds -> Nat]

VARIABLES
  snd,     \* the outgoing session: state, pending answer, stream position, cancel flag
  sj,      \* the outgoing journal (durable)
  rcv,     \* the receiver session and the in-memory state of its stage
  rj,      \* the incoming journal (durable)
  nonce,   \* the receiver's ChannelNonceRegistry entry of this transfer
  stage,   \* the receiver's staging directory (durable up to synced)
  row,     \* the item's row in the receiver's clipboard index (durable)
  chan,    \* the data channel, as the two socket ends and what is in flight
  ctl,     \* the control link and the messages in flight
  left,    \* the faults that may still happen
  edited,  \* the source files were changed after the manifest was built
  hist     \* history: has the receiver purged its partials

vars == <<snd, sj, rcv, rj, nonce, stage, row, chan, ctl, left, edited, hist>>

----------------------------------------------------------------------------
(* Values                                                                   *)

Bytes == {"orig", "edit"}
Source == IF edited THEN "edit" ELSE "orig"
Offered == [p \in 1..Size |-> "orig"]

SenderTerminal == {"completed", "cancelled", "purged", "failed", "rejected"}
SenderStates ==
  SenderTerminal \cup
  {"none", "created", "preflight", "accepted", "sending_manifest",
   "transferring", "finalizing", "waiting_reconnect"}
ReceiverStates ==
  {"none", "receiving", "finalizing", "paused", "waiting_reconnect",
   "cancelled", "purged", "failed"}

NewSender ==
  [state |-> "created", asked |-> FALSE, accept |-> 0, rejected |-> FALSE,
   read |-> <<>>, acked |-> 0, drained |-> FALSE, cancel |-> "no", attempts |-> 0]

(* The session moves on: what belongs to the phase it leaves is dropped.     *)
SenderIn(state) ==
  IF state \in SenderTerminal \cup {"none"}
    THEN [NewSender EXCEPT !.state = state]
    ELSE [NewSender EXCEPT !.state = state, !.cancel = snd.cancel,
                           !.attempts = snd.attempts]

NoReceiver ==
  [state |-> "none", phase |-> "receiving", step |-> "run", seen |-> FALSE, acked |-> 0]
ReceiverIn(state) == [NoReceiver EXCEPT !.state = state]

NoStage == [dir |-> FALSE, data |-> <<>>, synced |-> 0, renamed |-> 0]
NoRow == [state |-> "absent", data |-> <<>>]

----------------------------------------------------------------------------
(* The control link: one TCP connection between the two processes.           *)

Message(type) == [type |-> type, nonce |-> 0]
ToReceiver(type) == IF ctl.up THEN [ctl EXCEPT !.toR = Append(@, Message(type))] ELSE ctl

(* A handler consumes the head of its queue and may answer.                  *)
AtReceiver(type) == ctl.toR # <<>> /\ Head(ctl.toR).type = type
AtSender(type) == ctl.toS # <<>> /\ Head(ctl.toS).type = type
TakenByReceiver == [ctl EXCEPT !.toR = Tail(@)]
TakenBySender == [ctl EXCEPT !.toS = Tail(@)]
ReplyToSender(m) == [ctl EXCEPT !.toR = Tail(@), !.toS = Append(@, m)]
ReplyToReceiver(m) == [ctl EXCEPT !.toS = Tail(@), !.toR = Append(@, m)]
LinkDown == [up |-> FALSE, toR |-> <<>>, toS |-> <<>>]

InFlight(queue, types) == \E i \in 1..Len(queue) : queue[i].type \in types

----------------------------------------------------------------------------
(* The data channel: a TCP connection of its own.  A frame is lost when the  *)
(* connection was reset or the other end has closed it; what was sent before *)
(* an orderly close can still be read.                                       *)

Closed == [s |-> FALSE, r |-> FALSE, dead |-> FALSE, toR |-> <<>>, toS |-> <<>>]
PutR(c, f) == IF c.r /\ ~c.dead THEN [c EXCEPT !.toR = Append(@, f)] ELSE c
PutS(c, f) == IF c.s /\ ~c.dead THEN [c EXCEPT !.toS = Append(@, f)] ELSE c
TakeR(c) == [c EXCEPT !.toR = Tail(@)]
TakeS(c) == [c EXCEPT !.toS = Tail(@)]
CloseS(c) == IF c.r THEN [c EXCEPT !.s = FALSE, !.toS = <<>>] ELSE Closed
CloseR(c) == IF c.s THEN [c EXCEPT !.r = FALSE, !.toR = <<>>] ELSE Closed

FrameAtReceiver(type) == chan.r /\ chan.toR # <<>> /\ Head(chan.toR).type = type
FrameAtSender(type) == chan.s /\ chan.toS # <<>> /\ Head(chan.toS).type = type

----------------------------------------------------------------------------
(* Faults are bounded by a budget.  A deadline that fires although the awaited *)
(* answer can still come is such a fault; one that fires because the answer  *)
(* can no longer come is the normal way out and is free.                     *)

Spend(kind) ==
  /\ left[kind] > 0
  /\ left' = [left EXCEPT ![kind] = @ - 1]

SpendUnless(free, kind) == IF free THEN UNCHANGED left ELSE Spend(kind)

----------------------------------------------------------------------------
(* Types                                                                    *)

Frames ==
  [type : {"manifest"}] \cup [type : {"payload"}, pos : Nat, byte : Bytes]
    \cup [type : {"complete"}, content : Seq(Bytes)]
Replies ==
  [type : {"manifest_ack"}, durable : Nat] \cup [type : {"ack"}, pos : Nat, durable : Nat]
    \cup [type : {"complete_ack"}, ok : BOOLEAN]
MessagesToR ==
  [type : {"offer", "resume", "resume_checked", "cancel", "cancel_ack"}, nonce : Nat]
MessagesToS == [type : {"accept", "reject", "cancel", "cancel_ack"}, nonce : Nat]
Journals ==
  [state : JournalStates \cup {"none"}, durable : Nat, stored : Nat, retry : Nat]

Senders ==
  [state : SenderStates, asked : BOOLEAN, accept : Nat, rejected : BOOLEAN,
   read : Seq(Bytes), acked : Nat, drained : BOOLEAN,
   cancel : {"no", "local", "peer"}, attempts : Nat]
Receivers ==
  [state : ReceiverStates, phase : {"preflight", "receiving"},
   step : {"run", "rename", "commit", "receipt"}, seen : BOOLEAN, acked : Nat]
Nonces == [live : Nat, issued : Nat]
Stages == [dir : BOOLEAN, data : Seq(Bytes), synced : Nat, renamed : 0..Size]
Rows == [state : {"absent", "receiving", "published"}, data : Seq(Bytes)]
Channels == [s : BOOLEAN, r : BOOLEAN, dead : BOOLEAN, toR : Seq(Frames), toS : Seq(Replies)]
Links == [up : BOOLEAN, toR : Seq(MessagesToR), toS : Seq(MessagesToS)]

(* Every variable holds a value of its kind.                                 *)
TypeOK ==
  /\ snd \in Senders /\ sj \in Journals
  /\ rcv \in Receivers /\ rj \in Journals
  /\ nonce \in Nonces /\ stage \in Stages /\ row \in Rows
  /\ chan \in Channels /\ ctl \in Links
  /\ left \in [Kinds -> Nat] /\ edited \in BOOLEAN
  /\ hist \in [purged : BOOLEAN]
=============================================================================
