----------------------------- MODULE FlowControl -----------------------------
(***************************************************************************)
(* Flow control of several outgoing stream_v2 transfers that share one      *)
(* FlowControlCoordinator: admission under the global and the per-peer      *)
(* limit, one SendWindow per transfer, the shared in-flight byte budget,    *)
(* the receiver's CumulativeAckBatcher, and the threads that touch a window:*)
(* the session's worker, its channel reader, the control thread and the     *)
(* runtime's shutdown.  All of them meet at one condition variable.         *)
(***************************************************************************)
EXTENDS Integers, Sequences, FiniteSets, Functions

CONSTANTS
  Transfers, Peers,
  PeerOf,        \* the peer a transfer goes to
  Sizes,         \* Sizes[t][f]: bytes of file f of transfer t
  ChunkSize,
  MaxTransfers, MaxPerPeer,   \* max_active_transfers_global, _per_peer
  MaxChunks, MaxBytes,        \* max_inflight_chunks_per_transfer, _bytes_global
  AckChunks, AckBytes,        \* ack_chunks, ack_bytes
  Budgets        \* how many of each kind of fault a behaviour may contain, by scenario

Kinds == {"drop", "timeout", "cancel", "stop"}

ASSUME FlowAssumption ==
  /\ IsFiniteSet(Transfers)
  /\ PeerOf \in [Transfers -> Peers]
  /\ \A t \in Transfers : Sizes[t] \in Seq(Nat \ {0})
  /\ {ChunkSize, MaxTransfers, MaxPerPeer, MaxChunks, MaxBytes, AckChunks, AckBytes}
       \subseteq Nat \ {0}
  /\ MaxPerPeer <= MaxTransfers
  /\ ChunkSize <= MaxBytes
  /\ Budgets \subseteq [Kinds -> Nat]

VARIABLES
  worker,    \* per transfer: the position of the session's worker thread
  window,    \* per transfer: its SendWindow
  held,      \* transfers whose session has stored the window in self._window
  reader,    \* transfers whose channel reader thread runs
  cancel,    \* per transfer: none, or the cancel or close that was requested
  aborts,    \* transfers whose canceller has yet to abort the window
  inflight,  \* _inflight_bytes
  peers,     \* _peer_counts
  asleep,    \* threads in condition.wait, by transfer
  closed,    \* the coordinator is shut down
  chan,      \* per transfer: the data channel
  recv,      \* per transfer: the receiver's stage and ACK batcher
  left       \* faults that may still happen

coordinator == <<window, inflight, peers, closed>>
session == <<worker, held, reader, cancel, aborts>>
vars == <<worker, window, held, reader, cancel, aborts, inflight, peers,
          asleep, closed, chan, recv, left>>

Unknown == -1
Files(t) == DOMAIN Sizes[t]
Smaller(a, b) == IF a < b THEN a ELSE b

NoOffsets(t) == [f \in Files(t) |-> Unknown]

(* A SendWindow; it is registered in _windows exactly while it is open.  Its  *)
(* chunks are a set: only the deadlines look at their order, and no window   *)
(* tracks the same end of a file twice.                                      *)
NewWindow(t) ==
  [open |-> TRUE, chunks |-> {}, next |-> NoOffsets(t),
   acked |-> NoOffsets(t), durable |-> NoOffsets(t)]
NoWindow(t) == [NewWindow(t) EXCEPT !.open = FALSE]

Bytes(chunks) == SumFunction([c \in chunks |-> c.size])
Registered == {t \in Transfers : window[t].open}

(* One entry of the batcher.                                                 *)
NoProgress == [ver |-> Unknown, dur |-> 0, bytes |-> 0, chunks |-> 0]

NoChannel == [up |-> FALSE, data |-> <<>>, acks |-> <<>>]

Spend(kind) == left[kind] > 0 /\ left' = [left EXCEPT ![kind] = @ - 1]

Init ==
  /\ worker = [t \in Transfers |-> [state |-> "accepted", file |-> 1, off |-> 0]]
  /\ window = [t \in Transfers |-> NoWindow(t)]
  /\ held = {} /\ reader = {} /\ aborts = {} /\ asleep = {}
  /\ cancel = [t \in Transfers |-> "no"]
  /\ inflight = 0
  /\ peers = [p \in Peers |-> 0]
  /\ closed = FALSE
  /\ chan = [t \in Transfers |-> NoChannel]
  /\ recv = [t \in Transfers |->
               [file |-> 1, off |-> 0, durable |-> [f \in Files(t) |-> 0],
                entries |-> [f \in Files(t) |-> NoProgress]]]
  /\ left \in Budgets

----------------------------------------------------------------------------
(* The coordinator                                                           *)

Room(t) ==
  /\ Cardinality(Registered) < MaxTransfers
  /\ peers[PeerOf[t]] < MaxPerPeer

At(t, states) == worker[t].state \in states /\ t \notin asleep
GoTo(t, state) == worker' = [worker EXCEPT ![t].state = state]
Sleep(t) == asleep' = asleep \cup {t}
NotifyAll == asleep' = {}

(* The worker leaves its phase for the given reason and tears down next.     *)
Leave(t, reason) == GoTo(t, reason)

(* (mutant: a transfer without a window is closed as well)                   *)
CloseTransferAnyway(t) ==
  /\ window' = [window EXCEPT ![t].open = FALSE, ![t].chunks = {}]
  /\ inflight' = inflight - Bytes(window[t].chunks)
  /\ peers' = [peers EXCEPT ![PeerOf[t]] = @ - 1]
  /\ NotifyAll

(* (mutant: the aborted chunks are not given back)                           *)
CloseTransferKeepsBytes(t) ==
  IF window[t].open
    THEN /\ window' = [window EXCEPT ![t].open = FALSE, ![t].chunks = {}]
         /\ inflight' = inflight
         /\ peers' = [peers EXCEPT ![PeerOf[t]] = @ - 1]
         /\ NotifyAll
    ELSE UNCHANGED <<window, inflight, peers, asleep>>

(* close_transfer, by transfer: whatever window is registered is closed.     *)
CloseTransfer(t) ==
  IF window[t].open
    THEN /\ window' = [window EXCEPT ![t].open = FALSE, ![t].chunks = {}]
         /\ inflight' = inflight - Bytes(window[t].chunks)
         /\ peers' = [peers EXCEPT ![PeerOf[t]] = @ - 1]
         /\ NotifyAll
    ELSE UNCHANGED <<window, inflight, peers, asleep>>

----------------------------------------------------------------------------
(* Admission (_admit_window, open_transfer)                                  *)

CheckCancelled(t) == cancel[t] # "no"

(* (mutant: the limits are checked before the wait only)                     *)
OpenTransferUnchecked(t) ==
  /\ At(t, {"accepted", "admitting"}) /\ ~closed
  /\ worker[t].state = "accepted" => ~CheckCancelled(t)
  /\ \/ /\ worker[t].state = "admitting" \/ Room(t)
        /\ window' = [window EXCEPT ![t] = NewWindow(t)]
        /\ peers' = [peers EXCEPT ![PeerOf[t]] = @ + 1]
        /\ GoTo(t, "admitted")
        /\ UNCHANGED asleep
     \/ /\ worker[t].state = "accepted" /\ ~Room(t)
        /\ GoTo(t, "admitting")
        /\ Sleep(t)
        /\ UNCHANGED <<window, peers>>
  /\ UNCHANGED <<held, reader, cancel, aborts, inflight, closed, chan, recv, left>>

OpenTransfer(t) ==
  /\ At(t, {"accepted", "admitting"}) /\ ~closed
  /\ worker[t].state = "accepted" => ~CheckCancelled(t)
  /\ \/ /\ Room(t)
        /\ window' = [window EXCEPT ![t] = NewWindow(t)]
        /\ peers' = [peers EXCEPT ![PeerOf[t]] = @ + 1]
        /\ GoTo(t, "admitted")
        /\ UNCHANGED asleep
     \/ /\ ~Room(t)
        /\ GoTo(t, "admitting")
        /\ Sleep(t)
        /\ UNCHANGED <<window, peers>>
  /\ UNCHANGED <<held, reader, cancel, aborts, inflight, closed, chan, recv, left>>

(* One slice of the wait is over: cancel is looked at and the wait goes on,  *)
(* or the preflight deadline has passed.                                     *)
AdmissionPoll(t) ==
  /\ worker[t].state = "admitting" /\ CheckCancelled(t)
  /\ Leave(t, "cancelled")
  /\ asleep' = asleep \ {t}
  /\ UNCHANGED <<coordinator, held, reader, cancel, aborts, chan, recv, left>>

AdmissionTimeout(t) ==
  /\ worker[t].state = "admitting" /\ t \in asleep /\ ~CheckCancelled(t)
  /\ Spend("timeout")
  /\ Leave(t, "failed")
  /\ asleep' = asleep \ {t}
  /\ UNCHANGED <<coordinator, held, reader, cancel, aborts, chan, recv>>

AdmissionClosed(t) ==
  /\ At(t, {"accepted", "admitting"})
  /\ \/ worker[t].state = "accepted" /\ CheckCancelled(t) /\ Leave(t, "cancelled")
     \/ ~CheckCancelled(t) /\ closed /\ Leave(t, "failed")
  /\ UNCHANGED <<coordinator, held, reader, cancel, aborts, asleep, chan, recv, left>>

HoldWindow(t) ==
  /\ At(t, {"admitted"})
  /\ held' = held \cup {t}
  /\ GoTo(t, "dialing")
  /\ UNCHANGED <<coordinator, reader, cancel, aborts, asleep, chan, recv, left>>

----------------------------------------------------------------------------
(* Channel and resume baseline                                               *)

(* The channel is open, the receiver restores its batcher from the journal   *)
(* and the manifest is acknowledged.  The receiver resumes at what it wrote, *)
(* when it paused, or at what was durable, when it died.                     *)
Progress(t, written) ==
  IF written \/ recv[t].file > Len(Sizes[t])
    THEN [recv[t].durable EXCEPT ![Smaller(recv[t].file, Len(Sizes[t]))] =
            IF recv[t].file > Len(Sizes[t]) THEN @ ELSE recv[t].off]
    ELSE recv[t].durable

(* (mutant: the batcher outlives its channel)                                *)
RestoredStage(t, durable) ==
  [recv[t] EXCEPT
     !.durable = durable,
     !.off = IF recv[t].file > Len(Sizes[t]) THEN 0 ELSE durable[recv[t].file]]

Restored(t, durable) ==
  [recv[t] EXCEPT
     !.durable = durable,
     !.off = IF recv[t].file > Len(Sizes[t]) THEN 0 ELSE durable[recv[t].file],
     !.entries = [f \in Files(t) |->
                    IF durable[f] > 0 THEN [NoProgress EXCEPT !.ver = durable[f], !.dur = durable[f]]
                    ELSE NoProgress]]

Dial(t) ==
  /\ At(t, {"dialing"}) /\ ~CheckCancelled(t)
  /\ chan[t].data = <<>>
  /\ chan' = [chan EXCEPT ![t] = [NoChannel EXCEPT !.up = TRUE]]
  /\ \E written \in BOOLEAN :
       recv' = [recv EXCEPT ![t] = Restored(t, Progress(t, written))]
  /\ worker' = [worker EXCEPT ![t] = [state |-> "baseline", file |-> recv[t].file,
                                      off |-> recv'[t].off]]
  /\ reader' = reader \cup {t}
  /\ UNCHANGED <<coordinator, held, cancel, aborts, asleep, left>>

DialCancelled(t) ==
  /\ At(t, {"dialing"}) /\ CheckCancelled(t)
  /\ Leave(t, "cancelled")
  /\ UNCHANGED <<coordinator, held, reader, cancel, aborts, asleep, chan, recv, left>>

DialFails(t) ==
  /\ At(t, {"dialing"}) /\ ~CheckCancelled(t)
  /\ Spend("drop")
  /\ Leave(t, "disconnected")
  /\ UNCHANGED <<coordinator, held, reader, cancel, aborts, asleep, chan, recv>>

(* _init_resume_window: a window that was closed since the manifest_ack makes*)
(* initialize_resume raise FlowControlClosed, which only _run catches.       *)
Baseline(t) ==
  /\ At(t, {"baseline"})
  /\ LET f == worker[t].file
         off == worker[t].off
     IN IF f > Len(Sizes[t]) \/ off = 0
          THEN GoTo(t, "sending") /\ UNCHANGED window
        ELSE IF ~window[t].open
          THEN Leave(t, "failed") /\ UNCHANGED window
        ELSE /\ GoTo(t, "sending")
             /\ window' = [window EXCEPT ![t].next[f] = off, ![t].acked[f] = off,
                                         ![t].durable[f] = off]
  /\ UNCHANGED <<inflight, peers, closed, held, reader, cancel, aborts, asleep, chan, recv, left>>

----------------------------------------------------------------------------
(* Payload (_track_and_send, track_sent)                                     *)

Total(t) == Len(Sizes[t])
ChunkAt(t) ==
  LET f == worker[t].file
      size == Smaller(ChunkSize, Sizes[t][f] - worker[t].off)
  IN [file |-> f, end |-> worker[t].off + size, size |-> size]

SlotFree(t) ==
  /\ Cardinality(window[t].chunks) < MaxChunks
  /\ inflight + ChunkAt(t).size <= MaxBytes

Advanced(t) ==
  LET c == ChunkAt(t)
  IN IF c.end = Sizes[t][c.file]
       THEN [worker[t] EXCEPT !.file = @ + 1, !.off = 0, !.state = "sending"]
       ELSE [worker[t] EXCEPT !.off = c.end, !.state = "sending"]

Tracked(t) ==
  LET c == ChunkAt(t)
      w == window[t]
      off == worker[t].off
  IN [w EXCEPT !.chunks = @ \cup {c},
               !.next[c.file] = c.end,
               !.acked[c.file] = IF @ = Unknown THEN off ELSE @,
               !.durable[c.file] = IF @ = Unknown THEN 0 ELSE @]

(* Cancel and a closed window are looked at before and after every wait; a   *)
(* chunk is tracked before it is written, and a broken channel fails the     *)
(* write.                                                                    *)
TrackSent(t) ==
  /\ At(t, {"sending", "slot"}) /\ worker[t].file <= Total(t)
  /\ worker[t].state = "sending" => ~CheckCancelled(t)
  /\ window[t].open
  /\ \/ /\ SlotFree(t)
        /\ window' = [window EXCEPT ![t] = Tracked(t)]
        /\ inflight' = inflight + ChunkAt(t).size
        /\ worker' = [worker EXCEPT ![t] =
                        IF chan[t].up THEN Advanced(t)
                        ELSE [worker[t] EXCEPT !.state = "disconnected"]]
        /\ chan' = IF chan[t].up THEN [chan EXCEPT ![t].data = Append(@, ChunkAt(t))] ELSE chan
        /\ UNCHANGED asleep
     \/ /\ ~SlotFree(t)
        /\ GoTo(t, "slot")
        /\ Sleep(t)
        /\ UNCHANGED <<window, inflight, chan>>
  /\ UNCHANGED <<peers, closed, held, reader, cancel, aborts, recv, left>>

(* What the worker makes of a closed window or of a cancel.                  *)
Interrupted(t) == IF CheckCancelled(t) THEN Leave(t, "cancelled") ELSE Leave(t, "disconnected")

SendInterrupted(t) ==
  /\ At(t, {"sending", "slot", "draining"})
  /\ \/ ~window[t].open
     \/ worker[t].state = "sending" /\ CheckCancelled(t)
  /\ Interrupted(t)
  /\ UNCHANGED <<coordinator, held, reader, cancel, aborts, asleep, chan, recv, left>>

(* The window_ack deadline of a waiting worker.                              *)
WindowTimeout(t) ==
  /\ worker[t].state \in {"slot", "draining"} /\ t \in asleep
  /\ Spend("timeout")
  /\ Leave(t, "failed")
  /\ asleep' = asleep \ {t}
  /\ UNCHANGED <<coordinator, held, reader, cancel, aborts, chan, recv>>

(* wait_until_empty, and the completion that follows.                        *)
Drain(t) ==
  /\ At(t, {"sending", "draining"}) /\ worker[t].file > Total(t)
  /\ worker[t].state = "sending" => ~CheckCancelled(t)
  /\ window[t].open
  /\ IF window[t].chunks = {}
       THEN Leave(t, "completed") /\ UNCHANGED asleep
       ELSE GoTo(t, "draining") /\ Sleep(t)
  /\ UNCHANGED <<coordinator, held, reader, cancel, aborts, chan, recv, left>>

(* (mutant: the window is forgotten but not aborted)                         *)
TeardownForgets(t) ==
  /\ At(t, {"completed", "failed", "cancelled", "disconnected"})
  /\ t \in held \/ t \in reader \/ worker[t].state = "disconnected"
  /\ held' = held \ {t}
  /\ reader' = reader \ {t}
  /\ chan' = [chan EXCEPT ![t].up = FALSE, ![t].acks = <<>>]
  /\ IF worker[t].state = "disconnected"
       THEN GoTo(t, IF CheckCancelled(t) THEN "cancelled" ELSE "accepted")
       ELSE UNCHANGED worker
  /\ UNCHANGED <<coordinator, asleep, cancel, aborts, recv, left>>

(* _teardown_channel: the window the session holds is aborted and the socket *)
(* closed; a disconnected session goes on with a resume.                     *)
Teardown(t) ==
  /\ At(t, {"completed", "failed", "cancelled", "disconnected"})
  /\ t \in held \/ t \in reader \/ worker[t].state = "disconnected"
  /\ IF t \in held THEN CloseTransfer(t) ELSE UNCHANGED <<window, inflight, peers, asleep>>
  /\ held' = held \ {t}
  /\ reader' = reader \ {t}
  /\ chan' = [chan EXCEPT ![t].up = FALSE, ![t].acks = <<>>]
  /\ IF worker[t].state = "disconnected"
       THEN GoTo(t, IF CheckCancelled(t) THEN "cancelled" ELSE "accepted")
       ELSE UNCHANGED worker
  /\ UNCHANGED <<closed, cancel, aborts, recv, left>>

----------------------------------------------------------------------------
(* The receiver: accepted chunks and batched acknowledgements                *)

Emit(t, f, entry) == [file |-> f, ver |-> entry.ver, dur |-> entry.dur]
Emitted(entry) == [entry EXCEPT !.bytes = 0, !.chunks = 0]
PutAck(t, f, entry) ==
  IF chan[t].up THEN Append(chan[t].acks, Emit(t, f, entry)) ELSE chan[t].acks

(* record_verified; a file's last chunk is always durable and acknowledged,  *)
(* any other may be checkpointed.                                            *)
ReceiveChunk(t) ==
  /\ chan[t].data # <<>>
  /\ LET c == Head(chan[t].data)
         r == recv[t]
         done == c.end = Sizes[t][c.file]
     IN \E durable \in {r.durable[c.file], c.end} :
          /\ done => durable = c.end
          /\ LET old == IF r.entries[c.file].ver = Unknown
                          THEN [NoProgress EXCEPT !.ver = c.end - c.size]
                          ELSE r.entries[c.file]
                 entry == [old EXCEPT !.ver = c.end, !.dur = durable,
                                      !.bytes = @ + c.size, !.chunks = @ + 1]
                 due == done \/ entry.bytes >= AckBytes \/ entry.chunks >= AckChunks
             IN /\ recv' = [recv EXCEPT ![t] =
                     [r EXCEPT !.file = IF done THEN @ + 1 ELSE @,
                               !.off = IF done THEN 0 ELSE c.end,
                               !.durable[c.file] = durable,
                               !.entries[c.file] = IF due THEN Emitted(entry) ELSE entry]]
                /\ chan' = [chan EXCEPT ![t].data = Tail(@),
                              ![t].acks = IF due THEN PutAck(t, c.file, entry) ELSE @]
  /\ UNCHANGED <<coordinator, session, asleep, left>>

(* poll: progress that has waited for ack_interval is acknowledged when the  *)
(* channel is idle.                                                          *)
PollAck(t) ==
  /\ chan[t].up /\ chan[t].data = <<>>
  /\ \E f \in Files(t) :
       /\ recv[t].entries[f].chunks > 0
       /\ recv' = [recv EXCEPT ![t].entries[f] = Emitted(@)]
       /\ chan' = [chan EXCEPT ![t].acks = PutAck(t, f, recv[t].entries[f])]
  /\ UNCHANGED <<coordinator, session, asleep, left>>

----------------------------------------------------------------------------
(* The channel reader (_reader_loop, apply_ack)                              *)

UnackedEnds(w, f) == {c.end : c \in {d \in w.chunks : d.file = f}}

Rejected(w, ack) ==
  /\ w.acked[ack.file] # Unknown
  /\ \/ ack.dur < w.durable[ack.file]
     \/ /\ ack.ver > w.acked[ack.file]
        /\ ack.ver \notin UnackedEnds(w, ack.file)

(* (mutant: an acknowledgement releases all that was sent of its file)       *)
ReleasedAll(w, ack) ==
  IF w.acked[ack.file] = Unknown THEN w
  ELSE [w EXCEPT !.chunks = {c \in @ : c.file # ack.file},
                 !.acked[ack.file] = w.next[ack.file],
                 !.durable[ack.file] = ack.dur]

Released(w, ack) ==
  LET covered(c) == c.file = ack.file /\ c.end <= ack.ver
  IN IF w.acked[ack.file] = Unknown THEN w
     ELSE IF ack.ver < w.acked[ack.file] THEN [w EXCEPT !.durable[ack.file] = ack.dur]
     ELSE [w EXCEPT !.chunks = {c \in @ : ~covered(c)},
                    !.acked[ack.file] = ack.ver,
                    !.durable[ack.file] = ack.dur]

(* (mutant: waiters are only woken when the window runs empty)               *)
ApplyAckQuietly(t) ==
  /\ t \in reader /\ chan[t].acks # <<>> /\ window[t].open
  /\ LET ack == Head(chan[t].acks)
         w == Released(window[t], ack)
     IN /\ ~Rejected(window[t], ack)
        /\ window' = [window EXCEPT ![t] = w]
        /\ inflight' = inflight - (Bytes(window[t].chunks) - Bytes(w.chunks))
        /\ IF w.chunks = {} THEN NotifyAll ELSE UNCHANGED asleep
  /\ chan' = [chan EXCEPT ![t].acks = Tail(@)]
  /\ UNCHANGED <<peers, closed, session, recv, left>>

ApplyAck(t) ==
  /\ t \in reader /\ chan[t].acks # <<>> /\ window[t].open
  /\ LET ack == Head(chan[t].acks)
         w == Released(window[t], ack)
     IN /\ ~Rejected(window[t], ack)
        /\ window' = [window EXCEPT ![t] = w]
        /\ inflight' = inflight - (Bytes(window[t].chunks) - Bytes(w.chunks))
        /\ IF window[t].acked[ack.file] # Unknown /\ ack.ver >= window[t].acked[ack.file]
             THEN NotifyAll ELSE UNCHANGED asleep
  /\ chan' = [chan EXCEPT ![t].acks = Tail(@)]
  /\ UNCHANGED <<peers, closed, session, recv, left>>

(* The channel has ended, an ACK is refused or finds the window closed: the  *)
(* reader thread ends and aborts the window.                                 *)
ReaderEnds(t) ==
  /\ t \in reader
  /\ \/ ~chan[t].up
     \/ /\ chan[t].acks # <<>>
        /\ ~window[t].open \/ Rejected(window[t], Head(chan[t].acks))
  /\ reader' = reader \ {t}
  /\ IF t \in held THEN CloseTransfer(t) ELSE UNCHANGED <<window, inflight, peers, asleep>>
  /\ UNCHANGED <<closed, worker, held, cancel, aborts, chan, recv, left>>

----------------------------------------------------------------------------
(* Cancel, shutdown and faults                                               *)

Finished(t) ==
  worker[t].state \in {"completed", "failed", "cancelled"} /\ t \notin held \cup reader

(* _request_cancel: the flag first, then the window.                         *)
RequestCancel(t) ==
  /\ cancel[t] = "no" /\ worker[t].state \notin {"completed", "failed", "cancelled"}
  /\ Spend("cancel")
  /\ cancel' = [cancel EXCEPT ![t] = "cancel"]
  /\ aborts' = aborts \cup {t}
  /\ UNCHANGED <<coordinator, worker, held, reader, asleep, chan, recv>>

AbortWindow(t) ==
  /\ t \in aborts
  /\ aborts' = aborts \ {t}
  /\ IF t \in held THEN CloseTransfer(t) ELSE UNCHANGED <<window, inflight, peers, asleep>>
  /\ UNCHANGED <<closed, worker, held, reader, cancel, chan, recv, left>>

(* _shutdown_stream_v2_sessions: close every session, then the coordinator.  *)
CloseSessions ==
  /\ \A t \in Transfers : cancel[t] # "close"
  /\ Spend("stop")
  /\ cancel' = [t \in Transfers |-> "close"]
  /\ aborts' = Transfers
  /\ chan' = [t \in Transfers |-> [chan[t] EXCEPT !.up = FALSE, !.acks = <<>>]]
  /\ UNCHANGED <<coordinator, worker, held, reader, asleep, recv>>

Shutdown ==
  /\ ~closed
  /\ \A t \in Transfers : cancel[t] = "close" /\ t \notin aborts
  /\ closed' = TRUE
  /\ window' = [t \in Transfers |-> [window[t] EXCEPT !.open = FALSE, !.chunks = {}]]
  /\ inflight' = 0
  /\ peers' = [p \in Peers |-> 0]
  /\ NotifyAll
  /\ UNCHANGED <<session, chan, recv, left>>

Break(t) ==
  /\ chan[t].up
  /\ Spend("drop")
  /\ chan' = [chan EXCEPT ![t] = NoChannel]
  /\ UNCHANGED <<coordinator, session, asleep, recv>>

----------------------------------------------------------------------------
Worker(t) ==
  \/ OpenTransfer(t) \/ AdmissionPoll(t) \/ AdmissionClosed(t) \/ HoldWindow(t)
  \/ Dial(t) \/ DialCancelled(t) \/ Baseline(t) \/ TrackSent(t) \/ Drain(t)
  \/ SendInterrupted(t) \/ Teardown(t)

Receiver(t) == ReceiveChunk(t) \/ PollAck(t)
Reader(t) == ApplyAck(t) \/ ReaderEnds(t)

System ==
  \/ \E t \in Transfers : Worker(t) \/ Receiver(t) \/ Reader(t) \/ AbortWindow(t)
  \/ Shutdown

Environment ==
  \/ \E t \in Transfers :
       AdmissionTimeout(t) \/ DialFails(t) \/ WindowTimeout(t) \/ RequestCancel(t) \/ Break(t)
  \/ CloseSessions

Next == System \/ Environment

Spec == Init /\ [][Next]_vars

(* Some thread that can run runs; no fault, deadline or cancel has to happen.*)
(* That is enough because no thread can loop: every step sends, acknowledges *)
(* or ends something, or goes to sleep.                                      *)
FairSpec == Spec /\ WF_vars(System)

----------------------------------------------------------------------------
WorkerStates ==
  {"accepted", "admitting", "admitted", "dialing", "baseline", "sending", "slot",
   "draining", "disconnected", "completed", "failed", "cancelled"}

TypeOK ==
  /\ \A t \in Transfers :
       /\ worker[t].state \in WorkerStates
       /\ worker[t].file \in 1..(Total(t) + 1) /\ worker[t].off \in Nat
       /\ window[t].open \in BOOLEAN
  /\ {held, reader, aborts, asleep} \subseteq SUBSET Transfers
  /\ inflight \in Nat
  /\ peers \in [Peers -> Nat]
  /\ closed \in BOOLEAN

(* The shared counters are exactly what the open windows hold, whatever was  *)
(* acknowledged, aborted by three different threads, torn down or shut down: *)
(* a chunk released twice or never would shift the limit for ever.           *)
AccountingExact ==
  /\ inflight = SumFunction([t \in Transfers |-> Bytes(window[t].chunks)])
  /\ \A p \in Peers : peers[p] = Cardinality({t \in Registered : PeerOf[t] = p})

(* The limits hold although every check is made before a wait.               *)
LimitsHold ==
  /\ inflight <= MaxBytes
  /\ Cardinality(Registered) <= MaxTransfers
  /\ \A p \in Peers : peers[p] <= MaxPerPeer

(* Nobody sleeps on a condition that holds already (notify_all after every   *)
(* change of what open_transfer, track_sent and wait_until_empty wait for).  *)
NoLostWakeup ==
  \A t \in asleep :
    CASE worker[t].state = "admitting" -> ~Room(t) /\ ~closed
      [] worker[t].state = "slot" -> window[t].open /\ ~SlotFree(t)
      [] worker[t].state = "draining" -> window[t].open /\ window[t].chunks # {}

(* No ACK an honest receiver batches is ever refused by the window, after any*)
(* number of resumes: apply_ack's regression, boundary and range errors, each*)
(* of which ends the channel, stay unreachable.                              *)
AcksAreLegal ==
  \A t \in Transfers :
    window[t].open /\ t \in reader /\ chan[t].acks # <<>> => ~Rejected(window[t], Head(chan[t].acks))

(* A byte is released from the window only after the receiver wrote it.      *)
ReleasedIsReceived ==
  \A t \in Transfers : window[t].open /\ t \in reader =>
    \A f \in Files(t) :
      \/ window[t].acked[f] <= 0
      \/ f < recv[t].file
      \/ f = recv[t].file /\ window[t].acked[f] <= recv[t].off

(* Without deadlines, cancels and shutdown every transfer gets its window,   *)
(* its slots and its acknowledgements: the shared limits starve nobody.      *)
NothingStarves ==
  (\A k \in Kinds \ {"drop"} : left[k] = 0) => <>(\A t \in Transfers : Finished(t))
==============================================================================
