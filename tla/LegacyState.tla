----------------------------- MODULE LegacyState -----------------------------
(***************************************************************************)
(* The chunked transfer of one clipboard item to a peer without stream V2:  *)
(* the job objects and the worker pool of the source (clipboard_transfer),  *)
(* the two ClipboardManagers (clipboard_runtime) and the link of the peers. *)
(* A job object is <<t, n>>: the n-th one made for transfer t, since a       *)
(* resume makes a new one under the same transfer_id.                        *)
(***************************************************************************)
EXTENDS Naturals, Sequences, FiniteSets

CONSTANTS
  Transfer, Worker,
  Chunks,      \* chunks of the item
  QueueSize,   \* maxsize
  MaxRetries,  \* max_retries of both sides
  MaxSends,    \* 1 + final_ack_retry_count
  None,
  Scenarios    \* how often the users, the network and the machines may act

Kinds == {"request", "drop", "corrupt", "restart", "forget", "delete", "stop"}

Job == Transfer \X (1 .. MaxRetries)

ASSUME LegacyAssumption ==
  /\ Chunks \in Nat \ {0} /\ QueueSize \in Nat \ {0}
  /\ MaxRetries \in Nat \ {0} /\ MaxSends \in Nat \ {0}
  /\ None \notin Transfer \cup Worker \cup Job
  /\ Scenarios \subseteq [Kinds -> Nat]

TransferOf(j) == j[1]

VARIABLES
  job,       \* TransferJob: status, retry_count, resume_from, final_ack_requested
  queue,     \* TransferQueue: the queue and the books kept under its lock
  worker,    \* its threads, and where each is in _worker and _send_transfer
  sender,    \* the source's manager
  receiver,  \* the receiver's manager and its profile store
  link,      \* the connection and the messages on their way
  hist,      \* history: transfers confirmed and stored, item deleted and not offered since
  left       \* budget

vars == <<job, queue, worker, sender, receiver, link, hist, left>>

Terminal == {"completed", "failed", "cancelled"}
Blocking == {"pending", "running", "retrying"}

NoJob == [status |-> "none", retries |-> 0, from |-> 0, final |-> FALSE]
IdleWorker == [at |-> "idle", job |-> None, next |-> 0, sends |-> 0, ack |-> "none"]
NoEntry == [open |-> FALSE, have |-> {}, cancelled |-> FALSE, finalizing |-> FALSE,
            retries |-> 0, dead |-> FALSE]

Init ==
  /\ job = [j \in Job |-> NoJob]
  /\ queue = [fifo |-> <<>>, queued |-> {}, active |-> {}, pending |-> {},
              registered |-> [t \in Transfer |-> None], armed |-> {}, requeuing |-> {},
              stop |-> FALSE]
  /\ worker = [w \in Worker |-> IdleWorker]
  /\ sender = [jobs |-> [t \in Transfer |-> None], latest |-> None, asked |-> {},
               answers |-> {}, acks |-> [t \in Transfer |-> None], resuming |-> None,
               have |-> TRUE, closing |-> FALSE]
  /\ receiver = [stored |-> FALSE, receipts |-> {}, tombstone |-> FALSE,
                 entry |-> [t \in Transfer |-> NoEntry], known |-> {},
                 at |-> "idle", transfer |-> None, deleting |-> "no"]
  /\ link = [up |-> TRUE, toReceiver |-> <<>>, toSender |-> <<>>]
  /\ hist = [confirmed |-> {}, stored |-> {}, gone |-> FALSE]
  /\ left \in Scenarios

Spend(k) == left[k] > 0 /\ left' = [left EXCEPT ![k] = @ - 1]

(* --- the marks of a job --------------------------------------------------- *)
Marked(js, j, s) == [js EXCEPT ![j].status = s]
RetryMarked(js, j) ==
  [js EXCEPT ![j].retries = @ + 1,
             ![j].status = IF js[j].retries + 1 > MaxRetries THEN "failed" ELSE "retrying"]
MayRetry(r) == r < MaxRetries
ShouldRetry(js, j) == MayRetry(js[j].retries) /\ js[j].status \in {"failed", "retrying"}
CancelMarked(js, marked) ==
  [j \in Job |-> IF j \in marked /\ js[j].status \notin Terminal
                 THEN [js[j] EXCEPT !.status = "cancelled"] ELSE js[j]]

(* --- the link --------------------------------------------------------------*)
Msg(kind, t) == [kind |-> kind, of |-> t, index |-> 0, ok |-> TRUE, request |-> None]
ToReceiver(m) == link' = [link EXCEPT !.toReceiver = Append(@, m)]
(* A reply is lost when there is no connection: the exception is only logged.*)
Reply(l, m) == IF l.up THEN [l EXCEPT !.toSender = Append(@, m)] ELSE l

Drop ==
  /\ link.up /\ Spend("drop")
  /\ \E r \in 0 .. Len(link.toReceiver), s \in 0 .. Len(link.toSender) :
       link' = [up |-> FALSE, toReceiver |-> SubSeq(link.toReceiver, 1, r),
                toSender |-> SubSeq(link.toSender, 1, s)]
  /\ UNCHANGED <<job, queue, worker, sender, receiver, hist>>
Redial ==
  /\ ~link.up /\ link.toReceiver = <<>> /\ link.toSender = <<>>
  /\ link' = [link EXCEPT !.up = TRUE]
  /\ UNCHANGED <<job, queue, worker, sender, receiver, hist, left>>
==============================================================================
