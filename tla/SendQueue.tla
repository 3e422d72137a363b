------------------------------ MODULE SendQueue ------------------------------
(***************************************************************************)
(* TransferQueue: a bounded queue, its worker threads, retry timers that    *)
(* put a failed job back, cancellation and shutdown.  One action is one     *)
(* section under the queue's lock, or one unlocked read or write of a job.   *)
(***************************************************************************)
EXTENDS LegacyState

others == <<sender, receiver, link, hist, left>>

(* --- admission ------------------------------------------------------------ *)
Room(q) == Len(q.fifo) < QueueSize
CanSubmit(q, t) == ~q.stop /\ q.registered[t] = None /\ Room(q)
Enqueued(q, j) ==
  [q EXCEPT !.fifo = Append(@, j), !.queued = @ \cup {TransferOf(j)},
            !.registered[TransferOf(j)] = j]

(* cancel: whatever the status, and the timer with it.                        *)
(* (mutant: a job that only waits for its retry stays registered)             *)
DroppedKept(q, ts) ==
  [q EXCEPT !.pending = @ \ ts, !.armed = {j \in @ : TransferOf(j) \notin ts}]
Dropped(q, ts) ==
  [q EXCEPT !.pending = @ \ ts, !.armed = {j \in @ : TransferOf(j) \notin ts},
            !.registered = [t \in Transfer |->
              IF t \in ts \ (q.queued \cup q.active) THEN None ELSE @[t]]]
Cancelled(js, q, ts) ==
  [j \in Job |-> IF TransferOf(j) \in ts /\ q.registered[TransferOf(j)] = j
                 THEN [js[j] EXCEPT !.status = "cancelled"] ELSE js[j]]

(* --- _worker -------------------------------------------------------------- *)
Goes(w, at) == worker' = [worker EXCEPT ![w].at = at]

Take(w) ==
  /\ worker[w].at = "idle" /\ queue.fifo # <<>>
  /\ worker' = [worker EXCEPT ![w] = [IdleWorker EXCEPT !.at = "taken", !.job = Head(queue.fifo)]]
  /\ queue' = [queue EXCEPT !.fifo = Tail(@)]
  /\ UNCHANGED <<job, others>>

Admit(w) ==
  /\ worker[w].at = "taken"
  /\ LET t == TransferOf(worker[w].job)
         j == queue.registered[t]
         js == IF j # None /\ queue.stop THEN Marked(job, j, "cancelled") ELSE job
         runs == j # None /\ js[j].status # "cancelled"
     IN  /\ job' = js
         /\ queue' = [queue EXCEPT !.queued = @ \ {t},
                                   !.active = IF runs THEN @ \cup {t} ELSE @]
         /\ Goes(w, IF runs THEN "admitted" ELSE "leaving")
  /\ UNCHANGED others

(* The status is read and written outside the lock.                           *)
CheckStatus(w) ==
  /\ worker[w].at = "admitted"
  /\ Goes(w, IF job[worker[w].job].status \in {"pending", "retrying"} THEN "marking" ELSE "begin")
  /\ UNCHANGED <<job, queue, others>>
MarkRunning(w) ==
  /\ worker[w].at = "marking"
  /\ job' = Marked(job, worker[w].job, "running")
  /\ Goes(w, "begin")
  /\ UNCHANGED <<queue, others>>

Returned(w) ==
  /\ worker[w].at = "returned"
  /\ LET j == worker[w].job
     IN  job' = CASE job[j].status = "awaiting_ack" -> Marked(job, j, "failed")
                  [] job[j].status \in Terminal -> job
                  [] OTHER -> Marked(job, j, "completed")
  /\ Goes(w, "leaving")
  /\ UNCHANGED <<queue, others>>

(* An exception of the work: the check for a cancel, the mark and the         *)
(* decision to try again are three unlocked steps.                            *)
Raised(w) ==
  /\ worker[w].at = "raised"
  /\ job' = IF queue.stop THEN Marked(job, worker[w].job, "cancelled") ELSE job
  /\ Goes(w, IF queue.stop \/ job[worker[w].job].status = "cancelled" THEN "leaving" ELSE "failing")
  /\ UNCHANGED <<queue, others>>
MarkRetry(w) ==
  /\ worker[w].at = "failing"
  /\ job' = RetryMarked(job, worker[w].job)
  /\ Goes(w, "retrying")
  /\ UNCHANGED <<queue, others>>
ScheduleRetry(w) ==
  /\ worker[w].at = "retrying"
  /\ LET j == worker[w].job
         t == TransferOf(j)
         retry == ~queue.stop /\ ShouldRetry(job, j)
     IN  /\ queue' = IF retry THEN [queue EXCEPT !.pending = @ \cup {t}] ELSE queue
         /\ job' = IF retry \/ job[j].status = "cancelled" THEN job ELSE Marked(job, j, "failed")
         /\ Goes(w, IF retry /\ t \notin queue.pending THEN "arming" ELSE "leaving")
  /\ UNCHANGED others
ArmTimer(w) ==
  /\ worker[w].at = "arming"
  /\ queue' = IF queue.stop THEN [queue EXCEPT !.pending = @ \ {TransferOf(worker[w].job)}]
              ELSE [queue EXCEPT !.armed = @ \cup {worker[w].job}]
  /\ Goes(w, "leaving")
  /\ UNCHANGED <<job, others>>

(* (mutant: a job whose retry is pending is unregistered too)                 *)
LeftAnyway(q, t) ==
  [q EXCEPT !.active = @ \ {t}, !.registered[t] = IF t \in q.queued THEN @ ELSE None]
Left(q, t) ==
  [q EXCEPT !.active = @ \ {t},
            !.registered[t] = IF t \in q.queued \cup q.pending THEN @ ELSE None]
Leave(w) ==
  /\ worker[w].at = "leaving"
  /\ queue' = Left(queue, TransferOf(worker[w].job))
  /\ worker' = [worker EXCEPT ![w] = IdleWorker]
  /\ UNCHANGED <<job, others>>

(* --- the retry timer and its _requeue loop -------------------------------- *)
TimerFires(j) ==
  /\ j \in queue.armed
  /\ queue' = [queue EXCEPT !.armed = @ \ {j}, !.requeuing = @ \cup {j}]
  /\ UNCHANGED <<job, worker, others>>
MayRequeue(q, j) == TransferOf(j) \notin q.active /\ Room(q)
Requeue(j) ==
  LET t == TransferOf(j)
      mine == t \in queue.pending /\ queue.registered[t] = j
  IN  /\ j \in queue.requeuing
      /\ \/ /\ queue.stop \/ ~mine
            /\ queue' = [queue EXCEPT !.requeuing = @ \ {j},
                                      !.pending = IF queue.stop THEN @ \ {t} ELSE @]
         \/ /\ ~queue.stop /\ mine /\ MayRequeue(queue, j)
            /\ queue' = [Enqueued(queue, j) EXCEPT !.requeuing = @ \ {j}, !.pending = @ \ {t}]
      /\ UNCHANGED <<job, worker, others>>

(* --- shutdown ------------------------------------------------------------- *)
(* ClipboardManager.shutdown first cancels what waits for a final ack.        *)
CloseManager ==
  /\ ~sender.closing /\ Spend("stop")
  /\ sender' = [sender EXCEPT !.closing = TRUE, !.acks = [t \in Transfer |-> None]]
  /\ LET waiting == {t \in Transfer : sender.acks[t] # None}
     IN  /\ job' = CancelMarked(job, {sender.jobs[t] : t \in waiting} \ {None})
         /\ worker' = [w \in Worker |-> IF \E t \in waiting : sender.acks[t] = w
                                        THEN [worker[w] EXCEPT !.ack = "cancelled"] ELSE worker[w]]
  /\ UNCHANGED <<queue, receiver, link, hist>>
StopQueue ==
  /\ sender.closing /\ ~queue.stop
  /\ LET gone == queue.pending \ (queue.queued \cup queue.active)
     IN  /\ job' = CancelMarked(job, {queue.registered[t] : t \in queue.queued \cup queue.pending} \ {None})
         /\ queue' = [queue EXCEPT !.stop = TRUE, !.armed = {}, !.pending = {},
                        !.registered = [t \in Transfer |-> IF t \in gone THEN None ELSE @[t]]]
  /\ UNCHANGED <<worker, others>>
Drain ==
  /\ queue.stop /\ queue.fifo # <<>>
  /\ LET t == TransferOf(Head(queue.fifo))
     IN  /\ job' = CancelMarked(job, {queue.registered[t]} \ {None})
         /\ queue' = [queue EXCEPT !.fifo = Tail(@), !.queued = @ \ {t},
                        !.registered[t] = IF t \in queue.active THEN @ ELSE None]
  /\ UNCHANGED <<worker, others>>
Exit(w) ==
  /\ worker[w].at = "idle" /\ queue.stop /\ queue.fifo = <<>>
  /\ Goes(w, "gone")
  /\ UNCHANGED <<job, queue, others>>
==============================================================================
