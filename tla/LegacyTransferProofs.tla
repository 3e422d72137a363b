------------------------ MODULE LegacyTransferProofs -------------------------
(***************************************************************************)
(* The chunked transfer for any number of transfers, workers, chunks,        *)
(* retries and messages: no id stays taken for nothing (JobsAreHeld), what   *)
(* is confirmed was committed (ConfirmedIsStored), and a deleted item stays   *)
(* away (DeletedStaysAway).                                                   *)
(***************************************************************************)
EXTENDS LegacyTransfer, SequenceTheorems, WellFoundedInduction, TLAPS

Positions == 0 .. Chunks - 1
Statuses == {"none", "pending", "running", "retrying", "awaiting_ack"} \cup Terminal
JobStates == [status : Statuses, retries : Nat, from : Positions, final : BOOLEAN]
Requests == Job \X Nat
Messages ==
  [kind : {"request", "preflight", "answer", "start", "chunk", "complete", "error", "ack", "resume"},
   of : Transfer, index : Positions, ok : BOOLEAN, request : Requests \cup {None}]
Places ==
  {"idle", "taken", "admitted", "marking", "begin", "asking", "starting", "sending", "aborting",
   "completing", "waiting", "settling", "returned", "raised", "failing", "retrying", "arming",
   "leaving", "gone"}

Queues ==
  [fifo : Seq(Job), queued : SUBSET Transfer, active : SUBSET Transfer, pending : SUBSET Transfer,
   registered : [Transfer -> Job \cup {None}], armed : SUBSET Job, requeuing : SUBSET Job,
   stop : BOOLEAN]
Workers ==
  [at : Places, job : Job \cup {None}, next : 0 .. Chunks, sends : Nat,
   ack : {"none", "complete", "failed", "cancelled"}]
Senders ==
  [jobs : [Transfer -> Job \cup {None}], latest : Transfer \cup {None}, asked : SUBSET Requests,
   answers : SUBSET (Requests \X BOOLEAN), acks : [Transfer -> Worker \cup {None}],
   resuming : Job \cup {None}, have : BOOLEAN, closing : BOOLEAN]
Entries ==
  [open : BOOLEAN, have : SUBSET Positions, cancelled : BOOLEAN, finalizing : BOOLEAN,
   retries : Nat, dead : BOOLEAN]
Receivers ==
  [stored : BOOLEAN, receipts : SUBSET Transfer, tombstone : BOOLEAN,
   entry : [Transfer -> Entries], known : SUBSET Transfer,
   at : {"idle", "opening", "finalizing", "acking"}, transfer : Transfer \cup {None},
   deleting : {"no", "transfers", "store"}]
Links == [up : BOOLEAN, toReceiver : Seq(Messages), toSender : Seq(Messages)]
Histories == [confirmed : SUBSET Transfer, stored : SUBSET Transfer, gone : BOOLEAN]

Types ==
  /\ job \in [Job -> JobStates] /\ queue \in Queues /\ worker \in [Worker -> Workers]
  /\ sender \in Senders /\ receiver \in Receivers /\ link \in Links /\ hist \in Histories

(* A worker on its way has a job, the receiver a transfer.                   *)
Occupied ==
  /\ \A w \in Worker : worker[w].at \notin {"idle", "gone"} => worker[w].job # None
  /\ receiver.at # "idle" => receiver.transfer # None

(* The n-th job of a transfer has been retried n - 1 times or more: what     *)
(* bounds the retries bounds the jobs.                                        *)
JobNumbers ==
  \A t \in Transfer : sender.jobs[t] # None =>
    TransferOf(sender.jobs[t]) = t /\ sender.jobs[t][2] <= job[sender.jobs[t]].retries + 1

NothingPends == queue.stop => queue.pending = {}

(* An answer speaks of a commit, and reaches the worker that asked for it.   *)
AcksAreTrue ==
  /\ receiver.receipts \subseteq hist.stored
  /\ receiver.at = "acking" => receiver.transfer \in hist.stored
  /\ \A i \in 1 .. Len(link.toSender) :
       link.toSender[i].kind = "ack" => link.toSender[i].of \in hist.stored
  /\ \A w \in Worker : worker[w].ack = "complete" => worker[w].job # None /\ T(w) \in hist.stored
  /\ \A t \in Transfer, w \in Worker : sender.acks[t] = w =>
       worker[w].at \in {"completing", "waiting", "settling"} /\ T(w) = t

(* A deleted item is barred, or nothing is on its way to the store.          *)
NothingReturns ==
  hist.gone =>
    \/ receiver.tombstone
    \/ /\ receiver.at \notin {"opening", "finalizing"}
       /\ \A t \in Transfer : ~receiver.entry[t].open

Held == Types /\ Occupied /\ JobNumbers /\ NothingPends /\ JobsAreHeld
LegacyInv == Held /\ AcksAreTrue /\ ConfirmedIsStored /\ NothingReturns /\ DeletedStaysAway

----------------------------------------------------------------------------
(* Sequences of jobs and messages                                            *)

(* What is left of a queue when its first element is taken.                  *)
LEMMA Tailed ==
  ASSUME NEW S, NEW q \in Seq(S), q # <<>>
  PROVE  /\ Tail(q) \in Seq(S) /\ Head(q) \in S /\ Head(q) = q[1] /\ 1 \in 1..Len(q)
         /\ \A i \in 1..Len(Tail(q)) : i + 1 \in 1..Len(q) /\ Tail(q)[i] = q[i + 1]
BY HeadTailProperties, EmptySeq, LenProperties, ElementOfSeq

(* A queue with one more element.                                            *)
LEMMA Appended ==
  ASSUME NEW S, NEW q \in Seq(S), NEW x \in S
  PROVE  /\ Append(q, x) \in Seq(S) /\ Len(Append(q, x)) = Len(q) + 1
         /\ \A i \in 1..Len(q) : Append(q, x)[i] = q[i]
         /\ Append(q, x)[Len(q) + 1] = x
BY AppendProperties

(* What a break of the link leaves of a queue.                               *)
LEMMA CutOff ==
  ASSUME NEW S, NEW q \in Seq(S), NEW n \in 0..Len(q)
  PROVE  /\ SubSeq(q, 1, n) \in Seq(S) /\ Len(SubSeq(q, 1, n)) = n
         /\ \A i \in 1..n : i \in 1..Len(q) /\ SubSeq(q, 1, n)[i] = q[i]
<1>1. Len(q) \in Nat
  BY LenProperties
<1>2. \A i \in 1..n : i \in 1..Len(q) /\ 1 + i - 1 = i
  BY <1>1
<1>3. n - 1 + 1 = n
  BY <1>1
<1> QED
  BY <1>1, <1>2, <1>3, SubSeqProperties

----------------------------------------------------------------------------
(* Jobs and workers                                                          *)

JobTable == [Job -> JobStates]

(* A job is TransferOf(j) and a number.                                      *)
LEMMA JobParts ==
  ASSUME NEW j \in Job
  PROVE  /\ TransferOf(j) \in Transfer /\ j[2] \in 1..MaxRetries /\ j = <<TransferOf(j), j[2]>>
         /\ MaxRetries \in Nat \ {0}
BY LegacyAssumption DEF Job, TransferOf

(* ks is js after marks: no retry is taken back.                             *)
Later(js, ks) == ks \in JobTable /\ \A j \in Job : js[j].retries <= ks[j].retries

(* A new status takes no retry back.                                         *)
LEMMA MarkedLater ==
  ASSUME NEW js \in JobTable, NEW j \in Job, NEW s \in Statuses
  PROVE  Later(js, Marked(js, j, s))
BY DEF Later, Marked, JobTable, JobStates

(* A retry is counted, and no other is taken back.                           *)
LEMMA RetryMarkedLater ==
  ASSUME NEW js \in JobTable, NEW j \in Job
  PROVE  Later(js, RetryMarked(js, j)) /\ RetryMarked(js, j)[j].retries = js[j].retries + 1
<1> DEFINE s == IF js[j].retries + 1 > MaxRetries THEN "failed" ELSE "retrying"
           n == js[j].retries + 1
<1>1. s \in Statuses /\ n \in Nat
  BY DEF Statuses, Terminal, JobTable, JobStates
<1>2. RetryMarked(js, j) = [js EXCEPT ![j].retries = n, ![j].status = s]
  BY DEF RetryMarked
<1> HIDE DEF s
<1>3. /\ RetryMarked(js, j) \in JobTable /\ RetryMarked(js, j)[j].retries = n
      /\ \A k \in Job : k # j => RetryMarked(js, j)[k] = js[k]
  BY <1>1, <1>2 DEF JobTable, JobStates
<1> QED
  BY <1>1, <1>3 DEF Later, JobTable, JobStates

(* Neither does a cancel.                                                    *)
LEMMA CancelledLater ==
  ASSUME NEW js \in JobTable
  PROVE  /\ Later(js, js)
         /\ \A marked : Later(js, CancelMarked(js, marked))
         /\ \A q, ts : Later(js, Cancelled(js, q, ts))
BY DEF Later, CancelMarked, Cancelled, JobTable, JobStates, Statuses, Terminal

(* One table after another after a third.                                    *)
LEMMA LaterStill ==
  ASSUME NEW js \in JobTable, NEW ks, NEW ls, Later(js, ks), Later(ks, ls)
  PROVE  Later(js, ls)
BY DEF Later, JobTable, JobStates

(* What one worker does leaves the others alone.                             *)
LEMMA WorkerTurn ==
  ASSUME Types, Occupied, NEW w \in Worker, NEW f \in Workers, worker' = [worker EXCEPT ![w] = f],
         f.at \notin {"idle", "gone"} => f.job # None
  PROVE  /\ worker' \in [Worker -> Workers] /\ worker'[w] = f
         /\ \A v \in Worker : v # w => worker'[v] = worker[v]
         /\ \A v \in Worker : worker'[v].at \notin {"idle", "gone"} => worker'[v].job # None
BY DEF Types, Occupied

(* A worker that goes to another place keeps its job.                        *)
LEMMA WorkerGoes ==
  ASSUME Types, Occupied, NEW w \in Worker, NEW at \in Places, Goes(w, at),
         worker[w].at \notin {"idle", "gone"} \/ at \in {"idle", "gone"}
  PROVE  /\ worker' \in [Worker -> Workers]
         /\ worker'[w] = [worker[w] EXCEPT !.at = at] /\ worker'[w] \in Workers
         /\ \A v \in Worker : v # w => worker'[v] = worker[v]
         /\ \A v \in Worker : worker'[v].at \notin {"idle", "gone"} => worker'[v].job # None
<1>1. [worker[w] EXCEPT !.at = at] \in Workers
  BY DEF Types, Workers
<1>2. /\ [worker[w] EXCEPT !.at = at].at = at
      /\ [worker[w] EXCEPT !.at = at].job = worker[w].job
  BY DEF Types, Workers
<1>3. worker' = [worker EXCEPT ![w] = [worker[w] EXCEPT !.at = at]]
  BY DEF Goes
<1>4. worker[w].at \notin {"idle", "gone"} => worker[w].job # None
  BY DEF Occupied
<1> QED
  BY <1>1, <1>2, <1>3, <1>4, WorkerTurn

(* The job a worker is at.                                                   *)
LEMMA JobAtWork ==
  ASSUME Types, Occupied, NEW w \in Worker, worker[w].at \notin {"idle", "gone"}
  PROVE  J(w) \in Job /\ T(w) \in Transfer /\ J(w) = worker[w].job /\ T(w) = TransferOf(J(w))
<1>1. worker[w].job \in Job
  BY DEF Types, Occupied, Workers
<1> QED
  BY <1>1, JobParts DEF J, T

(* The books of the queue.                                                   *)
LEMMA EnqueuedType ==
  ASSUME NEW q \in Queues, NEW j \in Job
  PROVE  Enqueued(q, j) \in Queues
<1>1. TransferOf(j) \in Transfer /\ Append(q.fifo, j) \in Seq(Job)
  BY JobParts, Appended DEF Queues
<1>2. [q.registered EXCEPT ![TransferOf(j)] = j] \in [Transfer -> Job \cup {None}]
  BY DEF Queues
<1>3. Enqueued(q, j) =
        [q EXCEPT !.fifo = Append(q.fifo, j), !.queued = q.queued \cup {TransferOf(j)},
                  !.registered = [q.registered EXCEPT ![TransferOf(j)] = j]]
  BY DEF Enqueued
<1>4. q.queued \cup {TransferOf(j)} \in SUBSET Transfer
  BY <1>1 DEF Queues
<1> HIDE DEF Enqueued
<1> QED
  BY <1>1, <1>2, <1>3, <1>4 DEF Queues

(* A queue from which a cancel has dropped its jobs is a queue.              *)
LEMMA DroppedType ==
  ASSUME NEW q \in Queues, NEW ts
  PROVE  Dropped(q, ts) \in Queues
<1> DEFINE left0 == [t \in Transfer |->
                       IF t \in ts \ (q.queued \cup q.active) THEN None ELSE q.registered[t]]
<1>1. left0 \in [Transfer -> Job \cup {None}]
  BY DEF Queues
<1>2. Dropped(q, ts) = [q EXCEPT !.pending = q.pending \ ts,
                                 !.armed = {j \in q.armed : TransferOf(j) \notin ts},
                                 !.registered = left0]
  BY DEF Dropped
<1> HIDE DEF left0
<1> QED
  BY <1>1, <1>2 DEF Queues

(* So is one from which a delivered transfer has left.                       *)
LEMMA LeftType ==
  ASSUME NEW q \in Queues, NEW t \in Transfer
  PROVE  Left(q, t) \in Queues
<1> DEFINE r == IF t \in q.queued \cup q.pending THEN q.registered[t] ELSE None
<1>1. r \in Job \cup {None}
  BY DEF Queues
<1>2. [q.registered EXCEPT ![t] = r] \in [Transfer -> Job \cup {None}]
  BY <1>1 DEF Queues
<1>3. Left(q, t) = [q EXCEPT !.active = q.active \ {t},
                             !.registered = [q.registered EXCEPT ![t] = r]]
  BY DEF Left
<1> HIDE DEF r
<1> QED
  BY <1>2, <1>3 DEF Queues

----------------------------------------------------------------------------
(* Types                                                                     *)

Idle == IdleWorker \in Workers /\ IdleWorker.at = "idle" /\ IdleWorker.job = None
          /\ IdleWorker.ack = "none"

(* A worker without a job.                                                   *)
LEMMA IdleType == Idle
BY LegacyAssumption DEF Idle, IdleWorker, Workers, Places

(* Types: the worker threads in the queue's code.                            *)
LEMMA QueueWorkTypes ==
  ASSUME Types, Occupied, NEW w \in Worker,
         \/ Take(w) \/ Admit(w) \/ CheckStatus(w) \/ MarkRunning(w) \/ Returned(w) \/ Raised(w)
         \/ MarkRetry(w) \/ ScheduleRetry(w) \/ ArmTimer(w) \/ Leave(w) \/ Exit(w)
  PROVE  Types' /\ Occupied' /\ Later(job, job')
<1>0. /\ job \in JobTable /\ queue \in Queues /\ worker \in [Worker -> Workers]
      /\ sender \in Senders /\ receiver \in Receivers /\ link \in Links /\ hist \in Histories
      /\ Later(job, job)
  BY CancelledLater DEF Types, JobTable
<1>1. UNCHANGED others
  BY DEF Take, Admit, CheckStatus, MarkRunning, Returned, Raised, MarkRetry, ScheduleRetry,
         ArmTimer, Leave, Exit
<1>2. SUFFICES /\ Later(job, job') /\ queue' \in Queues /\ worker' \in [Worker -> Workers]
               /\ \A v \in Worker : worker'[v].at \notin {"idle", "gone"} => worker'[v].job # None
  BY <1>0, <1>1 DEF Types, Occupied, Later, JobTable, others
<1>3. CASE Take(w)
  <2>1. /\ worker[w].at = "idle" /\ queue.fifo # <<>> /\ UNCHANGED job
        /\ worker' = [worker EXCEPT ![w] = [IdleWorker EXCEPT !.at = "taken", !.job = Head(queue.fifo)]]
        /\ queue' = [queue EXCEPT !.fifo = Tail(queue.fifo)]
    BY <1>3 DEF Take
  <2>2. Tail(queue.fifo) \in Seq(Job) /\ Head(queue.fifo) \in Job
    BY <1>0, <2>1, Tailed DEF Queues
  <2>3. Head(queue.fifo) # None
    BY <2>2, LegacyAssumption
  <2>4. [IdleWorker EXCEPT !.at = "taken", !.job = Head(queue.fifo)] \in Workers
    BY <2>2, IdleType DEF Idle, Workers, Places
  <2>5. [IdleWorker EXCEPT !.at = "taken", !.job = Head(queue.fifo)].job = Head(queue.fifo)
    BY DEF IdleWorker
  <2>6. queue' \in Queues
    BY <1>0, <2>1, <2>2 DEF Queues
  <2> QED
    BY <1>0, <2>1, <2>3, <2>4, <2>5, <2>6, WorkerTurn
<1>4. CASE Admit(w)
  <2> DEFINE t == TransferOf(worker[w].job)
             j == queue.registered[t]
             js == IF j # None /\ queue.stop THEN Marked(job, j, "cancelled") ELSE job
             runs == j # None /\ js[j].status # "cancelled"
  <2>1. /\ worker[w].at = "taken" /\ job' = js
        /\ queue' = [queue EXCEPT !.queued = queue.queued \ {t},
                                  !.active = IF runs THEN queue.active \cup {t} ELSE queue.active]
        /\ Goes(w, IF runs THEN "admitted" ELSE "leaving")
    BY <1>4 DEF Admit
  <2>2. t \in Transfer
    BY <2>1, JobAtWork
  <2>3. j \in Job \cup {None} /\ "cancelled" \in Statuses
    BY <1>0, <2>2 DEF Queues, Statuses, Terminal
  <2>4. Later(job, job')
    BY <1>0, <2>1, <2>3, MarkedLater
  <2> HIDE DEF t, runs
  <2>5. (IF runs THEN queue.active \cup {t} ELSE queue.active) \in SUBSET Transfer
    BY <1>0, <2>2 DEF Queues
  <2>6. queue' \in Queues
    BY <1>0, <2>1, <2>5 DEF Queues
  <2>7. (IF runs THEN "admitted" ELSE "leaving") \in Places
    BY DEF Places
  <2> QED
    BY <2>1, <2>4, <2>6, <2>7, WorkerGoes
<1>5. CASE CheckStatus(w)
  <2>1. PICK at \in {"marking", "begin"} : Goes(w, at)
    BY <1>5 DEF CheckStatus
  <2>2. at \in Places
    BY DEF Places
  <2> QED
    BY <1>0, <1>5, <2>1, <2>2, WorkerGoes DEF CheckStatus
<1>6. CASE MarkRunning(w)
  <2>1. "running" \in Statuses /\ "begin" \in Places
    BY DEF Statuses, Places
  <2> QED
    BY <1>0, <1>6, <2>1, WorkerGoes, MarkedLater, JobAtWork DEF MarkRunning
<1>7. CASE Returned(w)
  <2>1. {"failed", "completed"} \subseteq Statuses /\ "leaving" \in Places
    BY DEF Statuses, Terminal, Places
  <2>2. worker[w].at = "returned" /\ worker[w].job \in Job
    BY <1>7, JobAtWork DEF Returned
  <2>3. \/ job' = job \/ job' = Marked(job, worker[w].job, "failed")
        \/ job' = Marked(job, worker[w].job, "completed")
    BY <1>7 DEF Returned
  <2> QED
    BY <1>0, <1>7, <2>1, <2>2, <2>3, WorkerGoes, MarkedLater DEF Returned
<1>8. CASE Raised(w)
  <2>1. PICK at \in {"leaving", "failing"} : Goes(w, at)
    BY <1>8 DEF Raised
  <2>2. at \in Places /\ "cancelled" \in Statuses
    BY DEF Places, Statuses, Terminal
  <2> QED
    BY <1>0, <1>8, <2>1, <2>2, WorkerGoes, MarkedLater, JobAtWork DEF Raised
<1>9. CASE MarkRetry(w)
  <2>1. "retrying" \in Places
    BY DEF Places
  <2> QED
    BY <1>0, <1>9, <2>1, WorkerGoes, RetryMarkedLater, JobAtWork DEF MarkRetry
<1>10. CASE ScheduleRetry(w)
  <2>1. PICK at \in {"arming", "leaving"} : Goes(w, at)
    BY <1>10 DEF ScheduleRetry
  <2>2. at \in Places /\ "failed" \in Statuses
    BY DEF Places, Statuses, Terminal
  <2>3. worker[w].at = "retrying" /\ worker[w].job \in Job /\ TransferOf(worker[w].job) \in Transfer
    BY <1>10, JobAtWork DEF ScheduleRetry
  <2>4. job' = job \/ job' = Marked(job, worker[w].job, "failed")
    BY <1>10 DEF ScheduleRetry
  <2>5. \/ queue' = queue
        \/ queue' = [queue EXCEPT !.pending = queue.pending \cup {TransferOf(worker[w].job)}]
    BY <1>10 DEF ScheduleRetry
  <2>6. queue' \in Queues
    BY <1>0, <2>3, <2>5 DEF Queues
  <2>7. Later(job, job')
    BY <1>0, <2>2, <2>3, <2>4, MarkedLater
  <2> QED
    BY <2>1, <2>2, <2>3, <2>6, <2>7, WorkerGoes
<1>11. CASE ArmTimer(w)
  <2>1. worker[w].at = "arming" /\ worker[w].job \in Job /\ "leaving" \in Places
    BY <1>11, JobAtWork DEF ArmTimer, Places
  <2>2. \/ queue' = [queue EXCEPT !.pending = queue.pending \ {TransferOf(worker[w].job)}]
        \/ queue' = [queue EXCEPT !.armed = queue.armed \cup {worker[w].job}]
    BY <1>11 DEF ArmTimer
  <2>3. queue' \in Queues
    BY <1>0, <2>1, <2>2 DEF Queues
  <2> QED
    BY <1>0, <1>11, <2>1, <2>3, WorkerGoes DEF ArmTimer
<1>12. CASE Leave(w)
  <2>1. TransferOf(worker[w].job) \in Transfer
    BY <1>12, JobAtWork DEF Leave
  <2> QED
    BY <1>0, <1>12, <2>1, LeftType, IdleType, WorkerTurn DEF Leave, Idle
<1>13. CASE Exit(w)
  <2>1. "gone" \in Places
    BY DEF Places
  <2> QED
    BY <1>0, <1>13, <2>1, WorkerGoes DEF Exit
<1> QED
  BY <1>3, <1>4, <1>5, <1>6, <1>7, <1>8, <1>9, <1>10, <1>11, <1>12, <1>13

(* Types: the timers and the shutdown.                                       *)
LEMMA QueueTypes ==
  ASSUME Types, Occupied, (\E j \in Job : Timers(j)) \/ Stops
  PROVE  Types' /\ Occupied' /\ Later(job, job')
<1>0. /\ job \in JobTable /\ queue \in Queues /\ worker \in [Worker -> Workers]
      /\ sender \in Senders /\ receiver \in Receivers /\ link \in Links /\ hist \in Histories
      /\ Later(job, job)
  BY CancelledLater DEF Types, JobTable
<1>1. CASE Later(job, job') /\ queue' \in Queues /\ UNCHANGED <<worker, others>>
  BY <1>0, <1>1 DEF Types, Occupied, Later, JobTable, others
<1>2. ASSUME NEW j \in Job, TimerFires(j)
      PROVE  Later(job, job') /\ queue' \in Queues /\ UNCHANGED <<worker, others>>
  <2>1. queue' = [queue EXCEPT !.armed = queue.armed \ {j}, !.requeuing = queue.requeuing \cup {j}]
    BY <1>2 DEF TimerFires
  <2>2. queue' \in Queues
    BY <1>0, <2>1 DEF Queues
  <2> QED
    BY <1>0, <1>2, <2>2 DEF TimerFires
<1>3. ASSUME NEW j \in Job, Requeue(j)
      PROVE  Later(job, job') /\ queue' \in Queues /\ UNCHANGED <<worker, others>>
  <2> DEFINE e == Enqueued(queue, j)
             t == TransferOf(j)
  <2>1. e \in Queues
    BY <1>0, EnqueuedType
  <2>2. \/ queue' = [queue EXCEPT !.requeuing = queue.requeuing \ {j}]
        \/ queue' = [queue EXCEPT !.requeuing = queue.requeuing \ {j}, !.pending = queue.pending \ {t}]
        \/ queue' = [e EXCEPT !.requeuing = e.requeuing \ {j}, !.pending = e.pending \ {t}]
    BY <1>0, <1>3 DEF Requeue, Queues
  <2> HIDE DEF e, t
  <2>3. queue' \in Queues
    BY <1>0, <2>1, <2>2 DEF Queues
  <2> QED
    BY <1>0, <1>3, <2>3 DEF Requeue
<1>4. CASE StopQueue
  <2> DEFINE gone == queue.pending \ (queue.queued \cup queue.active)
             r == [t \in Transfer |-> IF t \in gone THEN None ELSE queue.registered[t]]
  <2>1. /\ \E marked : job' = CancelMarked(job, marked)
        /\ queue' = [queue EXCEPT !.stop = TRUE, !.armed = {}, !.pending = {}, !.registered = r]
    BY <1>4 DEF StopQueue
  <2>2. r \in [Transfer -> Job \cup {None}]
    BY <1>0 DEF Queues
  <2> HIDE DEF r
  <2>3. queue' \in Queues
    BY <1>0, <2>1, <2>2 DEF Queues
  <2>4. Later(job, job')
    BY <1>0, <2>1, CancelledLater
  <2> QED
    BY <1>1, <1>4, <2>3, <2>4 DEF StopQueue
<1>5. CASE Drain
  <2> DEFINE t == TransferOf(Head(queue.fifo))
             x == IF t \in queue.active THEN queue.registered[t] ELSE None
             r == [queue.registered EXCEPT ![t] = x]
  <2>1. /\ \E marked : job' = CancelMarked(job, marked)
        /\ queue' = [queue EXCEPT !.fifo = Tail(queue.fifo), !.queued = queue.queued \ {t},
                                  !.registered = r]
        /\ queue.fifo # <<>>
    BY <1>5 DEF Drain
  <2>2. Tail(queue.fifo) \in Seq(Job) /\ t \in Transfer
    BY <1>0, <2>1, Tailed, JobParts DEF Queues
  <2>3. r \in [Transfer -> Job \cup {None}]
    BY <1>0, <2>2 DEF Queues
  <2> HIDE DEF r, t
  <2>4. queue' \in Queues
    BY <1>0, <2>1, <2>2, <2>3 DEF Queues
  <2>5. Later(job, job')
    BY <1>0, <2>1, CancelledLater
  <2> QED
    BY <1>1, <1>5, <2>4, <2>5 DEF Drain
<1>6. CASE CloseManager
  <2> DEFINE waiting == {t \in Transfer : sender.acks[t] # None}
             acks == [t \in Transfer |-> None]
  <2>1. /\ sender' = [sender EXCEPT !.closing = TRUE, !.acks = acks]
        /\ job' = CancelMarked(job, {sender.jobs[t] : t \in waiting} \ {None})
        /\ worker' = [w \in Worker |-> IF \E t \in waiting : sender.acks[t] = w
                                       THEN [worker[w] EXCEPT !.ack = "cancelled"] ELSE worker[w]]
        /\ UNCHANGED <<queue, receiver, link, hist>>
    BY <1>6 DEF CloseManager
  <2>2. acks \in [Transfer -> Worker \cup {None}]
    OBVIOUS
  <2> HIDE DEF waiting, acks
  <2>3. sender' \in Senders
    BY <1>0, <2>1, <2>2 DEF Senders
  <2>4. \A w \in Worker : /\ [worker[w] EXCEPT !.ack = "cancelled"] \in Workers
                          /\ [worker[w] EXCEPT !.ack = "cancelled"].at = worker[w].at
                          /\ [worker[w] EXCEPT !.ack = "cancelled"].job = worker[w].job
    BY <1>0 DEF Workers
  <2>5. worker' \in [Worker -> Workers]
    BY <1>0, <2>1, <2>4
  <2>6. \A w \in Worker : worker'[w].at = worker[w].at /\ worker'[w].job = worker[w].job
    BY <2>1, <2>4
  <2>7. Later(job, job')
    BY <1>0, <2>1, CancelledLater
  <2> QED
    BY <1>0, <2>1, <2>3, <2>5, <2>6, <2>7 DEF Types, Occupied, Later, JobTable
<1> QED
  BY <1>1, <1>2, <1>3, <1>4, <1>5, <1>6 DEF Timers, Stops

----------------------------------------------------------------------------

(* A message on its way to the receiver, and a reply.                        *)
LEMMA MsgType ==
  ASSUME NEW t \in Transfer,
         NEW kind \in {"request", "preflight", "answer", "start", "chunk", "complete", "error",
                       "ack", "resume"}
  PROVE  Msg(kind, t) \in Messages /\ Msg(kind, t).kind = kind /\ Msg(kind, t).of = t
<1>1. 0 \in Positions
  BY LegacyAssumption DEF Positions
<1> QED
  BY <1>1 DEF Msg, Messages

(* A message to the receiver leaves the way back alone.                      *)
LEMMA ToReceiverType ==
  ASSUME link \in Links, NEW m \in Messages, ToReceiver(m)
  PROVE  link' \in Links /\ link'.toSender = link.toSender
<1>1. Append(link.toReceiver, m) \in Seq(Messages)
  BY Appended DEF Links
<1> QED
  BY <1>1 DEF ToReceiver, Links

(* An answer is put at the end of the way back, or lost with the link.       *)
LEMMA ReplyType ==
  ASSUME NEW l \in Links, NEW m \in Messages
  PROVE  /\ Reply(l, m) \in Links
         /\ Reply(l, m).toSender = l.toSender \/ Reply(l, m).toSender = Append(l.toSender, m)
<1>1. Append(l.toSender, m) \in Seq(Messages)
  BY Appended DEF Links
<1> QED
  BY <1>1 DEF Reply, Links

(* An attempt at the item gives up.                                          *)
LEMMA FailAndGoType ==
  ASSUME Types, Occupied, NEW w \in Worker, NEW at \in Places, FailAndGo(w, at),
         worker[w].at \notin {"idle", "gone"}
  PROVE  /\ Later(job, job') /\ worker' \in [Worker -> Workers]
         /\ \A v \in Worker : worker'[v].at \notin {"idle", "gone"} => worker'[v].job # None
<1>1. job \in JobTable /\ "failed" \in Statuses
  BY DEF Types, JobTable, Statuses, Terminal
<1>2. Goes(w, at)
  BY DEF FailAndGo, Goes, To, Types, Workers
<1> QED
  BY <1>1, <1>2, WorkerGoes, MarkedLater, JobAtWork DEF FailAndGo

(* An attempt goes on.                                                       *)
LEMMA StepsType ==
  ASSUME Types, Occupied, NEW w \in Worker, NEW at, NEW f \in Workers, Steps(w, at, f),
         f.job = worker[w].job, worker[w].at \notin {"idle", "gone"}
  PROVE  /\ worker' \in [Worker -> Workers]
         /\ \A v \in Worker : worker'[v].at \notin {"idle", "gone"} => worker'[v].job # None
BY WorkerTurn DEF Steps, Occupied

(* A worker moved to another place has the type of a worker and its job.     *)
LEMMA ToType ==
  ASSUME Types, NEW w \in Worker, NEW at \in Places
  PROVE  To(w, at) \in Workers /\ To(w, at).job = worker[w].job
BY DEF Types, To, Workers

(* A worker's request, and the sender once the worker has settled.           *)
LEMMA RequestType ==
  ASSUME Types, Occupied, NEW w \in Worker, worker[w].at \notin {"idle", "gone"}
  PROVE  /\ Request(w) \in Requests /\ Forgotten(w) \in Senders
         /\ Forgotten(w).jobs = sender.jobs /\ Forgotten(w).acks = sender.acks
<1>1. J(w) \in Job /\ job[J(w)] \in JobStates
  BY JobAtWork DEF Types
<1>2. Request(w) \in Requests
  BY <1>1 DEF Request, Requests, JobStates
<1>3. sender \in Senders
  BY DEF Types
<1> QED
  BY <1>2, <1>3 DEF Forgotten, Senders

(* Types: _send_transfer.                                                    *)
LEMMA SendingTypes ==
  ASSUME Types, Occupied, NEW w \in Worker,
         \/ Begin(w) \/ Answered(w) \/ PreflightTimeout(w) \/ SendStart(w) \/ SendChunk(w)
         \/ Abort(w) \/ FinishUnconfirmed(w) \/ AwaitAck(w) \/ SendComplete(w) \/ Waited(w)
         \/ Settle(w)
  PROVE  Types' /\ Occupied' /\ Later(job, job')
<1>0. /\ job \in JobTable /\ queue \in Queues /\ worker \in [Worker -> Workers]
      /\ sender \in Senders /\ receiver \in Receivers /\ link \in Links /\ hist \in Histories
      /\ Later(job, job)
  BY CancelledLater DEF Types, JobTable
<1>1. UNCHANGED <<queue, receiver>>
  BY DEF Begin, Answered, PreflightTimeout, SendStart, SendChunk, Abort, FinishUnconfirmed,
         AwaitAck, SendComplete, Waited, Settle, books
<1>2. DEFINE Turns == /\ worker' \in [Worker -> Workers]
                      /\ \A v \in Worker : worker'[v].at \notin {"idle", "gone"} => worker'[v].job # None
<1>3. SUFFICES /\ Later(job, job') /\ sender' \in Senders /\ link' \in Links /\ hist' \in Histories
               /\ Turns
  BY <1>0, <1>1 DEF Types, Occupied, Later, JobTable
<1>4. worker[w].at \notin {"idle", "gone"}
  BY DEF Begin, Answered, PreflightTimeout, SendStart, SendChunk, Abort, FinishUnconfirmed,
         AwaitAck, SendComplete, Waited, Settle, Sent, Steps
<1>5. J(w) \in Job /\ T(w) \in Transfer /\ worker[w] \in Workers /\ job[J(w)] \in JobStates
  BY <1>0, <1>4, JobAtWork DEF JobTable
<1>6. /\ \A kind \in {"preflight", "start", "chunk", "complete", "error"} : Msg(kind, T(w)) \in Messages
      /\ Places \cap {"sending", "returned", "asking", "aborting", "starting", "raised", "completing",
                      "settling", "waiting"}
           = {"sending", "returned", "asking", "aborting", "starting", "raised", "completing",
              "settling", "waiting"}
      /\ {"failed", "cancelled", "completed", "awaiting_ack"} \subseteq Statuses
  BY <1>5, MsgType DEF Places, Statuses, Terminal
<1>7. ASSUME NEW at \in Places, FailAndGo(w, at)
      PROVE  Later(job, job') /\ Turns
  BY <1>4, <1>7, FailAndGoType
<1>8. ASSUME NEW at, NEW f \in Workers, f.job = worker[w].job, Steps(w, at, f)
      PROVE  Turns
  BY <1>4, <1>8, StepsType
<1>9. ASSUME NEW at, NEW to \in Places, Steps(w, at, To(w, to))
      PROVE  Turns
  BY <1>8, <1>9, ToType
<1>10. \A s \in Statuses : Later(job, Marked(job, J(w), s))
  BY <1>0, <1>5, MarkedLater
<1> HIDE DEF Turns
<1>11. CASE Begin(w)
  <2>1. CASE ~sender.have
    BY <1>0, <1>6, <1>7, <1>11, <2>1 DEF Begin
  <2>2. CASE sender.have /\ J(w)[2] > 1
    <3>1. /\ Steps(w, "begin", [To(w, "sending") EXCEPT !.next = job[J(w)].from])
          /\ UNCHANGED <<job, sender, link, hist>>
      BY <1>11, <2>2, <1>5, JobParts DEF Begin
    <3>2. job[J(w)].from \in 0..Chunks
      BY <1>5, LegacyAssumption DEF JobStates, Positions
    <3>3. To(w, "sending") \in Workers /\ To(w, "sending").job = worker[w].job
      BY <1>6, ToType
    <3>4. /\ [To(w, "sending") EXCEPT !.next = job[J(w)].from] \in Workers
          /\ [To(w, "sending") EXCEPT !.next = job[J(w)].from].job = worker[w].job
      BY <3>2, <3>3 DEF Workers
    <3> QED
      BY <1>0, <1>8, <3>1, <3>4
  <2>3. CASE sender.have /\ J(w)[2] = 1 /\ link.up
    <3>1. /\ sender' = [sender EXCEPT !.asked = sender.asked \cup {Request(w)}]
          /\ ToReceiver([Msg("preflight", T(w)) EXCEPT !.request = Request(w)])
          /\ Steps(w, "begin", To(w, "asking")) /\ UNCHANGED <<job, hist>>
      BY <1>11, <2>3 DEF Begin
    <3>2. Request(w) \in Requests
      BY <1>4, RequestType
    <3>3. [Msg("preflight", T(w)) EXCEPT !.request = Request(w)] \in Messages
      BY <1>6, <3>2 DEF Messages
    <3>4. sender' \in Senders
      BY <1>0, <3>1, <3>2 DEF Senders
    <3> QED
      BY <1>0, <1>6, <1>9, <3>1, <3>3, <3>4, ToReceiverType
  <2>4. CASE sender.have /\ J(w)[2] = 1 /\ ~link.up
    BY <1>0, <1>6, <1>7, <1>11, <2>4 DEF Begin
  <2> QED
    BY <1>5, <1>11, <2>1, <2>2, <2>3, <2>4 DEF Begin
<1>12. CASE Answered(w) \/ PreflightTimeout(w)
  <2>1. /\ sender' = Forgotten(w) /\ UNCHANGED <<link, hist>>
        /\ \/ Steps(w, "asking", To(w, "starting")) /\ UNCHANGED job
           \/ FailAndGo(w, "aborting")
    BY <1>12 DEF Answered, PreflightTimeout
  <2>2. sender' \in Senders
    BY <1>4, <2>1, RequestType
  <2> QED
    BY <1>0, <1>6, <1>7, <1>9, <2>1, <2>2
<1>13. CASE SendStart(w)
  BY <1>0, <1>6, <1>7, <1>9, <1>13, ToReceiverType DEF SendStart
<1>14. CASE SendChunk(w)
  <2>1. UNCHANGED <<sender, hist>> /\ worker[w].next < Chunks
    BY <1>14 DEF SendChunk
  <2>2. worker[w].next \in Positions /\ worker[w].next + 1 \in 0..Chunks
    BY <1>5, <2>1, LegacyAssumption DEF Workers, Positions
  <2>3. CASE Steps(w, "sending", To(w, "returned")) /\ UNCHANGED <<job, link>>
    BY <1>0, <1>6, <1>9, <2>1, <2>3
  <2>4. CASE /\ \E ok \in BOOLEAN :
                  ToReceiver([Msg("chunk", T(w)) EXCEPT !.index = worker[w].next, !.ok = ok])
             /\ Steps(w, "sending", [worker[w] EXCEPT !.next = worker[w].next + 1]) /\ UNCHANGED job
    <3>1. \A ok \in BOOLEAN :
            [Msg("chunk", T(w)) EXCEPT !.index = worker[w].next, !.ok = ok] \in Messages
      BY <1>6, <2>2 DEF Messages
    <3>2. /\ [worker[w] EXCEPT !.next = worker[w].next + 1] \in Workers
          /\ [worker[w] EXCEPT !.next = worker[w].next + 1].job = worker[w].job
      BY <1>5, <2>2 DEF Workers
    <3>3. Turns
      BY <1>8, <2>4, <3>2
    <3>4. link' \in Links
      BY <1>0, <2>4, <3>1, ToReceiverType
    <3> QED
      BY <1>0, <2>1, <2>4, <3>3, <3>4
  <2>5. CASE FailAndGo(w, "aborting") /\ UNCHANGED link
    BY <1>0, <1>6, <1>7, <2>1, <2>5
  <2> QED
    BY <1>14, <2>3, <2>4, <2>5 DEF SendChunk
<1>15. CASE Abort(w)
  BY <1>0, <1>6, <1>9, <1>15, ToReceiverType DEF Abort
<1>16. CASE FinishUnconfirmed(w)
  <2>1. /\ UNCHANGED <<sender, hist>>
        /\ \/ /\ \E s \in {"cancelled", "completed"} : job' = job \/ job' = Marked(job, J(w), s)
              /\ Steps(w, "sending", To(w, "returned"))
           \/ FailAndGo(w, "aborting")
        /\ UNCHANGED link \/ ToReceiver(Msg("complete", T(w)))
    BY <1>16 DEF FinishUnconfirmed
  <2>2. link' \in Links
    BY <1>0, <1>6, <2>1, ToReceiverType
  <2> QED
    BY <1>0, <1>6, <1>7, <1>9, <1>10, <2>1, <2>2
<1>17. CASE AwaitAck(w)
  <2>1. CASE job' = Marked(job, J(w), "cancelled") /\ Steps(w, "sending", To(w, "returned"))
             /\ UNCHANGED <<sender, link, hist>>
    BY <1>0, <1>6, <1>9, <1>10, <2>1
  <2>2. CASE /\ job' = Marked(job, J(w), "awaiting_ack")
             /\ sender' = [sender EXCEPT !.acks[T(w)] = w] /\ UNCHANGED <<link, hist>>
             /\ Steps(w, "sending", [To(w, "completing") EXCEPT !.ack = "none"])
    <3>1. To(w, "completing") \in Workers /\ To(w, "completing").job = worker[w].job
      BY <1>6, ToType
    <3>2. /\ [To(w, "completing") EXCEPT !.ack = "none"] \in Workers
          /\ [To(w, "completing") EXCEPT !.ack = "none"].job = worker[w].job
      BY <3>1 DEF Workers
    <3>3. sender' \in Senders
      BY <1>0, <1>5, <2>2 DEF Senders
    <3> QED
      BY <1>0, <1>6, <1>8, <1>10, <2>2, <3>2, <3>3
  <2> QED
    BY <1>17, <2>1, <2>2 DEF AwaitAck
<1>18. CASE SendComplete(w)
  <2>1. UNCHANGED <<sender, hist>>
    BY <1>18 DEF SendComplete
  <2>2. CASE Steps(w, "completing", To(w, "settling")) /\ UNCHANGED link
             /\ (UNCHANGED job \/ job' = Marked(job, J(w), "cancelled"))
    BY <1>0, <1>6, <1>9, <1>10, <2>1, <2>2
  <2>3. CASE /\ UNCHANGED link \/ ToReceiver(Msg("complete", T(w)))
             /\ Steps(w, "completing", [To(w, "waiting") EXCEPT !.sends = @ + 1]) /\ UNCHANGED job
    <3>1. To(w, "waiting") \in Workers /\ To(w, "waiting").job = worker[w].job
      BY <1>6, ToType
    <3>2. /\ [To(w, "waiting") EXCEPT !.sends = @ + 1] \in Workers
          /\ [To(w, "waiting") EXCEPT !.sends = @ + 1].job = worker[w].job
      BY <3>1 DEF Workers
    <3>3. link' \in Links
      BY <1>0, <1>6, <2>3, ToReceiverType
    <3> QED
      BY <1>0, <1>8, <2>1, <2>3, <3>2, <3>3
  <2> QED
    BY <1>18, <2>2, <2>3 DEF SendComplete
<1>19. CASE Waited(w)
  BY <1>0, <1>6, <1>9, <1>19 DEF Waited, books
<1>20. CASE Settle(w)
  <2>1. /\ Steps(w, "settling", To(w, "returned")) /\ UNCHANGED link
        /\ sender' = sender \/ sender' = [sender EXCEPT !.acks[T(w)] = None]
        /\ \/ job' = job \/ job' = Marked(job, J(w), "completed")
           \/ job' = Marked(job, J(w), "failed")
        /\ hist' = hist \/ hist' = [hist EXCEPT !.confirmed = hist.confirmed \cup {T(w)}]
    BY <1>20 DEF Settle
  <2>2. sender' \in Senders
    BY <1>0, <1>5, <2>1 DEF Senders
  <2>3. hist' \in Histories
    BY <1>0, <1>5, <2>1 DEF Histories
  <2> QED
    BY <1>0, <1>6, <1>9, <1>10, <2>1, <2>2, <2>3
<1> QED
  BY <1>11, <1>12, <1>13, <1>14, <1>15, <1>16, <1>17, <1>18, <1>19, <1>20

(* The message that is read.                                                 *)
LEMMA InboxType ==
  ASSUME link \in Links
  PROVE  /\ link.toSender # <<>> =>
              /\ Head(link.toSender) \in Messages
              /\ [link EXCEPT !.toSender = Tail(@)] \in Links
              /\ [link EXCEPT !.toSender = Tail(@)].toSender = Tail(link.toSender)
         /\ link.toReceiver # <<>> =>
              /\ Inbox \in Messages /\ Read \in Links /\ Read.toSender = link.toSender
BY Tailed DEF Links, Inbox, Read

(* What a step does to the numbers of the jobs when no transfer gets another. *)
LEMMA SameJobs ==
  ASSUME Types, JobNumbers, Later(job, job'), sender'.jobs = sender.jobs
  PROVE  JobNumbers'
<1> SUFFICES ASSUME NEW t \in Transfer, sender.jobs[t] # None
             PROVE  /\ TransferOf(sender.jobs[t]) = t
                    /\ sender.jobs[t][2] <= job'[sender.jobs[t]].retries + 1
  BY DEF JobNumbers
<1>1. sender.jobs[t] \in Job
  BY DEF Types, Senders
<1>2. /\ sender.jobs[t][2] \in Nat
      /\ job[sender.jobs[t]].retries \in Nat /\ job'[sender.jobs[t]].retries \in Nat
      /\ job[sender.jobs[t]].retries <= job'[sender.jobs[t]].retries
  BY <1>1, JobParts DEF Later, JobTable, JobStates, Types
<1> QED
  BY <1>2 DEF JobNumbers

(* Types: the messages the source reads, and the removal of the item.        *)
LEMMA SourceTypes ==
  ASSUME Types, Occupied, JobNumbers, SourceHandles \/ Forget
  PROVE  Types' /\ Occupied' /\ JobNumbers'
<1>0. /\ job \in JobTable /\ queue \in Queues /\ worker \in [Worker -> Workers]
      /\ sender \in Senders /\ receiver \in Receivers /\ link \in Links /\ hist \in Histories
      /\ Later(job, job)
  BY CancelledLater DEF Types, JobTable
<1>1. UNCHANGED <<receiver, hist>>
  BY DEF SourceHandles, OnRequest, OnAnswer, OnResume, SubmitResumed, OnAck, OnError, Ignores, Forget
<1>2. link' \in Links
  BY <1>0, InboxType
  DEF SourceHandles, OnRequest, OnAnswer, OnResume, SubmitResumed, OnAck, OnError, Ignores, Forget,
      Reads
<1>3. ASSUME job' \in JobTable, queue' \in Queues, sender' \in Senders,
             \/ UNCHANGED worker
             \/ \E w \in Worker : worker' = [worker EXCEPT ![w].ack = "complete"]
             \/ \E w \in Worker : worker' = [worker EXCEPT ![w].ack = "failed"]
      PROVE  Types' /\ Occupied'
  <2>1. ASSUME NEW w \in Worker, NEW a \in {"complete", "failed"},
               worker' = [worker EXCEPT ![w].ack = a]
        PROVE  /\ worker' \in [Worker -> Workers]
               /\ \A v \in Worker : worker'[v].at = worker[v].at /\ worker'[v].job = worker[v].job
    <3>1. /\ [worker[w] EXCEPT !.ack = a] \in Workers
          /\ [worker[w] EXCEPT !.ack = a].at = worker[w].at
          /\ [worker[w] EXCEPT !.ack = a].job = worker[w].job
      BY <1>0 DEF Workers
    <3>2. worker' = [worker EXCEPT ![w] = [worker[w] EXCEPT !.ack = a]]
      BY <2>1
    <3> QED
      BY <1>0, <3>1, <3>2
  <2>2. /\ worker' \in [Worker -> Workers]
        /\ \A v \in Worker : worker'[v].at = worker[v].at /\ worker'[v].job = worker[v].job
    BY <1>0, <1>3, <2>1
  <2> QED
    BY <1>0, <1>1, <1>2, <1>3, <2>2 DEF Types, Occupied, JobTable
<1>4. ASSUME Later(job, job'), sender'.jobs = sender.jobs
      PROVE  JobNumbers'
  BY <1>4, SameJobs
<1>5. CASE OnRequest
  <2> DEFINE t == Head(link.toSender).of
             j == <<t, 1>>
             status == IF CanSubmit(queue, t) THEN "pending" ELSE "failed"
             new == [NoJob EXCEPT !.status = status, !.final = Head(link.toSender).ok]
  <2>1. Head(link.toSender) \in Messages /\ t \in Transfer /\ Head(link.toSender).ok \in BOOLEAN
    BY <1>0, <1>5, InboxType DEF OnRequest, Reads, Messages
  <2>2. CASE ~sender.have
    BY <1>0, <1>3, <1>4, <1>5, <2>2 DEF OnRequest, Later
  <2>3. CASE sender.have
    <3>1. /\ job' = [job EXCEPT ![j] = new]
          /\ queue' = IF CanSubmit(queue, t) THEN Enqueued(queue, j) ELSE queue
          /\ sender' = [sender EXCEPT !.jobs[t] = j, !.latest = t] /\ UNCHANGED worker
      BY <1>5, <2>3 DEF OnRequest
    <3>2. j \in Job /\ j[2] = 1 /\ TransferOf(j) = t
      BY <2>1, LegacyAssumption DEF Job, TransferOf
    <3>3. new \in JobStates /\ new.retries = 0
      <4>1. status \in Statuses /\ 0 \in Positions
        BY LegacyAssumption DEF Statuses, Terminal, Positions
      <4> HIDE DEF status
      <4> QED
        BY <2>1, <4>1 DEF NoJob, JobStates
    <3> HIDE DEF t, j, new
    <3>4. job' \in JobTable /\ job'[j].retries = 0 /\ \A k \in Job : k # j => job'[k] = job[k]
      BY <1>0, <3>1, <3>2, <3>3 DEF JobTable
    <3>5. queue' \in Queues
      BY <1>0, <3>1, <3>2, EnqueuedType
    <3>6. sender' \in Senders /\ sender'.jobs = [sender.jobs EXCEPT ![t] = j]
      BY <1>0, <2>1, <3>1, <3>2 DEF Senders, t
    <3>7. JobNumbers'
      <4> SUFFICES ASSUME NEW u \in Transfer, sender'.jobs[u] # None
                   PROVE  /\ TransferOf(sender'.jobs[u]) = u
                          /\ sender'.jobs[u][2] <= job'[sender'.jobs[u]].retries + 1
        BY DEF JobNumbers
      <4>1. CASE u = t
        <5>1. sender'.jobs[u] = j
          BY <1>0, <3>6, <4>1 DEF Senders
        <5> QED
          BY <3>2, <3>4, <4>1, <5>1
      <4>2. CASE u # t
        <5>1. sender'.jobs[u] = sender.jobs[u] /\ sender.jobs[u] \in Job
          BY <1>0, <3>6, <4>2 DEF Senders
        <5>2. TransferOf(sender.jobs[u]) = u /\ sender.jobs[u] # j
          BY <3>2, <4>2, <5>1 DEF JobNumbers
        <5> QED
          BY <3>4, <5>1, <5>2 DEF JobNumbers
      <4> QED
        BY <4>1, <4>2
    <3> QED
      BY <1>3, <3>1, <3>4, <3>5, <3>6, <3>7
  <2> QED
    BY <2>2, <2>3
<1>6. CASE OnAnswer
  <2> DEFINE m == Head(link.toSender)
  <2>1. m \in Messages
    BY <1>0, <1>6, InboxType DEF OnAnswer, Reads
  <2>2. /\ UNCHANGED <<job, queue, worker>>
        /\ \/ sender' = sender
           \/ /\ m.request \in sender.asked
              /\ sender' = [sender EXCEPT !.answers = @ \cup {<<m.request, m.ok>>}]
    BY <1>6 DEF OnAnswer
  <2>3. m.request \in sender.asked => m.request \in Requests
    BY <1>0 DEF Senders
  <2>4. m.ok \in BOOLEAN
    BY <2>1 DEF Messages
  <2> HIDE DEF m
  <2>5. sender' \in Senders /\ sender'.jobs = sender.jobs
    BY <1>0, <2>2, <2>3, <2>4 DEF Senders
  <2> QED
    BY <1>0, <1>3, <1>4, <2>2, <2>5
<1>7. CASE OnResume
  <2> DEFINE t == Head(link.toSender).of
             old == sender.jobs[t]
             js == RetryMarked(job, old)
             new == <<t, old[2] + 1>>
             ks == Cancelled(js, queue, {t})
             state == [status |-> "pending", retries |-> js[old].retries,
                       from |-> Head(link.toSender).index, final |-> job[old].final]
  <2>1. Head(link.toSender) \in Messages /\ t \in Transfer /\ Head(link.toSender).index \in Positions
    BY <1>0, <1>7, InboxType DEF OnResume, Reads, Messages
  <2>2. old \in Job \cup {None}
    BY <1>0, <2>1 DEF Senders
  <2>3. CASE sender.latest # t \/ old = None
    BY <1>0, <1>3, <1>4, <1>7, <2>3 DEF OnResume
  <2>4. CASE ~(sender.latest # t \/ old = None)
    <3>1. old \in Job /\ TransferOf(old) = t /\ old[2] <= job[old].retries + 1
      BY <2>1, <2>2, <2>4 DEF JobNumbers
    <3>2. Later(job, js) /\ js \in JobTable /\ js[old].retries = job[old].retries + 1
      BY <1>0, <3>1, RetryMarkedLater DEF Later
    <3>3. CASE ~ShouldRetry(js, old)
      <4>1. job' = Marked(js, old, "failed") /\ UNCHANGED <<queue, sender, worker>>
        BY <1>7, <2>4, <3>3 DEF OnResume
      <4>2. "failed" \in Statuses
        BY DEF Statuses, Terminal
      <4>3. Later(js, job')
        BY <3>1, <3>2, <4>1, <4>2, MarkedLater
      <4>4. Later(job, job')
        BY <1>0, <3>2, <4>3, LaterStill
      <4> QED
        BY <1>0, <1>3, <1>4, <4>1, <4>4 DEF Later
    <3>4. Later(js, ks) /\ ks \in JobTable /\ Later(job, ks)
      BY <1>0, <3>2, CancelledLater, LaterStill DEF Later
    <3>5. Dropped(queue, {t}) \in Queues
      BY <1>0, DroppedType
    <3>6. CASE ShouldRetry(js, old) /\ ~sender.have
      <4>1. job' = ks /\ queue' = Dropped(queue, {t}) /\ UNCHANGED <<sender, worker>>
        BY <1>7, <2>4, <3>6 DEF OnResume
      <4> QED
        BY <1>0, <1>3, <1>4, <3>4, <3>5, <4>1
    <3>7. CASE ShouldRetry(js, old) /\ sender.have
      <4>1. /\ job' = [ks EXCEPT ![new] = state] /\ queue' = Dropped(queue, {t})
            /\ sender' = [sender EXCEPT !.jobs[t] = new, !.resuming = new] /\ UNCHANGED worker
        BY <1>7, <2>4, <3>7 DEF OnResume
      <4>2. /\ js[old].retries \in Nat /\ job[old].retries \in Nat /\ job[old].final \in BOOLEAN
            /\ old[2] \in 1..MaxRetries /\ MaxRetries \in Nat
        BY <1>0, <3>1, <3>2, JobParts DEF JobTable, JobStates
      <4>3. js[old].retries < MaxRetries
        BY <3>7 DEF ShouldRetry, MayRetry
      <4>4. new \in Job /\ new[2] = old[2] + 1 /\ TransferOf(new) = t /\ new[2] <= js[old].retries + 1
        <5>1. old[2] <= js[old].retries
          BY <3>1, <3>2
        <5> HIDE DEF js, old
        <5>2. old[2] + 1 \in 1..MaxRetries /\ old[2] + 1 <= js[old].retries + 1
          BY <4>2, <4>3, <5>1
        <5> QED
          BY <2>1, <5>2 DEF Job, TransferOf
      <4>5. state \in JobStates /\ state.retries = js[old].retries
        BY <2>1, <4>2 DEF JobStates, Statuses
      <4> HIDE DEF t, old, js, new, ks, state
      <4>6. job' \in JobTable /\ job'[new] = state /\ \A k \in Job : k # new => job'[k] = ks[k]
        BY <3>4, <4>1, <4>4, <4>5 DEF JobTable
      <4>7. sender' \in Senders /\ sender'.jobs = [sender.jobs EXCEPT ![t] = new]
        BY <1>0, <2>1, <4>1, <4>4 DEF Senders
      <4>8. JobNumbers'
        <5> SUFFICES ASSUME NEW u \in Transfer, sender'.jobs[u] # None
                     PROVE  /\ TransferOf(sender'.jobs[u]) = u
                            /\ sender'.jobs[u][2] <= job'[sender'.jobs[u]].retries + 1
          BY DEF JobNumbers
        <5>1. CASE u = t
          <6>1. sender'.jobs[u] = new
            BY <1>0, <4>7, <5>1 DEF Senders
          <6> QED
            BY <4>4, <4>5, <4>6, <5>1, <6>1
        <5>2. CASE u # t
          <6>1. sender'.jobs[u] = sender.jobs[u] /\ sender.jobs[u] \in Job /\ sender.jobs[u] # None
            BY <1>0, <4>7, <5>2, LegacyAssumption DEF Senders
          <6>2. TransferOf(sender.jobs[u]) = u /\ sender.jobs[u] # new
            BY <4>4, <5>2, <6>1 DEF JobNumbers
          <6>3. /\ job'[sender.jobs[u]].retries \in Nat /\ job[sender.jobs[u]].retries \in Nat
                /\ job[sender.jobs[u]].retries <= job'[sender.jobs[u]].retries
                /\ sender.jobs[u][2] \in Nat
                /\ sender.jobs[u][2] <= job[sender.jobs[u]].retries + 1
            BY <1>0, <3>4, <4>6, <6>1, <6>2, JobParts DEF Later, JobTable, JobStates, JobNumbers
          <6> QED
            BY <6>1, <6>2, <6>3
        <5> QED
          BY <5>1, <5>2
      <4> QED
        BY <1>3, <3>5, <4>1, <4>6, <4>7, <4>8
    <3> QED
      BY <3>3, <3>6, <3>7
  <2> QED
    BY <2>3, <2>4
<1>8. CASE SubmitResumed
  <2> DEFINE j == sender.resuming
  <2>1. j \in Job
    BY <1>0, <1>8 DEF SubmitResumed, Senders
  <2>2. /\ \/ queue' = Enqueued(queue, j) /\ UNCHANGED job
           \/ job' = Marked(job, j, "failed") /\ UNCHANGED queue
        /\ sender' = [sender EXCEPT !.resuming = None] /\ UNCHANGED worker
    BY <1>8 DEF SubmitResumed
  <2> HIDE DEF j
  <2>3. "failed" \in Statuses
    BY DEF Statuses, Terminal
  <2>4. queue' \in Queues /\ Later(job, job')
    BY <1>0, <2>1, <2>2, <2>3, EnqueuedType, MarkedLater
  <2>5. sender' \in Senders /\ sender'.jobs = sender.jobs
    BY <1>0, <2>2 DEF Senders
  <2> QED
    BY <1>3, <1>4, <2>2, <2>4, <2>5 DEF Later
<1>9. CASE OnAck
  <2>1. Head(link.toSender) \in Messages
    BY <1>0, <1>9, InboxType DEF OnAck, Reads
  <2>2. sender.acks[Head(link.toSender).of] \in Worker \cup {None}
    BY <1>0, <2>1 DEF Senders, Messages
  <2> QED
    BY <1>0, <1>3, <1>4, <1>9, <2>2 DEF OnAck
<1>10. CASE OnError
  <2> DEFINE t == Head(link.toSender).of
  <2>1. Head(link.toSender) \in Messages /\ t \in Transfer
    BY <1>0, <1>10, InboxType DEF OnError, Reads, Messages
  <2>2. sender.acks[t] \in Worker \cup {None} /\ sender.jobs[t] \in Job \cup {None}
    BY <1>0, <2>1 DEF Senders
  <2>3. "failed" \in Statuses
    BY DEF Statuses, Terminal
  <2>4. Later(job, job')
    BY <1>0, <1>10, <2>2, <2>3, MarkedLater DEF OnError
  <2>5. UNCHANGED worker \/ \E w \in Worker : worker' = [worker EXCEPT ![w].ack = "failed"]
    BY <1>10, <2>2 DEF OnError
  <2> QED
    BY <1>0, <1>3, <1>4, <1>10, <2>4, <2>5 DEF OnError, Later
<1>11. CASE Ignores
  BY <1>0, <1>3, <1>4, <1>11 DEF Ignores
<1>12. CASE Forget
  <2> DEFINE ts == {t \in Transfer : sender.jobs[t] # None}
             none == [t \in Transfer |-> None]
  <2>1. /\ job' = Cancelled(job, queue, ts) /\ queue' = Dropped(queue, ts) /\ UNCHANGED worker
        /\ sender' = [sender EXCEPT !.have = FALSE, !.latest = None, !.jobs = none]
    BY <1>12 DEF Forget
  <2>2. none \in [Transfer -> Job \cup {None}] /\ \A t \in Transfer : none[t] = None
    OBVIOUS
  <2> HIDE DEF ts, none
  <2>3. job' \in JobTable /\ queue' \in Queues
    BY <1>0, <2>1, CancelledLater, DroppedType DEF Later
  <2>4. sender' \in Senders /\ sender'.jobs = none
    BY <1>0, <2>1, <2>2 DEF Senders
  <2> QED
    BY <1>3, <2>1, <2>2, <2>3, <2>4 DEF JobNumbers
<1> QED
  BY <1>5, <1>6, <1>7, <1>8, <1>9, <1>10, <1>11, <1>12 DEF SourceHandles

(* A set of numbers that is not empty has a smallest one.                    *)
LEMMA Smallest ==
  ASSUME NEW S \in SUBSET Nat, S # {}
  PROVE  \E m \in S : \A k \in S : m <= k
<1> DEFINE R == OpToRel(<, Nat)
<1>1. \A x, y \in Nat : x < y => <<x, y>> \in R
  BY DEF OpToRel
<1>2. IsWellFoundedOn(R, Nat)
  BY NatLessThanWellFounded
<1> HIDE DEF R
<1>3. PICK m \in S : \A k \in S : ~ (<<k, m>> \in R)
  BY <1>2, WFMin
<1>4. ASSUME NEW k \in S
      PROVE  m <= k
  <2>1. k \in Nat /\ m \in Nat
    OBVIOUS
  <2>2. ~(k < m)
    BY <1>1, <1>3, <2>1
  <2> QED
    BY <2>1, <2>2
<1> QED
  BY <1>4

(* The next chunk an assembler asks for is one of the item's.                *)
LEMMA NextIndexType ==
  ASSUME NEW e \in Entries, NEW i \in Positions, i \notin e.have
  PROVE  NextIndex(e) \in Positions
<1> DEFINE missing == {k \in 0..Chunks : k \notin e.have}
<1>1. missing \in SUBSET Nat /\ i \in missing /\ Chunks \in Nat
  BY LegacyAssumption DEF Positions
<1>2. PICK m \in missing : \A k \in missing : m <= k
  <2> HIDE DEF missing
  <2> QED
    BY <1>1, Smallest
<1>3. m \in 0..Chunks /\ m \notin e.have /\ \A k \in 0..m - 1 : k \in e.have
  BY <1>1, <1>2
<1>4. m <= i /\ i < Chunks
  BY <1>1, <1>2 DEF Positions
<1>5. /\ NextIndex(e) \in 0..Chunks /\ NextIndex(e) \notin e.have
      /\ \A k \in 0..NextIndex(e) - 1 : k \in e.have
  BY <1>3 DEF NextIndex
<1>6. NextIndex(e) <= m
  BY <1>1, <1>3, <1>5
<1> QED
  BY <1>1, <1>3, <1>4, <1>5, <1>6 DEF Positions

NoEntryTyped == NoEntry \in Entries /\ ~NoEntry.open

(* The receiver without an open entry.                                       *)
LEMMA NoEntryType == NoEntryTyped
BY DEF NoEntryTyped, NoEntry, Entries

(* Types: the receiver and the rest of the world.                            *)
LEMMA ReceiverTypes ==
  ASSUME Types, Occupied,
         ReceiverHandles \/ Deletes \/ Drop \/ Redial \/ Restart \/ \E t \in Transfer : RequestItem(t)
  PROVE  Types' /\ Occupied' /\ UNCHANGED theirs
<1>0. /\ job \in JobTable /\ queue \in Queues /\ worker \in [Worker -> Workers]
      /\ sender \in Senders /\ receiver \in Receivers /\ link \in Links /\ hist \in Histories
  BY DEF Types, JobTable
<1>1. UNCHANGED theirs
  BY DEF ReceiverHandles, OnPreflight, OnStart, Open, OnChunk, OnComplete, Commit, Acknowledge,
         OnSenderError, Deletes, MarkDeleted, RemoveTransfers, DeleteFromStore, Drop, Redial,
         Restart, RequestItem, theirs
<1>2. SUFFICES /\ receiver' \in Receivers /\ link' \in Links /\ hist' \in Histories
               /\ receiver'.at # "idle" => receiver'.transfer # None
  BY <1>0, <1>1 DEF Types, Occupied, JobTable, theirs
<1>3. receiver.at # "idle" => receiver.transfer \in Transfer
  BY <1>0 DEF Occupied, Receivers
<1>4. /\ receiver.at # "idle" => receiver.transfer # None
      /\ \A t \in Transfer : t # None /\ Entry(t) \in Entries
  BY <1>0, LegacyAssumption DEF Occupied, Receivers, Entry
<1>5. CASE OnPreflight
  <2>1. PICK ok \in BOOLEAN :
          link' = Reply(Read, [Msg("answer", Inbox.of) EXCEPT !.request = Inbox.request, !.ok = ok])
    BY <1>5 DEF OnPreflight
  <2>2. Inbox \in Messages /\ Read \in Links
    BY <1>0, <1>5, InboxType DEF OnPreflight, Handles
  <2>3. Inbox.of \in Transfer /\ Inbox.request \in Requests \cup {None}
    BY <2>2 DEF Messages
  <2>4. Msg("answer", Inbox.of) \in Messages
    BY <2>3, MsgType
  <2>5. [Msg("answer", Inbox.of) EXCEPT !.request = Inbox.request, !.ok = ok] \in Messages
    BY <2>3, <2>4 DEF Messages
  <2> QED
    BY <1>0, <1>4, <1>5, <2>1, <2>2, <2>5, ReplyType DEF OnPreflight
<1>6. CASE OnStart
  <2>1. Inbox \in Messages /\ link' \in Links
    BY <1>0, <1>6, InboxType DEF OnStart, Handles
  <2>2. Inbox.of \in Transfer
    BY <2>1 DEF Messages
  <2>3. receiver' \in Receivers /\ receiver'.transfer = Inbox.of
    BY <1>0, <1>6, <2>2 DEF OnStart, Receivers
  <2>4. hist' \in Histories
    BY <1>0, <1>6 DEF OnStart, Histories
  <2> QED
    BY <1>4, <2>1, <2>2, <2>3, <2>4
<1>7. CASE Open
  <2> DEFINE t == receiver.transfer
             done == [receiver EXCEPT !.at = "idle", !.transfer = None]
  <2>1. t \in Transfer /\ Msg("error", t) \in Messages
    BY <1>3, <1>7, MsgType DEF Open
  <2>2. done \in Receivers /\ done.at = "idle"
    BY <1>0 DEF Receivers
  <2>3. /\ \/ receiver' = done
           \/ receiver' = [done EXCEPT !.entry[t] = [NoEntry EXCEPT !.open = TRUE],
                                       !.known = @ \cup {t}]
        /\ link' = link \/ link' = Reply(link, Msg("error", t))
        /\ UNCHANGED hist
    BY <1>7 DEF Open
  <2>4. [NoEntry EXCEPT !.open = TRUE] \in Entries
    BY NoEntryType DEF NoEntryTyped, Entries
  <2>5. link' \in Links
    BY <1>0, <2>1, <2>3, ReplyType
  <2> HIDE DEF t, done
  <2>6. receiver' \in Receivers /\ receiver'.at = "idle"
    <3>1. /\ [done.entry EXCEPT ![t] = [NoEntry EXCEPT !.open = TRUE]] \in [Transfer -> Entries]
          /\ done.known \cup {t} \in SUBSET Transfer
      BY <2>1, <2>2, <2>4 DEF Receivers
    <3>2. \/ receiver' = done
          \/ receiver' = [done EXCEPT !.entry = [done.entry EXCEPT ![t] = [NoEntry EXCEPT !.open = TRUE]],
                                      !.known = done.known \cup {t}]
      BY <2>3
    <3> QED
      BY <2>2, <3>1, <3>2 DEF Receivers
  <2> QED
    BY <1>0, <2>3, <2>5, <2>6
<1>8. CASE OnChunk
  <2> DEFINE t == Inbox.of
             e == Entry(t)
             answer == IF MayRetry(e.retries + 1)
                       THEN [Msg("resume", t) EXCEPT !.index = NextIndex(e)] ELSE Msg("error", t)
  <2>1. Inbox \in Messages /\ Read \in Links
    BY <1>0, <1>8, InboxType DEF OnChunk, Handles
  <2>2. /\ t \in Transfer /\ Inbox.index \in Positions /\ e \in Entries
        /\ Msg("resume", t) \in Messages /\ Msg("error", t) \in Messages
    BY <1>4, <2>1, MsgType DEF Messages
  <2>3. CASE UNCHANGED receiver /\ link' = Read
    BY <1>0, <1>4, <1>8, <2>1, <2>3 DEF OnChunk
  <2>4. CASE /\ receiver' = [receiver EXCEPT !.entry[t].have = @ \cup {Inbox.index}]
             /\ link' = Read
    <3>1. [e EXCEPT !.have = @ \cup {Inbox.index}] \in Entries
      BY <2>2 DEF Entries
    <3>2. receiver' = [receiver EXCEPT !.entry[t] = [e EXCEPT !.have = @ \cup {Inbox.index}]]
      BY <2>4 DEF Entry
    <3>3. receiver' \in Receivers /\ receiver'.at = receiver.at /\ receiver'.transfer = receiver.transfer
      BY <1>0, <2>2, <3>1, <3>2 DEF Receivers
    <3> QED
      BY <1>0, <1>4, <1>8, <2>1, <2>4, <3>3 DEF OnChunk
  <2>5. CASE /\ receiver' = [receiver EXCEPT !.entry[t].retries = @ + 1,
                                             !.entry[t].dead = @ \/ ~MayRetry(e.retries + 1)]
             /\ Inbox.index \notin e.have /\ link' = Reply(Read, answer)
    <3> DEFINE more == [e EXCEPT !.retries = @ + 1, !.dead = @ \/ ~MayRetry(e.retries + 1)]
    <3>1. more \in Entries
      <4>1. (e.dead \/ ~MayRetry(e.retries + 1)) \in BOOLEAN /\ e.retries + 1 \in Nat
        BY <2>2 DEF Entries
      <4>2. \A b \in BOOLEAN, n \in Nat : [e EXCEPT !.retries = n, !.dead = b] \in Entries
        BY <2>2 DEF Entries
      <4> QED
        BY <4>1, <4>2
    <3>2. receiver' = [receiver EXCEPT !.entry[t] = more]
      <4>1. receiver.entry \in [Transfer -> Entries] /\ receiver.entry[t] = e
        BY <1>0 DEF Receivers, Entry
      <4>2. [receiver.entry EXCEPT ![t].retries = @ + 1, ![t].dead = @ \/ ~MayRetry(e.retries + 1)]
              = [receiver.entry EXCEPT ![t] = more]
        BY <2>2, <4>1 DEF Entries
      <4> QED
        BY <1>0, <2>5, <4>2 DEF Receivers
    <3> HIDE DEF more
    <3>3. receiver' \in Receivers /\ receiver'.at = receiver.at /\ receiver'.transfer = receiver.transfer
      BY <1>0, <2>2, <3>1, <3>2 DEF Receivers
    <3>4. NextIndex(e) \in Positions
      BY <2>2, <2>5, NextIndexType
    <3>5. [Msg("resume", t) EXCEPT !.index = NextIndex(e)] \in Messages
      BY <2>2, <3>4 DEF Messages
    <3>6. answer \in Messages
      BY <2>2, <3>5
    <3> QED
      BY <1>0, <1>4, <1>8, <2>1, <2>5, <3>3, <3>6, ReplyType DEF OnChunk
  <2> QED
    BY <1>8, <2>3, <2>4, <2>5 DEF OnChunk
<1>9. CASE OnComplete
  <2> DEFINE t == Inbox.of
  <2>1. Inbox \in Messages /\ Read \in Links
    BY <1>0, <1>9, InboxType DEF OnComplete, Handles
  <2>2. t \in Transfer /\ Msg("ack", t) \in Messages /\ Entry(t) \in Entries
    BY <1>4, <2>1, MsgType DEF Messages
  <2>3. link' \in Links
    BY <1>9, <2>1, <2>2, ReplyType DEF OnComplete
  <2>4. CASE UNCHANGED receiver
    BY <1>0, <1>4, <1>9, <2>3, <2>4 DEF OnComplete
  <2>5. CASE receiver' = [receiver EXCEPT !.entry[t].finalizing = TRUE, !.at = "finalizing", !.transfer = t]
    <3>1. [Entry(t) EXCEPT !.finalizing = TRUE] \in Entries
      BY <2>2 DEF Entries
    <3>2. receiver' = [receiver EXCEPT !.entry[t] = [Entry(t) EXCEPT !.finalizing = TRUE],
                                       !.at = "finalizing", !.transfer = t]
      BY <2>5 DEF Entry
    <3>3. receiver' \in Receivers /\ receiver'.transfer = t
      BY <1>0, <2>2, <3>1, <3>2 DEF Receivers
    <3> QED
      BY <1>0, <1>4, <1>9, <2>2, <2>3, <3>3 DEF OnComplete
  <2> QED
    BY <1>9, <2>4, <2>5 DEF OnComplete
<1>10. CASE Commit
  <2> DEFINE t == receiver.transfer
             closed == [receiver EXCEPT !.entry[t] = NoEntry, !.at = "idle", !.transfer = None]
  <2>1. t \in Transfer /\ Msg("error", t) \in Messages
    BY <1>3, <1>10, MsgType DEF Commit
  <2>2. closed \in Receivers /\ closed.at = "idle"
    BY <1>0, <2>1, NoEntryType DEF NoEntryTyped, Receivers
  <2>3. /\ \/ receiver' = closed /\ UNCHANGED hist
           \/ /\ receiver' = [closed EXCEPT !.stored = TRUE, !.receipts = @ \cup {t},
                                            !.at = "acking", !.transfer = t]
              /\ hist' = [hist EXCEPT !.stored = @ \cup {t}]
        /\ link' = link \/ link' = Reply(link, Msg("error", t))
    BY <1>10 DEF Commit
  <2>4. link' \in Links
    BY <1>0, <2>1, <2>3, ReplyType
  <2> HIDE DEF t, closed
  <2>5. hist' \in Histories
    BY <1>0, <2>1, <2>3 DEF Histories
  <2>6. receiver' \in Receivers /\ (receiver'.at = "idle" \/ receiver'.transfer = t)
    <3>1. closed.receipts \cup {t} \in SUBSET Transfer
      BY <2>1, <2>2 DEF Receivers
    <3>2. \/ receiver' = closed
          \/ receiver' = [closed EXCEPT !.stored = TRUE, !.receipts = closed.receipts \cup {t},
                                        !.at = "acking", !.transfer = t]
      BY <2>3
    <3> QED
      BY <2>1, <2>2, <3>1, <3>2 DEF Receivers
  <2> QED
    BY <1>4, <2>1, <2>4, <2>5, <2>6
<1>11. CASE Acknowledge
  <2>1. Msg("ack", receiver.transfer) \in Messages
    BY <1>3, <1>11, MsgType DEF Acknowledge
  <2>2. receiver' \in Receivers /\ receiver'.at = "idle"
    BY <1>0, <1>11 DEF Acknowledge, Receivers
  <2> QED
    BY <1>0, <1>11, <2>1, <2>2, ReplyType DEF Acknowledge
<1>12. CASE OnSenderError
  <2>1. Inbox \in Messages /\ link' \in Links
    BY <1>0, <1>12, InboxType DEF OnSenderError, Handles
  <2>2. receiver' = receiver \/ receiver' = [receiver EXCEPT !.entry[Inbox.of] = NoEntry]
    BY <1>12 DEF OnSenderError
  <2>3. receiver' \in Receivers /\ receiver'.at = receiver.at /\ receiver'.transfer = receiver.transfer
    BY <1>0, <2>2, NoEntryType DEF NoEntryTyped, Receivers
  <2> QED
    BY <1>0, <1>4, <1>12, <2>1, <2>3 DEF OnSenderError
<1>13. CASE MarkDeleted
  <2>1. /\ receiver' \in Receivers /\ receiver'.at = receiver.at
        /\ receiver'.transfer = receiver.transfer
    BY <1>0, <1>13 DEF MarkDeleted, Receivers
  <2> QED
    BY <1>0, <1>4, <1>13, <2>1 DEF MarkDeleted
<1>14. CASE RemoveTransfers
  <2> DEFINE entries == [t \in Transfer |->
               IF t \notin receiver.known \/ ~receiver.entry[t].open THEN receiver.entry[t]
               ELSE IF receiver.entry[t].finalizing THEN [receiver.entry[t] EXCEPT !.cancelled = TRUE]
               ELSE NoEntry]
  <2>1. receiver' = [receiver EXCEPT !.deleting = "store", !.known = {}, !.entry = entries]
    BY <1>14 DEF RemoveTransfers
  <2>2. \A t \in Transfer : [receiver.entry[t] EXCEPT !.cancelled = TRUE] \in Entries
    BY <1>4 DEF Entry, Entries
  <2>3. entries \in [Transfer -> Entries]
    BY <1>4, <2>2, NoEntryType DEF NoEntryTyped, Entry
  <2> HIDE DEF entries
  <2>4. /\ receiver' \in Receivers /\ receiver'.at = receiver.at
        /\ receiver'.transfer = receiver.transfer
    BY <1>0, <2>1, <2>3 DEF Receivers
  <2> QED
    BY <1>0, <1>4, <1>14, <2>4 DEF RemoveTransfers
<1>15. CASE DeleteFromStore
  <2>1. /\ receiver' \in Receivers /\ receiver'.at = receiver.at
        /\ receiver'.transfer = receiver.transfer
    BY <1>0, <1>15 DEF DeleteFromStore, Receivers
  <2>2. hist' \in Histories
    BY <1>0, <1>15 DEF DeleteFromStore, Histories, Receivers
  <2> QED
    BY <1>0, <1>4, <1>15, <2>1, <2>2 DEF DeleteFromStore
<1>16. CASE Drop
  <2>1. PICK r \in 0..Len(link.toReceiver), s \in 0..Len(link.toSender) :
          link' = [up |-> FALSE, toReceiver |-> SubSeq(link.toReceiver, 1, r),
                   toSender |-> SubSeq(link.toSender, 1, s)]
    BY <1>16 DEF Drop
  <2>2. /\ SubSeq(link.toReceiver, 1, r) \in Seq(Messages)
        /\ SubSeq(link.toSender, 1, s) \in Seq(Messages)
    BY <1>0, CutOff DEF Links
  <2>3. link' \in Links
    BY <2>1, <2>2 DEF Links
  <2> QED
    BY <1>0, <1>4, <1>16, <2>3 DEF Drop
<1>17. CASE Redial
  <2>1. link' \in Links
    BY <1>0, <1>17 DEF Redial, Links
  <2> QED
    BY <1>0, <1>4, <1>17, <2>1 DEF Redial
<1>18. CASE Restart
  <2> DEFINE none == [t \in Transfer |-> NoEntry]
  <2>1. none \in [Transfer -> Entries]
    BY NoEntryType DEF NoEntryTyped
  <2>2. receiver' = [receiver EXCEPT !.tombstone = FALSE, !.entry = none, !.known = {},
                                     !.at = "idle", !.transfer = None, !.deleting = "no"]
    BY <1>18 DEF Restart
  <2> HIDE DEF none
  <2>3. receiver' \in Receivers /\ receiver'.at = "idle"
    BY <1>0, <2>1, <2>2 DEF Receivers
  <2>4. link' \in Links
    BY <1>18, EmptySeq DEF Restart, Links
  <2> QED
    BY <1>0, <1>18, <2>3, <2>4 DEF Restart
<1>19. ASSUME NEW t \in Transfer, RequestItem(t)
       PROVE  /\ receiver' \in Receivers /\ link' \in Links /\ hist' \in Histories
              /\ receiver'.at # "idle" => receiver'.transfer # None
  <2>1. PICK final \in BOOLEAN :
          link' = [link EXCEPT !.toSender = Append(@, [Msg("request", t) EXCEPT !.ok = final])]
    BY <1>19 DEF RequestItem
  <2>2. Msg("request", t) \in Messages
    BY MsgType
  <2>3. [Msg("request", t) EXCEPT !.ok = final] \in Messages
    BY <2>2 DEF Messages
  <2>4. Append(link.toSender, [Msg("request", t) EXCEPT !.ok = final]) \in Seq(Messages)
    BY <1>0, <2>3, Appended DEF Links
  <2>5. link' \in Links
    BY <1>0, <2>1, <2>4 DEF Links
  <2> QED
    BY <1>0, <1>4, <1>19, <2>5 DEF RequestItem
<1> QED
  BY <1>5, <1>6, <1>7, <1>8, <1>9, <1>10, <1>11, <1>12, <1>13, <1>14, <1>15, <1>16, <1>17, <1>18,
     <1>19 DEF ReceiverHandles, Deletes

----------------------------------------------------------------------------
(* Ids that are taken                                                        *)

(* A worker that leaves _worker keeps its place and its job until it is out. *)
LEMMA LeavingStays ==
  ASSUME Types, Next, NEW v \in Worker, worker[v].at = "leaving", ~Leave(v)
  PROVE  worker'[v].at = "leaving" /\ T(v)' = T(v)
<1>0. worker \in [Worker -> Workers]
  BY DEF Types
<1>1. CASE UNCHANGED worker
  BY <1>1 DEF T
<1>2. ASSUME NEW w \in Worker, NEW f, worker' = [worker EXCEPT ![w] = f],
             worker[w].at # "leaving" \/ w # v
      PROVE  worker'[v].at = "leaving" /\ T(v)' = T(v)
  BY <1>0, <1>2 DEF T
<1>3. ASSUME NEW w \in Worker, NEW x, worker' = [worker EXCEPT ![w].at = x],
             worker[w].at # "leaving" \/ w # v
      PROVE  worker'[v].at = "leaving" /\ T(v)' = T(v)
  BY <1>0, <1>3 DEF T
<1>4. ASSUME NEW w, NEW x, worker' = [worker EXCEPT ![w].ack = x]
      PROVE  worker'[v].at = "leaving" /\ T(v)' = T(v)
  <2>1. worker[v] \in Workers /\ [worker[v] EXCEPT !.ack = x].at = worker[v].at
        /\ [worker[v] EXCEPT !.ack = x].job = worker[v].job
    BY <1>0 DEF Workers
  <2>2. worker'[v] \in {worker[v], [worker[v] EXCEPT !.ack = x]}
    BY <1>0, <1>4
  <2> QED
    BY <2>1, <2>2 DEF T
<1>5. CASE CloseManager
  <2>1. worker'[v] \in {worker[v], [worker[v] EXCEPT !.ack = "cancelled"]}
    BY <1>5 DEF CloseManager
  <2> QED
    BY <1>0, <2>1 DEF T, Workers
<1>6. ASSUME NEW w \in Worker,
             \/ Take(w) \/ Admit(w) \/ CheckStatus(w) \/ MarkRunning(w) \/ Returned(w) \/ Raised(w)
             \/ MarkRetry(w) \/ ScheduleRetry(w) \/ ArmTimer(w) \/ Leave(w) \/ Exit(w)
      PROVE  worker'[v].at = "leaving" /\ T(v)' = T(v)
  BY <1>2, <1>3, <1>6
  DEF Take, Admit, CheckStatus, MarkRunning, Returned, Raised, MarkRetry, ScheduleRetry, ArmTimer,
      Leave, Exit, Goes
<1>7. ASSUME NEW w \in Worker,
             \/ Begin(w) \/ Answered(w) \/ PreflightTimeout(w) \/ SendStart(w) \/ SendChunk(w)
             \/ Abort(w) \/ FinishUnconfirmed(w) \/ AwaitAck(w) \/ SendComplete(w) \/ Waited(w)
             \/ Settle(w)
      PROVE  worker'[v].at = "leaving" /\ T(v)' = T(v)
  BY <1>2, <1>7
  DEF Begin, Answered, PreflightTimeout, SendStart, SendChunk, Abort, FinishUnconfirmed, AwaitAck,
      SendComplete, Waited, Settle, Sent, Steps, FailAndGo
<1>8. CASE SourceHandles
  BY <1>1, <1>4, <1>8
  DEF SourceHandles, OnRequest, OnAnswer, OnResume, SubmitResumed, OnAck, OnError, Ignores
<1>9. CASE \/ \E j \in Job : Timers(j)
           \/ ReceiverHandles \/ Deletes \/ StopQueue \/ Drain \/ Environment
  BY <1>1, <1>9
  DEF Timers, TimerFires, Requeue, ReceiverHandles, OnPreflight, OnStart, Open, OnChunk, OnComplete,
      Commit, Acknowledge, OnSenderError, Deletes, MarkDeleted, RemoveTransfers, DeleteFromStore,
      StopQueue, Drain, Environment, Drop, Redial, Restart, Forget, RequestItem, theirs, others
<1> QED
  BY <1>5, <1>6, <1>7, <1>8, <1>9 DEF Next, Works, Stops

(* A job enters the books.                                                   *)
LEMMA EnqueuedBooks ==
  ASSUME NEW q \in Queues, NEW j \in Job
  PROVE  /\ Enqueued(q, j).queued = q.queued \cup {TransferOf(j)}
         /\ Enqueued(q, j).active = q.active /\ Enqueued(q, j).pending = q.pending
         /\ Enqueued(q, j).stop = q.stop
         /\ \A t \in Transfer : t # TransferOf(j) =>
              Enqueued(q, j).registered[t] = q.registered[t]
BY JobParts DEF Enqueued, Queues

(* Transfers are cancelled: their ids are given back unless they still wait  *)
(* or are at work.                                                            *)
LEMMA DroppedBooks ==
  ASSUME NEW q \in Queues, NEW ts
  PROVE  /\ Dropped(q, ts).queued = q.queued /\ Dropped(q, ts).active = q.active
         /\ Dropped(q, ts).pending = q.pending \ ts /\ Dropped(q, ts).stop = q.stop
         /\ \A t \in Transfer : Dropped(q, ts).registered[t] # None =>
              /\ q.registered[t] # None
              /\ t \in ts => t \in q.queued \cup q.active
BY DEF Dropped, Queues

(* Types, places and job numbers are kept by every step.                     *)
LEMMA PartsStay ==
  ASSUME Held, Next
  PROVE  Types' /\ Occupied' /\ JobNumbers'
<1>0. Types /\ Occupied /\ JobNumbers
  BY DEF Held
<1>1. job \in JobTable /\ sender \in Senders
  BY <1>0 DEF Types, JobTable
<1>2. ASSUME NEW w \in Worker,
             \/ Take(w) \/ Admit(w) \/ CheckStatus(w) \/ MarkRunning(w) \/ Returned(w) \/ Raised(w)
             \/ MarkRetry(w) \/ ScheduleRetry(w) \/ ArmTimer(w) \/ Leave(w) \/ Exit(w)
      PROVE  Types' /\ Occupied' /\ JobNumbers'
  <2>1. Types' /\ Occupied' /\ Later(job, job')
    BY <1>0, <1>2, QueueWorkTypes
  <2>2. UNCHANGED sender
    BY <1>2 DEF Take, Admit, CheckStatus, MarkRunning, Returned, Raised, MarkRetry, ScheduleRetry,
                ArmTimer, Leave, Exit, others
  <2> QED
    BY <1>0, <2>1, <2>2, SameJobs
<1>3. ASSUME NEW w \in Worker,
             \/ Begin(w) \/ Answered(w) \/ PreflightTimeout(w) \/ SendStart(w) \/ SendChunk(w)
             \/ Abort(w) \/ FinishUnconfirmed(w) \/ AwaitAck(w) \/ SendComplete(w) \/ Waited(w)
             \/ Settle(w)
      PROVE  Types' /\ Occupied' /\ JobNumbers'
  <2>1. Types' /\ Occupied' /\ Later(job, job')
    BY <1>0, <1>3, SendingTypes
  <2>2. sender'.jobs = sender.jobs
    <3>1. \/ UNCHANGED sender
          \/ \E x : sender' = [sender EXCEPT !.asked = x]
          \/ sender' = Forgotten(w)
          \/ \E a : sender' = [sender EXCEPT !.acks = a]
      <4>1. \A x, y : [sender EXCEPT !.acks[x] = y] = [sender EXCEPT !.acks = [@ EXCEPT ![x] = y]]
        OBVIOUS
      <4> QED
        BY <1>3, <4>1
        DEF Begin, Answered, PreflightTimeout, SendStart, SendChunk, Abort, FinishUnconfirmed,
            AwaitAck, SendComplete, Waited, Settle, books
    <3>2. Forgotten(w).jobs = sender.jobs
      BY <1>1 DEF Forgotten, Senders
    <3> QED
      BY <1>1, <3>1, <3>2 DEF Senders
  <2> QED
    BY <1>0, <2>1, <2>2, SameJobs
<1>4. ASSUME (\E j \in Job : Timers(j)) \/ Stops
      PROVE  Types' /\ Occupied' /\ JobNumbers'
  <2>1. Types' /\ Occupied' /\ Later(job, job')
    BY <1>0, <1>4, QueueTypes
  <2>2. UNCHANGED sender \/ \E a : sender' = [sender EXCEPT !.closing = TRUE, !.acks = a]
    BY <1>4 DEF Timers, TimerFires, Requeue, Stops, CloseManager, StopQueue, Drain, others
  <2> QED
    BY <1>0, <1>1, <2>1, <2>2, SameJobs DEF Senders
<1>5. ASSUME SourceHandles \/ Forget
      PROVE  Types' /\ Occupied' /\ JobNumbers'
  BY <1>0, <1>5, SourceTypes
<1>6. ASSUME ReceiverHandles \/ Deletes \/ Drop \/ Redial \/ Restart
               \/ \E t \in Transfer : RequestItem(t)
      PROVE  Types' /\ Occupied' /\ JobNumbers'
  <2>1. Types' /\ Occupied' /\ UNCHANGED theirs
    BY <1>0, <1>6, ReceiverTypes
  <2> QED
    BY <1>0, <1>1, <2>1, SameJobs, CancelledLater DEF theirs
<1> QED
  BY <1>2, <1>3, <1>4, <1>5, <1>6 DEF Next, Works, Environment

Holds(t) ==
  queue.registered[t] # None =>
    \/ t \in queue.queued \cup queue.active \cup queue.pending
    \/ \E w \in Worker : worker[w].at = "leaving" /\ T(w) = t

(* An id stays held when it is not taken anew and what held it still does,    *)
(* or a worker leaves with it.                                                *)
LEMMA StillHeld ==
  ASSUME Types, Next, NEW t \in Transfer, Holds(t), \A w \in Worker : ~Leave(w),
         queue'.registered[t] # None => queue.registered[t] # None,
         t \in queue.queued \cup queue.active \cup queue.pending =>
           \/ t \in queue'.queued \cup queue'.active \cup queue'.pending
           \/ \E w \in Worker : worker'[w].at = "leaving" /\ T(w)' = t
  PROVE  Holds(t)'
BY LeavingStays DEF Holds

(* No id stays taken for nothing after a step, and a stopped queue retries    *)
(* nothing.                                                                   *)
LEMMA HeldStays ==
  ASSUME Held, Next
  PROVE  Held'
<1>0. Types /\ Occupied /\ NothingPends /\ queue \in Queues /\ worker \in [Worker -> Workers]
  BY DEF Held, Types
<1>1. Types' /\ Occupied' /\ JobNumbers'
  BY PartsStay
<1>2. \A t \in Transfer : Holds(t)
  BY DEF Held, JobsAreHeld, Holds
<1>3. SUFFICES NothingPends' /\ \A t \in Transfer : Holds(t)'
  BY <1>1 DEF Held, JobsAreHeld, Holds
<1>4. CASE \E w \in Worker : Leave(w)
  <2>1. PICK w \in Worker : Leave(w)
    BY <1>4
  <2>2. /\ queue' = Left(queue, T(w)) /\ worker' = [worker EXCEPT ![w] = IdleWorker]
        /\ T(w) \in Transfer
    BY <1>0, <2>1, JobAtWork DEF Leave, T
  <2> HIDE DEF T
  <2>3. /\ queue'.queued = queue.queued /\ queue'.active = queue.active \ {T(w)}
        /\ queue'.pending = queue.pending /\ queue'.stop = queue.stop
        /\ \A t \in Transfer : t # T(w) => queue'.registered[t] = queue.registered[t]
        /\ T(w) \notin queue.queued \cup queue.pending => queue'.registered[T(w)] = None
    BY <1>0, <2>2 DEF Left, Queues
  <2>4. ASSUME NEW v \in Worker, T(v) # T(w)
        PROVE  worker'[v].at = worker[v].at /\ T(v)' = T(v)
    BY <1>0, <2>2, <2>4 DEF T
  <2>5. ASSUME NEW t \in Transfer
        PROVE  Holds(t)'
    <3>1. CASE t = T(w)
      BY <2>3, <3>1 DEF Holds
    <3>2. CASE t # T(w)
      BY <1>2, <2>3, <2>4, <3>2 DEF Holds
    <3> QED
      BY <3>1, <3>2
  <2> QED
    BY <1>0, <2>3, <2>5 DEF NothingPends
<1> SUFFICES ASSUME \A w \in Worker : ~Leave(w)
             PROVE  NothingPends' /\ \A t \in Transfer : Holds(t)'
  BY <1>4
<1>5. CASE UNCHANGED queue
  BY <1>0, <1>2, <1>5, StillHeld DEF NothingPends
<1>6. ASSUME NEW w \in Worker, Take(w)
      PROVE  NothingPends' /\ \A t \in Transfer : Holds(t)'
  <2>1. /\ queue'.queued = queue.queued /\ queue'.active = queue.active
        /\ queue'.pending = queue.pending /\ queue'.stop = queue.stop
        /\ queue'.registered = queue.registered
    BY <1>0, <1>6 DEF Take, Queues
  <2> QED
    BY <1>0, <1>2, <2>1, StillHeld DEF NothingPends
<1>7. ASSUME NEW w \in Worker, Admit(w)
      PROVE  NothingPends' /\ \A t \in Transfer : Holds(t)'
  <2>1. PICK runs \in BOOLEAN :
          /\ queue' = [queue EXCEPT !.queued = @ \ {T(w)},
                                    !.active = IF runs THEN @ \cup {T(w)} ELSE @]
          /\ Goes(w, IF runs THEN "admitted" ELSE "leaving")
    BY <1>7 DEF Admit, T
  <2>2. worker'[w].at = (IF runs THEN "admitted" ELSE "leaving") /\ T(w)' = T(w)
    BY <1>0, <2>1 DEF Goes, T, Workers
  <2>3. /\ queue'.queued = queue.queued \ {T(w)}
        /\ queue'.active = IF runs THEN queue.active \cup {T(w)} ELSE queue.active
        /\ queue'.pending = queue.pending /\ queue'.stop = queue.stop
        /\ queue'.registered = queue.registered
    BY <1>0, <2>1 DEF Queues
  <2> HIDE DEF T
  <2> QED
    BY <1>0, <1>2, <2>2, <2>3, StillHeld DEF NothingPends
<1>8. ASSUME NEW w \in Worker, ScheduleRetry(w)
      PROVE  NothingPends' /\ \A t \in Transfer : Holds(t)'
  <2>1. \/ UNCHANGED queue
        \/ ~queue.stop /\ queue' = [queue EXCEPT !.pending = @ \cup {T(w)}]
    BY <1>8 DEF ScheduleRetry, T
  <2>2. /\ queue'.queued = queue.queued /\ queue'.active = queue.active
        /\ queue.pending \subseteq queue'.pending /\ queue'.stop = queue.stop
        /\ queue'.registered = queue.registered
        /\ queue.stop => queue'.pending = queue.pending
    BY <1>0, <2>1 DEF Queues
  <2> QED
    BY <1>0, <1>2, <2>2, StillHeld DEF NothingPends
<1>9. ASSUME NEW w \in Worker, ArmTimer(w)
      PROVE  NothingPends' /\ \A t \in Transfer : Holds(t)'
  <2>1. \/ queue' = [queue EXCEPT !.pending = @ \ {T(w)}]
        \/ queue' = [queue EXCEPT !.armed = @ \cup {J(w)}]
    BY <1>9 DEF ArmTimer, T, J
  <2>2. /\ queue'.queued = queue.queued /\ queue'.active = queue.active
        /\ queue.pending \ {T(w)} \subseteq queue'.pending /\ queue'.pending \subseteq queue.pending
        /\ queue'.stop = queue.stop /\ queue'.registered = queue.registered
    BY <1>0, <2>1 DEF Queues
  <2>3. worker'[w].at = "leaving" /\ T(w)' = T(w)
    BY <1>0, <1>9 DEF ArmTimer, Goes, T, Workers
  <2> HIDE DEF T
  <2> QED
    BY <1>0, <1>2, <2>2, <2>3, StillHeld DEF NothingPends
<1>10. ASSUME NEW j \in Job, Timers(j)
       PROVE  NothingPends' /\ \A t \in Transfer : Holds(t)'
  <2>1. CASE TimerFires(j)
    <3>1. /\ queue'.queued = queue.queued /\ queue'.active = queue.active
          /\ queue'.pending = queue.pending /\ queue'.stop = queue.stop
          /\ queue'.registered = queue.registered
      BY <1>0, <2>1 DEF TimerFires, Queues
    <3> QED
      BY <1>0, <1>2, <3>1, StillHeld DEF NothingPends
  <2>2. CASE Requeue(j)
    <3> DEFINE t == TransferOf(j)
               e == Enqueued(queue, j)
    <3>1. \/ queue' = [queue EXCEPT !.requeuing = @ \ {j},
                                    !.pending = IF queue.stop THEN @ \ {t} ELSE @]
          \/ queue' = [e EXCEPT !.requeuing = @ \ {j}, !.pending = @ \ {t}] /\ t \in queue.pending
               /\ queue.registered[t] = j
      BY <2>2 DEF Requeue
    <3>2. e \in Queues /\ t \in Transfer
      BY <1>0, EnqueuedType, JobParts
    <3>3. /\ e.queued = queue.queued \cup {t} /\ e.active = queue.active
          /\ e.pending = queue.pending /\ e.stop = queue.stop
          /\ \A u \in Transfer : u # t => e.registered[u] = queue.registered[u]
      BY <1>0, EnqueuedBooks
    <3> HIDE DEF t, e
    <3>4. CASE queue' = [queue EXCEPT !.requeuing = @ \ {j},
                                      !.pending = IF queue.stop THEN @ \ {t} ELSE @]
      <4>1. /\ queue'.queued = queue.queued /\ queue'.active = queue.active
            /\ queue'.pending = queue.pending /\ queue'.stop = queue.stop
            /\ queue'.registered = queue.registered
        BY <1>0, <3>4 DEF Queues, NothingPends
      <4> QED
        BY <1>0, <1>2, <4>1, StillHeld DEF NothingPends
    <3>5. CASE queue' = [e EXCEPT !.requeuing = @ \ {j}, !.pending = @ \ {t}] /\ t \in queue.pending
                 /\ queue.registered[t] = j
      <4>1. /\ queue'.queued = queue.queued \cup {t} /\ queue'.active = queue.active
            /\ queue'.pending = queue.pending \ {t} /\ queue'.stop = queue.stop
            /\ \A u \in Transfer : u # t => queue'.registered[u] = queue.registered[u]
        BY <3>2, <3>3, <3>5 DEF Queues
      <4>2. j # None
        BY LegacyAssumption
      <4> QED
        BY <1>0, <1>2, <3>5, <4>1, <4>2, StillHeld DEF NothingPends
    <3> QED
      BY <3>1, <3>4, <3>5
  <2> QED
    BY <1>10, <2>1, <2>2 DEF Timers
<1>11. CASE StopQueue
  <2>1. /\ queue'.queued = queue.queued /\ queue'.active = queue.active /\ queue'.pending = {}
        /\ \A t \in Transfer : queue'.registered[t] =
             IF t \in queue.pending \ (queue.queued \cup queue.active) THEN None
             ELSE queue.registered[t]
    BY <1>0, <1>11 DEF StopQueue, Queues
  <2>2. ASSUME NEW t \in Transfer
        PROVE  Holds(t)'
    <3>1. CASE t \in queue.pending \ (queue.queued \cup queue.active)
      BY <2>1, <3>1 DEF Holds
    <3>2. CASE t \notin queue.pending \ (queue.queued \cup queue.active)
      BY <1>0, <1>2, <2>1, <3>2, StillHeld
    <3> QED
      BY <3>1, <3>2
  <2> QED
    BY <2>1, <2>2 DEF NothingPends
<1>12. CASE Drain
  <2> DEFINE t == TransferOf(Head(queue.fifo))
  <2>1. t \in Transfer
    BY <1>0, <1>12, Tailed, JobParts DEF Drain, Queues
  <2>2. queue' = [queue EXCEPT !.fifo = Tail(@), !.queued = @ \ {t},
                               !.registered[t] = IF t \in queue.active THEN @ ELSE None]
    BY <1>12 DEF Drain
  <2> HIDE DEF t
  <2>3. /\ queue'.queued = queue.queued \ {t} /\ queue'.active = queue.active
        /\ queue'.pending = queue.pending /\ queue'.stop = queue.stop
        /\ \A u \in Transfer : queue'.registered[u] # None =>
             queue.registered[u] # None /\ (u = t => t \in queue.active)
    BY <1>0, <2>1, <2>2 DEF Queues
  <2>4. ASSUME NEW u \in Transfer
        PROVE  Holds(u)'
    <3>1. CASE u = t /\ t \notin queue.active
      BY <2>3, <3>1 DEF Holds
    <3>2. CASE u # t \/ t \in queue.active
      BY <1>0, <1>2, <2>3, <3>2, StillHeld
    <3> QED
      BY <3>1, <3>2
  <2> QED
    BY <1>0, <2>3, <2>4 DEF NothingPends
<1>13. CASE \E j \in Job : queue' = Enqueued(queue, j)
  <2>1. PICK j \in Job : queue' = Enqueued(queue, j)
    BY <1>13
  <2>2. /\ queue'.queued = queue.queued \cup {TransferOf(j)}
        /\ queue'.active = queue.active /\ queue'.pending = queue.pending
        /\ queue'.stop = queue.stop
        /\ \A t \in Transfer : t # TransferOf(j) => queue'.registered[t] = queue.registered[t]
    BY <1>0, <2>1, EnqueuedBooks
  <2>3. ASSUME NEW t \in Transfer
        PROVE  Holds(t)'
    <3>1. CASE t = TransferOf(j)
      BY <2>2, <3>1 DEF Holds
    <3>2. CASE t # TransferOf(j)
      BY <1>0, <1>2, <2>2, <3>2, StillHeld
    <3> QED
      BY <3>1, <3>2
  <2> QED
    BY <1>0, <2>2, <2>3 DEF NothingPends
<1>14. CASE \E ts : queue' = Dropped(queue, ts)
  <2>1. PICK ts : queue' = Dropped(queue, ts)
    BY <1>14
  <2>2. /\ queue'.queued = queue.queued /\ queue'.active = queue.active
        /\ queue'.pending = queue.pending \ ts /\ queue'.stop = queue.stop
        /\ \A t \in Transfer : queue'.registered[t] # None =>
             /\ queue.registered[t] # None
             /\ t \in ts => t \in queue.queued \cup queue.active
    BY <1>0, <2>1, DroppedBooks
  <2>3. ASSUME NEW t \in Transfer
        PROVE  Holds(t)'
    <3>1. CASE queue'.registered[t] = None
      BY <3>1 DEF Holds
    <3>2. CASE queue'.registered[t] # None
      BY <1>0, <1>2, <2>2, <3>2, StillHeld
    <3> QED
      BY <3>1, <3>2
  <2> QED
    BY <1>0, <2>2, <2>3 DEF NothingPends
<1>15. CASE SourceHandles \/ Forget
  <2>1. UNCHANGED queue \/ (\E j \in Job : queue' = Enqueued(queue, j))
          \/ \E ts : queue' = Dropped(queue, ts)
    <3>1. CASE OnRequest
      <4>1. Head(link.toSender) \in Messages
        BY <1>0, <3>1, InboxType DEF Types, OnRequest, Reads
      <4>2. <<Head(link.toSender).of, 1>> \in Job
        BY <4>1, LegacyAssumption DEF Messages, Job
      <4> QED
        BY <3>1, <4>2 DEF OnRequest
    <3>2. CASE SubmitResumed
      <4>1. sender.resuming \in Job
        BY <1>0, <3>2 DEF Types, Senders, SubmitResumed
      <4> QED
        BY <3>2, <4>1 DEF SubmitResumed
    <3> QED
      BY <1>15, <3>1, <3>2 DEF SourceHandles, OnAnswer, OnResume, OnAck, OnError, Ignores, Forget
  <2> QED
    BY <1>5, <1>13, <1>14, <2>1
<1>16. ASSUME NEW w \in Worker,
              \/ CheckStatus(w) \/ MarkRunning(w) \/ Returned(w) \/ Raised(w) \/ MarkRetry(w)
              \/ Exit(w) \/ Begin(w) \/ Answered(w) \/ PreflightTimeout(w) \/ SendStart(w)
              \/ SendChunk(w) \/ Abort(w) \/ FinishUnconfirmed(w) \/ AwaitAck(w)
              \/ SendComplete(w) \/ Waited(w) \/ Settle(w)
       PROVE  UNCHANGED queue
  BY <1>16
  DEF CheckStatus, MarkRunning, Returned, Raised, MarkRetry, Exit, Begin, Answered,
      PreflightTimeout, SendStart, SendChunk, Abort, FinishUnconfirmed, AwaitAck, SendComplete,
      Waited, Settle, books
<1>17. ASSUME ReceiverHandles \/ Deletes \/ CloseManager \/ Drop \/ Redial \/ Restart
                \/ \E t \in Transfer : RequestItem(t)
       PROVE  UNCHANGED queue
  BY <1>0, <1>17, ReceiverTypes DEF theirs, CloseManager
<1> QED
  BY <1>5, <1>6, <1>7, <1>8, <1>9, <1>10, <1>11, <1>12, <1>15, <1>16, <1>17
  DEF Next, Works, Stops, Environment

----------------------------------------------------------------------------
(* Answers                                                                   *)

AcksIn(q, s) == \A i \in 1..Len(q) : q[i].kind = "ack" => q[i].of \in s

(* A message behind the others, the first one read, the last ones lost.      *)
LEMMA AcksMove ==
  ASSUME NEW q \in Seq(Messages), NEW s, NEW r, s \subseteq r, AcksIn(q, s)
  PROVE  /\ AcksIn(q, r)
         /\ \A m \in Messages : (m.kind = "ack" => m.of \in r) => AcksIn(Append(q, m), r)
         /\ q # <<>> => AcksIn(Tail(q), r)
         /\ \A n \in 0..Len(q) : AcksIn(SubSeq(q, 1, n), r)
<1>1. AcksIn(q, r)
  BY DEF AcksIn
<1>2. ASSUME NEW m \in Messages, m.kind = "ack" => m.of \in r
      PROVE  AcksIn(Append(q, m), r)
  <2>1. Len(q) \in Nat
    BY LenProperties
  <2> QED
    BY <1>1, <1>2, <2>1, Appended DEF AcksIn
<1>3. ASSUME q # <<>>
      PROVE  AcksIn(Tail(q), r)
  BY <1>1, <1>3, Tailed DEF AcksIn
<1>4. ASSUME NEW n \in 0..Len(q)
      PROVE  AcksIn(SubSeq(q, 1, n), r)
  BY <1>1, CutOff DEF AcksIn
<1> QED
  BY <1>1, <1>2, <1>3, <1>4

(* The parts of AcksAreTrue: the receiver's, the link's and the workers'.    *)
ReceiptsAreTrue ==
  /\ receiver.receipts \subseteq hist.stored
  /\ receiver.at = "acking" => receiver.transfer \in hist.stored
WorkersAreTrue ==
  /\ \A w \in Worker : worker[w].ack = "complete" => worker[w].job # None /\ T(w) \in hist.stored
  /\ \A t \in Transfer, w \in Worker : sender.acks[t] = w =>
       worker[w].at \in {"completing", "waiting", "settling"} /\ T(w) = t

(* The acknowledgements, where they are: at the receiver, on the way, with a *)
(* worker.                                                                   *)
LEMMA AckParts ==
  /\ AcksAreTrue <=> ReceiptsAreTrue /\ AcksIn(link.toSender, hist.stored) /\ WorkersAreTrue
  /\ AcksAreTrue' <=>
       ReceiptsAreTrue' /\ AcksIn(link'.toSender, hist'.stored) /\ WorkersAreTrue'
BY DEF AcksAreTrue, ReceiptsAreTrue, AcksIn, WorkersAreTrue

(* What the receiver answers is true.                                        *)
LEMMA ReceiverAnswers ==
  ASSUME Types, Occupied, AcksAreTrue,
         ReceiverHandles \/ Deletes \/ Drop \/ Redial \/ Restart \/ \E t \in Transfer : RequestItem(t)
  PROVE  /\ ReceiptsAreTrue' /\ AcksIn(link'.toSender, hist'.stored)
         /\ hist'.confirmed = hist.confirmed /\ hist.stored \subseteq hist'.stored
<1>0. /\ receiver \in Receivers /\ link \in Links /\ hist \in Histories
      /\ ReceiptsAreTrue /\ AcksIn(link.toSender, hist.stored) /\ link.toSender \in Seq(Messages)
  BY AckParts DEF Types, Links
<1>1. AcksIn(link.toSender, hist'.stored) /\ hist.stored \subseteq hist'.stored
        /\ hist'.confirmed = hist.confirmed
  <2>1. \/ hist' = hist \/ \E g : hist' = [hist EXCEPT !.gone = g]
        \/ \E t : hist' = [hist EXCEPT !.stored = @ \cup {t}]
    BY DEF ReceiverHandles, OnPreflight, OnStart, Open, OnChunk, OnComplete, Commit, Acknowledge,
           OnSenderError, Deletes, MarkDeleted, RemoveTransfers, DeleteFromStore, Drop, Redial,
           Restart, RequestItem
  <2>2. hist.stored \subseteq hist'.stored /\ hist'.confirmed = hist.confirmed
    BY <1>0, <2>1 DEF Histories
  <2> QED
    BY <1>0, <2>2, AcksMove
<1>2. ASSUME NEW l \in Links, l.toSender = link.toSender, NEW m \in Messages,
             m.kind = "ack" => m.of \in hist'.stored, link' = Reply(l, m)
      PROVE  AcksIn(link'.toSender, hist'.stored)
  <2>1. link'.toSender = link.toSender \/ link'.toSender = Append(link.toSender, m)
    BY <1>2, ReplyType
  <2>2. \A k \in Messages : (k.kind = "ack" => k.of \in hist'.stored) =>
          AcksIn(Append(link.toSender, k), hist'.stored)
    BY <1>0, <1>1, AcksMove
  <2> QED
    BY <1>1, <1>2, <2>1, <2>2
<1>3. /\ link'.toSender = link.toSender => AcksIn(link'.toSender, hist'.stored)
      /\ link' = link => link'.toSender = link.toSender
      /\ link.toReceiver # <<>> =>
           /\ Inbox \in Messages /\ Inbox.of \in Transfer /\ Read \in Links
           /\ Read.toSender = link.toSender
  BY <1>0, <1>1, InboxType DEF Messages
<1>4. ReceiptsAreTrue'
  <2>1. CASE OnStart
    BY <1>0, <1>1, <2>1 DEF OnStart, ReceiptsAreTrue, Receivers
  <2>2. CASE Open
    <3> DEFINE t == receiver.transfer
               done == [receiver EXCEPT !.at = "idle", !.transfer = None]
    <3>1. \/ receiver' = done
          \/ receiver' = [done EXCEPT !.entry[t] = [NoEntry EXCEPT !.open = TRUE],
                                      !.known = @ \cup {t}]
      BY <2>2 DEF Open
    <3>2. receiver'.receipts = receiver.receipts /\ receiver'.at = "idle"
      BY <1>0, <3>1 DEF Receivers
    <3> QED
      BY <1>0, <1>1, <3>2 DEF ReceiptsAreTrue
  <2>3. CASE OnChunk \/ OnComplete \/ OnSenderError
    <3>1. receiver'.receipts = receiver.receipts /\ (receiver'.at # "acking")
      <4>1. CASE OnChunk
        <5>1. \/ receiver' = receiver
              \/ receiver' = [receiver EXCEPT !.entry[Inbox.of].have = @ \cup {Inbox.index}]
              \/ \E x, y : receiver' = [receiver EXCEPT !.entry[Inbox.of].retries = x,
                                                        !.entry[Inbox.of].dead = y]
          BY <4>1 DEF OnChunk
        <5>2. receiver'.receipts = receiver.receipts /\ receiver'.at = receiver.at
          BY <1>0, <5>1 DEF Receivers
        <5> QED
          BY <4>1, <5>2 DEF OnChunk, Handles
      <4>2. CASE OnComplete
        <5>1. \/ receiver' = receiver
              \/ receiver' = [receiver EXCEPT !.entry[Inbox.of].finalizing = TRUE,
                                              !.at = "finalizing", !.transfer = Inbox.of]
          BY <4>2 DEF OnComplete
        <5> QED
          BY <1>0, <4>2, <5>1 DEF Receivers, OnComplete, Handles
      <4>3. CASE OnSenderError
        BY <1>0, <4>3 DEF OnSenderError, Handles, Receivers
      <4> QED
        BY <2>3, <4>1, <4>2, <4>3
    <3> QED
      BY <1>0, <1>1, <3>1 DEF ReceiptsAreTrue
  <2>4. CASE Commit
    <3> DEFINE t == receiver.transfer
               closed == [receiver EXCEPT !.entry[t] = NoEntry, !.at = "idle", !.transfer = None]
    <3>1. \/ receiver' = closed
          \/ /\ receiver' = [closed EXCEPT !.stored = TRUE, !.receipts = @ \cup {t},
                                           !.at = "acking", !.transfer = t]
             /\ hist' = [hist EXCEPT !.stored = @ \cup {t}]
      BY <2>4 DEF Commit
    <3>2. t \in Transfer
      BY <1>0, <2>4 DEF Commit, Occupied, Receivers
    <3>3. closed \in Receivers /\ closed.receipts = receiver.receipts /\ closed.at = "idle"
      BY <1>0, <3>2, NoEntryType DEF NoEntryTyped, Receivers
    <3> HIDE DEF closed, t
    <3>4. CASE receiver' = closed
      BY <1>0, <1>1, <3>3, <3>4 DEF ReceiptsAreTrue
    <3>5. CASE /\ receiver' = [closed EXCEPT !.stored = TRUE, !.receipts = @ \cup {t},
                                             !.at = "acking", !.transfer = t]
               /\ hist' = [hist EXCEPT !.stored = @ \cup {t}]
      <4>1. receiver'.receipts = receiver.receipts \cup {t} /\ receiver'.transfer = t
        BY <3>3, <3>5 DEF Receivers
      <4>2. hist'.stored = hist.stored \cup {t}
        BY <1>0, <3>5 DEF Histories
      <4> QED
        BY <1>0, <4>1, <4>2 DEF ReceiptsAreTrue
    <3> QED
      BY <3>1, <3>4, <3>5
  <2>5. CASE Acknowledge
    BY <1>0, <1>1, <2>5 DEF Acknowledge, ReceiptsAreTrue, Receivers
  <2>6. CASE Deletes \/ Restart
    BY <1>0, <1>1, <2>6
    DEF Deletes, MarkDeleted, RemoveTransfers, DeleteFromStore, Restart, ReceiptsAreTrue, Receivers
  <2>7. CASE UNCHANGED receiver
    BY <1>0, <1>1, <2>7 DEF ReceiptsAreTrue
  <2> QED
    BY <2>1, <2>2, <2>3, <2>4, <2>5, <2>6, <2>7
    DEF ReceiverHandles, OnPreflight, Drop, Redial, RequestItem
<1>5. AcksIn(link'.toSender, hist'.stored)
  <2>1. CASE OnPreflight
    <3>1. PICK ok \in BOOLEAN :
            link' = Reply(Read, [Msg("answer", Inbox.of) EXCEPT !.request = Inbox.request, !.ok = ok])
      BY <2>1 DEF OnPreflight
    <3>2. /\ Inbox \in Messages /\ Inbox.of \in Transfer /\ Read \in Links
          /\ Read.toSender = link.toSender /\ Inbox.request \in Requests \cup {None}
      BY <1>3, <2>1 DEF OnPreflight, Handles, Messages
    <3> DEFINE m == [Msg("answer", Inbox.of) EXCEPT !.request = Inbox.request, !.ok = ok]
    <3>3. m \in Messages /\ m.kind = "answer"
      <4>1. Msg("answer", Inbox.of) \in Messages /\ Msg("answer", Inbox.of).kind = "answer"
        BY <3>2, MsgType
      <4> QED
        BY <3>2, <4>1 DEF Messages
    <3> HIDE DEF m
    <3> QED
      BY <1>2, <3>1, <3>2, <3>3 DEF m
  <2>2. CASE OnStart \/ OnSenderError
    BY <1>3, <2>2 DEF OnStart, OnSenderError, Handles
  <2>3. CASE Open \/ Commit
    <3>1. receiver.transfer \in Transfer
      BY <1>0, <2>3 DEF Open, Commit, Occupied, Receivers
    <3>2. /\ Msg("error", receiver.transfer) \in Messages
          /\ Msg("error", receiver.transfer).kind = "error"
      BY <3>1, MsgType
    <3>3. link' = link \/ link' = Reply(link, Msg("error", receiver.transfer))
      BY <2>3 DEF Open, Commit
    <3> QED
      BY <1>0, <1>2, <1>3, <3>2, <3>3
  <2>4. CASE OnChunk
    <3>1. /\ Inbox.of \in Transfer /\ Read \in Links /\ Read.toSender = link.toSender
      BY <1>3, <2>4 DEF OnChunk, Handles
    <3>2. CASE link' = Read
      BY <1>3, <3>1, <3>2
    <3>3. CASE link' # Read
      <4> DEFINE e == Entry(Inbox.of)
                 m == [Msg("resume", Inbox.of) EXCEPT !.index = NextIndex(e)]
      <4>1. Inbox.index \notin e.have /\ (link' = Reply(Read, m) \/ link' = Reply(Read, Msg("error", Inbox.of)))
        BY <2>4, <3>3 DEF OnChunk
      <4>2. e \in Entries /\ Inbox.index \in Positions
        BY <1>0, <1>3, <2>4, <3>1 DEF OnChunk, Handles, Entry, Receivers, Messages
      <4>3. NextIndex(e) \in Positions
        BY <4>1, <4>2, NextIndexType
      <4>4. /\ Msg("resume", Inbox.of) \in Messages /\ Msg("resume", Inbox.of).kind = "resume"
            /\ Msg("error", Inbox.of) \in Messages /\ Msg("error", Inbox.of).kind = "error"
        BY <3>1, MsgType
      <4>5. m \in Messages /\ m.kind = "resume"
        BY <4>3, <4>4 DEF Messages
      <4> HIDE DEF e, m
      <4> QED
        BY <1>2, <3>1, <4>1, <4>4, <4>5
    <3> QED
      BY <3>2, <3>3
  <2>5. CASE OnComplete
    <3>1. /\ Inbox.of \in Transfer /\ Read \in Links /\ Read.toSender = link.toSender
      BY <1>3, <2>5 DEF OnComplete, Handles
    <3>2. Msg("ack", Inbox.of) \in Messages /\ Msg("ack", Inbox.of).of = Inbox.of
      BY <3>1, MsgType
    <3>3. link' = Read \/ (Inbox.of \in receiver.receipts /\ link' = Reply(Read, Msg("ack", Inbox.of)))
      BY <2>5 DEF OnComplete, HasReceipt
    <3> QED
      BY <1>0, <1>1, <1>2, <1>3, <3>1, <3>2, <3>3 DEF ReceiptsAreTrue
  <2>6. CASE Acknowledge
    <3>1. receiver.transfer \in Transfer /\ receiver.transfer \in hist.stored
      BY <1>0, <2>6 DEF Acknowledge, Occupied, Receivers, ReceiptsAreTrue
    <3>2. /\ Msg("ack", receiver.transfer) \in Messages
          /\ Msg("ack", receiver.transfer).of = receiver.transfer
      BY <3>1, MsgType
    <3> QED
      BY <1>0, <1>1, <1>2, <2>6, <3>1, <3>2 DEF Acknowledge
  <2>7. CASE Drop
    <3>1. \E n \in 0..Len(link.toSender) : link'.toSender = SubSeq(link.toSender, 1, n)
      BY <2>7 DEF Drop
    <3> QED
      BY <1>0, <1>1, <3>1, AcksMove
  <2>8. CASE Restart
    BY <2>8, EmptySeq DEF Restart, AcksIn
  <2>9. ASSUME NEW t \in Transfer, RequestItem(t)
        PROVE  AcksIn(link'.toSender, hist'.stored)
    <3>1. PICK final \in BOOLEAN :
            link' = [link EXCEPT !.toSender = Append(@, [Msg("request", t) EXCEPT !.ok = final])]
      BY <2>9 DEF RequestItem
    <3>2. Msg("request", t) \in Messages /\ Msg("request", t).kind = "request"
      BY MsgType
    <3> DEFINE m == [Msg("request", t) EXCEPT !.ok = final]
    <3>3. m \in Messages /\ m.kind = "request"
      BY <3>2 DEF Messages
    <3> HIDE DEF m
    <3>4. link'.toSender = Append(link.toSender, m)
      BY <1>0, <3>1 DEF Links, m
    <3> QED
      BY <1>0, <1>1, <3>3, <3>4, AcksMove
  <2>10. CASE Deletes \/ Redial
    <3>1. link'.toSender = link.toSender
      BY <1>0, <2>10 DEF Deletes, MarkDeleted, RemoveTransfers, DeleteFromStore, Redial, Links
    <3> QED
      BY <1>3, <3>1
  <2> QED
    BY <2>1, <2>2, <2>3, <2>4, <2>5, <2>6, <2>7, <2>8, <2>9, <2>10 DEF ReceiverHandles
<1> QED
  BY <1>1, <1>4, <1>5

Asked == {"completing", "waiting", "settling"}

(* As worker w becomes f, the others keep their places among the acks.      *)
AcksFollow(w, f) ==
  \A t \in Transfer, v \in Worker : sender'.acks[t] = v =>
    \/ v # w /\ sender.acks[t] = v
    \/ v = w /\ f.at \in Asked /\ TransferOf(f.job) = t

(* A worker moves: it may bring an answer only for a transfer that is stored, *)
(* and it keeps its place among the acks only while it waits.                 *)
LEMMA TurnIsTrue ==
  ASSUME Types, WorkersAreTrue, NEW w \in Worker, NEW f, worker' = [worker EXCEPT ![w] = f],
         hist'.stored = hist.stored,
         \/ f.job = worker[w].job /\ f.ack = worker[w].ack
         \/ f.ack # "complete",
         AcksFollow(w, f)
  PROVE  WorkersAreTrue'
<1>1. \A v \in Worker : v # w => worker'[v] = worker[v] /\ T(v)' = T(v)
  BY DEF Types, T
<1>2. worker'[w] = f /\ T(w)' = TransferOf(f.job) /\ T(w) = TransferOf(worker[w].job)
  BY DEF Types, T
<1> HIDE DEF T
<1> QED
  BY <1>1, <1>2 DEF WorkersAreTrue, Asked, AcksFollow

(* A worker that has not asked for an answer moves, and asks for none.       *)
LEMMA QuietTurnIsTrue ==
  ASSUME Types, WorkersAreTrue, NEW w \in Worker, NEW f, worker' = [worker EXCEPT ![w] = f],
         hist'.stored = hist.stored, worker[w].at \notin Asked, sender'.acks = sender.acks,
         (f.job = worker[w].job /\ f.ack = worker[w].ack) \/ f.ack # "complete"
  PROVE  WorkersAreTrue'
<1>1. \A t \in Transfer : sender.acks[t] # w
  BY DEF WorkersAreTrue, Asked
<1>2. AcksFollow(w, f)
  BY <1>1 DEF AcksFollow
<1> QED
  BY <1>2, TurnIsTrue

(* What the workers and the reader of the source believe is true.            *)
LEMMA SourceBelieves ==
  ASSUME Types, Occupied, AcksAreTrue,
         \/ \E w \in Worker : Works(w)
         \/ \E j \in Job : Timers(j)
         \/ SourceHandles \/ Forget \/ Stops
  PROVE  WorkersAreTrue' /\ hist'.stored = hist.stored
<1>0. /\ worker \in [Worker -> Workers] /\ sender \in Senders /\ WorkersAreTrue
      /\ hist \in Histories
  BY AckParts DEF Types
<1>1. ASSUME NEW w \in Worker,
             \/ Take(w) \/ Admit(w) \/ CheckStatus(w) \/ MarkRunning(w) \/ Returned(w) \/ Raised(w)
             \/ MarkRetry(w) \/ ScheduleRetry(w) \/ ArmTimer(w) \/ Leave(w) \/ Exit(w)
      PROVE  WorkersAreTrue' /\ hist'.stored = hist.stored
  <2>1. UNCHANGED <<sender, hist>> /\ worker[w].at \notin Asked
    BY <1>1 DEF Take, Admit, CheckStatus, MarkRunning, Returned, Raised, MarkRetry, ScheduleRetry,
                ArmTimer, Leave, Exit, others, Asked
  <2>2. \/ worker' = [worker EXCEPT ![w] = [IdleWorker EXCEPT !.at = "taken", !.job = Head(queue.fifo)]]
        \/ worker' = [worker EXCEPT ![w] = IdleWorker]
        \/ \E at : Goes(w, at)
    BY <1>1 DEF Take, Admit, CheckStatus, MarkRunning, Returned, Raised, MarkRetry, ScheduleRetry,
                ArmTimer, Leave, Exit
  <2>3. CASE worker' = [worker EXCEPT ![w] =
                          [IdleWorker EXCEPT !.at = "taken", !.job = Head(queue.fifo)]]
    <3>1. [IdleWorker EXCEPT !.at = "taken", !.job = Head(queue.fifo)].ack = "none"
      BY DEF IdleWorker
    <3> QED
      BY <1>0, <2>1, <2>3, <3>1, QuietTurnIsTrue
  <2>4. CASE worker' = [worker EXCEPT ![w] = IdleWorker]
    <3>1. IdleWorker.ack = "none"
      BY DEF IdleWorker
    <3> QED
      BY <1>0, <2>1, <2>4, <3>1, QuietTurnIsTrue
  <2>5. ASSUME NEW at, Goes(w, at)
        PROVE  WorkersAreTrue'
    <3> DEFINE f == [worker[w] EXCEPT !.at = at]
    <3>1. worker' = [worker EXCEPT ![w] = f] /\ f.job = worker[w].job /\ f.ack = worker[w].ack
      BY <1>0, <2>5 DEF Goes, Workers
    <3> HIDE DEF f
    <3> QED
      BY <1>0, <2>1, <3>1, QuietTurnIsTrue
  <2> QED
    BY <2>1, <2>2, <2>3, <2>4, <2>5
<1>2. ASSUME NEW w \in Worker, NEW f, worker[w].at \notin Asked, UNCHANGED hist,
             sender'.acks = sender.acks, worker' = [worker EXCEPT ![w] = f],
             f.job = worker[w].job /\ f.ack = worker[w].ack
      PROVE  WorkersAreTrue' /\ hist'.stored = hist.stored
  BY <1>0, <1>2, QuietTurnIsTrue
<1>3. ASSUME NEW w \in Worker,
             \/ Begin(w) \/ Answered(w) \/ PreflightTimeout(w) \/ SendStart(w) \/ SendChunk(w)
             \/ Abort(w) \/ FinishUnconfirmed(w)
      PROVE  WorkersAreTrue' /\ hist'.stored = hist.stored
  <2>1. worker[w].at \notin Asked /\ UNCHANGED hist
    BY <1>3 DEF Begin, Answered, PreflightTimeout, SendStart, SendChunk, Abort, FinishUnconfirmed,
                Sent, Asked
  <2>2. \/ \E at : worker' = [worker EXCEPT ![w] = To(w, at)]
        \/ worker' = [worker EXCEPT ![w] = [To(w, "sending") EXCEPT !.next = job[J(w)].from]]
        \/ worker' = [worker EXCEPT ![w] = [worker[w] EXCEPT !.next = @ + 1]]
    BY <1>3 DEF Begin, Answered, PreflightTimeout, SendStart, SendChunk, Abort, FinishUnconfirmed,
                Steps, FailAndGo
  <2>3. sender'.acks = sender.acks
    <3>1. UNCHANGED sender \/ sender' = Forgotten(w)
            \/ sender' = [sender EXCEPT !.asked = @ \cup {Request(w)}]
      BY <1>3 DEF Begin, Answered, PreflightTimeout, SendStart, SendChunk, Abort, FinishUnconfirmed,
                  books
    <3> QED
      BY <1>0, <3>1 DEF Senders, Forgotten
  <2>4. /\ \A at : To(w, at).job = worker[w].job /\ To(w, at).ack = worker[w].ack
        /\ \A x, at : /\ [To(w, at) EXCEPT !.next = x].job = worker[w].job
                      /\ [To(w, at) EXCEPT !.next = x].ack = worker[w].ack
        /\ \A x : /\ [worker[w] EXCEPT !.next = x].job = worker[w].job
                  /\ [worker[w] EXCEPT !.next = x].ack = worker[w].ack
    BY <1>0 DEF To, Workers
  <2>5. ASSUME NEW f, worker' = [worker EXCEPT ![w] = f],
               f.job = worker[w].job /\ f.ack = worker[w].ack
        PROVE  WorkersAreTrue' /\ hist'.stored = hist.stored
    BY <1>2, <2>1, <2>3, <2>5
  <2>6. ASSUME NEW at, worker' = [worker EXCEPT ![w] = To(w, at)]
        PROVE  WorkersAreTrue' /\ hist'.stored = hist.stored
    BY <2>4, <2>5, <2>6
  <2>7. CASE worker' = [worker EXCEPT ![w] = [To(w, "sending") EXCEPT !.next = job[J(w)].from]]
    BY <2>4, <2>5, <2>7
  <2>8. CASE worker' = [worker EXCEPT ![w] = [worker[w] EXCEPT !.next = @ + 1]]
    BY <2>4, <2>5, <2>8
  <2> QED
    BY <2>2, <2>6, <2>7, <2>8
<1>4. ASSUME NEW w \in Worker, AwaitAck(w)
      PROVE  WorkersAreTrue' /\ hist'.stored = hist.stored
  <2>1. /\ worker[w].at = "sending" /\ UNCHANGED hist /\ T(w) \in Transfer
        /\ T(w) = TransferOf(worker[w].job)
    BY <1>4, JobAtWork DEF AwaitAck, Sent, J
  <2>2. \/ worker' = [worker EXCEPT ![w] = To(w, "returned")] /\ UNCHANGED sender
        \/ /\ sender' = [sender EXCEPT !.acks[T(w)] = w]
           /\ worker' = [worker EXCEPT ![w] = [To(w, "completing") EXCEPT !.ack = "none"]]
    BY <1>4 DEF AwaitAck, Steps
  <2>3. CASE worker' = [worker EXCEPT ![w] = To(w, "returned")] /\ UNCHANGED sender
    <3>1. To(w, "returned").job = worker[w].job /\ To(w, "returned").ack = worker[w].ack
      BY <1>0 DEF To, Workers
    <3> QED
      BY <1>2, <2>1, <2>3, <3>1 DEF Asked
  <2>4. CASE /\ sender' = [sender EXCEPT !.acks[T(w)] = w]
             /\ worker' = [worker EXCEPT ![w] = [To(w, "completing") EXCEPT !.ack = "none"]]
    <3> DEFINE f == [To(w, "completing") EXCEPT !.ack = "none"]
    <3>1. f.job = worker[w].job /\ f.ack = "none" /\ f.at = "completing"
      BY <1>0 DEF To, Workers
    <3>2. \A t \in Transfer, v \in Worker : sender.acks[t] = v => v # w
      BY <1>0, <2>1 DEF WorkersAreTrue
    <3>3. \A t \in Transfer : sender'.acks[t] = IF t = T(w) THEN w ELSE sender.acks[t]
      BY <1>0, <2>1, <2>4 DEF Senders
    <3>4. AcksFollow(w, f)
      BY <2>1, <3>1, <3>2, <3>3 DEF Asked, AcksFollow
    <3> HIDE DEF f
    <3>5. worker' = [worker EXCEPT ![w] = f]
      BY <2>4 DEF f
    <3> QED
      BY <1>0, <2>1, <3>1, <3>4, <3>5, TurnIsTrue
  <2> QED
    BY <2>2, <2>3, <2>4
<1>5. ASSUME NEW w \in Worker, SendComplete(w) \/ Waited(w)
      PROVE  WorkersAreTrue' /\ hist'.stored = hist.stored
  <2>1. UNCHANGED <<sender, hist>>
    BY <1>5 DEF SendComplete, Waited, books
  <2>2. \/ \E at \in Asked : worker' = [worker EXCEPT ![w] = To(w, at)]
        \/ worker' = [worker EXCEPT ![w] = [To(w, "waiting") EXCEPT !.sends = @ + 1]]
    BY <1>5 DEF SendComplete, Waited, Steps, Asked
  <2>3. ASSUME NEW f, worker' = [worker EXCEPT ![w] = f], f.job = worker[w].job,
               f.ack = worker[w].ack, f.at \in Asked
        PROVE  WorkersAreTrue'
    <3>1. AcksFollow(w, f)
      BY <1>0, <2>1, <2>3 DEF WorkersAreTrue, T, AcksFollow
    <3> QED
      BY <1>0, <2>1, <2>3, <3>1, TurnIsTrue
  <2>4. ASSUME NEW at \in Asked, worker' = [worker EXCEPT ![w] = To(w, at)]
        PROVE  WorkersAreTrue'
    <3>1. To(w, at).job = worker[w].job /\ To(w, at).ack = worker[w].ack /\ To(w, at).at = at
      BY <1>0 DEF To, Workers
    <3> QED
      BY <2>3, <2>4, <3>1
  <2>5. CASE worker' = [worker EXCEPT ![w] = [To(w, "waiting") EXCEPT !.sends = @ + 1]]
    <3> DEFINE f == [To(w, "waiting") EXCEPT !.sends = @ + 1]
    <3>1. f.job = worker[w].job /\ f.ack = worker[w].ack /\ f.at \in Asked
      BY <1>0 DEF To, Workers, Asked
    <3> HIDE DEF f
    <3>2. worker' = [worker EXCEPT ![w] = f]
      BY <2>5 DEF f
    <3> QED
      BY <2>1, <2>3, <3>1, <3>2
  <2> QED
    BY <2>1, <2>2, <2>4, <2>5
<1>6. ASSUME NEW w \in Worker, Settle(w)
      PROVE  WorkersAreTrue' /\ hist'.stored = hist.stored
  <2>1. /\ worker' = [worker EXCEPT ![w] = To(w, "returned")] /\ worker[w].at = "settling"
        /\ sender' = IF sender.acks[T(w)] = w THEN [sender EXCEPT !.acks[T(w)] = None] ELSE sender
        /\ hist' = hist \/ hist' = [hist EXCEPT !.confirmed = @ \cup {T(w)}]
    BY <1>6 DEF Settle, Steps
  <2>2. T(w) \in Transfer /\ hist'.stored = hist.stored
    BY <1>0, <2>1, JobAtWork DEF Histories
  <2>3. To(w, "returned").job = worker[w].job /\ To(w, "returned").ack = worker[w].ack
    BY <1>0 DEF To, Workers
  <2>4. \A t \in Transfer, v \in Worker : sender'.acks[t] = v => v # w /\ sender.acks[t] = v
    <3>1. \A t \in Transfer : sender.acks[t] = w => t = T(w)
      BY <1>0 DEF WorkersAreTrue
    <3>2. \A t \in Transfer : sender'.acks[t] =
            IF t = T(w) /\ sender.acks[t] = w THEN None ELSE sender.acks[t]
      BY <1>0, <2>1, <2>2 DEF Senders
    <3> QED
      BY <3>1, <3>2, LegacyAssumption
  <2> DEFINE f == To(w, "returned")
  <2>5. AcksFollow(w, f)
    BY <2>4 DEF AcksFollow
  <2> QED
    BY <1>0, <2>1, <2>2, <2>3, <2>5, TurnIsTrue
<1>7. ASSUME UNCHANGED <<worker, hist>>, \A t \in Transfer : sender'.acks[t] = sender.acks[t]
      PROVE  WorkersAreTrue' /\ hist'.stored = hist.stored
  BY <1>0, <1>7 DEF WorkersAreTrue, T
<1>8. ASSUME NEW w \in Worker, NEW a, worker' = [worker EXCEPT ![w].ack = a],
             UNCHANGED <<sender, hist>>, a = "complete" => worker[w].job # None /\ T(w) \in hist.stored
      PROVE  WorkersAreTrue' /\ hist'.stored = hist.stored
  <2>1. \A v \in Worker : worker'[v].job = worker[v].job /\ worker'[v].at = worker[v].at
                          /\ worker'[v].ack \in {worker[v].ack, IF v = w THEN a ELSE worker[v].ack}
    <3>1. \A v \in Worker : worker'[v] = IF v = w THEN [worker[v] EXCEPT !.ack = a] ELSE worker[v]
      BY <1>0, <1>8
    <3> QED
      BY <1>0, <3>1 DEF Workers
  <2>2. \A v \in Worker : T(v)' = T(v)
    BY <2>1 DEF T
  <2> HIDE DEF T
  <2> QED
    BY <1>0, <1>8, <2>1, <2>2 DEF WorkersAreTrue
<1>9. CASE OnAck
  <2> DEFINE t == Head(link.toSender).of
             w == sender.acks[t]
  <2>1. /\ worker' = IF w = None THEN worker ELSE [worker EXCEPT ![w].ack = "complete"]
        /\ UNCHANGED <<sender, hist>> /\ link.toSender # <<>> /\ Head(link.toSender).kind = "ack"
    BY <1>9 DEF OnAck, Reads
  <2>2. /\ link.toSender \in Seq(Messages) /\ link \in Links
        /\ AcksIn(link.toSender, hist.stored)
    BY AckParts DEF Types, Links
  <2>3. Head(link.toSender) = link.toSender[1] /\ 1 \in 1..Len(link.toSender) /\ t \in Transfer
    BY <2>1, <2>2, Tailed, InboxType DEF Messages
  <2>4. t \in hist.stored
    BY <2>1, <2>2, <2>3 DEF AcksIn
  <2> HIDE DEF t
  <2>5. w \in Worker \cup {None}
    BY <1>0, <2>3 DEF Senders
  <2>6. CASE w = None
    BY <1>7, <2>1, <2>6
  <2>7. CASE w # None
    <3>1. w \in Worker /\ worker[w].at \in Asked /\ T(w) = t
      BY <1>0, <2>3, <2>5, <2>7 DEF WorkersAreTrue, Asked
    <3>2. worker[w].job # None
      BY <3>1 DEF Occupied, Asked
    <3> QED
      BY <1>8, <2>1, <2>4, <2>7, <3>1, <3>2
  <2> QED
    BY <2>6, <2>7
<1>10. CASE OnError
  <2>1. Head(link.toSender).of \in Transfer
    BY <1>10, InboxType DEF OnError, Reads, Types, Messages
  <2>2. sender.acks[Head(link.toSender).of] \in Worker \cup {None}
    BY <1>0, <2>1 DEF Senders
  <2> QED
    BY <1>7, <1>8, <1>10, <2>2 DEF OnError
<1>11. CASE \/ \E j \in Job : Timers(j)
            \/ OnRequest \/ OnAnswer \/ OnResume \/ SubmitResumed \/ Ignores \/ Forget
            \/ StopQueue \/ Drain
  <2>1. UNCHANGED <<worker, hist>>
    BY <1>11 DEF Timers, TimerFires, Requeue, OnRequest, OnAnswer, OnResume, SubmitResumed, Ignores,
                 Forget, StopQueue, Drain, others
  <2>2. sender'.acks = sender.acks
    BY <1>0, <1>11
    DEF Timers, TimerFires, Requeue, OnRequest, OnAnswer, OnResume, SubmitResumed, Ignores, Forget,
        StopQueue, Drain, others, Senders
  <2> QED
    BY <1>7, <2>1, <2>2
<1>12. CASE CloseManager
  <2>1. /\ \A t \in Transfer : sender'.acks[t] = None
        /\ UNCHANGED hist
        /\ \A v \in Worker : worker'[v] \in {worker[v], [worker[v] EXCEPT !.ack = "cancelled"]}
    BY <1>0, <1>12 DEF CloseManager, Senders
  <2>2. \A v \in Worker : /\ worker'[v].job = worker[v].job
                          /\ worker'[v].ack \in {worker[v].ack, "cancelled"}
    BY <1>0, <2>1 DEF Workers
  <2>3. \A v \in Worker : T(v)' = T(v)
    BY <2>2 DEF T
  <2> HIDE DEF T
  <2> QED
    BY <1>0, <2>1, <2>2, <2>3, LegacyAssumption DEF WorkersAreTrue
<1> QED
  BY <1>1, <1>3, <1>4, <1>5, <1>6, <1>9, <1>10, <1>11, <1>12 DEF Works, SourceHandles, Stops

(* Every answer stays true, and what is confirmed is stored.                  *)
LEMMA AcksStay ==
  ASSUME Types, Occupied, AcksAreTrue, ConfirmedIsStored, Next
  PROVE  AcksAreTrue' /\ ConfirmedIsStored'
<1>0. /\ link \in Links /\ hist \in Histories /\ link.toSender \in Seq(Messages)
      /\ ReceiptsAreTrue /\ AcksIn(link.toSender, hist.stored) /\ WorkersAreTrue
      /\ worker \in [Worker -> Workers]
  BY AckParts DEF Types, Links
<1>1. CASE ReceiverHandles \/ Deletes \/ Drop \/ Redial \/ Restart
             \/ \E t \in Transfer : RequestItem(t)
  <2>1. /\ ReceiptsAreTrue' /\ AcksIn(link'.toSender, hist'.stored)
        /\ hist'.confirmed = hist.confirmed /\ hist.stored \subseteq hist'.stored
        /\ UNCHANGED theirs
    BY <1>1, ReceiverAnswers, ReceiverTypes
  <2>2. WorkersAreTrue'
    BY <1>0, <2>1 DEF theirs, WorkersAreTrue, T
  <2> QED
    BY <2>1, <2>2, AckParts DEF ConfirmedIsStored
<1>2. CASE \/ \E w \in Worker : Works(w)
           \/ \E j \in Job : Timers(j)
           \/ SourceHandles \/ Forget \/ Stops
  <2>1. WorkersAreTrue' /\ hist'.stored = hist.stored
    BY <1>2, SourceBelieves
  <2>2. UNCHANGED receiver
    BY <1>2
    DEF Works, Take, Admit, CheckStatus, MarkRunning, Returned, Raised, MarkRetry, ScheduleRetry,
        ArmTimer, Leave, Exit, Begin, Answered, PreflightTimeout, SendStart, SendChunk, Abort,
        FinishUnconfirmed, AwaitAck, SendComplete, Waited, Settle, books, others, Timers, TimerFires,
        Requeue, SourceHandles, OnRequest, OnAnswer, OnResume, SubmitResumed, OnAck, OnError,
        Ignores, Forget, Stops, CloseManager, StopQueue, Drain
  <2>3. AcksIn(link'.toSender, hist'.stored)
    <3>1. \A m : ToReceiver(m) => link'.toSender = link.toSender
      BY <1>0 DEF ToReceiver, Links
    <3>2. \/ link'.toSender = link.toSender
          \/ link.toSender # <<>> /\ link'.toSender = Tail(link.toSender)
      <4>1. ASSUME NEW w \in Worker, Works(w)
            PROVE  link'.toSender = link.toSender
        <5>1. CASE \/ Begin(w) \/ SendStart(w) \/ Abort(w) \/ FinishUnconfirmed(w)
                   \/ SendComplete(w)
          BY <3>1, <5>1 DEF Begin, SendStart, Abort, FinishUnconfirmed, SendComplete
        <5>2. CASE SendChunk(w)
          BY <3>1, <5>2 DEF SendChunk
        <5> QED
          BY <4>1, <5>1, <5>2
          DEF Works, Take, Admit, CheckStatus, MarkRunning, Returned, Raised, MarkRetry,
              ScheduleRetry, ArmTimer, Leave, Exit, Answered, PreflightTimeout, AwaitAck, Waited,
              Settle, books, others
      <4>2. CASE SubmitResumed \/ Forget \/ Stops \/ \E j \in Job : Timers(j)
        BY <4>2 DEF SubmitResumed, Timers, TimerFires, Requeue, Forget, Stops, CloseManager,
                    StopQueue, Drain, others
      <4>3. ASSUME link.toSender # <<>>, link' = [link EXCEPT !.toSender = Tail(@)]
            PROVE  link.toSender # <<>> /\ link'.toSender = Tail(link.toSender)
        BY <1>0, <4>3 DEF Links
      <4>4. CASE OnRequest \/ OnAnswer \/ OnResume
        BY <4>3, <4>4 DEF OnRequest, OnAnswer, OnResume, Reads
      <4>5. CASE OnAck \/ OnError \/ Ignores
        BY <4>3, <4>5 DEF OnAck, OnError, Ignores, Reads
      <4> QED
        BY <1>2, <4>1, <4>2, <4>4, <4>5 DEF SourceHandles
    <3> QED
      BY <1>0, <2>1, <3>2, AcksMove
  <2>4. AcksAreTrue'
    <3>1. ReceiptsAreTrue'
      BY <1>0, <2>1, <2>2 DEF ReceiptsAreTrue
    <3> QED
      BY <2>1, <2>3, <3>1, AckParts
  <2>5. hist'.confirmed \subseteq hist.stored
    <3>1. ASSUME NEW w \in Worker, Settle(w)
          PROVE  hist'.confirmed \subseteq hist.stored
      <4>1. \/ hist' = hist
            \/ worker[w].ack = "complete" /\ hist' = [hist EXCEPT !.confirmed = @ \cup {T(w)}]
        BY <3>1 DEF Settle, Confirmed
      <4>2. worker[w].ack = "complete" => T(w) \in hist.stored
        BY <1>0 DEF WorkersAreTrue
      <4> QED
        BY <1>0, <4>1, <4>2 DEF ConfirmedIsStored, Histories
    <3>2. UNCHANGED hist \/ \E w \in Worker : Settle(w)
      BY <1>2
      DEF Works, Take, Admit, CheckStatus, MarkRunning, Returned, Raised, MarkRetry, ScheduleRetry,
          ArmTimer, Leave, Exit, Begin, Answered, PreflightTimeout, SendStart, SendChunk, Abort,
          FinishUnconfirmed, AwaitAck, SendComplete, Waited, books, others, Timers, TimerFires,
          Requeue, SourceHandles, OnRequest, OnAnswer, OnResume, SubmitResumed, OnAck, OnError,
          Ignores, Forget, Stops, CloseManager, StopQueue, Drain
    <3> QED
      BY <3>1, <3>2 DEF ConfirmedIsStored
  <2> QED
    BY <2>1, <2>4, <2>5 DEF ConfirmedIsStored
<1> QED
  BY <1>1, <1>2 DEF Next, Environment

----------------------------------------------------------------------------
(* Deletion                                                                  *)

(* Steps that lift no mark and let nothing new in leave the deletion alone.  *)
LEMMA Undisturbed ==
  ASSUME NothingReturns, DeletedStaysAway, hist'.gone => hist.gone,
         receiver.tombstone => receiver'.tombstone,
         receiver'.at \in {"opening", "finalizing"} =>
           \/ receiver.at \in {"opening", "finalizing"}
           \/ \E t \in Transfer : receiver.entry[t].open,
         \A t \in Transfer : receiver'.entry[t].open =>
           receiver.entry[t].open \/ receiver.at = "opening",
         receiver'.stored => receiver.stored
  PROVE  NothingReturns' /\ DeletedStaysAway'
BY DEF NothingReturns, DeletedStaysAway

(* A deleted item stays barred or nothing is on its way.                      *)
LEMMA DeletionStays ==
  ASSUME Types, Occupied, NothingReturns, DeletedStaysAway, Next
  PROVE  NothingReturns' /\ DeletedStaysAway'
<1>0. receiver \in Receivers /\ hist \in Histories /\ link \in Links
  BY DEF Types
<1>1. ASSUME UNCHANGED receiver, hist'.gone = hist.gone
      PROVE  NothingReturns' /\ DeletedStaysAway'
  BY <1>1 DEF NothingReturns, DeletedStaysAway
<1>2. CASE OnStart
  BY <1>0, <1>2 DEF OnStart, NothingReturns, DeletedStaysAway, Histories
<1>3. CASE Open
  <2> DEFINE t == receiver.transfer
             done == [receiver EXCEPT !.at = "idle", !.transfer = None]
  <2>1. /\ \/ receiver' = done
           \/ receiver' = [done EXCEPT !.entry[t] = [NoEntry EXCEPT !.open = TRUE],
                                       !.known = @ \cup {t}]
        /\ receiver.at = "opening" /\ UNCHANGED hist
    BY <1>3 DEF Open
  <2>2. /\ receiver'.tombstone = receiver.tombstone /\ receiver'.stored = receiver.stored
        /\ receiver'.at = "idle"
    BY <1>0, <2>1 DEF Receivers
  <2> QED
    BY <2>1, <2>2, Undisturbed
<1>4. CASE OnChunk
  <2>1. /\ \/ receiver' = receiver
           \/ receiver' = [receiver EXCEPT !.entry[Inbox.of].have = @ \cup {Inbox.index}]
           \/ \E x, y : receiver' = [receiver EXCEPT !.entry[Inbox.of].retries = x,
                                                     !.entry[Inbox.of].dead = y]
        /\ UNCHANGED hist /\ receiver.at = "idle"
    <3>1. UNCHANGED hist /\ receiver.at = "idle"
      BY <1>4 DEF OnChunk, Handles
    <3> QED
      BY <1>4, <3>1 DEF OnChunk
  <2>2. /\ receiver'.tombstone = receiver.tombstone /\ receiver'.stored = receiver.stored
        /\ receiver'.at = receiver.at
    BY <1>0, <2>1 DEF Receivers
  <2>3. \A t \in Transfer : receiver'.entry[t].open = receiver.entry[t].open
    <3>1. receiver.entry \in [Transfer -> Entries]
      BY <1>0 DEF Receivers
    <3>2. ASSUME NEW x, NEW y,
                 receiver' = [receiver EXCEPT !.entry[Inbox.of].retries = x,
                                              !.entry[Inbox.of].dead = y]
          PROVE  \A t \in Transfer : receiver'.entry[t].open = receiver.entry[t].open
      <4>1. \A r : [receiver EXCEPT !.entry = r].entry = r
        BY <1>0 DEF Receivers
      <4>2. receiver'.entry = [receiver.entry EXCEPT ![Inbox.of].retries = x, ![Inbox.of].dead = y]
        BY <1>0, <3>2, <4>1 DEF Receivers
      <4> QED
        BY <3>1, <4>2 DEF Entries
    <3>3. ASSUME NEW x, receiver' = [receiver EXCEPT !.entry[Inbox.of].have = x]
          PROVE  \A t \in Transfer : receiver'.entry[t].open = receiver.entry[t].open
      <4>1. receiver'.entry = [receiver.entry EXCEPT ![Inbox.of].have = x]
        BY <1>0, <3>3 DEF Receivers
      <4> QED
        BY <3>1, <4>1 DEF Entries
    <3> QED
      BY <2>1, <3>2, <3>3
  <2> QED
    BY <2>1, <2>2, <2>3, Undisturbed
<1>5. CASE OnComplete
  <2>1. /\ \/ receiver' = receiver
           \/ /\ receiver' = [receiver EXCEPT !.entry[Inbox.of].finalizing = TRUE,
                                              !.at = "finalizing", !.transfer = Inbox.of]
              /\ receiver.entry[Inbox.of].open
        /\ UNCHANGED hist /\ receiver.at = "idle" /\ Inbox.of \in Transfer
    <3>1. Inbox.of \in Transfer
      BY <1>0, <1>5, InboxType DEF OnComplete, Handles, Messages
    <3> QED
      BY <1>5, <3>1 DEF OnComplete, Handles, Entry
  <2>2. receiver'.tombstone = receiver.tombstone /\ receiver'.stored = receiver.stored
    BY <1>0, <2>1 DEF Receivers
  <2>3. \A t \in Transfer : receiver'.entry[t].open = receiver.entry[t].open
    <3>1. receiver.entry \in [Transfer -> Entries]
      BY <1>0 DEF Receivers
    <3>2. \/ receiver'.entry = receiver.entry
          \/ receiver'.entry = [receiver.entry EXCEPT ![Inbox.of].finalizing = TRUE]
      BY <1>0, <2>1 DEF Receivers
    <3> QED
      BY <3>1, <3>2 DEF Entries
  <2> QED
    BY <2>1, <2>2, <2>3, Undisturbed
<1>6. CASE Commit
  <2> DEFINE t == receiver.transfer
             closed == [receiver EXCEPT !.entry[t] = NoEntry, !.at = "idle", !.transfer = None]
  <2>1. t \in Transfer /\ receiver.at = "finalizing"
    BY <1>0, <1>6 DEF Commit, Occupied, Receivers
  <2>2. /\ closed \in Receivers /\ closed.at = "idle" /\ closed.tombstone = receiver.tombstone
        /\ closed.stored = receiver.stored /\ NoEntry.open = FALSE
        /\ closed.entry = [receiver.entry EXCEPT ![t] = NoEntry]
    BY <1>0, <2>1, NoEntryType DEF NoEntryTyped, Receivers, NoEntry
  <2>3. \A u \in Transfer : closed.entry[u].open => receiver.entry[u].open
    BY <1>0, <2>1, <2>2 DEF Receivers
  <2>4. \/ receiver' = closed /\ UNCHANGED hist
        \/ /\ ~receiver.tombstone
           /\ receiver' = [closed EXCEPT !.stored = TRUE, !.receipts = @ \cup {t},
                                         !.at = "acking", !.transfer = t]
           /\ hist' = [hist EXCEPT !.stored = @ \cup {t}]
    BY <1>6 DEF Commit, CommitAllowed
  <2> HIDE DEF t, closed
  <2>5. CASE receiver' = closed /\ UNCHANGED hist
    BY <2>2, <2>3, <2>5, Undisturbed
  <2>6. CASE /\ ~receiver.tombstone
             /\ hist' = [hist EXCEPT !.stored = @ \cup {t}]
    <3>1. ~hist.gone
      BY <2>1, <2>6 DEF NothingReturns
    <3> QED
      BY <1>0, <2>6, <3>1 DEF NothingReturns, DeletedStaysAway, Histories
  <2> QED
    BY <2>4, <2>5, <2>6
<1>7. CASE Acknowledge
  <2>1. /\ receiver'.tombstone = receiver.tombstone /\ receiver'.stored = receiver.stored
        /\ receiver'.at = "idle" /\ receiver'.entry = receiver.entry /\ UNCHANGED hist
    BY <1>0, <1>7 DEF Acknowledge, Receivers
  <2> QED
    BY <2>1, Undisturbed
<1>8. CASE OnSenderError
  <2>1. /\ receiver' = receiver \/ receiver' = [receiver EXCEPT !.entry[Inbox.of] = NoEntry]
        /\ UNCHANGED hist
    BY <1>8 DEF OnSenderError
  <2>2. /\ receiver'.tombstone = receiver.tombstone /\ receiver'.stored = receiver.stored
        /\ receiver'.at = receiver.at
    BY <1>0, <2>1 DEF Receivers
  <2>3. \A t \in Transfer : receiver'.entry[t] \in {receiver.entry[t], NoEntry}
    BY <1>0, <2>1 DEF Receivers
  <2>4. NoEntry.open = FALSE
    BY DEF NoEntry
  <2> QED
    BY <2>1, <2>2, <2>3, <2>4, Undisturbed
<1>9. CASE MarkDeleted
  <2>1. /\ receiver'.tombstone /\ receiver'.stored = receiver.stored
        /\ receiver'.at = receiver.at /\ receiver'.entry = receiver.entry /\ UNCHANGED hist
    BY <1>0, <1>9 DEF MarkDeleted, Receivers
  <2> QED
    BY <2>1, Undisturbed
<1>10. CASE RemoveTransfers
  <2> DEFINE entries == [t \in Transfer |->
               IF t \notin receiver.known \/ ~receiver.entry[t].open THEN receiver.entry[t]
               ELSE IF receiver.entry[t].finalizing THEN [receiver.entry[t] EXCEPT !.cancelled = TRUE]
               ELSE NoEntry]
  <2>1. receiver' = [receiver EXCEPT !.deleting = "store", !.known = {}, !.entry = entries]
          /\ UNCHANGED hist
    BY <1>10 DEF RemoveTransfers
  <2>2. \A t \in Transfer : [receiver.entry[t] EXCEPT !.cancelled = TRUE].open = receiver.entry[t].open
    BY <1>0 DEF Receivers, Entries
  <2>3. \A t \in Transfer : entries[t].open => receiver.entry[t].open
    BY <2>2 DEF NoEntry
  <2> HIDE DEF entries
  <2>4. /\ receiver'.tombstone = receiver.tombstone /\ receiver'.stored = receiver.stored
        /\ receiver'.at = receiver.at /\ receiver'.entry = entries
    BY <1>0, <2>1 DEF Receivers
  <2> QED
    BY <2>1, <2>3, <2>4, Undisturbed
<1>11. CASE DeleteFromStore
  BY <1>0, <1>11 DEF DeleteFromStore, NothingReturns, DeletedStaysAway, Receivers, Histories
<1>12. CASE Restart
  <2>1. receiver'.stored = receiver.stored /\ receiver'.at = "idle" /\ UNCHANGED hist
    BY <1>0, <1>12 DEF Restart, Receivers
  <2>2. \A t \in Transfer : receiver'.entry[t].open = FALSE
    BY <1>0, <1>12 DEF Restart, Receivers, NoEntry
  <2> QED
    BY <2>1, <2>2 DEF NothingReturns, DeletedStaysAway
<1>13. CASE OnPreflight \/ Drop \/ Redial \/ \E t \in Transfer : RequestItem(t)
  BY <1>1, <1>13 DEF OnPreflight, Drop, Redial, RequestItem
<1>14. CASE \/ \E w \in Worker : Works(w)
            \/ \E j \in Job : Timers(j)
            \/ SourceHandles \/ Forget \/ Stops
  <2>1. UNCHANGED receiver /\ (UNCHANGED hist \/ \E c : hist' = [hist EXCEPT !.confirmed = c])
    BY <1>14
    DEF Works, Take, Admit, CheckStatus, MarkRunning, Returned, Raised, MarkRetry, ScheduleRetry,
        ArmTimer, Leave, Exit, Begin, Answered, PreflightTimeout, SendStart, SendChunk, Abort,
        FinishUnconfirmed, AwaitAck, SendComplete, Waited, Settle, books, others, Timers, TimerFires,
        Requeue, SourceHandles, OnRequest, OnAnswer, OnResume, SubmitResumed, OnAck, OnError,
        Ignores, Forget, Stops, CloseManager, StopQueue, Drain
  <2>2. UNCHANGED receiver /\ hist'.gone = hist.gone
    BY <1>0, <2>1 DEF Histories
  <2> QED
    BY <1>1, <2>2
<1> QED
  BY <1>2, <1>3, <1>4, <1>5, <1>6, <1>7, <1>8, <1>9, <1>10, <1>11, <1>12, <1>13, <1>14
  DEF Next, ReceiverHandles, Deletes, Environment

----------------------------------------------------------------------------
(* The invariant                                                             *)

(* Before the first job the invariant holds.                                 *)
LEMMA InitHolds == Init => LegacyInv
<1> SUFFICES ASSUME Init
             PROVE  LegacyInv
  OBVIOUS
<1>1. Types
  <2>1. job \in [Job -> JobStates]
    BY LegacyAssumption DEF Init, NoJob, JobStates, Statuses, Positions
  <2>2. queue \in Queues
    BY EmptySeq DEF Init, Queues
  <2>3. worker \in [Worker -> Workers]
    BY IdleType DEF Init, Idle
  <2>4. sender \in Senders
    BY DEF Init, Senders
  <2>5. receiver \in Receivers
    BY NoEntryType DEF Init, Receivers, NoEntryTyped
  <2>6. link \in Links /\ hist \in Histories
    BY EmptySeq DEF Init, Links, Histories
  <2> QED
    BY <2>1, <2>2, <2>3, <2>4, <2>5, <2>6 DEF Types
<1>2. Occupied /\ JobNumbers /\ NothingPends /\ JobsAreHeld
  BY DEF Init, Occupied, JobNumbers, NothingPends, JobsAreHeld, IdleWorker
<1>3. AcksAreTrue
  BY LegacyAssumption DEF Init, AcksAreTrue, IdleWorker
<1>4. ConfirmedIsStored /\ NothingReturns /\ DeletedStaysAway
  BY DEF Init, ConfirmedIsStored, NothingReturns, DeletedStaysAway
<1> QED
  BY <1>1, <1>2, <1>3, <1>4 DEF LegacyInv, Held

(* Nothing in the invariant depends on the budget.                            *)
LEMMA StutterHolds == LegacyInv /\ UNCHANGED vars => LegacyInv'
BY DEF LegacyInv, Held, Types, Occupied, JobNumbers, NothingPends, JobsAreHeld, AcksAreTrue,
       ConfirmedIsStored, NothingReturns, DeletedStaysAway, vars, T

(* The books of the chunked transfer are right in every reachable state.      *)
THEOREM LegacyInvariant == Spec => []LegacyInv
<1>1. LegacyInv /\ [Next]_vars => LegacyInv'
  BY StutterHolds, HeldStays, AcksStay, DeletionStays DEF LegacyInv, Held
<1> QED
  BY <1>1, InitHolds, PTL DEF Spec

(* An id that the send queue gave to a job is given back: as long as it is    *)
(* taken, its job waits in the queue, is at work, will be tried again or is    *)
(* on its way out (submit, _worker, _requeue, cancel and shutdown).            *)
THEOREM TakenIdsAreHeld == Spec => []JobsAreHeld
<1>1. LegacyInv => JobsAreHeld
  BY DEF LegacyInv, Held
<1> QED
  BY <1>1, LegacyInvariant, PTL

(* A source that reports a transfer as confirmed was told of its commit:      *)
(* lost, late and repeated answers, resumes, restarts and deletions of the    *)
(* receiver do not make it report one that was never committed.                *)
THEOREM ConfirmationsAreTrue == Spec => []ConfirmedIsStored
<1>1. LegacyInv => ConfirmedIsStored
  BY DEF LegacyInv
<1> QED
  BY <1>1, LegacyInvariant, PTL

(* What was deleted is not brought back by a transfer that was on its way:    *)
(* only a start that came after the deletion can.                              *)
THEOREM DeletionsLast == Spec => []DeletedStaysAway
<1>1. LegacyInv => DeletedStaysAway
  BY DEF LegacyInv
<1> QED
  BY <1>1, LegacyInvariant, PTL
==============================================================================
