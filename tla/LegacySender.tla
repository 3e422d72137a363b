---------------------------- MODULE LegacySender -----------------------------
(***************************************************************************)
(* The source of a chunked transfer: _send_transfer on a queue worker and   *)
(* the handlers of the peer's messages, which run on the link's thread.      *)
(* Sending raises when there is no connection.                               *)
(***************************************************************************)
EXTENDS SendQueue

J(w) == worker[w].job
T(w) == TransferOf(worker[w].job)
Steps(w, at, f) == worker[w].at = at /\ worker' = [worker EXCEPT ![w] = f]
To(w, at) == [worker[w] EXCEPT !.at = at]
FailAndGo(w, at) ==
  job' = Marked(job, J(w), "failed") /\ worker' = [worker EXCEPT ![w] = To(w, at)]
books == <<queue, receiver, left>>

(* The preflight question of this attempt (a fresh request_id each time).     *)
Request(w) == <<J(w), job[J(w)].retries>>
Forgotten(w) ==
  [sender EXCEPT !.asked = @ \ {Request(w)}, !.answers = {a \in @ : a[1] # Request(w)}]

Begin(w) ==
  /\ worker[w].at = "begin"
  /\ \/ /\ ~sender.have /\ FailAndGo(w, "returned")
        /\ UNCHANGED <<sender, link>>
     \/ /\ sender.have /\ J(w)[2] > 1
        /\ Steps(w, "begin", [To(w, "sending") EXCEPT !.next = job[J(w)].from])
        /\ UNCHANGED <<job, sender, link>>
     \/ /\ sender.have /\ J(w)[2] = 1 /\ link.up
        /\ sender' = [sender EXCEPT !.asked = @ \cup {Request(w)}]
        /\ ToReceiver([Msg("preflight", T(w)) EXCEPT !.request = Request(w)])
        /\ Steps(w, "begin", To(w, "asking")) /\ UNCHANGED job
     \/ /\ sender.have /\ J(w)[2] = 1 /\ ~link.up /\ FailAndGo(w, "aborting")
        /\ UNCHANGED <<sender, link>>
  /\ UNCHANGED <<books, hist>>

Answered(w) ==
  /\ worker[w].at = "asking"
  /\ sender' = Forgotten(w)
  /\ \/ /\ <<Request(w), TRUE>> \in sender.answers
        /\ Steps(w, "asking", To(w, "starting")) /\ UNCHANGED job
     \/ <<Request(w), FALSE>> \in sender.answers /\ FailAndGo(w, "aborting")
  /\ UNCHANGED <<books, link, hist>>
PreflightTimeout(w) ==
  /\ worker[w].at = "asking" /\ \A a \in sender.answers : a[1] # Request(w)
  /\ sender' = Forgotten(w) /\ FailAndGo(w, "aborting")
  /\ UNCHANGED <<books, link, hist>>

SendStart(w) ==
  /\ worker[w].at = "starting"
  /\ \/ /\ link.up /\ ToReceiver(Msg("start", T(w)))
        /\ Steps(w, "starting", To(w, "sending")) /\ UNCHANGED job
     \/ ~link.up /\ FailAndGo(w, "aborting") /\ UNCHANGED link
  /\ UNCHANGED <<books, sender, hist>>

SendChunk(w) ==
  /\ worker[w].at = "sending" /\ worker[w].next < Chunks
  /\ \/ /\ job[J(w)].status = "cancelled"
        /\ Steps(w, "sending", To(w, "returned")) /\ UNCHANGED <<job, link, left>>
     \/ /\ job[J(w)].status # "cancelled" /\ link.up
        /\ \E ok \in BOOLEAN :
             /\ IF ok THEN UNCHANGED left ELSE Spend("corrupt")
             /\ ToReceiver([Msg("chunk", T(w)) EXCEPT !.index = worker[w].next, !.ok = ok])
        /\ Steps(w, "sending", [worker[w] EXCEPT !.next = @ + 1]) /\ UNCHANGED job
     \/ /\ job[J(w)].status # "cancelled" /\ ~link.up
        /\ FailAndGo(w, "aborting") /\ UNCHANGED <<link, left>>
  /\ UNCHANGED <<queue, sender, receiver, hist>>

(* The except clause reports the error to the peer; when that raises as well, *)
(* the exception leaves _send_transfer and the queue tries again.             *)
Abort(w) ==
  /\ worker[w].at = "aborting"
  /\ \/ /\ link.up /\ ToReceiver(Msg("error", T(w)))
        /\ Steps(w, "aborting", To(w, "returned"))
     \/ ~link.up /\ UNCHANGED link /\ Steps(w, "aborting", To(w, "raised"))
  /\ UNCHANGED <<books, job, sender, hist>>

Sent(w) == worker[w].at = "sending" /\ worker[w].next >= Chunks

(* No final ack was asked for: completion is sent, and that is all.           *)
FinishUnconfirmed(w) ==
  /\ Sent(w) /\ ~job[J(w)].final
  /\ \/ /\ sender.closing /\ job' = Marked(job, J(w), "cancelled")
        /\ Steps(w, "sending", To(w, "returned")) /\ UNCHANGED link
     \/ /\ ~sender.closing /\ link.up /\ ToReceiver(Msg("complete", T(w)))
        /\ job' = IF job[J(w)].status = "failed" THEN job ELSE Marked(job, J(w), "completed")
        /\ Steps(w, "sending", To(w, "returned"))
     \/ ~sender.closing /\ ~link.up /\ FailAndGo(w, "aborting") /\ UNCHANGED link
  /\ UNCHANGED <<books, sender, hist>>

AwaitAck(w) ==
  /\ Sent(w) /\ job[J(w)].final
  /\ \/ /\ sender.closing /\ job' = Marked(job, J(w), "cancelled")
        /\ Steps(w, "sending", To(w, "returned")) /\ UNCHANGED sender
     \/ /\ ~sender.closing /\ job' = Marked(job, J(w), "awaiting_ack")
        /\ sender' = [sender EXCEPT !.acks[T(w)] = w]
        /\ Steps(w, "sending", [To(w, "completing") EXCEPT !.ack = "none"])
  /\ UNCHANGED <<books, link, hist>>
SendComplete(w) ==
  /\ worker[w].at = "completing"
  /\ \/ /\ job[J(w)].status \in {"failed", "cancelled"}
        /\ Steps(w, "completing", To(w, "settling")) /\ UNCHANGED <<job, link>>
     \/ /\ job[J(w)].status \notin {"failed", "cancelled"} /\ sender.closing
        /\ job' = Marked(job, J(w), "cancelled")
        /\ Steps(w, "completing", To(w, "settling")) /\ UNCHANGED link
     \/ /\ job[J(w)].status \notin {"failed", "cancelled"} /\ ~sender.closing
        /\ IF link.up THEN ToReceiver(Msg("complete", T(w))) ELSE UNCHANGED link
        /\ Steps(w, "completing", [To(w, "waiting") EXCEPT !.sends = @ + 1]) /\ UNCHANGED job
  /\ UNCHANGED <<books, sender, hist>>
(* The answer is there, the interval or the deadline has passed.              *)
Waited(w) ==
  /\ \/ Steps(w, "waiting", To(w, "settling"))
     \/ worker[w].sends < MaxSends /\ worker[w].ack = "none" /\ Steps(w, "waiting", To(w, "completing"))
  /\ UNCHANGED <<books, job, sender, link, hist>>
(* (mutant: the deadline counts as success)                                   *)
ConfirmedUnless(w) == worker[w].ack # "failed" /\ job[J(w)].status \notin {"failed", "cancelled"}
Confirmed(w) == worker[w].ack = "complete" /\ job[J(w)].status \notin {"failed", "cancelled"}
Settle(w) ==
  /\ Steps(w, "settling", To(w, "returned"))
  /\ sender' = IF sender.acks[T(w)] = w THEN [sender EXCEPT !.acks[T(w)] = None] ELSE sender
  /\ job' = IF Confirmed(w) THEN Marked(job, J(w), "completed")
            ELSE IF job[J(w)].status \in {"failed", "cancelled"} THEN job
                 ELSE Marked(job, J(w), "failed")
  /\ hist' = IF Confirmed(w) THEN [hist EXCEPT !.confirmed = @ \cup {T(w)}] ELSE hist
  /\ UNCHANGED <<books, link>>

(* --- the link's thread ---------------------------------------------------- *)
(* Nothing is read while a resumed job waits for its place in the queue, and  *)
(* nothing is handled once the manager shuts down.                            *)
Reads(kind) ==
  /\ link.toSender # <<>> /\ Head(link.toSender).kind = kind
  /\ sender.resuming = None /\ ~sender.closing
  /\ link' = [link EXCEPT !.toSender = Tail(@)]
Ignores ==
  /\ link.toSender # <<>> /\ sender.closing
  /\ link' = [link EXCEPT !.toSender = Tail(@)]
  /\ UNCHANGED <<job, queue, worker, sender, receiver, hist, left>>

(* _queue_send_item of a fresh job: submit without waiting.                   *)
OnRequest ==
  /\ Reads("request")
  /\ LET t == Head(link.toSender).of
         j == <<t, 1>>
         new == [NoJob EXCEPT !.status = IF CanSubmit(queue, t) THEN "pending" ELSE "failed",
                              !.final = Head(link.toSender).ok]
     IN  IF ~sender.have THEN UNCHANGED <<job, queue, sender>>
         ELSE /\ job' = [job EXCEPT ![j] = new]
              /\ queue' = IF CanSubmit(queue, t) THEN Enqueued(queue, j) ELSE queue
              /\ sender' = [sender EXCEPT !.jobs[t] = j, !.latest = t]
  /\ UNCHANGED <<worker, receiver, hist, left>>

OnAnswer ==
  /\ Reads("answer")
  /\ LET m == Head(link.toSender)
     IN  sender' = IF m.request \in sender.asked
                   THEN [sender EXCEPT !.answers = @ \cup {<<m.request, m.ok>>}] ELSE sender
  /\ UNCHANGED <<job, queue, worker, receiver, hist, left>>

(* The old attempt is cancelled in the queue and a new job object takes over  *)
(* its transfer_id and retry count.                                            *)
OnResume ==
  /\ Reads("resume")
  /\ LET t == Head(link.toSender).of
         old == sender.jobs[t]
         js == RetryMarked(job, old)
         new == <<t, old[2] + 1>>
     IN  IF sender.latest # t \/ old = None THEN UNCHANGED <<job, queue, sender>>
         ELSE IF ~ShouldRetry(js, old)
         THEN job' = Marked(js, old, "failed") /\ UNCHANGED <<queue, sender>>
         ELSE IF ~sender.have
         THEN job' = Cancelled(js, queue, {t}) /\ queue' = Dropped(queue, {t}) /\ UNCHANGED sender
         ELSE /\ job' = [Cancelled(js, queue, {t}) EXCEPT
                           ![new] = [status |-> "pending", retries |-> js[old].retries,
                                     from |-> Head(link.toSender).index, final |-> job[old].final]]
              /\ queue' = Dropped(queue, {t})
              /\ sender' = [sender EXCEPT !.jobs[t] = new, !.resuming = new]
  /\ UNCHANGED <<worker, receiver, hist, left>>

(* submit(block=True, timeout=1.0) waits for the cancelled predecessor.        *)
SubmitResumed ==
  /\ sender.resuming # None
  /\ LET j == sender.resuming
         t == TransferOf(j)
     IN  \/ CanSubmit(queue, t) /\ queue' = Enqueued(queue, j) /\ UNCHANGED job
         \/ job' = Marked(job, j, "failed") /\ UNCHANGED queue
  /\ sender' = [sender EXCEPT !.resuming = None]
  /\ UNCHANGED <<worker, receiver, link, hist, left>>

OnAck ==
  /\ Reads("ack")
  /\ LET w == sender.acks[Head(link.toSender).of]
     IN  worker' = IF w = None THEN worker ELSE [worker EXCEPT ![w].ack = "complete"]
  /\ UNCHANGED <<job, queue, sender, receiver, hist, left>>

OnError ==
  /\ Reads("error")
  /\ LET t == Head(link.toSender).of
         j == sender.jobs[t]
         w == sender.acks[t]
     IN  /\ job' = IF j = None THEN job ELSE Marked(job, j, "failed")
         /\ worker' = IF j = None \/ w = None THEN worker ELSE [worker EXCEPT ![w].ack = "failed"]
  /\ UNCHANGED <<queue, sender, receiver, hist, left>>

(* The user removes the item at the source.                                   *)
Forget ==
  /\ sender.have /\ Spend("forget")
  /\ LET ts == {t \in Transfer : sender.jobs[t] # None}
     IN  job' = Cancelled(job, queue, ts) /\ queue' = Dropped(queue, ts)
  /\ sender' = [sender EXCEPT !.have = FALSE, !.latest = None, !.jobs = [t \in Transfer |-> None]]
  /\ UNCHANGED <<worker, receiver, link, hist>>
==============================================================================
