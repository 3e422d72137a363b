--------------------------- MODULE LegacyTransfer ----------------------------
(***************************************************************************)
(* The chunked transfer as a whole, and what must hold of it.               *)
(***************************************************************************)
EXTENDS LegacyReceiver

Works(w) ==
  \/ Take(w) \/ Admit(w) \/ CheckStatus(w) \/ MarkRunning(w) \/ Returned(w) \/ Raised(w)
  \/ MarkRetry(w) \/ ScheduleRetry(w) \/ ArmTimer(w) \/ Leave(w) \/ Exit(w)
  \/ Begin(w) \/ Answered(w) \/ PreflightTimeout(w) \/ SendStart(w) \/ SendChunk(w) \/ Abort(w)
  \/ FinishUnconfirmed(w) \/ AwaitAck(w) \/ SendComplete(w) \/ Waited(w) \/ Settle(w)
Timers(j) == TimerFires(j) \/ Requeue(j)
SourceHandles ==
  OnRequest \/ OnAnswer \/ OnResume \/ SubmitResumed \/ OnAck \/ OnError \/ Ignores
ReceiverHandles ==
  \/ OnPreflight \/ OnStart \/ Open \/ OnChunk \/ OnComplete \/ Commit \/ Acknowledge
  \/ OnSenderError
Deletes == MarkDeleted \/ RemoveTransfers \/ DeleteFromStore
Stops == CloseManager \/ StopQueue \/ Drain
Environment == Drop \/ Redial \/ Restart \/ Forget \/ \E t \in Transfer : RequestItem(t)

Next ==
  \/ \E w \in Worker : Works(w)
  \/ \E j \in Job : Timers(j)
  \/ SourceHandles \/ ReceiverHandles \/ Deletes \/ Stops \/ Environment
Spec == Init /\ [][Next]_vars

(* The workers, the timers and the link's thread of the source go on.         *)
Fairness ==
  /\ \A w \in Worker : WF_vars(Works(w))
  /\ \A j \in Job : WF_vars(Timers(j))
  /\ WF_vars(SourceHandles) /\ WF_vars(StopQueue \/ Drain)
FairSpec == Spec /\ Fairness

-----------------------------------------------------------------------------

(* An id the queue has given to a job is given back: as long as it is taken,  *)
(* the job waits in the queue, is at work or will be tried again.             *)
JobsAreHeld ==
  \A t \in Transfer : queue.registered[t] # None =>
    \/ t \in queue.queued \cup queue.active \cup queue.pending
    \/ \E w \in Worker : worker[w].at = "leaving" /\ T(w) = t

(* A sender that was told of the commit reports only what was committed.      *)
ConfirmedIsStored == hist.confirmed \subseteq hist.stored

(* A deleted item comes back only through a start that came after it.         *)
DeletedStaysAway == hist.gone => ~receiver.stored

(* Whatever fails, a transfer leaves the source's queue and stops to count as *)
(* work that blocks an update.                                                *)
Busy(t) ==
  \/ queue.registered[t] # None
  \/ sender.jobs[t] # None /\ job[sender.jobs[t]].status \in Blocking \cup {"awaiting_ack"}
JobsSettle == \A t \in Transfer : Busy(t) ~> ~Busy(t)

==============================================================================
