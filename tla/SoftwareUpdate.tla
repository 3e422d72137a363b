--------------------------- MODULE SoftwareUpdate ----------------------------
(***************************************************************************)
(* The update manager, the admission gate and the external runners in one   *)
(* system with the user, the network and the operating system around them.  *)
(***************************************************************************)
EXTENDS UpdateRunner

(* The runtime starts with its first, fresh state file.                      *)
Init ==
  /\ machine = Fresh
  /\ manager = [op |-> "none", queue |-> "none", held |-> FALSE, pending |-> FALSE]
  /\ caller = [c \in Callers |-> "none"]
  /\ worker = "none"
  /\ runtime = [up |-> FALSE, shut |-> FALSE, stop |-> FALSE]
  /\ policy \in BOOLEAN
  /\ gate = Opened
  /\ work = [input |-> "none", clip |-> "none"]
  /\ verdict = NewVerdict
  /\ program = [installed |-> 1, rollback |-> 0]
  /\ plan = NoPlan /\ acks = {} /\ outcome = NoOutcome
  /\ runner = [r \in Request |-> Idling]
  /\ left \in Budgets

Replacing(r) == runner[r].at \in {"replaced", "installed", "rollback", "restored", "restart"}

(* At log-on, or by hand; nobody starts it while its files are replaced.     *)
UserStart ==
  /\ ~runtime.up /\ program.installed # 0
  /\ \A r \in Request : ~Replacing(r)
  /\ Started
  /\ UNCHANGED <<manager, caller, worker, gateVars, policy, runnerVars, left>>

(* The setup of a newer version, run by the user.                            *)
ManualUpgrade ==
  /\ ~runtime.up /\ left["upgrade"] > 0
  /\ \A r \in Request : runner[r].at \in {"none", "launched", "done"}
  /\ program' \in {[program EXCEPT !.installed = v] : v \in (program.installed + 1)..Newest}
  /\ left' = [left EXCEPT !["upgrade"] = @ - 1]
  /\ UNCHANGED <<managerVars, gateVars, runtime, policy, plan, acks, outcome, runner>>

CallerStep(c) == DownloadDecide(c) \/ DownloadAdmit(c) \/ InstallReserve(c) \/ InstallDecide(c)
ReadStep == ReadActivity \/ ReadAdmissions \/ ReadClipboard
WorkerStep ==
  \/ RunCheck \/ CheckAnswers \/ RunDownload \/ DownloadEnds
  \/ RunInstall \/ WaitForIdle \/ WaitDecide \/ Handoff
  \/ AckArrives \/ AckTimeout \/ ShutdownCallback \/ WorkerEnds
ProcessStep == StopManager \/ Exit

Next ==
  \/ WorkerStep \/ ReadStep \/ ProcessStep \/ HandoffRefused
  \/ CheckForUpdates
  \/ \E c \in Callers : CallerStep(c) \/ DownloadUpdate(c) \/ InstallUpdate(c)
  \/ \E r \in Request : RunnerStep(r) \/ RunnerFails(r) \/ BackupFails(r)
  \/ BeginWork \/ WorkTakesEffect \/ EndAdmission \/ StopActivity
  \/ BeginClipboard \/ EndClipboard
  \/ RequestShutdown \/ Crash \/ SetPolicy \/ UserStart \/ ManualUpgrade

Spec == Init /\ [][Next]_vars

(* The worker runs, a call that was made returns, the process ends and the   *)
(* runner runs: a runner takes finitely many steps, so one condition serves  *)
(* both.  The user's activity need not end.                                  *)
FairSpec ==
  /\ Spec
  /\ WF_vars(WorkerStep \/ ReadStep)
  /\ WF_vars(\E c \in Callers : CallerStep(c))
  /\ WF_vars(ProcessStep \/ \E r \in Request : RunnerStep(r))

------------------------------------------------------------------------------
(* The gate and the clipboard are closed for an installation that is being   *)
(* prepared, waits or is handed over, or for a runtime that is shutting      *)
(* down, and for nothing else: no path of install_update or its worker       *)
(* keeps the runtime locked (update_manager.py:331-600).                     *)
ReservationHasOwner ==
  gate # Opened =>
    /\ runtime.up /\ gate = Reserved
    /\ manager.op \in {"install_prepare", "install"} \/ runtime.shut

(* A state that says an operation is under way has an operation: whatever    *)
(* the calls of two threads do to the machine between each other's looks,    *)
(* the user is never left with a state nobody will end (update_manager.py    *)
(* 282-302, 395-426).                                                        *)
BusyStateIsOwned ==
  runtime.up /\ manager.op = "none" /\ ~runtime.shut =>
    machine.state \notin {"checking", "downloading", "waiting_for_idle", "install_handoff"}

(* What the runner records is what it leaves: success means that the new     *)
(* version is installed and runs, anything else that the version it updates  *)
(* from is in place (update_flowshift.ps1:426-482).                          *)
ResultTruthful ==
  [][\A r \in Request : outcome'.req = r /\ outcome' # outcome =>
       program'.installed = IF outcome'.status = "success" THEN runner[r].plan.to
                            ELSE runner[r].plan.from]_vars

(* The installed program is only replaced as ProgramReplacement says.        *)
Moving(r) == runner[r].at \in {"replaced", "installed", "rollback"}
Replacement == INSTANCE ProgramReplacement WITH
  running <- runtime.up,
  version <- IF \E r \in Request : Moving(r) \/ At(r, "health")
             THEN program.rollback ELSE program.installed,
  phase <- IF \E r \in Request : At(r, "health") THEN "trial"
           ELSE IF \E r \in Request : Moving(r) THEN "replacing" ELSE "settled"
ImplementsReplacement == Replacement!Spec

(* Every runner comes to an end; a reservation is given back or waits; and   *)
(* once the runtime is idle a waiting installation goes on or is given up    *)
(* (only the user's own activity may keep it waiting).                       *)
Waiting == machine.state = "waiting_for_idle" /\ runtime.up
NoWork == work.input = "none" /\ work.clip = "none"
RunnerEnds == \A r \in Request : runner[r].at \notin {"none", "done"} ~> At(r, "done")
ReservationEnds == manager.held /\ ~Waiting ~> ~manager.held \/ Waiting
WaitingEnds == Waiting /\ NoWork ~> ~Waiting
UpdateSettles == RunnerEnds /\ ReservationEnds /\ WaitingEnds

------------------------------------------------------------------------------
(* docs/install_test_checklist.md:146-147: forwarding that is active keeps   *)
(* the installation waiting and is not terminated by it.                     *)
ActivityKeepsWaiting ==
  machine.state \in {"install_handoff", "installing"} /\ runtime.up => work.input = "none"

==============================================================================
