---------------------------- MODULE UpdateRunner -----------------------------
(***************************************************************************)
(* update_flowshift.ps1, the process outside the runtime: it reads the one  *)
(* fixed plan file, acknowledges it, waits for the runtime to end, moves    *)
(* the program directory aside, runs the setup, starts the new runtime and  *)
(* tests its health; or it puts everything back.  One runner per hand-off   *)
(* request.                                                                 *)
(***************************************************************************)
EXTENDS UpdateManager

runnerRest == <<managerVars, gateVars, policy>>
At(r, at) == runner[r].at = at
GoesTo(r, at) == [runner EXCEPT ![r].at = at]

(* Read-ValidatedUpdatePlan: the file may belong to a later request by now;  *)
(* the installed VERSION must be the one the plan updates from               *)
PlanValid == plan # NoPlan /\ plan.from = program.installed /\ plan.from < plan.to

(* Write-UpdateAck answers the request the plan names                        *)
RunnerStart(r) ==
  /\ At(r, "launched")
  /\ IF PlanValid
     THEN /\ acks' = acks \cup {plan.req}
          /\ runner' = [runner EXCEPT ![r].at = "waiting", ![r].plan = plan]
     ELSE runner' = GoesTo(r, "done") /\ acks' = acks
  /\ UNCHANGED <<runnerRest, program, plan, outcome, runtime, left>>

(* the plan is invalid for another reason, or the process does not come up   *)
RunnerFails(r) ==
  /\ At(r, "launched") /\ left["failure"] > 0
  /\ left' = [left EXCEPT !["failure"] = @ - 1]
  /\ runner' = GoesTo(r, "done")
  /\ UNCHANGED <<runnerRest, program, plan, acks, outcome, runtime>>

(* Write-UpdateResult, and the plan is removed                               *)
Report(r, status) ==
  /\ outcome' = [req |-> r, status |-> status, to |-> runner[r].plan.to]
  /\ plan' = NoPlan
  /\ runner' = GoesTo(r, "done")

(* (mutant: only the process that made the plan is looked at)                *)
RuntimeGoneOrStopping == ~runtime.up \/ runtime.stop
(* Wait-FlowShiftRuntimeExit                                                 *)
RuntimeGone == ~runtime.up

(* Prepare-FlowShiftRollback, after the backup of the user's JSON files: old *)
(* rollback directories go, the program directory becomes the rollback       *)
MoveAside(r) ==
  /\ At(r, "waiting") /\ RuntimeGone
  /\ runner' = [runner EXCEPT ![r].at = IF program.installed = 0 THEN "restart" ELSE "replaced",
                              ![r].backup = machine]
  /\ program' = IF program.installed = 0 THEN program
                ELSE [installed |-> 0, rollback |-> program.installed]
  /\ UNCHANGED <<runnerRest, plan, acks, outcome, runtime, left>>

(* a backup that fails leaves the old program to be restarted                *)
BackupFails(r) ==
  /\ At(r, "waiting") /\ RuntimeGone /\ left["failure"] > 0
  /\ left' = [left EXCEPT !["failure"] = @ - 1]
  /\ runner' = GoesTo(r, "restart")
  /\ UNCHANGED <<runnerRest, program, plan, acks, outcome, runtime>>

(* thirty seconds: nobody asked the runtime to end, or it takes longer       *)
ExitTimeout(r) ==
  /\ At(r, "waiting") /\ runtime.up
  /\ Report(r, "failed")
  /\ LET free == ~runtime.shut /\ worker \notin {"ack", "callback"} IN
       /\ free \/ left["late"] > 0
       /\ left' = IF free THEN left ELSE [left EXCEPT !["late"] = @ - 1]
  /\ UNCHANGED <<runnerRest, program, acks, runtime>>

(* RunInstaller; a setup that fails may leave its files                      *)
InstallerEnds(r) ==
  /\ At(r, "replaced")
  /\ \/ /\ program' = [program EXCEPT !.installed = runner[r].plan.to]
        /\ runner' = GoesTo(r, "installed") /\ left' = left
     \/ /\ left["failure"] > 0 /\ left' = [left EXCEPT !["failure"] = @ - 1]
        /\ \E v \in {0, runner[r].plan.to} : program' = [program EXCEPT !.installed = v]
        /\ runner' = GoesTo(r, "rollback")
  /\ UNCHANGED <<runnerRest, plan, acks, outcome, runtime>>

(* StartTask of an installed program; the named mutex keeps a second one out *)
StartTask(r, from, to) ==
  /\ At(r, from)
  /\ runner' = GoesTo(r, to)
  /\ IF runtime.up \/ program.installed = 0 THEN UNCHANGED <<runtime, machine>> ELSE Started
  /\ UNCHANGED <<manager, caller, worker, gateVars, policy, program, plan, acks, outcome, left>>

StartNew(r) == StartTask(r, "installed", "health")
StartOld(r) == StartTask(r, "restart", "restarted")
StartRestored(r) == StartTask(r, "restored", "old_health")

(* Test-FlowShiftHealth: the expected version runs and answers               *)
Healthy(v) == runtime.up /\ program.installed = v

HealthTest(r) ==
  /\ At(r, "health")
  /\ \/ Healthy(runner[r].plan.to) /\ Report(r, "success") /\ left' = left
     \/ /\ ~Healthy(runner[r].plan.to) /\ left' = left
        /\ runner' = GoesTo(r, "rollback") /\ UNCHANGED <<plan, outcome>>
     \/ /\ Healthy(runner[r].plan.to) /\ left["failure"] > 0
        /\ left' = [left EXCEPT !["failure"] = @ - 1]
        /\ runner' = GoesTo(r, "rollback") /\ UNCHANGED <<plan, outcome>>
  /\ UNCHANGED <<runnerRest, program, acks, runtime>>

(* Invoke-FlowShiftRollback: the task is stopped, the directory put back,    *)
(* the user's files restored, update_state.json among them                   *)
RollBack(r) ==
  /\ At(r, "rollback")
  /\ program' = [installed |-> program.rollback, rollback |-> 0]
  /\ machine' = runner[r].backup
  /\ runner' = GoesTo(r, "restored")
  /\ runtime' = [runtime EXCEPT !.up = FALSE, !.shut = FALSE, !.stop = FALSE]
  /\ Forgotten
  /\ UNCHANGED <<policy, plan, acks, outcome, left>>

RollbackHealth(r) ==
  /\ At(r, "old_health")
  /\ Report(r, IF Healthy(runner[r].plan.from) THEN "rollback_success" ELSE "rollback_failed")
  /\ UNCHANGED <<runnerRest, program, acks, runtime, left>>

(* (mutant: a runtime that answers makes it a success)                       *)
ReportRestarted(r) ==
  /\ At(r, "restarted")
  /\ Report(r, IF runtime.up THEN "success" ELSE "failed")
  /\ UNCHANGED <<runnerRest, program, acks, runtime, left>>
(* the old runtime was started again; its health only changes the message    *)
ReportFailed(r) ==
  /\ At(r, "restarted")
  /\ Report(r, "failed")
  /\ UNCHANGED <<runnerRest, program, acks, runtime, left>>

RunnerStep(r) ==
  \/ RunnerStart(r) \/ MoveAside(r) \/ ExitTimeout(r) \/ InstallerEnds(r)
  \/ StartNew(r) \/ StartOld(r) \/ StartRestored(r)
  \/ HealthTest(r) \/ RollBack(r) \/ RollbackHealth(r) \/ ReportFailed(r)
==============================================================================
