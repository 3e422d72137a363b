---------------------------- MODULE UpdateManager ----------------------------
(***************************************************************************)
(* update_manager.py: the calls of the user and of the policy thread, the   *)
(* worker thread, and the runtime process around them.  The calls are cut   *)
(* where the code gives up its lock and acts on what it has seen.           *)
(***************************************************************************)
EXTENDS MaintenanceGate

(* A call that returns without effect (already running, shutting down, not   *)
(* available) changes nothing and is not an action.                          *)
callRest == <<worker, runnerVars, runtime, policy, left>>
CallAt(c, pc) == caller' = [caller EXCEPT ![c] = pc]

Free == ~runtime.stop /\ manager.op = "none"
(* _admit                                                                    *)
Admitted(op) == [manager EXCEPT !.op = op, !.queue = op]

(* _downloaded_asset: the record matches the descriptor                      *)
AssetReady == machine.release # 0 /\ machine.asset = machine.release
(* (mutant: the flag is cleared and the callback forgotten)                  *)
GateAfterReleaseKept == gate
(* _release_reservation: open the gate if this manager holds it              *)
GateAfterRelease == IF manager.held THEN Released ELSE gate

CheckForUpdates ==
  /\ runtime.up /\ caller["user"] = "none" /\ Free
  /\ manager' = Admitted("check")
  /\ UNCHANGED <<machine, caller, gateVars, callRest>>

(* download_update, first look under the lock; the policy thread calls it    *)
(* when it sees an available update                                          *)
DownloadUpdate(c) ==
  /\ runtime.up /\ caller[c] = "none" /\ Free
  /\ c = "policy" => policy /\ machine.state = "update_available"
  /\ CallAt(c, "download")
  /\ UNCHANGED <<machine, manager, gateVars, callRest>>

(* descriptor, state and updater version, read without the lock; a refusal   *)
(* for the updater version moves the machine from the calling thread         *)
DownloadDecide(c) ==
  LET known == machine.release # 0 /\
               machine.state \in {"update_available", "error", "downloaded"}
      refused == known /\ machine.release \in Incompatible
  IN
  /\ caller[c] = "download"
  /\ machine' = IF refused THEN Failed ELSE machine
  /\ CallAt(c, IF known /\ ~refused THEN "admit" ELSE "none")
  /\ UNCHANGED <<manager, gateVars, callRest>>

DownloadAdmit(c) ==
  /\ caller[c] = "admit"
  /\ manager' = IF Free THEN Admitted("download") ELSE manager
  /\ CallAt(c, "none")
  /\ UNCHANGED <<machine, gateVars, callRest>>

(* install_update takes the slot; install_pending outlasts the operation.     *)
(* The budget bounds how often it may lead to a hand-off.                    *)
InstallUpdate(c) ==
  /\ left["install"] > 0
  /\ runtime.up /\ caller[c] = "none" /\ Free /\ ~manager.pending
  /\ c = "policy" => policy /\ machine.state = "downloaded" /\ AssetReady
  /\ manager' = [manager EXCEPT !.op = "install_prepare"]
  /\ CallAt(c, "prepare")
  /\ UNCHANGED <<machine, gateVars, callRest>>

(* nothing to install, or _acquire_reservation: _reserve_update_maintenance  *)
(* closes both gates before any query                                        *)
InstallReserve(c) ==
  /\ caller[c] = "prepare"
  /\ IF machine.state = "downloaded" /\ AssetReady
     THEN /\ gate' = Reserved
          /\ manager' = [manager EXCEPT !.held = TRUE]
          /\ verdict' = NewVerdict
          /\ CallAt(c, "query")
     ELSE /\ manager' = [manager EXCEPT !.op = "none"]
          /\ CallAt(c, "none")
          /\ UNCHANGED <<gate, verdict>>
  /\ UNCHANGED <<machine, work, callRest>>

(* the verdict: a user's call is refused when the runtime is busy, the       *)
(* policy's waits; the command is queued for the worker                      *)
InstallDecide(c) ==
  LET target == IF verdict.idle THEN "install_handoff" ELSE "waiting_for_idle"
      goes == (verdict.idle \/ c = "policy") /\ Allowed(target)
  IN
  /\ caller[c] = "query" /\ Answered
  /\ IF goes
     THEN /\ machine' = MovedTo(target)
          /\ manager' = [manager EXCEPT !.op = "install", !.queue = "install",
                                        !.pending = TRUE]
          /\ gate' = gate
     ELSE /\ gate' = GateAfterRelease
          /\ manager' = [manager EXCEPT !.op = "none", !.held = FALSE]
          /\ machine' = machine
  /\ CallAt(c, "none")
  /\ verdict' = NewVerdict
  /\ UNCHANGED <<work, callRest>>

------------------------------------------------------------------------------
(* The worker.                                                               *)
workRest == <<caller, runtime, policy>>
(* the finally of _worker_main; it leaves its loop after a command once the  *)
(* manager is told to stop                                                   *)
Finish ==
  /\ manager' = [manager EXCEPT !.op = "none"]
  /\ worker' = IF runtime.stop THEN "gone" ELSE "none"
GiveUp ==
  /\ manager' = [manager EXCEPT !.op = "none", !.held = FALSE, !.pending = FALSE]
  /\ gate' = GateAfterRelease
  /\ worker' = IF runtime.stop THEN "gone" ELSE "none"

Takes(op) == worker = "none" /\ manager.queue = op
Took == [manager EXCEPT !.queue = "none"]

(* _run_check; the transition raises in a state that cannot be checked       *)
RunCheck ==
  /\ Takes("check")
  /\ IF Allowed("checking") /\ ~runtime.stop
     THEN machine' = MovedTo("checking") /\ manager' = Took /\ worker' = "checking"
     ELSE /\ machine' = Failed
          /\ manager' = [Took EXCEPT !.op = "none"]
          /\ worker' = IF runtime.stop THEN "gone" ELSE "none"
  /\ UNCHANGED <<gateVars, workRest, runnerVars, left>>

(* discover_stable_release: a valid manifest of a newer version              *)
Discovered == {v \in Version : v > program.installed}

(* discovery answers: a newer release, none, or an error                     *)
CheckAnswers ==
  /\ worker = "checking"
  /\ \/ /\ ~runtime.stop /\ Allowed("update_available")
        /\ \E v \in Discovered :
             machine' = [MovedTo("update_available") EXCEPT
                           !.release = v, !.from = program.installed,
                           !.asset = 0, !.reported = 0]
     \/ /\ ~runtime.stop /\ Allowed("up_to_date")
        /\ machine' = [MovedTo("up_to_date") EXCEPT !.release = 0, !.asset = 0, !.reported = 0]
     \/ machine' = Failed
  /\ Finish
  /\ UNCHANGED <<gateVars, workRest, runnerVars, left>>

(* _run_download checks the descriptor again                                 *)
RunDownload ==
  /\ Takes("download")
  /\ IF machine.release \notin Incompatible \cup {0} /\ Allowed("downloading")
     THEN /\ machine' = [MovedTo("downloading") EXCEPT !.asset = 0]
          /\ manager' = Took /\ worker' = "downloading"
     ELSE /\ machine' = Failed
          /\ manager' = [Took EXCEPT !.op = "none"]
          /\ worker' = IF runtime.stop THEN "gone" ELSE "none"
  /\ UNCHANGED <<gateVars, workRest, runnerVars, left>>

(* download_installer verified size and hash, or raised and left no file     *)
DownloadEnds ==
  /\ worker = "downloading"
  /\ \/ /\ ~runtime.stop /\ Allowed("downloaded")
        /\ machine' = [MovedTo("downloaded") EXCEPT !.asset = machine.release, !.reported = 0]
     \/ machine' = Failed
  /\ Finish
  /\ UNCHANGED <<gateVars, workRest, runnerVars, left>>

(* _run_install; a lost descriptor or asset fails like a refused hand-off     *)
RunInstall ==
  /\ Takes("install")
  /\ manager' = Took
  /\ worker' = IF machine.state = "waiting_for_idle" THEN "wait" ELSE "handoff"
  /\ UNCHANGED <<machine, gateVars, workRest, runnerVars, left>>

(* one round of the waiting loop                                             *)
WaitForIdle ==
  /\ worker = "wait"
  /\ IF runtime.stop THEN machine' = Failed /\ GiveUp /\ UNCHANGED verdict
     ELSE IF ~policy THEN machine' = MovedTo("downloaded") /\ GiveUp /\ UNCHANGED verdict
     ELSE worker' = "query" /\ verdict' = NewVerdict /\ UNCHANGED <<machine, manager, gate>>
  /\ UNCHANGED <<work, workRest, runnerVars, left>>

(* (mutant: it looks at its verdict again and never asks anew)               *)
WaitDecideStale ==
  /\ worker = "query" /\ Answered /\ verdict.idle
  /\ machine' = MovedTo("install_handoff")
  /\ worker' = "handoff"
  /\ verdict' = NewVerdict
  /\ UNCHANGED <<manager, gate, work, workRest, runnerVars, left>>
WaitDecide ==
  /\ worker = "query" /\ Answered
  /\ machine' = IF verdict.idle THEN MovedTo("install_handoff") ELSE machine
  /\ worker' = IF verdict.idle THEN "handoff" ELSE "wait"
  /\ verdict' = NewVerdict
  /\ UNCHANGED <<manager, gate, work, workRest, runnerVars, left>>

(* handoff_update raises before the runner is launched                       *)
HandoffRefused ==
  /\ worker = "handoff" /\ (runtime.stop \/ left["failure"] > 0)
  /\ left' = IF runtime.stop THEN left ELSE [left EXCEPT !["failure"] = @ - 1]
  /\ machine' = Failed /\ GiveUp
  /\ UNCHANGED <<work, verdict, workRest, runnerVars>>

(* the plan is written, the old acknowledgement removed, the runner started;  *)
(* assumed: nobody hands over again while an earlier runner is still at work  *)
Handoff ==
  /\ worker = "handoff" /\ ~runtime.stop
  /\ \E r \in Request :
       /\ runner[r].at = "none"
       /\ \A q \in 1..(r - 1) : runner[q].at = "done"
       /\ plan' = [req |-> r, from |-> machine.from, to |-> machine.release]
       /\ runner' = [runner EXCEPT ![r].at = "launched"]
  /\ left' = [left EXCEPT !["install"] = @ - 1]
  /\ worker' = "ack"
  /\ UNCHANGED <<machine, manager, gateVars, workRest, program, acks, outcome>>

Current == CHOOSE r \in Request : /\ runner[r].at # "none"
                                  /\ \A q \in Request : runner[q].at # "none" => q <= r

AckArrives ==
  /\ worker = "ack" /\ Current \in acks
  /\ IF Allowed("installing")
     THEN machine' = MovedTo("installing") /\ worker' = "callback" /\ UNCHANGED <<manager, gate>>
     ELSE machine' = Failed /\ GiveUp
  /\ UNCHANGED <<work, verdict, workRest, runnerVars, left>>

(* sixty seconds: the runner failed, or it is late                           *)
AckTimeout ==
  /\ worker = "ack" /\ Current \notin acks
  /\ runner[Current].at = "done" \/ left["late"] > 0
  /\ left' = IF runner[Current].at = "done" THEN left ELSE [left EXCEPT !["late"] = @ - 1]
  /\ machine' = Failed /\ GiveUp
  /\ UNCHANGED <<work, verdict, workRest, runnerVars>>

(* _shutdown_callback: request_shutdown("update-handoff")                    *)
ShutdownCallback ==
  /\ worker = "callback"
  /\ runtime' = [runtime EXCEPT !.shut = TRUE, !.stop = TRUE]
  /\ manager' = [manager EXCEPT !.op = "none"]
  /\ worker' = "gone"
  /\ UNCHANGED <<machine, gateVars, caller, policy, runnerVars, left>>

(* an empty queue ends the loop of a stopped manager                         *)
WorkerEnds ==
  /\ worker = "none" /\ manager.queue = "none" /\ runtime.stop
  /\ worker' = "gone"
  /\ UNCHANGED <<machine, manager, gateVars, workRest, runnerVars, left>>

------------------------------------------------------------------------------
(* The process.                                                              *)
(* request_shutdown sets its own flag and the clipboard manager's first      *)
RequestShutdown ==
  /\ runtime.up /\ ~runtime.shut /\ left["request"] > 0
  /\ left' = [left EXCEPT !["request"] = @ - 1]
  /\ runtime' = [runtime EXCEPT !.shut = TRUE]
  /\ UNCHANGED <<managerVars, gateVars, runnerVars, policy>>

(* UpdateManager.shutdown                                                    *)
StopManager ==
  /\ runtime.up /\ runtime.shut /\ ~runtime.stop
  /\ runtime' = [runtime EXCEPT !.stop = TRUE]
  /\ UNCHANGED <<managerVars, gateVars, runnerVars, policy, left>>

Forgotten ==
  /\ manager' = [op |-> "none", queue |-> "none", held |-> FALSE, pending |-> FALSE]
  /\ caller' = [c \in Callers |-> "none"]
  /\ worker' = "none"
  /\ gate' = Opened /\ verdict' = NewVerdict
  /\ work' = [input |-> "none", clip |-> "none"]

(* the joins are bounded, so the process may end with its threads at work    *)
Exit ==
  /\ runtime.up /\ runtime.stop
  /\ runtime' = [runtime EXCEPT !.up = FALSE, !.shut = FALSE, !.stop = FALSE]
  /\ Forgotten
  /\ UNCHANGED <<machine, runnerVars, policy, left>>

Crash ==
  /\ runtime.up /\ left["crash"] > 0
  /\ left' = [left EXCEPT !["crash"] = @ - 1]
  /\ runtime' = [runtime EXCEPT !.up = FALSE, !.shut = FALSE, !.stop = FALSE]
  /\ Forgotten
  /\ UNCHANGED <<machine, runnerVars, policy>>

SetPolicy ==
  /\ runtime.up /\ policy' = ~policy
  /\ UNCHANGED <<managerVars, gateVars, runnerVars, runtime, left>>

(* (mutant: the persisted state is taken as it is)                           *)
RecoveredAsIs(m) == m
(* UpdateStateMachine.__init__: an interrupted operation is an error         *)
Recovered(m) == IF m.state \in Interrupted THEN [m EXCEPT !.state = "error"] ELSE m

(* _ingest_external_result, with the version that is now running             *)
Ingested(m) ==
  LET shown == [m EXCEPT !.reported = outcome.req] IN
  IF outcome.status = "none" THEN m
  ELSE IF outcome.status # "success" THEN shown
  ELSE IF outcome.to # program.installed THEN [shown EXCEPT !.state = "error"]
  ELSE IF "up_to_date" \in Transitions[m.state]
  THEN [shown EXCEPT !.state = "up_to_date", !.release = 0, !.asset = 0]
  ELSE shown

(* the runtime starts, by the user or by the runner's StartTask: the state   *)
(* (saved or restored) is loaded, the result ingested, the API comes up      *)
Started ==
  /\ runtime' = [up |-> TRUE, shut |-> FALSE, stop |-> FALSE]
  /\ machine' = Ingested(Recovered(machine))
==============================================================================
