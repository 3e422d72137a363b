------------------------ MODULE SoftwareUpdateProofs -------------------------
(***************************************************************************)
(* The software update for any number of versions and hand-offs: every       *)
(* reservation and every busy state has an operation that will end it, the   *)
(* runner records what it leaves, and the installed program is replaced as    *)
(* ProgramReplacement says.                                                   *)
(***************************************************************************)
EXTENDS SoftwareUpdate, TLAPS

Machines ==
  [state : States, release : 0..Newest, from : 0..Newest, asset : 0..Newest, reported : 0..Requests]
Plans == [req : 0..Requests, from : 0..Newest, to : 0..Newest]
Managers ==
  [op : {"none", "check", "download", "install_prepare", "install"},
   queue : {"none", "check", "download", "install"}, held : BOOLEAN, pending : BOOLEAN]
Runtimes == [up : BOOLEAN, shut : BOOLEAN, stop : BOOLEAN]
Programs == [installed : 0..Newest, rollback : 0..Newest]
Runners ==
  [at : {"none", "launched", "waiting", "replaced", "installed", "restart", "restarted", "health",
         "rollback", "restored", "old_health", "done"},
   plan : Plans, backup : Machines]
Statuses == {"none", "success", "failed", "rollback_success", "rollback_failed"}
Outcomes == [req : 0..Requests, status : Statuses, to : 0..Newest]

Types ==
  /\ machine \in Machines /\ manager \in Managers /\ runtime \in Runtimes
  /\ caller \in [Callers -> {"none", "download", "admit", "prepare", "query"}]
  /\ worker \in {"none", "checking", "downloading", "wait", "query", "handoff", "ack", "callback",
                 "gone"}
  /\ program \in Programs /\ plan \in Plans /\ runner \in [Request -> Runners]
  /\ outcome \in Outcomes

(* A process that is not there keeps nothing.                                *)
NothingRuns ==
  /\ manager = [op |-> "none", queue |-> "none", held |-> FALSE, pending |-> FALSE]
  /\ caller = [c \in Callers |-> "none"] /\ worker = "none" /\ gate = Opened
  /\ ~runtime.shut /\ ~runtime.stop

(* The slot names what is queued, what the worker does, and the one call     *)
(* that prepares an installation.                                             *)
Installs == {"wait", "query", "handoff", "ack", "callback"}
Prepares(c) == caller[c] \in {"prepare", "query"}
SlotIsTrue ==
  /\ manager.queue # "none" => manager.queue = manager.op /\ worker \in {"none", "gone"}
  /\ worker = "checking" => manager.op = "check"
  /\ worker = "downloading" => manager.op = "download"
  /\ worker \in Installs => manager.op = "install"
  /\ \A c \in Callers : Prepares(c) => manager.op = "install_prepare"
  /\ \A c, d \in Callers : Prepares(c) /\ Prepares(d) => c = d

GateIsHeld ==
  /\ gate # Opened => gate = Reserved /\ (manager.held \/ runtime.shut)
  /\ manager.held => manager.op \in {"install_prepare", "install"} \/ runtime.shut
  /\ \A c \in Callers : caller[c] = "prepare" => ~manager.held \/ runtime.shut

(* Who ends a busy state.                                                    *)
BusyHasWorker ==
  /\ machine.state = "checking" => worker = "checking"
  /\ machine.state = "downloading" => worker = "downloading"
  /\ machine.state = "waiting_for_idle" =>
       manager.op = "install" /\ (manager.queue = "install" \/ worker \in {"wait", "query"})
  /\ machine.state = "install_handoff" =>
       manager.op = "install" /\ (manager.queue = "install" \/ worker \in {"handoff", "ack"})

ManagerInv ==
  /\ ~runtime.up => NothingRuns
  /\ SlotIsTrue /\ GateIsHeld
  /\ runtime.up => BusyHasWorker

(* Runners work one after the other.                                         *)
Turns == \A q, r \in Request : q < r /\ runner[r].at # "none" => runner[q].at = "done"

(* What a runner knows of the program it replaces.                           *)
Idles(r) == runner[r].at \in {"none", "launched", "done"}
ProgramFits(r) ==
  LET from == runner[r].plan.from
      to == runner[r].plan.to
      at == runner[r].at
  IN  /\ ~Idles(r) => 0 < from /\ from < to
      /\ at \in {"waiting", "restart", "restarted", "restored", "old_health"} =>
           program.installed = from
      /\ at \in {"replaced", "installed", "rollback", "health"} => program.rollback = from
      /\ at \in {"replaced", "installed"} => ~runtime.up
      /\ at \in {"installed", "health"} => program.installed = to
ProgramInv ==
  /\ Turns /\ \A r \in Request : ProgramFits(r)
  /\ program.installed = 0 => \E r \in Request : runner[r].at \in {"replaced", "rollback"}

UpdateInv == Types /\ ManagerInv /\ ProgramInv

----------------------------------------------------------------------------
(* The parts of a step                                                       *)

(* The machine moves to a state or fails; the rest of its record stays but    *)
(* for what the runner reported.                                              *)
MachineMoves ==
  /\ \A s \in States : MovedTo(s) \in Machines /\ MovedTo(s).state = s
  /\ Failed \in Machines /\ Failed.state = "error"

(* A transition of the state machine is one of its machines.                 *)
LEMMA MovesType == ASSUME machine \in Machines PROVE MachineMoves
<1>1. "error" \in States /\ 0 \in 0..Requests
  BY UpdateAssumption DEF States
<1>2. \A s \in States : MovedTo(s) \in Machines /\ MovedTo(s).state = s
  BY DEF Machines, MovedTo
<1>3. Failed \in Machines /\ Failed.state = "error"
  BY <1>1, <1>2 DEF Machines, Failed
<1> QED
  BY <1>2, <1>3 DEF MachineMoves

(* A process that starts finds no operation under way.                        *)
LEMMA StartedType ==
  ASSUME machine \in Machines, runtime \in Runtimes, program \in Programs,
         outcome \in Outcomes, Started
  PROVE  /\ machine' \in Machines
         /\ runtime' \in Runtimes /\ runtime'.up
         /\ machine'.state \notin {"checking", "downloading", "waiting_for_idle", "install_handoff"}
<1> DEFINE m == Recovered(machine)
           shown == [m EXCEPT !.reported = outcome.req]
<1>1. m \in Machines /\ m.state \notin Interrupted
  BY DEF Recovered, Machines, States, Interrupted
<1>2. shown \in Machines /\ shown.state = m.state
  BY <1>1 DEF Machines, Outcomes
<1>0. "error" \in States /\ "up_to_date" \in States /\ 0 \in 0..Newest
  BY UpdateAssumption DEF States
<1>3. /\ [shown EXCEPT !.state = "error"] \in Machines
      /\ [shown EXCEPT !.state = "error"].state = "error"
      /\ [shown EXCEPT !.state = "up_to_date", !.release = 0, !.asset = 0] \in Machines
      /\ [shown EXCEPT !.state = "up_to_date", !.release = 0, !.asset = 0].state = "up_to_date"
  BY <1>0, <1>2 DEF Machines
<1>4. machine' \in {m, shown, [shown EXCEPT !.state = "error"],
                    [shown EXCEPT !.state = "up_to_date", !.release = 0, !.asset = 0]}
  BY DEF Started, Ingested
<1> HIDE DEF m, shown
<1>5. runtime' \in Runtimes /\ runtime'.up
  BY DEF Started, Runtimes
<1> QED
  BY <1>1, <1>2, <1>3, <1>4, <1>5 DEF Interrupted

(* A process that ends keeps nothing.                                        *)
LEMMA ForgottenType ==
  ASSUME Forgotten
  PROVE  /\ manager' \in Managers /\ worker' = "none"
         /\ caller' \in [Callers -> {"none", "download", "admit", "prepare", "query"}]
         /\ ~runtime'.shut /\ ~runtime'.stop => NothingRuns'
BY DEF Forgotten, Managers, NothingRuns

Kinds == {"none", "download", "admit", "prepare", "query"}
WorkerPlaces ==
  {"none", "checking", "downloading", "wait", "query", "handoff", "ack", "callback", "gone"}

(* The calls of the user and of the policy thread change these parts only.   *)
CallTypes == /\ machine' \in Machines /\ manager' \in Managers /\ caller' \in [Callers -> Kinds]
             /\ UNCHANGED <<worker, runtime, program, plan, runner, outcome>>

(* The calls of the user and of the policy thread keep the types they        *)
(* change.                                                                   *)
LEMMA CallsType ==
  ASSUME Types,
         \/ CheckForUpdates
         \/ \E c \in Callers : CallerStep(c) \/ DownloadUpdate(c) \/ InstallUpdate(c)
  PROVE  CallTypes
<1>0. /\ machine \in Machines /\ manager \in Managers /\ caller \in [Callers -> Kinds]
      /\ MachineMoves
  BY MovesType DEF Types, Kinds
<1>1. \A c, pc : CallAt(c, pc) /\ pc \in Kinds => caller' \in [Callers -> Kinds]
  BY <1>0 DEF CallAt
<1>2. {"none", "download", "admit", "prepare", "query"} = Kinds
  BY DEF Kinds
<1>3. \A op \in {"check", "download"} : Admitted(op) \in Managers
  BY <1>0 DEF Admitted, Managers
<1>4. CASE CheckForUpdates
  BY <1>0, <1>3, <1>4 DEF CheckForUpdates, CallTypes, gateVars, callRest, runnerVars
<1>5. ASSUME NEW c \in Callers, DownloadUpdate(c)
      PROVE  CallTypes
  BY <1>0, <1>1, <1>2, <1>5 DEF DownloadUpdate, CallTypes, callRest, runnerVars
<1>6. ASSUME NEW c \in Callers, InstallUpdate(c)
      PROVE  CallTypes
  <2>1. [manager EXCEPT !.op = "install_prepare"] \in Managers
    BY <1>0 DEF Managers
  <2> QED
    BY <1>0, <1>1, <1>2, <1>6, <2>1 DEF InstallUpdate, CallTypes, callRest, runnerVars
<1>7. ASSUME NEW c \in Callers, DownloadDecide(c)
      PROVE  CallTypes
  <2>1. machine' \in {machine, Failed} /\ \E pc \in {"admit", "none"} : CallAt(c, pc)
    BY <1>7 DEF DownloadDecide
  <2> QED
    BY <1>0, <1>1, <1>2, <1>7, <2>1 DEF DownloadDecide, CallTypes, callRest, runnerVars, MachineMoves
<1>8. ASSUME NEW c \in Callers, DownloadAdmit(c)
      PROVE  CallTypes
  BY <1>0, <1>1, <1>2, <1>3, <1>8 DEF DownloadAdmit, CallTypes, callRest, runnerVars
<1>9. ASSUME NEW c \in Callers, InstallReserve(c)
      PROVE  CallTypes
  <2>1. /\ [manager EXCEPT !.held = TRUE] \in Managers
        /\ [manager EXCEPT !.op = "none"] \in Managers
    BY <1>0 DEF Managers
  <2> QED
    BY <1>0, <1>1, <1>2, <1>9, <2>1 DEF InstallReserve, CallTypes, callRest, runnerVars
<1>10. ASSUME NEW c \in Callers, InstallDecide(c)
       PROVE  CallTypes
  <2>1. /\ [manager EXCEPT !.op = "install", !.queue = "install", !.pending = TRUE] \in Managers
        /\ [manager EXCEPT !.op = "none", !.held = FALSE] \in Managers
    BY <1>0 DEF Managers
  <2>2. {"install_handoff", "waiting_for_idle"} \subseteq States
    BY DEF States
  <2>3. /\ machine' \in {machine, MovedTo("install_handoff"), MovedTo("waiting_for_idle")}
        /\ manager' \in {[manager EXCEPT !.op = "install", !.queue = "install", !.pending = TRUE],
                         [manager EXCEPT !.op = "none", !.held = FALSE]}
        /\ CallAt(c, "none") /\ UNCHANGED callRest
    BY <1>10 DEF InstallDecide
  <2>4. machine' \in Machines
    BY <1>0, <2>2, <2>3 DEF MachineMoves
  <2> QED
    BY <1>1, <1>2, <2>1, <2>3, <2>4 DEF CallTypes, callRest, runnerVars
<1> QED
  BY <1>4, <1>5, <1>6, <1>7, <1>8, <1>9, <1>10 DEF CallerStep

(* The worker changes these; only its hand-off writes a plan.                *)
WorkTypes ==
  /\ machine' \in Machines /\ manager' \in Managers /\ worker' \in WorkerPlaces
  /\ UNCHANGED <<caller, program, outcome>>
  /\ runtime' \in Runtimes /\ runtime'.up = runtime.up

(* The end of an operation frees its slot and, when given up, its gate.      *)
LEMMA FinishType ==
  ASSUME manager \in Managers, Finish \/ GiveUp
  PROVE  /\ manager' \in Managers /\ worker' \in {"none", "gone"}
         /\ manager'.op = "none" /\ manager'.queue = manager.queue
         /\ Finish => manager'.held = manager.held
         /\ GiveUp => ~manager'.held
<1>1. /\ [manager EXCEPT !.op = "none"] \in Managers
      /\ [manager EXCEPT !.op = "none", !.held = FALSE, !.pending = FALSE] \in Managers
  BY DEF Managers
<1> QED
  BY <1>1 DEF Finish, GiveUp, Managers

(* A runner goes on to its next step.                                        *)
RunnerPlaces ==
  {"none", "launched", "waiting", "replaced", "installed", "restart", "restarted", "health",
   "rollback", "restored", "old_health", "done"}

(* A runner that goes to its next step keeps its plan, the others are left   *)
(* alone.                                                                    *)
LEMMA GoesType ==
  ASSUME runner \in [Request -> Runners], NEW r \in Request, NEW at \in RunnerPlaces
  PROVE  /\ GoesTo(r, at) \in [Request -> Runners]
         /\ GoesTo(r, at)[r].at = at /\ GoesTo(r, at)[r].plan = runner[r].plan
         /\ \A q \in Request : q # r => GoesTo(r, at)[q] = runner[q]
<1>1. [runner[r] EXCEPT !.at = at] \in Runners /\ [runner[r] EXCEPT !.at = at].at = at
        /\ [runner[r] EXCEPT !.at = at].plan = runner[r].plan
  BY DEF Runners, RunnerPlaces
<1>2. GoesTo(r, at) = [runner EXCEPT ![r] = [runner[r] EXCEPT !.at = at]]
  BY DEF GoesTo
<1> QED
  BY <1>1, <1>2

(* Types: the worker.                                                        *)
LEMMA WorkType ==
  ASSUME Types, WorkerStep \/ HandoffRefused, ~Handoff
  PROVE  WorkTypes /\ UNCHANGED <<plan, runner>>
<1>0. /\ machine \in Machines /\ manager \in Managers /\ runtime \in Runtimes /\ MachineMoves
      /\ program \in Programs
  BY MovesType DEF Types
<1>1. /\ UNCHANGED <<caller, program, outcome, plan, runner>>
      /\ UNCHANGED runtime \/ runtime' = [runtime EXCEPT !.shut = TRUE, !.stop = TRUE]
  BY DEF WorkerStep, RunCheck, CheckAnswers, RunDownload, DownloadEnds, RunInstall, WaitForIdle,
         WaitDecide, AckArrives, AckTimeout, ShutdownCallback, WorkerEnds, HandoffRefused, workRest,
         runnerVars
<1>2. runtime' \in Runtimes /\ runtime'.up = runtime.up
  BY <1>0, <1>1 DEF Runtimes
<1>3. SUFFICES machine' \in Machines /\ manager' \in Managers /\ worker' \in WorkerPlaces
  BY <1>1, <1>2 DEF WorkTypes
<1>4. /\ Took \in Managers /\ [Took EXCEPT !.op = "none"] \in Managers
      /\ [manager EXCEPT !.op = "none"] \in Managers
  BY <1>0 DEF Took, Managers
<1>5. /\ {"none", "gone"} \subseteq WorkerPlaces /\ worker \in WorkerPlaces
      /\ {"checking", "downloading", "wait", "query", "handoff", "callback"} \subseteq WorkerPlaces
  BY DEF WorkerPlaces, Types
<1>6. Finish \/ GiveUp => manager' \in Managers /\ worker' \in WorkerPlaces
  BY <1>0, <1>5, FinishType
<1>7. /\ {"checking", "update_available", "up_to_date", "downloading", "downloaded",
          "install_handoff", "installing"} \subseteq States
      /\ 0 \in 0..Newest /\ 0 \in 0..Requests
  BY UpdateAssumption DEF States
<1>8. CASE RunCheck
  BY <1>0, <1>4, <1>5, <1>7, <1>8 DEF RunCheck, MachineMoves
<1>9. CASE CheckAnswers
  <2>1. ASSUME NEW v \in 0..Newest
        PROVE  [MovedTo("update_available") EXCEPT !.release = v, !.from = program.installed,
                                                   !.asset = 0, !.reported = 0] \in Machines
    <3>1. MovedTo("update_available") \in Machines
      BY <1>0, <1>7 DEF MachineMoves
    <3>2. program.installed \in 0..Newest
      BY <1>0 DEF Programs
    <3> QED
      BY <1>7, <3>1, <3>2 DEF Machines
  <2>2. [MovedTo("up_to_date") EXCEPT !.release = 0, !.asset = 0, !.reported = 0] \in Machines
    <3>1. MovedTo("up_to_date") \in Machines
      BY <1>0, <1>7 DEF MachineMoves
    <3> QED
      BY <1>7, <3>1 DEF Machines
  <2>3. Discovered \subseteq 0..Newest
    BY UpdateAssumption DEF Discovered, Version
  <2>4. \/ \E v \in 0..Newest :
             machine' = [MovedTo("update_available") EXCEPT !.release = v, !.from = program.installed,
                                                            !.asset = 0, !.reported = 0]
        \/ machine' = [MovedTo("up_to_date") EXCEPT !.release = 0, !.asset = 0, !.reported = 0]
        \/ machine' = Failed
    BY <1>9, <2>3 DEF CheckAnswers
  <2>5. machine' \in Machines
    BY <1>0, <2>1, <2>2, <2>4 DEF MachineMoves
  <2> QED
    BY <1>6, <1>9, <2>5 DEF CheckAnswers
<1>10. CASE RunDownload
  <2>1. MovedTo("downloading") \in Machines
    BY <1>0, <1>7 DEF MachineMoves
  <2>2. [MovedTo("downloading") EXCEPT !.asset = 0] \in Machines
    BY <1>7, <2>1 DEF Machines
  <2> QED
    BY <1>0, <1>4, <1>5, <1>10, <2>2 DEF RunDownload, MachineMoves
<1>11. CASE DownloadEnds
  <2>1. MovedTo("downloaded") \in Machines
    BY <1>0, <1>7 DEF MachineMoves
  <2>2. [MovedTo("downloaded") EXCEPT !.asset = machine.release, !.reported = 0] \in Machines
    BY <1>0, <1>7, <2>1 DEF Machines
  <2>3. /\ \/ machine' = [MovedTo("downloaded") EXCEPT !.asset = machine.release, !.reported = 0]
           \/ machine' = Failed
        /\ Finish
    BY <1>11 DEF DownloadEnds
  <2> QED
    BY <1>0, <1>6, <2>2, <2>3 DEF MachineMoves
<1>12. CASE RunInstall
  BY <1>0, <1>4, <1>5, <1>12 DEF RunInstall, gateVars
<1>13. CASE WaitForIdle
  BY <1>0, <1>5, <1>6, <1>7, <1>13 DEF WaitForIdle, MachineMoves
<1>14. CASE WaitDecide
  BY <1>0, <1>5, <1>7, <1>14 DEF WaitDecide, MachineMoves
<1>15. CASE AckArrives
  BY <1>0, <1>5, <1>6, <1>7, <1>15 DEF AckArrives, MachineMoves
<1>16. CASE AckTimeout \/ HandoffRefused
  BY <1>0, <1>6, <1>16 DEF AckTimeout, HandoffRefused, MachineMoves
<1>17. CASE ShutdownCallback
  BY <1>0, <1>4, <1>5, <1>17 DEF ShutdownCallback
<1>18. CASE WorkerEnds
  BY <1>0, <1>5, <1>18 DEF WorkerEnds
<1> QED
  BY <1>8, <1>9, <1>10, <1>11, <1>12, <1>13, <1>14, <1>15, <1>16, <1>17, <1>18 DEF WorkerStep

(* The hand-off launches the first runner that was not launched yet.         *)
LEMMA HandoffType ==
  ASSUME Types, Handoff
  PROVE  /\ WorkTypes /\ UNCHANGED <<runtime, machine, manager>> /\ worker' = "ack"
         /\ plan' \in Plans
         /\ \E r \in Request :
              /\ runner[r].at = "none" /\ runner' = GoesTo(r, "launched")
              /\ \A q \in 1..(r - 1) : runner[q].at = "done"
         /\ runner' \in [Request -> Runners]
<1>0. /\ machine \in Machines /\ manager \in Managers /\ runtime \in Runtimes
      /\ runner \in [Request -> Runners]
  BY DEF Types
<1>1. PICK r \in Request :
        /\ runner[r].at = "none" /\ \A q \in 1..(r - 1) : runner[q].at = "done"
        /\ plan' = [req |-> r, from |-> machine.from, to |-> machine.release]
        /\ runner' = [runner EXCEPT ![r].at = "launched"]
  BY DEF Handoff
<1>2. plan' \in Plans
  <2>1. r \in 0..Requests
    BY UpdateAssumption DEF Request
  <2> QED
    BY <1>0, <1>1, <2>1 DEF Machines, Plans
<1>3. runner' \in [Request -> Runners] /\ runner' = GoesTo(r, "launched")
  BY <1>0, <1>1, GoesType DEF GoesTo, RunnerPlaces
<1>4. WorkTypes /\ UNCHANGED <<runtime, machine, manager>> /\ worker' = "ack"
  BY <1>0 DEF Handoff, WorkTypes, workRest, WorkerPlaces
<1> QED
  BY <1>1, <1>2, <1>3, <1>4

(* Types: the process, the user and the runners.                             *)
RunnerMoves ==
  \E r \in Request : RunnerStep(r) \/ RunnerFails(r) \/ BackupFails(r)

(* The steps of the program, the user and the clipboard keep all types.      *)
LEMMA ProcessType ==
  ASSUME Types,
         \/ ProcessStep \/ Crash \/ RequestShutdown \/ SetPolicy \/ UserStart \/ ManualUpgrade
         \/ ReadStep \/ BeginWork \/ WorkTakesEffect \/ EndAdmission \/ StopActivity
         \/ BeginClipboard \/ EndClipboard
  PROVE  Types' /\ UNCHANGED <<runner, plan, outcome>>
<1>0. /\ machine \in Machines /\ manager \in Managers /\ runtime \in Runtimes
      /\ program \in Programs /\ plan \in Plans /\ runner \in [Request -> Runners]
      /\ outcome \in Outcomes
  BY DEF Types
<1>1. UNCHANGED <<runner, plan, outcome>>
  BY DEF ProcessStep, StopManager, Exit, Crash, RequestShutdown, SetPolicy, UserStart, ManualUpgrade,
         ReadStep, ReadActivity, ReadAdmissions, ReadClipboard, Read, BeginWork, WorkTakesEffect,
         EndAdmission, StopActivity, BeginClipboard, EndClipboard, gateRest, runnerVars
<1>2. CASE Exit \/ Crash
  <2>1. /\ manager' \in Managers /\ worker' = "none"
        /\ caller' \in [Callers -> {"none", "download", "admit", "prepare", "query"}]
    BY <1>2, ForgottenType DEF Exit, Crash
  <2>2. runtime' \in Runtimes
    BY <1>0, <1>2 DEF Exit, Crash, Runtimes
  <2>3. UNCHANGED <<machine, program>>
    BY <1>2 DEF Exit, Crash, runnerVars
  <2> QED
    BY <1>0, <1>1, <2>1, <2>2, <2>3 DEF Types
<1>3. CASE StopManager \/ RequestShutdown
  <2>1. runtime' \in Runtimes
    BY <1>0, <1>3 DEF StopManager, RequestShutdown, Runtimes
  <2>2. UNCHANGED <<managerVars, runnerVars>>
    BY <1>3 DEF StopManager, RequestShutdown
  <2> QED
    BY <2>1, <2>2, <1>1 DEF Types, managerVars, runnerVars
<1>4. CASE UserStart
  <2>1. machine' \in Machines /\ runtime' \in Runtimes
    BY <1>0, <1>4, StartedType DEF UserStart
  <2> QED
    BY <1>1, <1>4, <2>1 DEF Types, UserStart, runnerVars
<1>5. CASE ManualUpgrade
  <2>1. \A v \in (program.installed + 1)..Newest : [program EXCEPT !.installed = v] \in Programs
    <3>1. (program.installed + 1)..Newest \subseteq 0..Newest
      BY <1>0 DEF Programs
    <3> QED
      BY <1>0, <3>1 DEF Programs
  <2>2. program' \in Programs
    BY <1>5, <2>1 DEF ManualUpgrade
  <2> QED
    BY <1>1, <1>5, <2>2 DEF Types, ManualUpgrade, managerVars
<1>6. CASE \/ SetPolicy \/ ReadStep \/ BeginWork \/ WorkTakesEffect \/ EndAdmission \/ StopActivity
           \/ BeginClipboard \/ EndClipboard
  <2>1. UNCHANGED <<managerVars, runnerVars, runtime>>
    BY <1>6
    DEF SetPolicy, ReadStep, ReadActivity, ReadAdmissions, ReadClipboard, Read, BeginWork,
        WorkTakesEffect, EndAdmission, StopActivity, BeginClipboard, EndClipboard, gateRest
  <2> QED
    BY <1>1, <2>1 DEF Types, managerVars, runnerVars
<1> QED
  BY <1>2, <1>3, <1>4, <1>5, <1>6 DEF ProcessStep

(* A runner reports and is done.                                             *)
LEMMA ReportType ==
  ASSUME Types, NEW r \in Request, NEW status \in Statuses, Report(r, status)
  PROVE  /\ outcome' \in Outcomes
         /\ outcome'.req = r /\ outcome'.status = status
         /\ plan' \in Plans /\ runner' = GoesTo(r, "done")
         /\ runner' \in [Request -> Runners]
<1>1. runner[r] \in Runners
  BY DEF Types
<1>2. runner[r].plan.to \in 0..Newest /\ r \in 0..Requests /\ 0 \in 0..Newest /\ 0 \in 0..Requests
  BY <1>1, UpdateAssumption DEF Runners, Plans, Request
<1>3. plan' \in Plans
  BY <1>2 DEF Report, NoPlan, Plans
<1>4. runner' \in [Request -> Runners]
  BY GoesType DEF Report, Types, RunnerPlaces
<1> QED
  BY <1>2, <1>3, <1>4 DEF Report, Outcomes

(* Types: the runners.                                                       *)
LEMMA RunnerType ==
  ASSUME Types, RunnerMoves
  PROVE  Types'
<1>0. /\ machine \in Machines /\ manager \in Managers /\ runtime \in Runtimes
      /\ program \in Programs /\ plan \in Plans /\ runner \in [Request -> Runners]
      /\ outcome \in Outcomes
  BY DEF Types
<1>1. PICK r \in Request : RunnerStep(r) \/ RunnerFails(r) \/ BackupFails(r)
  BY DEF RunnerMoves
<1>2. ASSUME NEW at \in RunnerPlaces
      PROVE  GoesTo(r, at) \in [Request -> Runners]
  BY <1>0, <1>2, GoesType
<1>3. /\ {"none", "launched", "waiting", "replaced", "installed", "restart", "restarted", "health",
          "rollback", "restored", "old_health", "done"} = RunnerPlaces
      /\ 0 \in 0..Newest
      /\ {"failed", "success", "rollback_success", "rollback_failed"} \subseteq Statuses
  <2>1. 0 \in 0..Newest
    BY UpdateAssumption
  <2> QED
    BY <2>1 DEF RunnerPlaces, Statuses
<1>4. CASE RunnerStart(r)
  <2>1. [runner[r] EXCEPT !.at = "waiting", !.plan = plan] \in Runners
    BY <1>0 DEF Runners
  <2>2. [runner EXCEPT ![r].at = "waiting", ![r].plan = plan]
          = [runner EXCEPT ![r] = [runner[r] EXCEPT !.at = "waiting", !.plan = plan]]
    BY <1>0 DEF Runners
  <2>3. runner' \in [Request -> Runners]
    BY <1>0, <1>2, <1>3, <1>4, <2>1, <2>2 DEF RunnerStart
  <2> QED
    BY <1>0, <1>4, <2>3 DEF RunnerStart, Types, runnerRest, managerVars
<1>5. CASE RunnerFails(r) \/ BackupFails(r)
  <2>1. runner' \in {GoesTo(r, "done"), GoesTo(r, "restart")}
    BY <1>5 DEF RunnerFails, BackupFails
  <2>2. runner' \in [Request -> Runners]
    BY <1>2, <1>3, <2>1
  <2> QED
    BY <1>5, <2>2 DEF RunnerFails, BackupFails, Types, runnerRest, managerVars
<1>6. CASE MoveAside(r)
  <2> DEFINE at == IF program.installed = 0 THEN "restart" ELSE "replaced"
  <2>1. [runner[r] EXCEPT !.at = at, !.backup = machine] \in Runners
    BY <1>0 DEF Runners
  <2>2. [runner EXCEPT ![r].at = at, ![r].backup = machine]
          = [runner EXCEPT ![r] = [runner[r] EXCEPT !.at = at, !.backup = machine]]
    BY <1>0 DEF Runners
  <2>3. runner' \in [Request -> Runners]
    BY <1>0, <1>6, <2>1, <2>2 DEF MoveAside
  <2>4. program' \in Programs
    BY <1>0, <1>3, <1>6 DEF MoveAside, Programs
  <2> QED
    BY <1>6, <2>3, <2>4 DEF MoveAside, Types, runnerRest, managerVars
<1>7. CASE ExitTimeout(r)
  <2>1. Report(r, "failed") /\ UNCHANGED <<runnerRest, program, runtime>>
    BY <1>7 DEF ExitTimeout
  <2> QED
    BY <1>3, <2>1, ReportType DEF Types, runnerRest, managerVars
<1>8. CASE InstallerEnds(r)
  <2>1. runner[r].plan.to \in 0..Newest
    BY <1>0 DEF Runners, Plans
  <2>2. \A v \in 0..Newest : [program EXCEPT !.installed = v] \in Programs
    BY <1>0 DEF Programs
  <2>3. /\ \E v \in {0, runner[r].plan.to} : program' = [program EXCEPT !.installed = v]
        /\ runner' \in {GoesTo(r, "installed"), GoesTo(r, "rollback")}
        /\ UNCHANGED <<runnerRest, plan, outcome, runtime>>
    BY <1>8 DEF InstallerEnds
  <2>4. program' \in Programs
    BY <1>3, <2>1, <2>2, <2>3
  <2>5. runner' \in [Request -> Runners]
    BY <1>2, <1>3, <2>3
  <2> QED
    BY <2>3, <2>4, <2>5 DEF Types, runnerRest, managerVars
<1>9. CASE StartNew(r) \/ StartOld(r) \/ StartRestored(r)
  <2>1. /\ \E at \in {"health", "restarted", "old_health"} : runner' = GoesTo(r, at)
        /\ UNCHANGED <<runtime, machine>> \/ Started
        /\ UNCHANGED <<manager, caller, worker, program, plan, outcome>>
    BY <1>9 DEF StartNew, StartOld, StartRestored, StartTask
  <2>2. runner' \in [Request -> Runners]
    BY <1>2, <1>3, <2>1
  <2>3. machine' \in Machines /\ runtime' \in Runtimes
    BY <1>0, <2>1, StartedType
  <2> QED
    BY <2>1, <2>2, <2>3 DEF Types
<1>10. CASE HealthTest(r)
  <2>1. CASE Report(r, "success")
    BY <1>3, <1>10, <2>1, ReportType DEF HealthTest, Types, runnerRest, managerVars
  <2>2. CASE runner' = GoesTo(r, "rollback") /\ UNCHANGED <<plan, outcome>>
    <3>1. runner' \in [Request -> Runners]
      BY <1>2, <1>3, <2>2
    <3> QED
      BY <1>10, <2>2, <3>1 DEF HealthTest, Types, runnerRest, managerVars
  <2> QED
    BY <1>10, <2>1, <2>2 DEF HealthTest
<1>11. CASE RollBack(r)
  <2>1. runner' \in [Request -> Runners]
    BY <1>2, <1>3, <1>11 DEF RollBack
  <2>2. program' \in Programs /\ machine' \in Machines /\ runtime' \in Runtimes
    BY <1>0, <1>3, <1>11 DEF RollBack, Programs, Runners, Runtimes
  <2>3. /\ manager' \in Managers /\ worker' = "none"
        /\ caller' \in [Callers -> {"none", "download", "admit", "prepare", "query"}]
    BY <1>11, ForgottenType DEF RollBack
  <2> QED
    BY <1>11, <2>1, <2>2, <2>3 DEF RollBack, Types
<1>12. CASE RollbackHealth(r) \/ ReportFailed(r)
  <2>1. /\ \E s \in {"failed", "rollback_success", "rollback_failed"} : Report(r, s)
        /\ UNCHANGED <<runnerRest, program, runtime>>
    BY <1>12 DEF RollbackHealth, ReportFailed
  <2> QED
    BY <1>3, <2>1, ReportType DEF Types, runnerRest, managerVars
<1> QED
  BY <1>1, <1>4, <1>5, <1>6, <1>7, <1>8, <1>9, <1>10, <1>11, <1>12 DEF RunnerStep

(* Every step keeps the types.                                               *)
LEMMA TypesStay ==
  ASSUME Types, [Next]_vars
  PROVE  Types'
<1>1. CASE CheckForUpdates \/ \E c \in Callers : CallerStep(c) \/ DownloadUpdate(c) \/ InstallUpdate(c)
  BY <1>1, CallsType DEF CallTypes, Types, Kinds
<1>2. CASE (WorkerStep \/ HandoffRefused) /\ ~Handoff
  BY <1>2, WorkType DEF WorkTypes, Types, WorkerPlaces
<1>3. CASE Handoff
  BY <1>3, HandoffType DEF WorkTypes, Types, WorkerPlaces
<1>4. CASE RunnerMoves
  BY <1>4, RunnerType
<1>5. CASE UNCHANGED vars
  BY <1>5 DEF Types, vars, managerVars, runnerVars
<1> QED
  BY <1>1, <1>2, <1>3, <1>4, <1>5, ProcessType DEF Next, RunnerMoves

----------------------------------------------------------------------------
(* The manager                                                               *)

(* When the slot is free, nobody works and nobody prepares.                   *)
LEMMA FreeMeans ==
  ASSUME Types, SlotIsTrue, manager.op = "none"
  PROVE  worker \in {"none", "gone"} /\ manager.queue = "none" /\ \A c \in Callers : ~Prepares(c)
<1>1. manager.queue = "none"
  BY DEF SlotIsTrue
<1>2. worker \in {"none", "gone"}
  BY DEF SlotIsTrue, Types, Installs
<1> QED
  BY <1>1, <1>2 DEF SlotIsTrue

(* Outside a running process there are no calls and no worker.                *)
LEMMA RunningNow ==
  ASSUME Types, ManagerInv,
         \/ CheckForUpdates \/ WorkerStep \/ HandoffRefused
         \/ \E c \in Callers : CallerStep(c) \/ DownloadUpdate(c) \/ InstallUpdate(c)
  PROVE  runtime.up
<1> SUFFICES ASSUME ~runtime.up
             PROVE  FALSE
  OBVIOUS
<1>1. /\ manager.queue = "none" /\ worker = "none" /\ ~runtime.stop
      /\ \A c \in Callers : caller[c] = "none"
  BY DEF ManagerInv, NothingRuns
<1>2. ~(WorkerStep \/ HandoffRefused)
  BY <1>1 DEF WorkerStep, HandoffRefused, RunCheck, CheckAnswers, RunDownload, DownloadEnds,
              RunInstall, WaitForIdle, WaitDecide, Handoff, AckArrives, AckTimeout,
              ShutdownCallback, WorkerEnds, Takes
<1>3. \A c \in Callers : ~CallerStep(c)
  BY <1>1 DEF CallerStep, DownloadDecide, DownloadAdmit, InstallReserve, InstallDecide
<1> QED
  BY <1>2, <1>3 DEF CheckForUpdates, DownloadUpdate, InstallUpdate

(* The calls of the user and of the policy thread.                           *)
LEMMA CallsManage ==
  ASSUME Types, ManagerInv,
         \/ CheckForUpdates
         \/ \E c \in Callers : CallerStep(c) \/ DownloadUpdate(c) \/ InstallUpdate(c)
  PROVE  ManagerInv'
<1>0. /\ machine \in Machines /\ manager \in Managers /\ caller \in [Callers -> Kinds]
      /\ MachineMoves
  BY MovesType DEF Types, Kinds
<1>1. runtime.up /\ UNCHANGED <<worker, runtime>> /\ runtime'.up
  BY RunningNow, CallsType DEF CallTypes
<1>2. SlotIsTrue /\ GateIsHeld /\ BusyHasWorker
  BY <1>1 DEF ManagerInv
<1>3. SUFFICES SlotIsTrue' /\ GateIsHeld' /\ BusyHasWorker'
  BY <1>1 DEF ManagerInv
<1>4. ASSUME NEW c \in Callers, NEW pc, CallAt(c, pc)
      PROVE  caller'[c] = pc /\ \A d \in Callers \ {c} : caller'[d] = caller[d]
  BY <1>0, <1>4 DEF CallAt
<1>5. ASSUME NEW op \in {"check", "download"}
      PROVE  /\ Admitted(op).op = op /\ Admitted(op).queue = op
             /\ Admitted(op).held = manager.held /\ Admitted(op).pending = manager.pending
  BY <1>0 DEF Admitted, Managers
<1>6. ASSUME Free, NEW op \in {"check", "download"}, manager' = Admitted(op),
             UNCHANGED <<machine, gateVars>>, \A d \in Callers : Prepares(d)' => caller'[d] = caller[d]
      PROVE  SlotIsTrue' /\ GateIsHeld' /\ BusyHasWorker'
  <2>1. worker \in {"none", "gone"} /\ manager.queue = "none" /\ \A d \in Callers : ~Prepares(d)
    BY <1>2, <1>6, FreeMeans DEF Free
  <2>2. manager.op = "none" /\ (~manager.held \/ runtime.shut)
    BY <1>2, <1>6 DEF Free, GateIsHeld
  <2>3. manager'.op = op /\ manager'.queue = op /\ manager'.held = manager.held
    BY <1>5, <1>6
  <2>4. SlotIsTrue'
    BY <1>1, <1>6, <2>1, <2>3 DEF SlotIsTrue, Installs, Prepares
  <2>5. GateIsHeld'
    BY <1>1, <1>2, <1>6, <2>2, <2>3 DEF GateIsHeld, gateVars, Prepares
  <2>6. BusyHasWorker'
    BY <1>1, <1>2, <1>6, <2>1, <2>3 DEF BusyHasWorker, Free
  <2> QED
    BY <2>4, <2>5, <2>6
<1>7. ASSUME UNCHANGED <<manager, gate>>, \A d \in Callers : Prepares(d)' => caller'[d] = caller[d],
             UNCHANGED machine \/ machine'.state = "error"
      PROVE  SlotIsTrue' /\ GateIsHeld' /\ BusyHasWorker'
  <2>1. SlotIsTrue'
    BY <1>1, <1>2, <1>7 DEF SlotIsTrue, Prepares
  <2>2. GateIsHeld'
    BY <1>1, <1>2, <1>7 DEF GateIsHeld, Prepares
  <2>3. BusyHasWorker'
    BY <1>1, <1>2, <1>7 DEF BusyHasWorker
  <2> QED
    BY <2>1, <2>2, <2>3
<1>8. CASE CheckForUpdates
  <2>1. UNCHANGED <<machine, gateVars, caller>> /\ Free /\ manager' = Admitted("check")
    BY <1>8 DEF CheckForUpdates
  <2> QED
    BY <1>6, <2>1 DEF Prepares
<1>9. ASSUME NEW c \in Callers, DownloadUpdate(c)
      PROVE  SlotIsTrue' /\ GateIsHeld' /\ BusyHasWorker'
  <2>1. UNCHANGED <<machine, manager, gate>> /\ CallAt(c, "download")
    BY <1>9 DEF DownloadUpdate, gateVars
  <2>2. \A d \in Callers : Prepares(d)' => caller'[d] = caller[d]
    BY <1>4, <2>1 DEF Prepares
  <2> QED
    BY <1>7, <2>1, <2>2
<1>10. ASSUME NEW c \in Callers, DownloadDecide(c)
       PROVE  SlotIsTrue' /\ GateIsHeld' /\ BusyHasWorker'
  <2>1. /\ UNCHANGED <<manager, gate>> /\ machine' \in {machine, Failed}
        /\ \E pc \in {"admit", "none"} : CallAt(c, pc)
    BY <1>10 DEF DownloadDecide, gateVars
  <2>2. \A d \in Callers : Prepares(d)' => caller'[d] = caller[d]
    BY <1>4, <2>1 DEF Prepares
  <2> QED
    BY <1>0, <1>7, <2>1, <2>2 DEF MachineMoves
<1>11. ASSUME NEW c \in Callers, DownloadAdmit(c)
       PROVE  SlotIsTrue' /\ GateIsHeld' /\ BusyHasWorker'
  <2>1. /\ UNCHANGED <<machine, gateVars>> /\ CallAt(c, "none")
        /\ (Free /\ manager' = Admitted("download")) \/ UNCHANGED manager
    BY <1>11 DEF DownloadAdmit
  <2>2. \A d \in Callers : Prepares(d)' => caller'[d] = caller[d]
    BY <1>4, <2>1 DEF Prepares
  <2>3. UNCHANGED <<machine, gate>>
    BY <2>1 DEF gateVars
  <2> QED
    BY <1>6, <1>7, <2>1, <2>2, <2>3
<1>12. ASSUME NEW c \in Callers, InstallUpdate(c)
       PROVE  SlotIsTrue' /\ GateIsHeld' /\ BusyHasWorker'
  <2>1. /\ UNCHANGED <<machine, gate>> /\ CallAt(c, "prepare") /\ manager.op = "none"
        /\ manager' = [manager EXCEPT !.op = "install_prepare"]
    BY <1>12 DEF InstallUpdate, gateVars, Free
  <2>2. worker \in {"none", "gone"} /\ manager.queue = "none" /\ \A d \in Callers : ~Prepares(d)
    BY <1>2, <2>1, FreeMeans
  <2>3. /\ manager'.op = "install_prepare" /\ manager'.queue = "none"
        /\ manager'.held = manager.held
    BY <1>0, <2>1, <2>2 DEF Managers
  <2>4. \A d \in Callers : Prepares(d)' => d = c
    BY <1>4, <2>1, <2>2 DEF Prepares
  <2>5. SlotIsTrue'
    BY <1>1, <2>2, <2>3, <2>4 DEF SlotIsTrue, Installs
  <2>6. GateIsHeld'
    BY <1>1, <1>2, <2>1, <2>3 DEF GateIsHeld
  <2>7. BusyHasWorker'
    BY <1>1, <1>2, <2>1, <2>2 DEF BusyHasWorker
  <2> QED
    BY <2>5, <2>6, <2>7
<1>13. ASSUME NEW c \in Callers, InstallReserve(c)
       PROVE  SlotIsTrue' /\ GateIsHeld' /\ BusyHasWorker'
  <2>1. Prepares(c) /\ manager.op = "install_prepare" /\ UNCHANGED machine
    BY <1>2, <1>13 DEF InstallReserve, Prepares, SlotIsTrue
  <2>2. worker \in {"none", "gone"} /\ manager.queue = "none"
    BY <1>2, <2>1 DEF SlotIsTrue, Types, Installs, Managers
  <2>3. \/ /\ gate' = Reserved /\ manager' = [manager EXCEPT !.held = TRUE] /\ CallAt(c, "query")
        \/ /\ manager' = [manager EXCEPT !.op = "none"] /\ CallAt(c, "none") /\ UNCHANGED gate
           /\ ~(machine.state = "downloaded" /\ AssetReady)
    BY <1>13 DEF InstallReserve
  <2>4. \A d \in Callers : Prepares(d)' => d = c
    BY <1>2, <1>4, <2>1, <2>3 DEF Prepares, SlotIsTrue
  <2>5. BusyHasWorker'
    BY <1>1, <1>2, <2>1, <2>2 DEF BusyHasWorker
  <2>6. CASE gate' = Reserved /\ manager' = [manager EXCEPT !.held = TRUE] /\ CallAt(c, "query")
    <3>1. manager'.op = "install_prepare" /\ manager'.queue = "none" /\ manager'.held
      BY <1>0, <2>1, <2>2, <2>6 DEF Managers
    <3>2. SlotIsTrue'
      BY <1>1, <2>2, <2>4, <3>1 DEF SlotIsTrue, Installs
    <3>3. GateIsHeld'
      <4>1. caller'[c] = "query" /\ \A d \in Callers : caller'[d] # "prepare"
        BY <1>4, <2>4, <2>6 DEF Prepares
      <4> QED
        BY <2>6, <3>1, <4>1 DEF GateIsHeld
    <3> QED
      BY <2>5, <3>2, <3>3
  <2>7. CASE /\ manager' = [manager EXCEPT !.op = "none"] /\ CallAt(c, "none") /\ UNCHANGED gate
             /\ ~(machine.state = "downloaded" /\ AssetReady)
    <3>1. manager'.op = "none" /\ manager'.queue = "none" /\ manager'.held = manager.held
      BY <1>0, <2>1, <2>2, <2>7 DEF Managers
    <3>2. \A d \in Callers : ~Prepares(d)'
      BY <1>4, <2>4, <2>7 DEF Prepares
    <3>3. SlotIsTrue'
      BY <1>1, <2>2, <3>1, <3>2 DEF SlotIsTrue, Installs
    <3>4. GateIsHeld'
      <4>1. ~manager.held \/ runtime.shut
        BY <1>2, <1>13 DEF GateIsHeld, InstallReserve
      <4> QED
        BY <1>1, <1>2, <2>7, <3>1, <3>2, <4>1 DEF GateIsHeld, Prepares
    <3> QED
      BY <2>5, <3>3, <3>4
  <2> QED
    BY <2>3, <2>6, <2>7
<1>14. ASSUME NEW c \in Callers, InstallDecide(c)
       PROVE  SlotIsTrue' /\ GateIsHeld' /\ BusyHasWorker'
  <2>1. Prepares(c) /\ manager.op = "install_prepare"
    BY <1>2, <1>14 DEF InstallDecide, Prepares, SlotIsTrue
  <2>2. worker \in {"none", "gone"} /\ manager.queue = "none"
    BY <1>2, <2>1 DEF SlotIsTrue, Types, Installs, Managers
  <2>3. \A d \in Callers : ~Prepares(d)'
    BY <1>2, <1>4, <1>14, <2>1 DEF InstallDecide, Prepares, SlotIsTrue
  <2>4. \/ /\ machine' \in {MovedTo("install_handoff"), MovedTo("waiting_for_idle")}
           /\ manager' = [manager EXCEPT !.op = "install", !.queue = "install", !.pending = TRUE]
           /\ UNCHANGED gate
        \/ /\ gate' = GateAfterRelease /\ UNCHANGED machine
           /\ manager' = [manager EXCEPT !.op = "none", !.held = FALSE]
    BY <1>14 DEF InstallDecide
  <2>5. CASE /\ machine' \in {MovedTo("install_handoff"), MovedTo("waiting_for_idle")}
             /\ manager' = [manager EXCEPT !.op = "install", !.queue = "install", !.pending = TRUE]
             /\ UNCHANGED gate
    <3>1. manager'.op = "install" /\ manager'.queue = "install" /\ manager'.held = manager.held
      BY <1>0, <2>5 DEF Managers
    <3>2. machine'.state \in {"install_handoff", "waiting_for_idle"}
      <4>1. {"install_handoff", "waiting_for_idle"} \subseteq States
        BY DEF States
      <4> QED
        BY <1>0, <2>5, <4>1 DEF MachineMoves
    <3>3. SlotIsTrue'
      BY <1>1, <2>2, <2>3, <3>1 DEF SlotIsTrue, Installs
    <3>4. GateIsHeld'
      BY <1>1, <1>2, <2>3, <2>5, <3>1 DEF GateIsHeld, Prepares
    <3>5. BusyHasWorker'
      BY <3>1, <3>2 DEF BusyHasWorker
    <3> QED
      BY <3>3, <3>4, <3>5
  <2>6. CASE /\ gate' = GateAfterRelease /\ UNCHANGED machine
             /\ manager' = [manager EXCEPT !.op = "none", !.held = FALSE]
    <3>1. manager'.op = "none" /\ manager'.queue = "none" /\ ~manager'.held
      BY <1>0, <2>2, <2>6 DEF Managers
    <3>2. SlotIsTrue'
      BY <1>1, <2>2, <2>3, <3>1 DEF SlotIsTrue, Installs
    <3>3. GateIsHeld'
      BY <1>1, <1>2, <2>3, <2>6, <3>1 DEF GateIsHeld, GateAfterRelease, Released, Prepares
    <3>4. BusyHasWorker'
      BY <1>1, <1>2, <2>1, <2>2, <2>6 DEF BusyHasWorker
    <3> QED
      BY <3>2, <3>3, <3>4
  <2> QED
    BY <2>4, <2>5, <2>6
<1> QED
  BY <1>8, <1>9, <1>10, <1>11, <1>12, <1>13, <1>14 DEF CallerStep

(* An operation of the worker ends: the slot is free, the state is not busy,  *)
(* and what it held is given back or was never held.                          *)
Resting == machine.state \notin {"checking", "downloading", "waiting_for_idle", "install_handoff"}

(* The parts of the invariant about the slot, the gate and the busy states.  *)
LEMMA OperationEnds ==
  ASSUME SlotIsTrue, GateIsHeld, manager.op \notin {"none", "install_prepare"},
         manager'.op = "none", manager'.queue = "none", worker' \in {"none", "gone"},
         UNCHANGED <<caller, runtime>>, Resting',
         \/ /\ ~manager'.held /\ gate' = GateAfterRelease
         \/ /\ manager'.held = manager.held /\ gate' = gate
            /\ manager.op # "install"
  PROVE  SlotIsTrue' /\ GateIsHeld' /\ BusyHasWorker'
<1>1. \A c \in Callers : ~Prepares(c) /\ ~Prepares(c)'
  BY DEF SlotIsTrue, Prepares
<1>2. SlotIsTrue'
  BY <1>1 DEF SlotIsTrue, Installs
<1>3. BusyHasWorker'
  BY DEF BusyHasWorker, Resting
<1>4. GateIsHeld'
  BY <1>1 DEF GateIsHeld, GateAfterRelease, Released, Prepares
<1> QED
  BY <1>2, <1>3, <1>4

(* The worker.                                                               *)
LEMMA WorkManages ==
  ASSUME Types, ManagerInv, WorkerStep \/ HandoffRefused
  PROVE  ManagerInv'
<1>0. /\ machine \in Machines /\ manager \in Managers /\ MachineMoves /\ runtime \in Runtimes
  BY MovesType DEF Types
<1>1. runtime.up /\ runtime'.up /\ UNCHANGED caller
  BY RunningNow, WorkType, HandoffType DEF WorkTypes
<1>2. SlotIsTrue /\ GateIsHeld /\ BusyHasWorker
  BY <1>1 DEF ManagerInv
<1>3. SUFFICES SlotIsTrue' /\ GateIsHeld' /\ BusyHasWorker'
  BY <1>1 DEF ManagerInv
<1>4. /\ Took.op = manager.op /\ Took.queue = "none" /\ Took.held = manager.held
      /\ [Took EXCEPT !.op = "none"].op = "none" /\ [Took EXCEPT !.op = "none"].queue = "none"
      /\ [Took EXCEPT !.op = "none"].held = manager.held
  BY <1>0 DEF Took, Managers
<1>5. /\ {"checking", "update_available", "up_to_date", "downloading", "downloaded",
          "install_handoff", "installing"} \subseteq States
  BY DEF States
<1>6. ASSUME NEW s \in States
      PROVE  MovedTo(s).state = s /\ Failed.state = "error"
  BY <1>0 DEF MachineMoves
<1>7. worker \notin {"none", "gone"} => manager.queue = "none"
  BY <1>2 DEF SlotIsTrue
<1>8. CASE RunCheck \/ RunDownload
  <2>1. /\ manager.op \in {"check", "download"} /\ manager.queue = manager.op /\ worker = "none"
        /\ UNCHANGED <<gate, runtime>>
    BY <1>2, <1>8 DEF RunCheck, RunDownload, Takes, SlotIsTrue, gateVars, workRest
  <2>2. CASE /\ machine' = Failed /\ manager' = [Took EXCEPT !.op = "none"]
             /\ worker' \in {"none", "gone"}
    <3>1. machine'.state = "error"
      BY <1>6, <1>5, <2>2
    <3>2. Resting'
      BY <3>1 DEF Resting
    <3> QED
      BY <1>1, <1>2, <1>4, <2>1, <2>2, <3>2, OperationEnds
  <2>3. ASSUME manager' = Took,
               \/ /\ worker' = "checking" /\ manager.op = "check" /\ machine'.state = "checking"
               \/ /\ worker' = "downloading" /\ manager.op = "download"
                  /\ machine'.state = "downloading"
        PROVE  SlotIsTrue' /\ GateIsHeld' /\ BusyHasWorker'
    <3>1. SlotIsTrue'
      BY <1>1, <1>2, <1>4, <2>1, <2>3 DEF SlotIsTrue, Installs, Prepares
    <3>2. GateIsHeld'
      BY <1>1, <1>2, <1>4, <2>1, <2>3 DEF GateIsHeld
    <3>3. BusyHasWorker'
      BY <2>3 DEF BusyHasWorker
    <3> QED
      BY <3>1, <3>2, <3>3
  <2>4. CASE RunCheck
    <3>1. \/ /\ machine' = MovedTo("checking") /\ manager' = Took /\ worker' = "checking"
          \/ /\ machine' = Failed /\ manager' = [Took EXCEPT !.op = "none"]
             /\ worker' \in {"none", "gone"}
      BY <2>4 DEF RunCheck
    <3>2. manager.op = "check"
      BY <2>1, <2>4 DEF RunCheck, Takes
    <3> QED
      BY <1>5, <1>6, <2>2, <2>3, <3>1, <3>2
  <2>5. CASE RunDownload
    <3>1. \/ /\ machine' = [MovedTo("downloading") EXCEPT !.asset = 0] /\ manager' = Took
             /\ worker' = "downloading"
          \/ /\ machine' = Failed /\ manager' = [Took EXCEPT !.op = "none"]
             /\ worker' \in {"none", "gone"}
      BY <2>5 DEF RunDownload
    <3>2. manager.op = "download"
      BY <2>1, <2>5 DEF RunDownload, Takes
    <3>3. MovedTo("downloading") \in Machines /\ MovedTo("downloading").state = "downloading"
      BY <1>0, <1>5 DEF MachineMoves
    <3>4. [MovedTo("downloading") EXCEPT !.asset = 0].state = "downloading"
      BY <3>3 DEF Machines
    <3> QED
      BY <2>2, <2>3, <3>1, <3>2, <3>4
  <2> QED
    BY <1>8, <2>4, <2>5
<1>9. CASE CheckAnswers \/ DownloadEnds
  <2>1. /\ manager.op \in {"check", "download"} /\ manager.queue = "none"
        /\ UNCHANGED <<gate, runtime>> /\ Finish
    BY <1>2, <1>7, <1>9 DEF CheckAnswers, DownloadEnds, SlotIsTrue, gateVars, workRest
  <2>2. Resting'
    <3>1. /\ MovedTo("update_available") \in Machines
          /\ MovedTo("update_available").state = "update_available"
          /\ MovedTo("up_to_date") \in Machines /\ MovedTo("up_to_date").state = "up_to_date"
          /\ MovedTo("downloaded") \in Machines /\ MovedTo("downloaded").state = "downloaded"
          /\ Failed.state = "error"
      BY <1>0, <1>5 DEF MachineMoves
    <3>2. machine'.state \in {"update_available", "up_to_date", "downloaded", "error"}
      <4>1. CASE CheckAnswers
        BY <3>1, <4>1 DEF CheckAnswers, Machines
      <4>2. CASE DownloadEnds
        BY <3>1, <4>2 DEF DownloadEnds, Machines
      <4> QED
        BY <1>9, <4>1, <4>2
    <3> QED
      BY <3>2 DEF Resting
  <2>3. /\ manager'.op = "none" /\ manager'.queue = "none" /\ worker' \in {"none", "gone"}
        /\ manager'.held = manager.held
    BY <1>0, <2>1, FinishType
  <2> QED
    BY <1>1, <1>2, <2>1, <2>2, <2>3, OperationEnds
<1>10. ASSUME worker \in Installs, GiveUp, UNCHANGED runtime,
              machine' \in {Failed, MovedTo("downloaded")}
       PROVE  SlotIsTrue' /\ GateIsHeld' /\ BusyHasWorker'
  <2>1. manager.op = "install" /\ manager.queue = "none"
    BY <1>2, <1>7, <1>10 DEF SlotIsTrue, Installs
  <2>2. /\ manager'.op = "none" /\ manager'.queue = "none" /\ worker' \in {"none", "gone"}
        /\ ~manager'.held
    BY <1>0, <1>10, <2>1, FinishType
  <2>3. machine'.state \in {"error", "downloaded"}
    BY <1>5, <1>6, <1>10
  <2>4. Resting' /\ gate' = GateAfterRelease
    BY <1>10, <2>3 DEF Resting, GiveUp
  <2> QED
    BY <1>1, <1>2, <1>10, <2>1, <2>2, <2>4, OperationEnds
<1>11. ASSUME worker \in Installs, worker' \in Installs, UNCHANGED <<manager, gate, runtime>>,
              BusyHasWorker'
       PROVE  SlotIsTrue' /\ GateIsHeld' /\ BusyHasWorker'
  <2>1. SlotIsTrue'
    BY <1>1, <1>2, <1>7, <1>11 DEF SlotIsTrue, Installs, Prepares
  <2>2. GateIsHeld'
    BY <1>1, <1>2, <1>11 DEF GateIsHeld
  <2> QED
    BY <1>11, <2>1, <2>2
<1>12. CASE RunInstall
  <2>1. /\ manager.op = "install" /\ manager.queue = "install" /\ worker = "none"
        /\ manager' = Took /\ UNCHANGED <<machine, gate, runtime>>
        /\ worker' \in {"wait", "handoff"}
        /\ worker' = "wait" <=> machine.state = "waiting_for_idle"
    BY <1>2, <1>12 DEF RunInstall, Takes, SlotIsTrue, gateVars, workRest
  <2>2. SlotIsTrue'
    BY <1>1, <1>2, <1>4, <2>1 DEF SlotIsTrue, Installs, Prepares
  <2>3. GateIsHeld'
    BY <1>1, <1>2, <1>4, <2>1 DEF GateIsHeld
  <2>4. BusyHasWorker'
    BY <1>2, <1>4, <2>1 DEF BusyHasWorker
  <2> QED
    BY <2>2, <2>3, <2>4
<1>13. CASE WaitForIdle
  <2>1. worker \in Installs /\ UNCHANGED runtime
    BY <1>13 DEF WaitForIdle, Installs, workRest
  <2>2. \/ machine' \in {Failed, MovedTo("downloaded")} /\ GiveUp
        \/ worker' = "query" /\ UNCHANGED <<machine, manager, gate>>
    BY <1>13 DEF WaitForIdle
  <2>3. ASSUME worker' = "query", UNCHANGED <<machine, manager, gate>>
        PROVE  worker' \in Installs /\ BusyHasWorker'
    BY <1>2, <1>7, <1>13, <2>3 DEF WaitForIdle, Installs, BusyHasWorker
  <2> QED
    BY <1>10, <1>11, <2>1, <2>2, <2>3
<1>14. CASE WaitDecide
  <2>1. worker = "query" /\ manager.op = "install" /\ manager.queue = "none"
        /\ UNCHANGED <<runtime, manager, gate>>
    BY <1>2, <1>7, <1>14 DEF WaitDecide, Installs, SlotIsTrue, workRest
  <2>2. \/ machine' = MovedTo("install_handoff") /\ worker' = "handoff"
        \/ UNCHANGED machine /\ worker' = "wait"
    BY <1>14 DEF WaitDecide
  <2>3. worker \in Installs /\ worker' \in Installs
    BY <2>1, <2>2 DEF Installs
  <2>4. BusyHasWorker'
    <3>1. MovedTo("install_handoff").state = "install_handoff"
      BY <1>5, <1>6
    <3> QED
      BY <1>2, <2>1, <2>2, <3>1 DEF BusyHasWorker
  <2> QED
    BY <1>11, <2>1, <2>3, <2>4
<1>15. CASE Handoff
  <2>1. worker = "handoff" /\ worker' = "ack" /\ UNCHANGED <<runtime, manager, gate, machine>>
    BY <1>15 DEF Handoff, gateVars, workRest
  <2>2. worker \in Installs /\ worker' \in Installs /\ manager.queue = "none"
    BY <1>7, <2>1 DEF Installs
  <2>3. BusyHasWorker'
    BY <1>2, <2>1, <2>2 DEF BusyHasWorker
  <2> QED
    BY <1>11, <2>1, <2>2, <2>3
<1>16. CASE AckArrives
  <2>1. worker = "ack" /\ worker \in Installs /\ UNCHANGED runtime
    BY <1>16 DEF AckArrives, Installs, workRest
  <2>2. \/ machine' = MovedTo("installing") /\ worker' = "callback" /\ UNCHANGED <<manager, gate>>
        \/ machine' = Failed /\ GiveUp
    BY <1>16 DEF AckArrives
  <2>3. MovedTo("installing").state = "installing"
    BY <1>5, <1>6
  <2>4. machine' = MovedTo("installing") => BusyHasWorker'
    BY <2>3 DEF BusyHasWorker
  <2> QED
    BY <1>10, <1>11, <2>1, <2>2, <2>4 DEF Installs
<1>17. CASE AckTimeout \/ HandoffRefused
  <2>1. worker \in Installs /\ UNCHANGED runtime /\ machine' = Failed /\ GiveUp
    BY <1>17 DEF AckTimeout, HandoffRefused, Installs, workRest
  <2> QED
    BY <1>10, <2>1
<1>18. CASE ShutdownCallback
  <2>1. /\ worker = "callback" /\ manager.op = "install" /\ manager.queue = "none"
        /\ UNCHANGED <<machine, gate>> /\ manager' = [manager EXCEPT !.op = "none"]
        /\ worker' = "gone" /\ runtime'.shut
    BY <1>0, <1>2, <1>7, <1>18 DEF ShutdownCallback, Installs, SlotIsTrue, gateVars, Runtimes
  <2>2. manager'.op = "none" /\ manager'.queue = "none"
    BY <1>0, <2>1 DEF Managers
  <2>3. SlotIsTrue'
    BY <1>1, <1>2, <2>1, <2>2 DEF SlotIsTrue, Installs, Prepares
  <2>4. GateIsHeld'
    BY <1>1, <1>2, <2>1 DEF GateIsHeld
  <2>5. BusyHasWorker'
    BY <1>2, <2>1 DEF BusyHasWorker
  <2> QED
    BY <2>3, <2>4, <2>5
<1>19. CASE WorkerEnds
  <2>1. worker = "none" /\ worker' = "gone" /\ UNCHANGED <<runtime, manager, gate, machine>>
        /\ manager.queue = "none"
    BY <1>19 DEF WorkerEnds, gateVars, workRest
  <2>2. SlotIsTrue'
    BY <1>1, <1>2, <2>1 DEF SlotIsTrue, Installs, Prepares
  <2>3. GateIsHeld' /\ BusyHasWorker'
    BY <1>1, <1>2, <2>1 DEF GateIsHeld, BusyHasWorker
  <2> QED
    BY <2>2, <2>3
<1> QED
  BY <1>8, <1>9, <1>12, <1>13, <1>14, <1>15, <1>16, <1>17, <1>18, <1>19 DEF WorkerStep

(* The process, the work it admits, and the runners outside it.              *)
LEMMA RestManages ==
  ASSUME Types, ManagerInv,
         \/ ProcessStep \/ Crash \/ RequestShutdown \/ SetPolicy \/ UserStart \/ ManualUpgrade
         \/ ReadStep \/ BeginWork \/ WorkTakesEffect \/ EndAdmission \/ StopActivity
         \/ BeginClipboard \/ EndClipboard \/ RunnerMoves \/ UNCHANGED vars
  PROVE  ManagerInv'
<1>0. machine \in Machines /\ runtime \in Runtimes /\ program \in Programs /\ outcome \in Outcomes
  BY DEF Types
<1>1. ASSUME Forgotten, runtime' = [runtime EXCEPT !.up = FALSE, !.shut = FALSE, !.stop = FALSE]
      PROVE  ManagerInv'
  <2>1. ~runtime'.up /\ ~runtime'.shut /\ ~runtime'.stop
    BY <1>0, <1>1 DEF Runtimes
  <2>2. NothingRuns'
    BY <1>1, <2>1, ForgottenType
  <2>3. SlotIsTrue' /\ GateIsHeld'
    BY <2>2 DEF NothingRuns, SlotIsTrue, GateIsHeld, Installs, Prepares
  <2> QED
    BY <2>1, <2>2, <2>3 DEF ManagerInv
<1>2. ASSUME Started, ~runtime.up, UNCHANGED <<manager, caller, worker, gateVars>>
      PROVE  ManagerInv'
  <2>1. runtime'.up /\ ~runtime'.shut /\ Resting'
    BY <1>0, <1>2, StartedType DEF Resting, Started
  <2>2. NothingRuns
    BY <1>2 DEF ManagerInv
  <2>3. SlotIsTrue' /\ GateIsHeld'
    BY <1>2, <2>2 DEF NothingRuns, SlotIsTrue, GateIsHeld, Installs, Prepares, gateVars
  <2>4. BusyHasWorker'
    BY <2>1 DEF BusyHasWorker, Resting
  <2> QED
    BY <2>1, <2>3, <2>4 DEF ManagerInv
<1>3. ASSUME UNCHANGED <<managerVars, gate>>,
             \/ UNCHANGED runtime
             \/ /\ runtime.up /\ runtime'.up /\ (runtime.shut => runtime'.shut)
      PROVE  ManagerInv'
  <2>1. UNCHANGED <<machine, manager, caller, worker, gate>>
    BY <1>3 DEF managerVars
  <2>2. SlotIsTrue' /\ GateIsHeld'
    BY <1>3, <2>1 DEF ManagerInv, SlotIsTrue, GateIsHeld, Prepares
  <2>3. ~runtime'.up => NothingRuns'
    BY <1>3, <2>1 DEF ManagerInv, NothingRuns
  <2>4. runtime'.up => BusyHasWorker'
    BY <1>3, <2>1 DEF ManagerInv, BusyHasWorker
  <2> QED
    BY <2>2, <2>3, <2>4 DEF ManagerInv
<1>4. CASE Exit \/ Crash
  BY <1>1, <1>4 DEF Exit, Crash
<1>5. CASE UserStart
  BY <1>2, <1>5 DEF UserStart
<1>6. CASE StopManager \/ RequestShutdown
  <2>1. runtime.up /\ runtime'.up /\ (runtime.shut => runtime'.shut)
    BY <1>0, <1>6 DEF StopManager, RequestShutdown, Runtimes
  <2> QED
    BY <1>3, <1>6, <2>1 DEF StopManager, RequestShutdown, gateVars
<1>7. CASE \/ SetPolicy \/ ReadStep \/ BeginWork \/ WorkTakesEffect \/ EndAdmission \/ StopActivity
           \/ BeginClipboard \/ EndClipboard \/ ManualUpgrade \/ UNCHANGED vars
  <2>1. UNCHANGED <<managerVars, gate, runtime>>
    BY <1>7
    DEF SetPolicy, ReadStep, ReadActivity, ReadAdmissions, ReadClipboard, Read, BeginWork,
        WorkTakesEffect, EndAdmission, StopActivity, BeginClipboard, EndClipboard, ManualUpgrade,
        gateRest, gateVars, vars
  <2> QED
    BY <1>3, <2>1
<1>8. CASE RunnerMoves
  <2>1. PICK r \in Request : RunnerStep(r) \/ RunnerFails(r) \/ BackupFails(r)
    BY <1>8 DEF RunnerMoves
  <2>2. CASE RollBack(r)
    BY <1>1, <2>2 DEF RollBack
  <2>3. CASE StartNew(r) \/ StartOld(r) \/ StartRestored(r)
    <3>1. /\ UNCHANGED <<manager, caller, worker, gateVars>>
          /\ UNCHANGED <<runtime, machine>> \/ (Started /\ ~runtime.up)
      BY <2>3 DEF StartNew, StartOld, StartRestored, StartTask
    <3> QED
      BY <1>2, <1>3, <3>1 DEF managerVars, gateVars
  <2>4. CASE ~RollBack(r) /\ ~StartNew(r) /\ ~StartOld(r) /\ ~StartRestored(r)
    <3>1. UNCHANGED <<runnerRest, runtime>>
      BY <2>1, <2>4
      DEF RunnerStep, RunnerStart, MoveAside, ExitTimeout, InstallerEnds, HealthTest,
          RollbackHealth, ReportFailed, RunnerFails, BackupFails
    <3> QED
      BY <1>3, <3>1 DEF runnerRest, gateVars
  <2> QED
    BY <2>2, <2>3, <2>4
<1> QED
  BY <1>4, <1>5, <1>6, <1>7, <1>8 DEF ProcessStep

----------------------------------------------------------------------------
(* The program                                                               *)

(* Only one runner is at work.                                               *)
LEMMA OnlyOne ==
  ASSUME Turns, NEW r \in Request, runner[r].at \notin {"none", "done"}
  PROVE  \A q \in Request \ {r} : runner[q].at \in {"none", "done"}
BY DEF Turns, Request

(* The program directory is empty only in the hands of the runner at work.    *)
LEMMA EmptyIsOurs ==
  ASSUME ProgramInv, NEW r \in Request, runner[r].at \notin {"none", "done"},
         program.installed = 0
  PROVE  runner[r].at \in {"replaced", "rollback"}
BY OnlyOne DEF ProgramInv

(* One runner moves on; the others rest.                                      *)
LEMMA OneMovesOn ==
  ASSUME ProgramInv, NEW r \in Request, runner[r].at \notin {"none", "done"},
         \A q \in Request : q # r => runner'[q] = runner[q], runner'[r].at # "none",
         ProgramFits(r)',
         program'.installed = 0 => runner'[r].at \in {"replaced", "rollback"}
  PROVE  ProgramInv'
<1>1. \A q \in Request \ {r} : runner[q].at \in {"none", "done"} /\ runner'[q] = runner[q]
  BY OnlyOne DEF ProgramInv
<1>2. ASSUME NEW p \in Request, NEW q \in Request, p < q, runner'[q].at # "none"
      PROVE  runner'[p].at = "done"
  <2>1. CASE p = r
    <3>1. q # r /\ runner[q].at # "none"
      BY <1>1, <1>2, <2>1 DEF Request
    <3> QED
      BY <1>2, <2>1, <3>1 DEF ProgramInv, Turns
  <2>2. CASE p # r
    <3>1. runner[q].at # "none"
      BY <1>1, <1>2
    <3> QED
      BY <1>1, <1>2, <2>2, <3>1 DEF ProgramInv, Turns
  <2> QED
    BY <2>1, <2>2
<1>3. Turns'
  BY <1>2 DEF Turns
<1>4. \A q \in Request \ {r} : ProgramFits(q)'
  BY <1>1 DEF ProgramFits, Idles
<1> QED
  BY <1>3, <1>4 DEF ProgramInv

(* Nobody moves on; the program stays, or nobody is at work on it.            *)
LEMMA NobodyMoves ==
  ASSUME ProgramInv, UNCHANGED runner,
         \/ UNCHANGED program
         \/ (\A r \in Request : Idles(r)) /\ program'.installed # 0,
         \/ runtime'.up => runtime.up
         \/ \A r \in Request : runner[r].at \notin {"replaced", "installed"}
  PROVE  ProgramInv'
<1>1. Turns'
  BY DEF ProgramInv, Turns
<1>2. \A r \in Request : ProgramFits(r)'
  BY DEF ProgramInv, ProgramFits, Idles
<1>3. program'.installed = 0 => \E r \in Request : runner'[r].at \in {"replaced", "rollback"}
  BY DEF ProgramInv
<1> QED
  BY <1>1, <1>2, <1>3 DEF ProgramInv

(* A hand-off launches the next runner.                                      *)
LEMMA HandoffKeepsProgram ==
  ASSUME Types, ProgramInv, Handoff
  PROVE  ProgramInv'
<1>1. PICK r \in Request :
        /\ runner[r].at = "none" /\ runner' = GoesTo(r, "launched")
        /\ \A q \in 1..(r - 1) : runner[q].at = "done"
  BY HandoffType
<1>2. UNCHANGED <<program, runtime>>
  BY HandoffType DEF WorkTypes
<1>3. runner'[r].at = "launched" /\ \A q \in Request : q # r => runner'[q] = runner[q]
  <2>1. "launched" \in RunnerPlaces /\ runner \in [Request -> Runners]
    BY DEF RunnerPlaces, Types
  <2> QED
    BY <1>1, <2>1, GoesType
<1>4. \A q \in Request : q < r => runner[q].at = "done"
  BY <1>1 DEF Request
<1>5. \A q \in Request : r < q => runner[q].at = "none"
  BY <1>1 DEF ProgramInv, Turns
<1>6. Turns'
  <2> SUFFICES ASSUME NEW p \in Request, NEW q \in Request, p < q, runner'[q].at # "none"
               PROVE  runner'[p].at = "done"
    BY DEF Turns
  <2>1. q <= r
    BY <1>3, <1>5 DEF Request
  <2> QED
    BY <1>3, <1>4, <2>1 DEF Request
<1>7. \A q \in Request : ProgramFits(q)'
  BY <1>2, <1>3 DEF ProgramInv, ProgramFits, Idles
<1>8. program'.installed = 0 => \E q \in Request : runner'[q].at \in {"replaced", "rollback"}
  BY <1>1, <1>2, <1>3 DEF ProgramInv
<1> QED
  BY <1>6, <1>7, <1>8 DEF ProgramInv

(* The runners.                                                              *)
LEMMA RunnersKeepProgram ==
  ASSUME Types, ProgramInv, RunnerMoves
  PROVE  ProgramInv'
<1>0. /\ runtime \in Runtimes /\ program \in Programs /\ plan \in Plans
      /\ runner \in [Request -> Runners]
  BY DEF Types
<1>1. PICK r \in Request : RunnerStep(r) \/ RunnerFails(r) \/ BackupFails(r)
  BY DEF RunnerMoves
<1>2. runner[r] \in Runners /\ ProgramFits(r)
  BY <1>0 DEF ProgramInv
<1>3. /\ runner[r].plan.from \in 0..Newest /\ runner[r].plan.to \in 0..Newest
      /\ Newest \in Nat /\ program.installed \in 0..Newest
  BY <1>0, <1>2, UpdateAssumption DEF Runners, Plans, Programs
<1>4. ASSUME NEW at \in RunnerPlaces, runner' = GoesTo(r, at)
      PROVE  /\ runner'[r].at = at /\ runner'[r].plan = runner[r].plan
             /\ \A q \in Request : q # r => runner'[q] = runner[q]
  BY <1>0, <1>4, GoesType
<1>5. RunnerPlaces = {"none", "launched", "waiting", "replaced", "installed", "restart", "restarted",
                      "health", "rollback", "restored", "old_health", "done"}
  BY DEF RunnerPlaces
<1>6. runner[r].at \notin {"none", "done"}
  BY <1>1 DEF RunnerStep, RunnerFails, BackupFails, RunnerStart, MoveAside, ExitTimeout,
              InstallerEnds, StartNew, StartOld, StartRestored, StartTask, HealthTest, RollBack,
              RollbackHealth, ReportFailed, At
<1>7. program.installed = 0 => runner[r].at \in {"replaced", "rollback"}
  BY <1>6, EmptyIsOurs
<1>8. ASSUME runner' = GoesTo(r, "done"), program' = program, program.installed # 0
      PROVE  ProgramInv'
  <2>1. runner'[r].at = "done" /\ \A q \in Request : q # r => runner'[q] = runner[q]
    BY <1>4, <1>5, <1>8
  <2>2. ProgramFits(r)'
    BY <2>1 DEF ProgramFits, Idles
  <2> QED
    BY <1>6, <1>8, <2>1, <2>2, OneMovesOn
<1>9. CASE RunnerStart(r)
  <2>1. program.installed # 0 /\ UNCHANGED <<program, runtime>>
    BY <1>7, <1>9 DEF RunnerStart, At
  <2>2. CASE PlanValid
    <3>1. runner' = [runner EXCEPT ![r] = [runner[r] EXCEPT !.at = "waiting", !.plan = plan]]
      BY <1>0, <1>9, <2>2 DEF RunnerStart, Runners
    <3>2. /\ runner'[r].at = "waiting" /\ runner'[r].plan = plan
          /\ \A q \in Request : q # r => runner'[q] = runner[q]
      BY <1>0, <1>2, <3>1 DEF Runners
    <3>3. 0 < plan.from /\ plan.from < plan.to /\ program.installed = plan.from
      BY <1>3, <2>1, <2>2 DEF PlanValid
    <3>4. ProgramFits(r)'
      BY <2>1, <3>2, <3>3 DEF ProgramFits
    <3> QED
      BY <1>6, <2>1, <3>2, <3>4, OneMovesOn
  <2>3. CASE ~PlanValid
    BY <1>8, <1>9, <2>1, <2>3 DEF RunnerStart
  <2> QED
    BY <2>2, <2>3
<1>10. CASE RunnerFails(r)
  BY <1>7, <1>8, <1>10 DEF RunnerFails, At
<1>11. CASE BackupFails(r)
  <2>1. /\ runner'[r].at = "restart" /\ runner'[r].plan = runner[r].plan
        /\ \A q \in Request : q # r => runner'[q] = runner[q]
    BY <1>4, <1>5, <1>11 DEF BackupFails
  <2>2. UNCHANGED <<program, runtime>> /\ runner[r].at = "waiting"
    BY <1>11 DEF BackupFails, At
  <2>3. ProgramFits(r)' /\ program'.installed # 0
    BY <1>2, <1>7, <2>1, <2>2 DEF ProgramFits, Idles
  <2> QED
    BY <1>6, <2>1, <2>3, OneMovesOn
<1>12. CASE MoveAside(r)
  <2>1. program.installed # 0 /\ runner[r].at = "waiting" /\ ~runtime.up
    BY <1>7, <1>12 DEF MoveAside, At, RuntimeGone
  <2>2. /\ runner' = [runner EXCEPT ![r].at = "replaced", ![r].backup = machine]
        /\ program' = [installed |-> 0, rollback |-> program.installed] /\ UNCHANGED runtime
    BY <1>12, <2>1 DEF MoveAside
  <2>3. runner' = [runner EXCEPT ![r] = [runner[r] EXCEPT !.at = "replaced", !.backup = machine]]
    BY <1>0, <2>2 DEF Runners
  <2>4. /\ runner'[r].at = "replaced" /\ runner'[r].plan = runner[r].plan
        /\ \A q \in Request : q # r => runner'[q] = runner[q]
    BY <1>0, <1>2, <2>3 DEF Runners
  <2>5. ProgramFits(r)'
    BY <1>2, <2>1, <2>2, <2>4 DEF ProgramFits, Idles
  <2> QED
    BY <1>6, <2>4, <2>5, OneMovesOn
<1>13. CASE ExitTimeout(r)
  BY <1>7, <1>8, <1>13 DEF ExitTimeout, Report, At
<1>14. CASE InstallerEnds(r)
  <2>1. runner[r].at = "replaced" /\ UNCHANGED runtime
    BY <1>14 DEF InstallerEnds, At
  <2>2. \/ /\ program' = [program EXCEPT !.installed = runner[r].plan.to]
           /\ runner' = GoesTo(r, "installed")
        \/ /\ \E v \in {0, runner[r].plan.to} : program' = [program EXCEPT !.installed = v]
           /\ runner' = GoesTo(r, "rollback")
    BY <1>14 DEF InstallerEnds
  <2>3. runner'[r].at \in {"installed", "rollback"} /\ runner'[r].plan = runner[r].plan
        /\ \A q \in Request : q # r => runner'[q] = runner[q]
    BY <1>4, <1>5, <2>2
  <2>4. /\ program'.rollback = program.rollback
        /\ runner'[r].at = "installed" => program'.installed = runner[r].plan.to
    BY <1>0, <1>4, <1>5, <2>2 DEF Programs
  <2>5. 0 < runner[r].plan.from /\ runner[r].plan.from < runner[r].plan.to
    BY <1>2, <2>1 DEF ProgramFits, Idles
  <2>6. ProgramFits(r)'
    BY <1>2, <2>1, <2>3, <2>4, <2>5 DEF ProgramFits, Idles
  <2>7. program'.installed = 0 => runner'[r].at = "rollback"
    BY <1>3, <2>3, <2>4, <2>5
  <2> QED
    BY <1>6, <2>3, <2>6, <2>7, OneMovesOn
<1>15. CASE StartNew(r) \/ StartOld(r) \/ StartRestored(r)
  <2>1. \/ runner[r].at = "installed" /\ runner' = GoesTo(r, "health")
        \/ runner[r].at = "restart" /\ runner' = GoesTo(r, "restarted")
        \/ runner[r].at = "restored" /\ runner' = GoesTo(r, "old_health")
    BY <1>15 DEF StartNew, StartOld, StartRestored, StartTask, At
  <2>2. UNCHANGED program /\ program.installed # 0
    BY <1>7, <1>15, <2>1 DEF StartNew, StartOld, StartRestored, StartTask
  <2>3. /\ \/ runner[r].at = "installed" /\ runner'[r].at = "health"
           \/ runner[r].at = "restart" /\ runner'[r].at = "restarted"
           \/ runner[r].at = "restored" /\ runner'[r].at = "old_health"
        /\ runner'[r].plan = runner[r].plan
        /\ \A q \in Request : q # r => runner'[q] = runner[q]
    BY <1>4, <1>5, <2>1
  <2>4. ProgramFits(r)'
    BY <1>2, <2>2, <2>3 DEF ProgramFits, Idles
  <2>5. runner'[r].at # "none"
    BY <2>3
  <2> QED
    BY <1>6, <2>2, <2>3, <2>4, <2>5, OneMovesOn
<1>16. CASE HealthTest(r)
  <2>1. /\ runner[r].at = "health" /\ program.installed # 0 /\ UNCHANGED <<program, runtime>>
        /\ runner' = GoesTo(r, "done") \/ runner' = GoesTo(r, "rollback")
    BY <1>7, <1>16 DEF HealthTest, At, Report
  <2>2. CASE runner' = GoesTo(r, "rollback")
    <3>1. /\ runner'[r].at = "rollback" /\ runner'[r].plan = runner[r].plan
          /\ \A q \in Request : q # r => runner'[q] = runner[q]
      BY <1>4, <1>5, <2>2
    <3>2. ProgramFits(r)'
      BY <1>2, <2>1, <3>1 DEF ProgramFits, Idles
    <3> QED
      BY <1>6, <2>1, <3>1, <3>2, OneMovesOn
  <2> QED
    BY <1>8, <2>1, <2>2
<1>17. CASE RollBack(r)
  <2>1. /\ runner[r].at = "rollback" /\ runner' = GoesTo(r, "restored")
        /\ program' = [installed |-> program.rollback, rollback |-> 0]
    BY <1>17 DEF RollBack, At
  <2>2. /\ runner'[r].at = "restored" /\ runner'[r].plan = runner[r].plan
        /\ \A q \in Request : q # r => runner'[q] = runner[q]
    BY <1>4, <1>5, <2>1
  <2>3. program'.installed = runner[r].plan.from /\ 0 < runner[r].plan.from
        /\ runner[r].plan.from < runner[r].plan.to
    BY <1>2, <2>1 DEF ProgramFits, Idles
  <2>4. ProgramFits(r)'
    BY <2>2, <2>3 DEF ProgramFits, Idles
  <2>5. runner'[r].at # "none" /\ program'.installed # 0
    BY <1>3, <2>2, <2>3
  <2> QED
    BY <1>6, <2>2, <2>4, <2>5, OneMovesOn
<1>18. CASE RollbackHealth(r) \/ ReportFailed(r)
  BY <1>7, <1>8, <1>18 DEF RollbackHealth, ReportFailed, Report, At
<1> QED
  BY <1>1, <1>9, <1>10, <1>11, <1>12, <1>13, <1>14, <1>15, <1>16, <1>17, <1>18 DEF RunnerStep

(* Everyone else.                                                            *)
LEMMA RestKeepsProgram ==
  ASSUME Types, ManagerInv, ProgramInv, [Next]_vars, ~RunnerMoves, ~Handoff
  PROVE  ProgramInv'
<1>0. runtime \in Runtimes /\ program \in Programs
  BY DEF Types
<1>1. CASE UNCHANGED vars
  BY <1>1, NobodyMoves DEF vars, runnerVars
<1>2. CASE CheckForUpdates \/ \E c \in Callers : CallerStep(c) \/ DownloadUpdate(c) \/ InstallUpdate(c)
  BY <1>2, CallsType, NobodyMoves DEF CallTypes
<1>3. CASE WorkerStep \/ HandoffRefused
  BY <1>3, WorkType, NobodyMoves DEF WorkTypes
<1>4. CASE UserStart
  BY <1>4, NobodyMoves DEF UserStart, Replacing, runnerVars
<1>5. CASE ManualUpgrade
  <2>1. program'.installed # 0
    BY <1>0, <1>5 DEF ManualUpgrade, Programs
  <2> QED
    BY <1>5, <2>1, NobodyMoves DEF ManualUpgrade, Idles
<1>6. CASE Exit \/ Crash \/ StopManager \/ RequestShutdown
  <2>1. runtime'.up => runtime.up
    BY <1>0, <1>6 DEF Exit, Crash, StopManager, RequestShutdown, Runtimes
  <2> QED
    BY <1>6, <2>1, NobodyMoves DEF Exit, Crash, StopManager, RequestShutdown, runnerVars
<1>7. CASE \/ SetPolicy \/ ReadStep \/ BeginWork \/ WorkTakesEffect \/ EndAdmission \/ StopActivity
           \/ BeginClipboard \/ EndClipboard
  <2>1. UNCHANGED <<runnerVars, runtime>>
    BY <1>7
    DEF SetPolicy, ReadStep, ReadActivity, ReadAdmissions, ReadClipboard, Read, BeginWork,
        WorkTakesEffect, EndAdmission, StopActivity, BeginClipboard, EndClipboard, gateRest
  <2> QED
    BY <2>1, NobodyMoves DEF runnerVars
<1> QED
  BY <1>1, <1>2, <1>3, <1>4, <1>5, <1>6, <1>7 DEF Next, ProcessStep, RunnerMoves

----------------------------------------------------------------------------
(* The invariant                                                             *)

(* A program that was just installed satisfies the invariant.                *)
LEMMA InitUpdate == Init => UpdateInv
<1> SUFFICES ASSUME Init
             PROVE  UpdateInv
  OBVIOUS
<1>1. /\ Newest \in Nat /\ 1 \in 0..Newest /\ 0 \in 0..Newest /\ 0 \in 0..Requests
      /\ Request \subseteq Nat
  BY UpdateAssumption DEF Request
<1>2. Fresh \in Machines /\ Fresh.state = "idle"
  BY <1>1 DEF Fresh, Machines, States
<1>3. NoPlan \in Plans /\ NoOutcome \in Outcomes
  BY <1>1 DEF NoPlan, Plans, NoOutcome, Outcomes, Statuses
<1>4. Idling \in Runners /\ Idling.at = "none"
  BY <1>2, <1>3 DEF Idling, Runners
<1>5. /\ manager \in Managers /\ runtime \in Runtimes /\ program \in Programs
      /\ ~runtime.up /\ ~runtime.shut /\ ~runtime.stop /\ program.installed = 1
  BY <1>1 DEF Init, Managers, Runtimes, Programs
<1>6. runner \in [Request -> Runners] /\ \A r \in Request : runner[r].at = "none"
  BY <1>4 DEF Init
<1>7. Types
  BY <1>2, <1>3, <1>5, <1>6 DEF Init, Types
<1>8. NothingRuns
  BY <1>5 DEF Init, NothingRuns
<1>9. SlotIsTrue /\ GateIsHeld
  BY <1>8 DEF NothingRuns, SlotIsTrue, GateIsHeld, Installs, Prepares
<1>10. ManagerInv
  BY <1>5, <1>8, <1>9 DEF ManagerInv
<1>11. ProgramInv
  BY <1>5, <1>6 DEF ProgramInv, Turns, ProgramFits, Idles
<1> QED
  BY <1>7, <1>10, <1>11 DEF UpdateInv

(* Every step keeps the invariant.                                           *)
LEMMA NextUpdate == UpdateInv /\ [Next]_vars => UpdateInv'
<1> SUFFICES ASSUME UpdateInv, [Next]_vars
             PROVE  UpdateInv'
  OBVIOUS
<1>1. Types /\ ManagerInv /\ ProgramInv
  BY DEF UpdateInv
<1>2. Types'
  BY <1>1, TypesStay
<1>3. ManagerInv'
  <2>1. CASE CheckForUpdates \/ \E c \in Callers : CallerStep(c) \/ DownloadUpdate(c) \/ InstallUpdate(c)
    BY <1>1, <2>1, CallsManage
  <2>2. CASE WorkerStep \/ HandoffRefused
    BY <1>1, <2>2, WorkManages
  <2> QED
    BY <1>1, <2>1, <2>2, RestManages DEF Next, RunnerMoves
<1>4. ProgramInv'
  BY <1>1, HandoffKeepsProgram, RunnersKeepProgram, RestKeepsProgram
<1> QED
  BY <1>2, <1>3, <1>4 DEF UpdateInv

(* The slot, the reservation and the program keep their relation in every      *)
(* reachable state, with any number of versions and hand-offs.                *)
THEOREM UpdateInvariant == Spec => []UpdateInv
BY InitUpdate, NextUpdate, PTL DEF Spec

(* The gate is closed only for an installation that is prepared, waits or is  *)
(* handed over, or for a runtime that shuts down.                             *)
THEOREM ReservationsEnd == Spec => []ReservationHasOwner
<1>1. UpdateInv => ReservationHasOwner
  BY DEF UpdateInv, ManagerInv, NothingRuns, GateIsHeld, ReservationHasOwner
<1> QED
  BY <1>1, UpdateInvariant, PTL

(* A state that says an operation is under way has an operation.              *)
THEOREM BusyStatesEnd == Spec => []BusyStateIsOwned
<1>1. UpdateInv => BusyStateIsOwned
  BY DEF UpdateInv, ManagerInv, SlotIsTrue, BusyHasWorker, BusyStateIsOwned, Installs
<1> QED
  BY <1>1, UpdateInvariant, PTL

----------------------------------------------------------------------------
(* What the runner records, and what it does to the program                  *)

TellsTruth ==
  \A r \in Request : outcome'.req = r /\ outcome' # outcome =>
    program'.installed = IF outcome'.status = "success" THEN runner[r].plan.to
                         ELSE runner[r].plan.from

(* A result is written when the installed version is the one it names.       *)
LEMMA StepTellsTruth ==
  ASSUME UpdateInv, [Next]_vars
  PROVE  TellsTruth
<1>0. Types /\ ProgramInv
  BY DEF UpdateInv
<1>1. CASE UNCHANGED outcome
  BY <1>1 DEF TellsTruth
<1>2. ASSUME NEW r \in Request, NEW s \in Statuses, Report(r, s), UNCHANGED program,
             program.installed = IF s = "success" THEN runner[r].plan.to ELSE runner[r].plan.from
      PROVE  TellsTruth
  <2>1. outcome'.req = r /\ outcome'.status = s
    BY <1>0, <1>2, ReportType
  <2> QED
    BY <1>2, <2>1 DEF TellsTruth
<1>3. ASSUME NEW r \in Request, RunnerStep(r), outcome' # outcome
      PROVE  TellsTruth
  <2>0. ProgramFits(r) /\ {"success", "failed", "rollback_success", "rollback_failed"} \subseteq Statuses
    BY <1>0 DEF ProgramInv, Statuses
  <2>1. \/ ExitTimeout(r) \/ HealthTest(r) \/ RollbackHealth(r) \/ ReportFailed(r)
    BY <1>3 DEF RunnerStep, RunnerStart, MoveAside, InstallerEnds, StartNew, StartOld, StartRestored,
                StartTask, RollBack
  <2>2. CASE ExitTimeout(r) \/ ReportFailed(r)
    <3>1. Report(r, "failed") /\ UNCHANGED program /\ runner[r].at \in {"waiting", "restarted"}
      BY <2>2 DEF ExitTimeout, ReportFailed, At
    <3>2. program.installed = runner[r].plan.from
      BY <2>0, <3>1 DEF ProgramFits
    <3> QED
      BY <1>2, <2>0, <3>1, <3>2
  <2>3. CASE RollbackHealth(r)
    <3>1. /\ Report(r, "rollback_success") \/ Report(r, "rollback_failed")
          /\ UNCHANGED program /\ runner[r].at = "old_health"
      BY <2>3 DEF RollbackHealth, At
    <3>2. program.installed = runner[r].plan.from
      BY <2>0, <3>1 DEF ProgramFits
    <3> QED
      BY <1>2, <2>0, <3>1, <3>2
  <2>4. CASE HealthTest(r)
    <3>1. Report(r, "success") /\ UNCHANGED program /\ runner[r].at = "health"
      BY <1>3, <2>4 DEF HealthTest, At
    <3>2. program.installed = runner[r].plan.to
      BY <2>0, <3>1 DEF ProgramFits
    <3> QED
      BY <1>2, <2>0, <3>1, <3>2
  <2> QED
    BY <2>1, <2>2, <2>3, <2>4
<1>4. CASE UNCHANGED vars
  BY <1>1, <1>4 DEF vars, runnerVars
<1>5. CASE CheckForUpdates \/ \E c \in Callers : CallerStep(c) \/ DownloadUpdate(c) \/ InstallUpdate(c)
  BY <1>0, <1>1, <1>5, CallsType DEF CallTypes
<1>6. CASE WorkerStep \/ HandoffRefused
  BY <1>0, <1>1, <1>6, WorkType, HandoffType DEF WorkTypes
<1>7. CASE RunnerMoves
  <2>1. PICK r \in Request : RunnerStep(r) \/ RunnerFails(r) \/ BackupFails(r)
    BY <1>7 DEF RunnerMoves
  <2>2. CASE RunnerFails(r) \/ BackupFails(r)
    BY <1>1, <2>2 DEF RunnerFails, BackupFails
  <2> QED
    BY <1>1, <1>3, <2>1, <2>2
<1> QED
  BY <1>0, <1>1, <1>4, <1>5, <1>6, <1>7, ProcessType DEF Next, RunnerMoves

(* The recorded result is what is installed.                                 *)
THEOREM ResultsAreTrue == Spec => ResultTruthful
<1>1. UpdateInv /\ [Next]_vars =>
        [\A r \in Request : outcome'.req = r /\ outcome' # outcome =>
           program'.installed = IF outcome'.status = "success" THEN runner[r].plan.to
                                ELSE runner[r].plan.from]_vars
  BY StepTellsTruth DEF TellsTruth
<1> QED
  BY <1>1, UpdateInvariant, PTL DEF Spec, ResultTruthful

(* The state of ProgramReplacement that the runners show.                    *)
InTrial == \E r \in Request : At(r, "health")
InMotion == \E r \in Request : Moving(r)
ShownVersion == IF \E r \in Request : Moving(r) \/ At(r, "health")
                THEN program.rollback ELSE program.installed
ShownPhase == IF \E r \in Request : At(r, "health") THEN "trial"
              ELSE IF \E r \in Request : Moving(r) THEN "replacing" ELSE "settled"

(* What the abstract replacement sees, by what the runners do.               *)
LEMMA ShownByRunners ==
  /\ ShownVersion = IF InMotion \/ InTrial THEN program.rollback ELSE program.installed
  /\ ShownPhase = IF InTrial THEN "trial" ELSE IF InMotion THEN "replacing" ELSE "settled"
  /\ ShownVersion' = IF InMotion' \/ InTrial' THEN program'.rollback ELSE program'.installed
  /\ ShownPhase' = IF InTrial' THEN "trial" ELSE IF InMotion' THEN "replacing" ELSE "settled"
BY DEF ShownVersion, ShownPhase, InTrial, InMotion

(* A step of the program as ProgramReplacement sees it.                      *)
Replaces == Replacement!Next \/ UNCHANGED <<runtime.up, ShownVersion, ShownPhase>>

(* What the steps of the abstract replacement are, one by one.               *)
LEMMA ReplacementSteps ==
  /\ ~runtime.up /\ ShownPhase \in {"settled", "trial"} /\ runtime'.up = TRUE
     /\ UNCHANGED <<ShownVersion, ShownPhase>> => Replaces
  /\ runtime.up /\ runtime'.up = FALSE /\ UNCHANGED <<ShownVersion, ShownPhase>> => Replaces
  /\ ~runtime.up /\ ShownPhase = "settled" /\ ShownPhase' = "replacing"
     /\ UNCHANGED <<runtime.up, ShownVersion>> => Replaces
  /\ ShownPhase = "replacing" /\ runtime'.up \in BOOLEAN /\ ShownPhase' = "trial"
     /\ UNCHANGED ShownVersion => Replaces
  /\ ShownPhase = "trial" /\ runtime.up /\ ShownPhase' = "settled" /\ UNCHANGED runtime.up
     /\ ShownVersion' \in (ShownVersion + 1)..Newest => Replaces
  /\ ShownPhase = "trial" /\ ShownPhase' = "replacing" /\ UNCHANGED <<runtime.up, ShownVersion>>
       => Replaces
  /\ ShownPhase = "replacing" /\ ShownPhase' = "settled" /\ runtime'.up = FALSE
     /\ UNCHANGED ShownVersion => Replaces
  /\ ~runtime.up /\ ShownPhase = "settled" /\ ShownVersion' \in (ShownVersion + 1)..Newest
     /\ UNCHANGED <<runtime.up, ShownPhase>> => Replaces
<1> USE DEF Replaces, Replacement!Next
<1>1. ~runtime.up /\ ShownPhase \in {"settled", "trial"} /\ runtime'.up = TRUE
     /\ UNCHANGED <<ShownVersion, ShownPhase>> => Replaces
  BY DEF Replacement!Start, ShownVersion, ShownPhase
<1>2. runtime.up /\ runtime'.up = FALSE /\ UNCHANGED <<ShownVersion, ShownPhase>> => Replaces
  BY DEF Replacement!Stop, ShownVersion, ShownPhase
<1>3. ~runtime.up /\ ShownPhase = "settled" /\ ShownPhase' = "replacing"
     /\ UNCHANGED <<runtime.up, ShownVersion>> => Replaces
  BY DEF Replacement!Replace, ShownVersion, ShownPhase
<1>4. ShownPhase = "replacing" /\ runtime'.up \in BOOLEAN /\ ShownPhase' = "trial"
     /\ UNCHANGED ShownVersion => Replaces
  BY DEF Replacement!Try, ShownVersion, ShownPhase
<1>5. ShownPhase = "trial" /\ runtime.up /\ ShownPhase' = "settled" /\ UNCHANGED runtime.up
     /\ ShownVersion' \in (ShownVersion + 1)..Newest => Replaces
  BY DEF Replacement!Keep, ShownVersion, ShownPhase
<1>6. ShownPhase = "trial" /\ ShownPhase' = "replacing" /\ UNCHANGED <<runtime.up, ShownVersion>>
       => Replaces
  BY DEF Replacement!Reject, ShownVersion, ShownPhase
<1>7. ShownPhase = "replacing" /\ ShownPhase' = "settled" /\ runtime'.up = FALSE
     /\ UNCHANGED ShownVersion => Replaces
  BY DEF Replacement!PutBack, ShownVersion, ShownPhase
<1>8. ~runtime.up /\ ShownPhase = "settled" /\ ShownVersion' \in (ShownVersion + 1)..Newest
     /\ UNCHANGED <<runtime.up, ShownPhase>> => Replaces
  BY DEF Replacement!Upgrade, ShownVersion, ShownPhase
<1> QED
  BY <1>1, <1>2, <1>3, <1>4, <1>5, <1>6, <1>7, <1>8

(* With one runner at work, what is shown is what that runner shows.          *)
LEMMA ShownByOne ==
  ASSUME Turns, NEW r \in Request, runner[r].at \notin {"none", "done"},
         \A q \in Request : q # r => runner'[q] = runner[q]
  PROVE  /\ InTrial <=> runner[r].at = "health"
         /\ InMotion <=> runner[r].at \in {"replaced", "installed", "rollback"}
         /\ InTrial' <=> runner'[r].at = "health"
         /\ InMotion' <=> runner'[r].at \in {"replaced", "installed", "rollback"}
<1>1. \A q \in Request \ {r} : runner[q].at \in {"none", "done"} /\ runner'[q] = runner[q]
  BY OnlyOne
<1> QED
  BY <1>1 DEF InTrial, InMotion, Moving, At

(* The runtime starts, ends or goes on; no runner moves, or none that shows.  *)
LEMMA ShownStays ==
  ASSUME Types, Types', UNCHANGED program, (InTrial' <=> InTrial), (InMotion' <=> InMotion),
         runtime'.up => runtime.up \/ ~InMotion
  PROVE  Replaces
<1>1. UNCHANGED <<ShownVersion, ShownPhase>>
  BY ShownByRunners
<1>2. runtime.up \in BOOLEAN /\ runtime'.up \in BOOLEAN
  BY DEF Types, Runtimes
<1>3. CASE runtime'.up = runtime.up
  BY <1>1, <1>3 DEF Replaces
<1>4. CASE runtime.up /\ ~runtime'.up
  BY <1>1, <1>2, <1>4, ReplacementSteps
<1>5. CASE ~runtime.up /\ runtime'.up
  <2>1. ShownPhase \in {"settled", "trial"}
    BY <1>5, ShownByRunners
  <2> QED
    BY <1>1, <1>2, <1>5, <2>1, ReplacementSteps
<1> QED
  BY <1>2, <1>3, <1>4, <1>5

(* The runners do what ProgramReplacement allows.                            *)
LEMMA RunnersReplace ==
  ASSUME UpdateInv, Types', NEW r \in Request, RunnerStep(r) \/ RunnerFails(r) \/ BackupFails(r)
  PROVE  Replaces
<1>0. /\ Types /\ ProgramInv /\ Turns /\ ProgramFits(r)
      /\ runner \in [Request -> Runners] /\ runner' \in [Request -> Runners]
  BY DEF UpdateInv, ProgramInv, Types
<1>1. /\ runtime.up \in BOOLEAN /\ runtime'.up \in BOOLEAN
      /\ program \in Programs /\ Newest \in Nat /\ runner[r] \in Runners
      /\ runner[r].plan.from \in 0..Newest /\ runner[r].plan.to \in 0..Newest
  BY <1>0, UpdateAssumption DEF Types, Runtimes, Runners, Plans
<1>2. runner[r].at \notin {"none", "done"}
  BY DEF RunnerStep, RunnerFails, BackupFails, RunnerStart, MoveAside, ExitTimeout,
         InstallerEnds, StartNew, StartOld, StartRestored, StartTask, HealthTest, RollBack,
         RollbackHealth, ReportFailed, At
<1>3. program.installed = 0 => runner[r].at \in {"replaced", "rollback"}
  BY <1>0, <1>2, EmptyIsOurs
<1>4. ASSUME NEW at \in RunnerPlaces, runner' = GoesTo(r, at)
      PROVE  runner'[r].at = at /\ \A q \in Request : q # r => runner'[q] = runner[q]
  BY <1>0, <1>4, GoesType
<1>5. RunnerPlaces = {"none", "launched", "waiting", "replaced", "installed", "restart", "restarted",
                      "health", "rollback", "restored", "old_health", "done"}
  BY DEF RunnerPlaces
<1>6. ASSUME \A q \in Request : q # r => runner'[q] = runner[q]
      PROVE  /\ InTrial <=> runner[r].at = "health"
             /\ InMotion <=> runner[r].at \in {"replaced", "installed", "rollback"}
             /\ InTrial' <=> runner'[r].at = "health"
             /\ InMotion' <=> runner'[r].at \in {"replaced", "installed", "rollback"}
  BY <1>0, <1>2, <1>6, ShownByOne
<1>7. ASSUME \A q \in Request : q # r => runner'[q] = runner[q], UNCHANGED program,
             {runner[r].at, runner'[r].at} \cap {"health", "replaced", "installed", "rollback"} = {}
      PROVE  Replaces
  BY <1>0, <1>6, <1>7, ShownStays
<1>8. CASE \/ RunnerFails(r) \/ BackupFails(r) \/ ExitTimeout(r) \/ RollbackHealth(r)
           \/ ReportFailed(r) \/ StartOld(r) \/ StartRestored(r)
  <2>1. /\ UNCHANGED program
        /\ runner[r].at \in {"launched", "waiting", "old_health", "restarted", "restart", "restored"}
        /\ \E at \in {"done", "restart", "restarted", "old_health"} : runner' = GoesTo(r, at)
    BY <1>8 DEF RunnerFails, BackupFails, ExitTimeout, RollbackHealth, ReportFailed, StartOld,
                StartRestored, StartTask, Report, At
  <2>2. /\ runner'[r].at \in {"done", "restart", "restarted", "old_health"}
        /\ \A q \in Request : q # r => runner'[q] = runner[q]
    BY <1>4, <1>5, <2>1
  <2> QED
    BY <1>7, <2>1, <2>2
<1>9. CASE RunnerStart(r)
  <2>1. /\ UNCHANGED program /\ runner[r].at = "launched"
        /\ \/ runner' = GoesTo(r, "done")
           \/ runner' = [runner EXCEPT ![r].at = "waiting", ![r].plan = plan]
    BY <1>9 DEF RunnerStart, At
  <2>2. CASE runner' = GoesTo(r, "done")
    BY <1>4, <1>5, <1>7, <2>1, <2>2
  <2>3. CASE runner' = [runner EXCEPT ![r].at = "waiting", ![r].plan = plan]
    <3>1. runner' = [runner EXCEPT ![r] = [runner[r] EXCEPT !.at = "waiting", !.plan = plan]]
      BY <1>0, <2>3 DEF Runners
    <3>2. runner'[r].at = "waiting" /\ \A q \in Request : q # r => runner'[q] = runner[q]
      BY <1>0, <1>1, <3>1 DEF Runners
    <3> QED
      BY <1>7, <2>1, <3>2
  <2> QED
    BY <2>1, <2>2, <2>3
<1>10. CASE MoveAside(r)
  <2>1. program.installed # 0 /\ runner[r].at = "waiting" /\ ~runtime.up
    BY <1>3, <1>10 DEF MoveAside, At, RuntimeGone
  <2>2. /\ runner' = [runner EXCEPT ![r].at = "replaced", ![r].backup = machine]
        /\ program' = [installed |-> 0, rollback |-> program.installed] /\ UNCHANGED runtime
    BY <1>10, <2>1 DEF MoveAside
  <2>3. runner' = [runner EXCEPT ![r] = [runner[r] EXCEPT !.at = "replaced", !.backup = machine]]
    BY <1>0, <2>2 DEF Runners
  <2>4. runner'[r].at = "replaced" /\ \A q \in Request : q # r => runner'[q] = runner[q]
    BY <1>0, <1>1, <2>3 DEF Runners
  <2>5. ~InTrial /\ ~InMotion /\ ~InTrial' /\ InMotion'
    BY <1>6, <2>1, <2>4
  <2>6. /\ ShownPhase = "settled" /\ ShownPhase' = "replacing" /\ UNCHANGED ShownVersion
    BY <2>2, <2>5, ShownByRunners
  <2> QED
    BY <2>1, <2>2, <2>6, ReplacementSteps
<1>11. CASE InstallerEnds(r)
  <2>1. /\ runner[r].at = "replaced" /\ UNCHANGED runtime
        /\ \E at \in {"installed", "rollback"} : runner' = GoesTo(r, at)
        /\ \E v \in {0, runner[r].plan.to} : program' = [program EXCEPT !.installed = v]
    BY <1>11 DEF InstallerEnds, At
  <2>2. /\ runner'[r].at \in {"installed", "rollback"}
        /\ \A q \in Request : q # r => runner'[q] = runner[q]
    BY <1>4, <1>5, <2>1
  <2>3. ~InTrial /\ InMotion /\ ~InTrial' /\ InMotion' /\ program'.rollback = program.rollback
    BY <1>1, <1>6, <2>1, <2>2 DEF Programs
  <2>4. UNCHANGED <<ShownPhase, ShownVersion>>
    BY <2>3, ShownByRunners
  <2> QED
    BY <2>1, <2>4 DEF Replaces
<1>12. CASE StartNew(r)
  <2>1. runner[r].at = "installed" /\ runner' = GoesTo(r, "health") /\ UNCHANGED program
    BY <1>12 DEF StartNew, StartTask, At
  <2>2. runner'[r].at = "health" /\ \A q \in Request : q # r => runner'[q] = runner[q]
    BY <1>4, <1>5, <2>1
  <2>3. ~InTrial /\ InMotion /\ InTrial'
    BY <1>6, <2>1, <2>2
  <2>4. ShownPhase = "replacing" /\ ShownPhase' = "trial" /\ UNCHANGED ShownVersion
    BY <2>1, <2>3, ShownByRunners
  <2> QED
    BY <1>1, <2>4, ReplacementSteps
<1>13. CASE HealthTest(r)
  <2>1. /\ runner[r].at = "health" /\ UNCHANGED <<program, runtime>>
        /\ \/ runner' = GoesTo(r, "done") /\ runtime.up
           \/ runner' = GoesTo(r, "rollback")
    BY <1>13 DEF HealthTest, At, Report, Healthy
  <2>2. /\ InTrial /\ ~InMotion /\ ShownPhase = "trial" /\ ShownVersion = program.rollback
    <3>1. \A q \in Request : q # r => runner'[q] = runner[q]
      BY <1>4, <1>5, <2>1
    <3> QED
      BY <1>6, <2>1, <3>1, ShownByRunners
  <2>3. CASE runner' = GoesTo(r, "done") /\ runtime.up
    <3>1. runner'[r].at = "done" /\ \A q \in Request : q # r => runner'[q] = runner[q]
      BY <1>4, <1>5, <2>3
    <3>2. ~InTrial' /\ ~InMotion'
      BY <1>6, <3>1
    <3>3. ShownPhase' = "settled" /\ ShownVersion' = program.installed
      BY <2>1, <3>2, ShownByRunners
    <3>4. /\ program.rollback = runner[r].plan.from /\ program.installed = runner[r].plan.to
          /\ runner[r].plan.from < runner[r].plan.to
      BY <1>0, <2>1 DEF ProgramFits, Idles
    <3>5. ShownVersion' \in (ShownVersion + 1)..Newest
      BY <1>1, <2>2, <3>3, <3>4
    <3> QED
      BY <2>1, <2>2, <2>3, <3>3, <3>5, ReplacementSteps
  <2>4. CASE runner' = GoesTo(r, "rollback")
    <3>1. runner'[r].at = "rollback" /\ \A q \in Request : q # r => runner'[q] = runner[q]
      BY <1>4, <1>5, <2>4
    <3>2. ~InTrial' /\ InMotion'
      BY <1>6, <3>1
    <3>3. ShownPhase' = "replacing" /\ UNCHANGED ShownVersion
      BY <2>1, <2>2, <3>2, ShownByRunners
    <3> QED
      BY <2>1, <2>2, <3>3, ReplacementSteps
  <2> QED
    BY <2>1, <2>3, <2>4
<1>14. CASE RollBack(r)
  <2>1. /\ runner[r].at = "rollback" /\ runner' = GoesTo(r, "restored")
        /\ program' = [installed |-> program.rollback, rollback |-> 0]
        /\ runtime' = [runtime EXCEPT !.up = FALSE, !.shut = FALSE, !.stop = FALSE]
    BY <1>14 DEF RollBack, At
  <2>2. runner'[r].at = "restored" /\ \A q \in Request : q # r => runner'[q] = runner[q]
    BY <1>4, <1>5, <2>1
  <2>3. ~InTrial /\ InMotion /\ ~InTrial' /\ ~InMotion'
    BY <1>6, <2>1, <2>2
  <2>4. ShownPhase = "replacing" /\ ShownPhase' = "settled" /\ UNCHANGED ShownVersion
    BY <2>1, <2>3, ShownByRunners
  <2>5. runtime'.up = FALSE
    BY <1>0, <2>1 DEF Types, Runtimes
  <2> QED
    BY <2>4, <2>5, ReplacementSteps
<1> QED
  BY <1>8, <1>9, <1>10, <1>11, <1>12, <1>13, <1>14 DEF RunnerStep

(* Every step does what ProgramReplacement allows.                           *)
LEMMA StepReplaces ==
  ASSUME UpdateInv, [Next]_vars
  PROVE  Replaces
<1>0. Types /\ Types' /\ ManagerInv /\ ProgramInv
  BY TypesStay DEF UpdateInv
<1>1. ASSUME UNCHANGED <<runner, program>>, runtime'.up => runtime.up \/ ~InMotion
      PROVE  Replaces
  <2>1. (InTrial' <=> InTrial) /\ (InMotion' <=> InMotion)
    BY <1>1 DEF InTrial, InMotion, Moving, At
  <2> QED
    BY <1>0, <1>1, <2>1, ShownStays
<1>2. CASE RunnerMoves
  BY <1>0, <1>2, RunnersReplace DEF RunnerMoves
<1>3. CASE Handoff
  <2>1. PICK r \in Request : runner[r].at = "none" /\ runner' = GoesTo(r, "launched")
    BY <1>0, <1>3, HandoffType
  <2>2. runner'[r].at = "launched" /\ \A q \in Request : q # r => runner'[q] = runner[q]
    <3>1. "launched" \in RunnerPlaces /\ runner \in [Request -> Runners]
      BY <1>0 DEF RunnerPlaces, Types
    <3> QED
      BY <2>1, <3>1, GoesType
  <2>3. (InTrial' <=> InTrial) /\ (InMotion' <=> InMotion)
    BY <2>1, <2>2 DEF InTrial, InMotion, Moving, At
  <2>4. UNCHANGED <<program, runtime>>
    BY <1>0, <1>3, HandoffType DEF WorkTypes
  <2> QED
    BY <1>0, <2>3, <2>4, ShownStays
<1>4. CASE (WorkerStep \/ HandoffRefused) /\ ~Handoff
  BY <1>0, <1>1, <1>4, WorkType DEF WorkTypes
<1>5. CASE CheckForUpdates \/ \E c \in Callers : CallerStep(c) \/ DownloadUpdate(c) \/ InstallUpdate(c)
  BY <1>0, <1>1, <1>5, CallsType DEF CallTypes
<1>6. CASE UserStart
  BY <1>1, <1>6 DEF UserStart, Replacing, InMotion, Moving, runnerVars
<1>7. CASE ManualUpgrade
  <2>1. PICK v \in (program.installed + 1)..Newest : program' = [program EXCEPT !.installed = v]
    BY <1>7 DEF ManualUpgrade
  <2>2. ~InTrial /\ ~InMotion /\ ~InTrial' /\ ~InMotion' /\ ~runtime.up /\ UNCHANGED runtime
    BY <1>7 DEF ManualUpgrade, InTrial, InMotion, Moving, At
  <2>3. program'.installed = v
    BY <1>0, <2>1 DEF Types, Programs
  <2>4. /\ ShownPhase = "settled" /\ ShownPhase' = "settled"
        /\ ShownVersion' \in (ShownVersion + 1)..Newest
    BY <2>1, <2>2, <2>3, ShownByRunners
  <2> QED
    BY <2>2, <2>4, ReplacementSteps
<1>8. CASE Exit \/ Crash \/ StopManager \/ RequestShutdown
  <2>1. runtime'.up => runtime.up
    BY <1>0, <1>8 DEF Exit, Crash, StopManager, RequestShutdown, Types, Runtimes
  <2> QED
    BY <1>1, <1>8, <2>1 DEF Exit, Crash, StopManager, RequestShutdown, runnerVars
<1>9. CASE \/ SetPolicy \/ ReadStep \/ BeginWork \/ WorkTakesEffect \/ EndAdmission \/ StopActivity
           \/ BeginClipboard \/ EndClipboard \/ UNCHANGED vars
  <2>1. UNCHANGED <<runnerVars, runtime>>
    BY <1>9
    DEF SetPolicy, ReadStep, ReadActivity, ReadAdmissions, ReadClipboard, Read, BeginWork,
        WorkTakesEffect, EndAdmission, StopActivity, BeginClipboard, EndClipboard, gateRest, vars
  <2> QED
    BY <1>1, <2>1 DEF runnerVars
<1> QED
  BY <1>2, <1>3, <1>4, <1>5, <1>6, <1>7, <1>8, <1>9 DEF Next, ProcessStep, RunnerMoves

(* The update manager and its runners implement ProgramReplacement: the        *)
(* program is replaced only while it does not run, only by a newer version,   *)
(* and a replacement that is not kept ends with the version that was there.   *)
THEOREM ReplacementImplemented == Spec => ImplementsReplacement
<1>1. Init => Replacement!Init
  <2> SUFFICES ASSUME Init
               PROVE  Replacement!Init
    OBVIOUS
  <2>1. runtime.up = FALSE /\ program.installed = 1 /\ 1 \in 1..Newest
    BY UpdateAssumption DEF Init
  <2>2. \A r \in Request : ~Moving(r) /\ ~At(r, "health")
    BY DEF Init, Idling, Moving, At
  <2> QED
    BY <2>1, <2>2 DEF Replacement!Init
<1>2. UpdateInv /\ [Next]_vars => [Replacement!Next]_<<runtime.up, ShownVersion, ShownPhase>>
  BY StepReplaces DEF Replaces
<1> QED
  BY <1>1, <1>2, UpdateInvariant, PTL
  DEF Spec, ImplementsReplacement, Replacement!Spec, Replacement!vars, ShownVersion, ShownPhase
==============================================================================
