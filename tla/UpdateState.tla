----------------------------- MODULE UpdateState -----------------------------
(***************************************************************************)
(* What a software update keeps: update_state.json and its transition       *)
(* table, the update manager's slots, the runtime process, the installed    *)
(* program, the hand-off plan, and the external runners that read it.       *)
(* Versions are numbered in their order; 0 stands for none.                 *)
(***************************************************************************)
EXTENDS Naturals, FiniteSets

CONSTANTS
  Newest,        \* versions are 1..Newest
  Requests,      \* hand-off requests are 1..Requests
  Incompatible,  \* versions whose minimum_updater_version is newer than ours
  Budgets        \* how often each external event may happen, and a hand-off

Faults == {"install", "crash", "late", "failure", "upgrade", "request"}

ASSUME UpdateAssumption ==
  /\ Newest \in Nat \ {0} /\ Requests \in Nat \ {0}
  /\ Incompatible \subseteq 1..Newest
  /\ Budgets \subseteq [Faults -> Nat]

VARIABLES
  machine,   \* UpdateStateMachine; every transition is saved before it returns
  manager,   \* UpdateManager: operation slot, command queue, reservation
  caller,    \* where the user's call and the policy thread are
  worker,    \* where the worker thread is
  runtime,   \* the process: running, shutdown requested, manager told
  policy,    \* automatic updates install by themselves
  gate,      \* RuntimeMaintenanceGate._reserved, ClipboardManager._update_maintenance
  work,      \* work the gate admits, and clipboard operations
  verdict,   \* the safety query in progress
  program,   \* version in the program directory and in the rollback directory
  plan,      \* update_plan.json
  acks,      \* acknowledgement files
  outcome,   \* last_update_result.json
  runner,    \* per request: the external runner
  left       \* budget of external events

managerVars == <<machine, manager, caller, worker>>
gateVars == <<gate, work, verdict>>
runnerVars == <<program, plan, acks, outcome, runner>>
vars == <<managerVars, gateVars, runnerVars, runtime, policy, left>>

------------------------------------------------------------------------------
(* update_state.py: STATES, TRANSITIONS, _INTERRUPTED_STATES                  *)
States == {"idle", "checking", "up_to_date", "update_available", "downloading",
           "downloaded", "waiting_for_idle", "install_handoff", "installing",
           "restarting", "error"}

Transitions == [s \in States |-> {"error"} \cup
  CASE s = "idle" -> {"checking", "up_to_date"}
    [] s = "checking" -> {"up_to_date", "update_available"}
    [] s = "up_to_date" -> {"checking"}
    [] s = "update_available" -> {"checking", "downloading"}
    [] s = "downloading" -> {"downloaded"}
    [] s = "downloaded" -> {"checking", "waiting_for_idle", "install_handoff", "downloading"}
    [] s = "waiting_for_idle" -> {"install_handoff", "downloaded"}
    [] s = "install_handoff" -> {"installing"}
    [] s = "installing" -> {"restarting"}
    [] s = "restarting" -> {"idle"}
    [] s = "error" -> {"checking", "downloading", "update_available", "up_to_date"}]

Interrupted == {"checking", "downloading", "waiting_for_idle", "install_handoff",
                "installing", "restarting"}

Version == 1..Newest
Request == 1..Requests
Callers == {"user", "policy"}
NoPlan == [req |-> 0, from |-> 0, to |-> 0]
NoOutcome == [req |-> 0, status |-> "none", to |-> 0]

(* release, asset: versions of the stored descriptor and the verified asset;  *)
(* from: the version that made the check; reported: the runner's result that  *)
(* last_update_result shows, if it shows one                                  *)
Fresh == [state |-> "idle", release |-> 0, from |-> 0, asset |-> 0, reported |-> 0]
Idling == [at |-> "none", plan |-> NoPlan, backup |-> Fresh]

(* transition(): a target the table does not allow raises, and changes nothing *)
Allowed(to) == to \in Transitions[machine.state]
MovedTo(to) == [machine EXCEPT !.state = to]
(* _set_error: every state may go to error, and the record of the last result *)
(* becomes this error                                                         *)
Failed == [MovedTo("error") EXCEPT !.reported = 0]
==============================================================================
