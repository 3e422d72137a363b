--------------------------- MODULE MaintenanceGate ---------------------------
(***************************************************************************)
(* Admission of runtime work against the update reservation                 *)
(* (update_runtime.py, tray.py, clipboard_runtime.py) and the safety query   *)
(* that asks what already admitted work is still alive.                     *)
(*                                                                          *)
(* "input" is one unit of the work counted by RuntimeMaintenanceGate, whose *)
(* effect outlives its admission: a profile activation leaves forwarding    *)
(* active, a queued event stays queued, an overlay stays visible.  "clip"   *)
(* is one clipboard operation, which ClipboardManager counts itself.        *)
(***************************************************************************)
EXTENDS UpdateState

Opened == [reserved |-> FALSE, maintenance |-> FALSE]
Reserved == [reserved |-> TRUE, maintenance |-> TRUE]
(* _release_update_maintenance: both stay closed once shutdown was requested *)
Released == IF runtime.shut THEN gate ELSE Opened

NewVerdict == [reads |-> 0, idle |-> TRUE]
Answered == verdict.reads = 3

gateRest == <<managerVars, runnerVars, runtime, policy, left>>

(* begin(kind): counted in active_admissions                                 *)
BeginWork ==
  /\ runtime.up /\ work.input = "none"
  /\ ~gate.reserved /\ ~runtime.shut
  /\ work' = [work EXCEPT !.input = "admitted"]
  /\ UNCHANGED <<gate, verdict, gateRest>>

(* istate.active = True, the event queued; or the switch is refused: end()   *)
WorkTakesEffect ==
  /\ work.input = "admitted"
  /\ \E to \in {"effective", "none"} : work' = [work EXCEPT !.input = to]
  /\ UNCHANGED <<gate, verdict, gateRest>>

(* end(kind): the admission is over, the activity is not                     *)
EndAdmission ==
  /\ work.input = "effective"
  /\ work' = [work EXCEPT !.input = "running"]
  /\ UNCHANGED <<gate, verdict, gateRest>>

(* deactivate_forward, the queue drained, the overlay hidden                 *)
StopActivity ==
  /\ work.input = "running"
  /\ work' = [work EXCEPT !.input = "none"]
  /\ UNCHANGED <<gate, verdict, gateRest>>

(* _begin_local_operation / _begin_incoming_operation: _accepting_work ends  *)
(* with the shutdown request                                                 *)
BeginClipboard ==
  /\ runtime.up /\ work.clip = "none"
  /\ ~gate.maintenance /\ ~runtime.shut
  /\ work' = [work EXCEPT !.clip = "running"]
  /\ UNCHANGED <<gate, verdict, gateRest>>

EndClipboard ==
  /\ work.clip = "running"
  /\ work' = [work EXCEPT !.clip = "none"]
  /\ UNCHANGED <<gate, verdict, gateRest>>

------------------------------------------------------------------------------
(* _runtime_install_safety, in the order it reads: the activities, then the  *)
(* admissions still counted, then shutdown and the clipboard.  It runs for   *)
(* a caller of install_update or for the worker.                             *)
Asking == (\E c \in Callers : caller[c] = "query") \/ worker = "query"

Read(n, idle) ==
  /\ Asking /\ verdict.reads = n
  /\ verdict' = [reads |-> n + 1, idle |-> verdict.idle /\ idle]
  /\ UNCHANGED <<gate, work, gateRest>>

NoInput == work.input \notin {"effective", "running"}
NoAdmission == work.input \notin {"admitted", "effective"}
NoClipboard == work.clip = "none"

ReadActivity == Read(0, NoInput)
ReadAdmissions == Read(1, NoAdmission)
ReadClipboard == Read(2, NoClipboard /\ ~runtime.shut)
==============================================================================
