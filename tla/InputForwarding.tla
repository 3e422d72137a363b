--------------------------- MODULE InputForwarding ---------------------------
(***************************************************************************)
(* Forwarding the keyboard (tray.py): the hook puts events into event_queue *)
(* while a peer is active, forward_loop sends them, the peer injects them;  *)
(* activation asks the peer to stop its own forwarding first.  A thread     *)
(* reads shared state in one step and acts on it in a later one.            *)
(***************************************************************************)
EXTENDS PeerLinks

forwardRest == <<netVars, switchVars, edgeVars>>

(* (mutant: what was forwarded is forgotten, not released)                   *)
FarewellSilent(n) == <<Msg("fwd_off", 0)>>
(* what a peer that was active is told: releases first                       *)
Farewell(n) ==
  (IF local[n].sent THEN <<Key("key_up")>> ELSE <<>>) \o <<Msg("fwd_off", 0)>>

(* _cancel_active_edge_session                                               *)
CancelSays(w, n) ==
  LET s == local[n].session
  IN IF s = NoSession THEN w ELSE Put(w, n, s.peer, <<Msg("cancel", s.id)>>)

(* deactivate_forward; it cancels the edge session too, unless a return ends *)
(* it: StopSays is what the wires w then carry, Stopped what it leaves.      *)
StopSays(w, n, returned) ==
  LET told == IF local[n].active = None THEN w ELSE Put(w, n, local[n].active, Farewell(n))
  IN IF returned THEN told ELSE CancelSays(told, n)
Stopped(n) == [local[n] EXCEPT !.active = None, !.sent = FALSE, !.session = NoSession]

-----------------------------------------------------------------------------
(* The user and the hook (keyboard_proc)                                     *)

ForwardingReady(n) == local[n].active # None /\ Linked(n, local[n].active)
Hook(n, ev) ==
  queue' = IF ForwardingReady(n) THEN [queue EXCEPT ![n] = Append(@, ev)] ELSE queue

PressKey(n) ==
  /\ ~local[n].held /\ May("press")
  /\ Spend("press")
  /\ local' = [local EXCEPT ![n].held = TRUE]
  /\ Hook(n, "key")
  /\ UNCHANGED <<inbox, loop, forwardRest, torn>>
ReleaseKey(n) ==
  /\ local[n].held
  /\ local' = [local EXCEPT ![n].held = FALSE]
  /\ Hook(n, "key_up")
  /\ UNCHANGED <<inbox, loop, forwardRest, torn, left>>

(* the return hotkey, the tray menu or the web interface                     *)
Return(n) ==
  /\ local[n].active # None /\ May("return")
  /\ Spend("return")
  /\ wire' = StopSays(wire, n, FALSE)
  /\ local' = [local EXCEPT ![n] = Stopped(n)]
  /\ UNCHANGED <<conn, handler, link, keyVars, switchVars, edgeVars, torn>>

-----------------------------------------------------------------------------
(* _activate_forward_peer in a thread of its own                             *)

AskToStop(n, m, by) ==
  /\ wire' = Put(wire, n, m, <<Msg("control", 0)>>)
  /\ answer' = [answer EXCEPT ![n][m] = [by |-> by, ok |-> FALSE]]

(* plan_activation                                                           *)
Activate(n, m) ==
  LET other == local[n].active # None
  IN
  /\ switch[n].at = "none" /\ local[n].active # m /\ May("activate")
  /\ Spend("activate")
  /\ IF link[n][m].fwd
     THEN /\ AskToStop(n, m, "switch")
          /\ switch' = [switch EXCEPT ![n] = [at |-> "asked", to |-> m, other |-> other]]
     ELSE /\ switch' = [switch EXCEPT ![n] = [at |-> "go", to |-> m, other |-> other]]
          /\ UNCHANGED <<wire, answer>>
  /\ UNCHANGED <<conn, handler, link, local, keyVars, edgeVars, torn>>

(* the answer: the peer does not forward to us any more                      *)
ActivateConfirmed(n) ==
  LET m == switch[n].to
  IN
  /\ switch[n].at = "asked" /\ answer[n][m] = [by |-> "switch", ok |-> TRUE]
  /\ switch' = [switch EXCEPT ![n].at = "go"]
  /\ answer' = [answer EXCEPT ![n][m] = NoAnswer]
  /\ link' = [link EXCEPT ![n][m].fwd = FALSE]
  /\ UNCHANGED <<conn, wire, handler, local, keyVars, edgeVars, torn, left>>

(* the request failed, or no answer within three seconds                     *)
Unanswered(n, m) == Alive(n, m) => May("late")
ActivateRefused(n) ==
  LET m == switch[n].to
  IN
  /\ switch[n].at = "asked" /\ answer[n][m] # [by |-> "switch", ok |-> TRUE]
  /\ Unanswered(n, m)
  /\ IF Alive(n, m) THEN Spend("late") ELSE UNCHANGED left
  /\ switch' = [switch EXCEPT ![n] = NoSwitch]
  /\ answer' = [answer EXCEPT ![n][m] = NoAnswer]
  /\ UNCHANGED <<netVars, local, keyVars, edgeVars, torn>>

(* The own forwarding to another peer ends, queued events are dropped, and   *)
(* the peer becomes the active one whatever happened since the plan.         *)
ActivateGoes(n) ==
  LET m == switch[n].to
      w == IF switch[n].other THEN StopSays(wire, n, FALSE) ELSE wire
  IN
  /\ switch[n].at = "go"
  /\ wire' = Put(w, n, m, <<Msg("fwd_on", 0)>>)
  /\ local' = [local EXCEPT ![n] =
       [IF switch[n].other THEN Stopped(n) ELSE @ EXCEPT !.active = m, !.sent = FALSE]]
  /\ queue' = [queue EXCEPT ![n] = <<>>]
  /\ torn' = (torn \/ (~switch[n].other /\ local[n].sent))
  /\ switch' = [switch EXCEPT ![n] = NoSwitch]
  /\ UNCHANGED <<conn, handler, link, inbox, loop, answer, edgeVars, left>>

-----------------------------------------------------------------------------
(* forward_loop                                                              *)

LoopReads(n) ==
  /\ loop[n].at = "top"
  /\ loop' = [loop EXCEPT ![n] = [at |-> "wait", to |-> local[n].active, ev |-> "none"]]
  /\ local[n].active # None
  /\ UNCHANGED <<queue, inbox, forwardRest, local, torn, left>>

(* not forwarding: what is queued is dropped                                 *)
LoopDrains(n) ==
  /\ loop[n].at = "top" /\ local[n].active = None /\ queue[n] # <<>>
  /\ queue' = [queue EXCEPT ![n] = <<>>]
  /\ UNCHANGED <<inbox, loop, forwardRest, local, torn, left>>

LoopTakes(n) ==
  /\ loop[n].at = "wait"
  /\ IF queue[n] = <<>>
     THEN /\ loop' = [loop EXCEPT ![n] = AtTop]
          /\ UNCHANGED queue
     ELSE /\ loop' = [loop EXCEPT ![n].at = "send", ![n].ev = Head(queue[n])]
          /\ queue' = [queue EXCEPT ![n] = Tail(@)]
  /\ UNCHANGED <<inbox, forwardRest, local, torn, left>>

(* _forward_send_event, to the peer that was active when the loop looked     *)
LoopSends(n) ==
  LET m == loop[n].to
      ev == loop[n].ev
  IN
  /\ loop[n].at = "send"
  /\ loop' = [loop EXCEPT ![n] = AtTop]
  /\ \E sent \in SendSays(n, m) :
       IF sent
       THEN /\ wire' = Put(wire, n, m, <<Key(ev)>>)
            /\ local' = [local EXCEPT ![n].sent = ev = "key"]
            /\ torn' = (torn \/ (ev = "key" /\ local[n].active # m))
       ELSE /\ wire' = StopSays(wire, n, FALSE)
            /\ local' = [local EXCEPT ![n] = Stopped(n)]
            /\ UNCHANGED torn
  /\ UNCHANGED <<conn, handler, link, queue, inbox, switchVars, edgeVars, left>>

(* inject_loop                                                               *)
Inject(n) ==
  /\ inbox[n] # <<>>
  /\ inbox' = [inbox EXCEPT ![n] = Tail(@)]
  /\ local' = [local EXCEPT ![n].down = Head(inbox[n]) = "key"]
  /\ UNCHANGED <<queue, loop, forwardRest, torn, left>>
==============================================================================
