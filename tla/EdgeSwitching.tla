---------------------------- MODULE EdgeSwitching ----------------------------
(***************************************************************************)
(* Edge switching (tray.py): the cursor at a screen edge asks the peer there *)
(* to become the target of an edge session; its acknowledgement starts the  *)
(* forwarding.  And the messages a peer handles in its read loop.           *)
(***************************************************************************)
EXTENDS InputForwarding

edgeRest == <<keyVars, torn>>

(* edge_watcher and _start_source_edge_session: nothing is kept of a session *)
(* but its waiter until the answer                                           *)
EdgeReached(n, m) ==
  /\ edge[n].at = "watch" /\ local[n].session = NoSession /\ local[n].active = None
  /\ May("edge") /\ begun < Sessions /\ Linked(n, m)
  /\ Spend("edge")
  /\ begun' = begun + 1
  /\ \E sent \in SendSays(n, m) :
       IF sent
       THEN /\ wire' = Put(wire, n, m, <<Msg("enter", begun')>>)
            /\ reply' = [reply EXCEPT ![n] = [id |-> begun', is |-> "pending"]]
            /\ edge' = [edge EXCEPT ![n] = [at |-> "sent", to |-> m, id |-> begun']]
       ELSE UNCHANGED <<wire, reply, edge>>
  /\ UNCHANGED <<conn, handler, link, local, switchVars, edgeRest>>

(* rejected, or no answer in three seconds: the peer is not told             *)
EdgeRefused(n) ==
  /\ edge[n].at = "sent" /\ reply[n].is # "ack"
  /\ IF reply[n].is = "reject" \/ ~Alive(n, edge[n].to) THEN UNCHANGED left
     ELSE May("late") /\ Spend("late")
  /\ edge' = [edge EXCEPT ![n] = Watching]
  /\ reply' = [reply EXCEPT ![n] = NoReply]
  /\ UNCHANGED <<netVars, local, switchVars, begun, edgeRest>>

(* acknowledged: a peer that forwards to us is asked to stop first           *)
EdgeAccepted(n) ==
  LET m == edge[n].to
      asks == link[n][m].fwd
  IN
  /\ edge[n].at = "sent" /\ reply[n].is = "ack"
  /\ reply' = [reply EXCEPT ![n] = NoReply]
  /\ edge' = [edge EXCEPT ![n].at = IF asks THEN "asked" ELSE "start"]
  /\ IF asks THEN AskToStop(n, m, "edge") ELSE UNCHANGED <<wire, answer>>
  /\ UNCHANGED <<conn, handler, link, local, switch, begun, edgeRest, left>>

EdgeConfirmed(n) ==
  LET m == edge[n].to
  IN
  /\ edge[n].at = "asked" /\ answer[n][m] = [by |-> "edge", ok |-> TRUE]
  /\ edge' = [edge EXCEPT ![n].at = "start"]
  /\ answer' = [answer EXCEPT ![n][m] = NoAnswer]
  /\ UNCHANGED <<netVars, local, switch, reply, begun, edgeRest, left>>

EdgeUnconfirmed(n) ==
  LET m == edge[n].to
  IN
  /\ edge[n].at = "asked" /\ answer[n][m] # [by |-> "edge", ok |-> TRUE]
  /\ Unanswered(n, m)
  /\ IF Alive(n, m) THEN Spend("late") ELSE UNCHANGED left
  /\ wire' = Put(wire, n, m, <<Msg("cancel", edge[n].id)>>)
  /\ edge' = [edge EXCEPT ![n] = Watching]
  /\ answer' = [answer EXCEPT ![n][m] = NoAnswer]
  /\ UNCHANGED <<conn, handler, link, local, switch, reply, begun, edgeRest>>

(* the session starts over whatever became active in the meantime            *)
EdgeStarts(n) ==
  LET m == edge[n].to
  IN
  /\ edge[n].at = "start"
  /\ local' = [local EXCEPT ![n].active = m, ![n].sent = FALSE,
                            ![n].session = SessionOf("source", m, edge[n].id)]
  /\ torn' = (torn \/ local[n].sent)
  /\ wire' = Put(wire, n, m, <<Msg("fwd_on", 0)>>)
  /\ edge' = [edge EXCEPT ![n] = Watching]
  /\ UNCHANGED <<conn, handler, link, keyVars, switchVars, reply, begun, left>>

(* edge_watcher of a target: the cursor is back at the edge it entered by    *)
EdgeLeft(n) ==
  LET s == local[n].session
  IN
  /\ edge[n].at = "watch" /\ s.role = "target"
  /\ wire' = Put(wire, n, s.peer, <<Msg("return", s.id)>>)
  /\ local' = [local EXCEPT ![n].session = NoSession]
  /\ UNCHANGED <<conn, handler, link, switchVars, edgeVars, edgeRest, left>>

-----------------------------------------------------------------------------
(* The messages (peer_handler): Handle takes the next one of a connection;   *)
(* w are the wires without it.                                               *)

HandleInput(n, ev, w) ==
  /\ inbox' = [inbox EXCEPT ![n] = Append(@, ev)]
  /\ wire' = w /\ UNCHANGED <<link, local, answer, reply>>

HandleFwdState(n, m, on, w) ==
  /\ link' = IF Linked(n, m) THEN [link EXCEPT ![n][m].fwd = on] ELSE link
  /\ wire' = w /\ UNCHANGED <<inbox, local, answer, reply>>

(* a request to stop is answered on the connection it came by                *)
HandleControl(c, n, m, w) ==
  LET stops == local[n].active = m
      told == IF stops THEN StopSays(w, n, FALSE) ELSE w
  IN
  /\ local' = IF stops THEN [local EXCEPT ![n] = Stopped(n)] ELSE local
  /\ wire' = IF conn[c] = "up" THEN [told EXCEPT ![c][m] = Append(@, Msg("result", 0))] ELSE told
  /\ UNCHANGED <<link, inbox, answer, reply>>

(* whoever waits for an answer of that peer takes it for its own             *)
HandleResult(n, m, w) ==
  /\ answer' = IF answer[n][m] = NoAnswer THEN answer ELSE [answer EXCEPT ![n][m].ok = TRUE]
  /\ wire' = w /\ UNCHANGED <<link, inbox, local, reply>>

(* _enter_target_edge_session: rejected when busy with another session, and  *)
(* when the cursor cannot be placed or an update is being installed          *)
Busy(n) == local[n].session # NoSession
HandleEnter(n, m, id, w) ==
  /\ \E able \in BOOLEAN, sent \in SendSays(n, m) :
       LET accepts == able /\ ~Busy(n)
       IN /\ local' = IF accepts /\ sent
                      THEN [local EXCEPT ![n].session = SessionOf("target", m, id)] ELSE local
          /\ wire' = Put(w, n, m, <<Msg(IF accepts THEN "ack" ELSE "reject", id)>>)
  /\ UNCHANGED <<link, inbox, answer, reply>>

HandleReply(n, says, id, w) ==
  /\ reply' = IF reply[n].id = id THEN [reply EXCEPT ![n].is = says] ELSE reply
  /\ wire' = w /\ UNCHANGED <<link, inbox, local, answer>>

(* _handle_edge_return                                                       *)
HandleReturn(n, id, w) ==
  LET ours == local[n].session.role = "source" /\ local[n].session.id = id
  IN
  /\ local' = IF ours THEN [local EXCEPT ![n] = Stopped(n)] ELSE local
  /\ wire' = IF ours THEN StopSays(w, n, TRUE) ELSE w
  /\ UNCHANGED <<link, inbox, answer, reply>>

(* _handle_edge_cancel: the source of the session answers with a cancel      *)
HandleCancel(n, id, w) ==
  LET s == local[n].session
      source == s.role = "source" /\ s.id = id
  IN
  /\ local' = IF source THEN [local EXCEPT ![n] = Stopped(n)]
              ELSE IF s.id = id THEN [local EXCEPT ![n].session = NoSession] ELSE local
  /\ wire' = IF source THEN StopSays(w, n, FALSE) ELSE w
  /\ UNCHANGED <<link, inbox, answer, reply>>

Handle(c, n) ==
  LET m == Peer(c, n)
      msg == Head(wire[c][n])
      w == [wire EXCEPT ![c][n] = Tail(@)]
  IN
  /\ handler[c][n] = "up" /\ wire[c][n] # <<>>
  /\ \/ msg.says \in KeyEvents /\ HandleInput(n, msg.says, w)
     \/ msg.says \in {"fwd_on", "fwd_off"} /\ HandleFwdState(n, m, msg.says = "fwd_on", w)
     \/ msg.says = "control" /\ HandleControl(c, n, m, w)
     \/ msg.says = "result" /\ HandleResult(n, m, w)
     \/ msg.says = "enter" /\ HandleEnter(n, m, msg.id, w)
     \/ msg.says \in {"ack", "reject"} /\ HandleReply(n, msg.says, msg.id, w)
     \/ msg.says = "return" /\ HandleReturn(n, msg.id, w)
     \/ msg.says = "cancel" /\ HandleCancel(n, msg.id, w)
  /\ UNCHANGED <<conn, handler, queue, loop, switch, edge, begun, torn, left>>
==============================================================================
