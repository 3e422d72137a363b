------------------------------ MODULE PeerState ------------------------------
(***************************************************************************)
(* What the runtimes of a few peers keep for input forwarding: the TCP      *)
(* connections between them and the registry of links (tray.py,             *)
(* istate.peers), the active forwarding, the edge session, the press        *)
(* trackers and the threads that work on them.  The keyboard is one key, a  *)
(* connection is one of Conn and is dialled once.                           *)
(***************************************************************************)
EXTENDS Naturals, Sequences, FiniteSets

CONSTANTS
  Node, Conn,
  Dialer, Acceptor,  \* the two ends of a connection
  Sessions,          \* edge sessions are numbered 1..Sessions
  None,
  Scenarios          \* what is connected at the start, and how often the
                     \* users and the network may act

Kinds == {"activate", "return", "press", "edge", "drop", "dial", "late"}

(* A peer has dialled another only once: connect_one dials again when the   *)
(* handler of its last connection has ended.                                *)
ASSUME PeerAssumption ==
  /\ Dialer \in [Conn -> Node] /\ Acceptor \in [Conn -> Node]
  /\ \A c \in Conn : Dialer[c] # Acceptor[c]
  /\ Sessions \in Nat /\ None \notin Node \cup Conn
  /\ Scenarios \subseteq [linked : SUBSET Conn, left : [Kinds -> Nat]]
  /\ \A s \in Scenarios : \A c, d \in s.linked :
       Dialer[c] = Dialer[d] /\ Acceptor[c] = Acceptor[d] => c = d

VARIABLES
  conn,     \* the TCP connection
  wire,     \* what is on its way to either end
  handler,  \* the peer_handler thread of either end
  link,     \* istate.peers: the two slots and remote_forwarding_active
  local,    \* active_peer, edge_session, and the key: pressed by the user,
            \* in sent_tracker, in inject_tracker
  queue,    \* event_queue, of the hooks for forward_loop
  inbox,    \* inject_queue, of the handlers for inject_loop
  loop,     \* the forward_loop thread
  switch,   \* the thread of an activation
  edge,     \* the edge_watcher thread
  answer,   \* _fwd_control_waiters
  reply,    \* _edge_protocol_waiters
  begun,    \* edge sessions so far
  torn,     \* history: a release was overtaken or is not to come
  left      \* budget

netVars == <<conn, wire, handler, link>>
keyVars == <<queue, inbox, loop>>
switchVars == <<switch, answer>>
edgeVars == <<edge, reply, begun>>
vars == <<netVars, local, keyVars, switchVars, edgeVars, torn, left>>

Ends(c) == {Dialer[c], Acceptor[c]}
Peer(c, n) == IF n = Dialer[c] THEN Acceptor[c] ELSE Dialer[c]

NoLink == [in |-> None, out |-> None, fwd |-> FALSE]
NoSession == [role |-> "none", peer |-> None, id |-> 0]
SessionOf(role, m, id) == [role |-> role, peer |-> m, id |-> id]
Quiet == [active |-> None, session |-> NoSession,
          held |-> FALSE, sent |-> FALSE, down |-> FALSE]
AtTop == [at |-> "top", to |-> None, ev |-> "none"]
NoSwitch == [at |-> "none", to |-> None, other |-> FALSE]
NoAnswer == [by |-> "none", ok |-> FALSE]
Watching == [at |-> "watch", to |-> None, id |-> 0]
NoReply == [id |-> 0, is |-> "none"]

Slot(c, n) == IF n = Dialer[c] THEN "out" ELSE "in"
Joined(s, n, m, slot) ==
  LET there == {c \in s.linked : Ends(c) = {n, m} /\ n # m /\ Slot(c, n) = slot}
  IN IF there = {} THEN None ELSE CHOOSE c \in there : TRUE
Init ==
  \E s \in Scenarios :
    /\ conn = [c \in Conn |-> IF c \in s.linked THEN "up" ELSE "new"]
    /\ wire = [c \in Conn |-> [n \in Ends(c) |-> <<>>]]
    /\ handler = [c \in Conn |-> [n \in Ends(c) |-> IF c \in s.linked THEN "up" ELSE "none"]]
    /\ link = [n \in Node |-> [m \in Node |->
         [in |-> Joined(s, n, m, "in"), out |-> Joined(s, n, m, "out"), fwd |-> FALSE]]]
    /\ local = [n \in Node |-> Quiet]
    /\ queue = [n \in Node |-> <<>>] /\ inbox = [n \in Node |-> <<>>]
    /\ loop = [n \in Node |-> AtTop]
    /\ switch = [n \in Node |-> NoSwitch] /\ answer = [n \in Node |-> [m \in Node |-> NoAnswer]]
    /\ edge = [n \in Node |-> Watching] /\ reply = [n \in Node |-> NoReply]
    /\ begun = 0 /\ torn = FALSE /\ left = s.left

(* A message: what it says, and the edge session it is about.                *)
Msg(says, id) == [says |-> says, id |-> id]
Key(ev) == Msg(ev, 0)
KeyEvents == {"key", "key_up"}

May(kind) == left[kind] > 0
Spend(kind) == left' = [left EXCEPT ![kind] = @ - 1]
==============================================================================
