------------------------------ MODULE PeerLinks ------------------------------
(***************************************************************************)
(* The links between peers: every peer dials the others, so a link has an   *)
(* inbound and an outbound connection, each with a handler thread at both   *)
(* ends, and is there as long as one of them is.                            *)
(***************************************************************************)
EXTENDS PeerState

(* _slot_for_send                                                            *)
Via(n, m) == IF link[n][m].out # None THEN link[n][m].out ELSE link[n][m].in
Linked(n, m) == Via(n, m) # None

(* A send goes into the connection, or into one that has broken unnoticed:   *)
(* then it may fail or seem to succeed.                                      *)
Alive(n, m) == Linked(n, m) /\ conn[Via(n, m)] = "up"
Put(w, n, m, msgs) ==
  IF Alive(n, m) THEN [w EXCEPT ![Via(n, m)][m] = @ \o msgs] ELSE w
SendSays(n, m) ==
  IF Alive(n, m) THEN {TRUE} ELSE IF Linked(n, m) THEN BOOLEAN ELSE {FALSE}

Under(c, n, ev) == \E i \in 1..Len(wire[c][n]) : wire[c][n][i] = Key(ev)
Waiting(n, ev) == \E i \in 1..Len(inbox[n]) : inbox[n][i] = ev

linkRest == <<keyVars, switchVars, edgeVars>>

(* connect_one dials once the handler of its last connection has ended,      *)
(* network_thread accepts                                                    *)
Connect(c) ==
  /\ conn[c] = "new" /\ May("dial")
  /\ \A d \in Conn : Dialer[d] = Dialer[c] /\ conn[d] # "new" => handler[d][Dialer[d]] = "gone"
  /\ Spend("dial")
  /\ conn' = [conn EXCEPT ![c] = "up"]
  /\ UNCHANGED <<wire, handler, link, local, linkRest, torn>>

(* The connection breaks; what was under way arrives up to some point.       *)
Break(c) ==
  /\ conn[c] = "up" /\ May("drop")
  /\ Spend("drop")
  /\ conn' = [conn EXCEPT ![c] = "broken"]
  /\ \E i \in 0..Len(wire[c][Dialer[c]]), j \in 0..Len(wire[c][Acceptor[c]]) :
       wire' = [wire EXCEPT ![c][Dialer[c]] = SubSeq(@, 1, i),
                            ![c][Acceptor[c]] = SubSeq(@, 1, j)]
  /\ UNCHANGED <<handler, link, local, linkRest, torn>>

(* install_peer_connection: a stale connection of the same direction is      *)
(* closed.  From now on sends may take another way than those before.        *)
Install(c, n) ==
  LET m == Peer(c, n)
      old == link[n][m][Slot(c, n)]
  IN
  /\ conn[c] = "up" /\ handler[c][n] = "none"
  /\ handler' = [handler EXCEPT ![c][n] = "up"]
  /\ link' = [link EXCEPT ![n][m][Slot(c, n)] = c]
  /\ torn' = (torn \/ \E d \in Conn : m \in Ends(d) /\ Peer(d, m) = n /\ Under(d, m, "key"))
  /\ IF old = None \/ conn[old] = "broken" THEN UNCHANGED <<conn, wire>>
     ELSE /\ conn' = [conn EXCEPT ![old] = "broken"]
          /\ wire' = [wire EXCEPT ![old][n] = <<>>]
  /\ UNCHANGED <<local, linkRest, left>>

KeyStays(n) == local[n].down \/ Waiting(n, "key")

(* a handshake that never ended                                              *)
HandshakeFails(c, n) ==
  /\ conn[c] = "broken" /\ handler[c][n] = "none"
  /\ handler' = [handler EXCEPT ![c][n] = "gone"]
  /\ wire' = [wire EXCEPT ![c][n] = <<>>]
  /\ torn' = (torn \/ KeyStays(n))
  /\ UNCHANGED <<conn, link, local, linkRest, left>>

(* (mutant: the other direction is forgotten)                                *)
RemovedAlone(l, c) == IF c \in {l.in, l.out} THEN NoLink ELSE l
(* remove_peer_connection: the link goes with its last connection            *)
Removed(l, c) ==
  LET rest == [l EXCEPT !.in = IF @ = c THEN None ELSE @, !.out = IF @ = c THEN None ELSE @]
  IN IF rest.in = None /\ rest.out = None THEN NoLink ELSE rest

(* (mutant: the end of the stream looks like a timeout)                      *)
NeverEnds(c, n) == FALSE
(* FramedReader.read_message raises at the end of the stream                 *)
StreamEnds(c, n) == conn[c] = "broken" /\ wire[c][n] = <<>>

(* The finally of peer_handler, after the last message was read: the link    *)
(* and the edge session with that peer, and then the keys it held down here. *)
(* A link that lives on by its other connection releases nothing.            *)
HandlerEnds(c, n) ==
  LET m == Peer(c, n)
      gone == Linked(n, m) /\ Removed(link[n][m], c) = NoLink
  IN
  /\ handler[c][n] = "up" /\ StreamEnds(c, n)
  /\ link' = [link EXCEPT ![n][m] = Removed(@, c)]
  /\ handler' = [handler EXCEPT ![c][n] = IF gone THEN "leaving" ELSE "gone"]
  /\ local' = IF gone /\ local[n].session.peer = m
              THEN [local EXCEPT ![n].session = NoSession] ELSE local
  /\ torn' = (torn \/ (~gone /\ KeyStays(n)))
  /\ UNCHANGED <<conn, wire, linkRest, left>>

(* release_injected_inputs; what inject_loop has not taken yet stays queued  *)
Released(c, n) ==
  /\ handler[c][n] = "leaving"
  /\ handler' = [handler EXCEPT ![c][n] = "gone"]
  /\ local' = [local EXCEPT ![n].down = FALSE]
  /\ torn' = (torn \/ Waiting(n, "key"))
  /\ UNCHANGED <<conn, wire, link, linkRest, left>>
==============================================================================
