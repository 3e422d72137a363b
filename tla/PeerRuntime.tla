----------------------------- MODULE PeerRuntime -----------------------------
(***************************************************************************)
(* The runtimes of a few peers: their links, the forwarding of input, the   *)
(* edge sessions, and what must hold of them.                               *)
(***************************************************************************)
EXTENDS EdgeSwitching

Users ==
  \E n \in Node :
    \/ PressKey(n) \/ ReleaseKey(n) \/ Return(n) \/ EdgeLeft(n)
    \/ \E m \in Node \ {n} : Activate(n, m) \/ EdgeReached(n, m)
Network == \E c \in Conn : Connect(c) \/ Break(c)
Links(c, n) == Install(c, n) \/ HandshakeFails(c, n) \/ Handle(c, n)
                 \/ HandlerEnds(c, n) \/ Released(c, n)
Forwards(n) == LoopReads(n) \/ LoopDrains(n) \/ LoopTakes(n) \/ LoopSends(n)
Switches(n) == ActivateConfirmed(n) \/ ActivateRefused(n) \/ ActivateGoes(n)
Edges(n) == EdgeRefused(n) \/ EdgeAccepted(n) \/ EdgeConfirmed(n)
              \/ EdgeUnconfirmed(n) \/ EdgeStarts(n)

Next ==
  \/ Users \/ Network
  \/ \E c \in Conn : \E n \in Ends(c) : Links(c, n)
  \/ \E n \in Node : Forwards(n) \/ Inject(n) \/ Switches(n) \/ Edges(n)

Spec == Init /\ [][Next]_vars

(* The forward loops go on, and so does some other thread as long as one has *)
(* something to do; a key is let go sooner or later.                         *)
Others ==
  \/ \E c \in Conn : \E n \in Ends(c) : Links(c, n)
  \/ \E n \in Node : Inject(n) \/ Switches(n) \/ Edges(n) \/ ReleaseKey(n)
Fairness == WF_vars(Others) /\ \A n \in Node : WF_vars(Forwards(n))
FairSpec == Spec /\ Fairness

-----------------------------------------------------------------------------

(* A connection both ends of which are in their read loops can be used for   *)
(* sending: removing the other direction, or a replaced connection, leaves   *)
(* it in the registry.                                                       *)
LinksAreLive ==
  \A c \in Conn : \A n \in Ends(c) :
    conn[c] = "up" /\ handler[c][n] = "up" => c \in {link[n][Peer(c, n)].in, link[n][Peer(c, n)].out}

(* A release of the key at n is due: who forwards to it tracks it as sent,   *)
(* or the release is under way, or the end of the last connection brings it. *)
ReleaseDue(n) ==
  \/ \E m \in Node : local[m].active = n /\ local[m].sent
  \/ \E m \in Node : loop[m].at = "send" /\ loop[m].to = n /\ loop[m].ev = "key_up"
  \/ Waiting(n, "key_up")
  \/ \E c \in Conn : n \in Ends(c) /\ (Under(c, n, "key_up") \/ handler[c][n] = "leaving"
                                        \/ (conn[c] = "broken" /\ handler[c][n] \in {"none", "up"}))
(* A key that was injected is released again, by whatever ends the           *)
(* forwarding, unless the order of the threads had already let the press     *)
(* come after its release (torn).                                            *)
KeysComeUp == \A n \in Node : local[n].down => ReleaseDue(n) \/ torn

(* A key that is down at a peer nobody forwards to comes up.                 *)
KeysAreReleased ==
  \A n \in Node :
    (local[n].down /\ \A m \in Node : local[m].active # n)
      ~> (~local[n].down \/ torn \/ \E m \in Node : local[m].active = n)

(* What docs/protocol.md:217 and runtime_model.py:72 say of the switch of    *)
(* direction: never both at once.                                            *)
OneDirection ==
  \A n, m \in Node : ~(local[n].active = m /\ local[m].active = n)

==============================================================================
