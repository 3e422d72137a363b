-------------------------- MODULE PeerRuntimeProofs --------------------------
(***************************************************************************)
(* The links and the forwarded key, for any number of peers and connections.*)
(* Most steps leave the connections alone and press nothing (Talk); what    *)
(* is left are a press that goes out (Presses), one that arrives (TakesKey),*)
(* an injection, and the steps of the links.  StepIs says so, and the       *)
(* invariants are shown kind by kind: LinkInv for the registry, then        *)
(* KeysDue, which follows a press from the wire through the inject queue to *)
(* the key and asks at every place for the release that comes behind it.    *)
(***************************************************************************)
EXTENDS PeerRuntime, SequenceTheorems, TLAPS

Says == {"fwd_on", "fwd_off", "control", "result", "enter", "ack", "reject", "return", "cancel"}
Notes == {Key("key"), Key("key_up")} \cup [says : Says, id : Nat]
WiresOf(c) == [Ends(c) -> Seq(Notes)]
HandlerStates == {"none", "up", "leaving", "gone"}
HandlersOf(c) == [Ends(c) -> HandlerStates]
SlotNames == {"in", "out"}
Wires ==
  {w \in [Conn -> UNION {WiresOf(c) : c \in Conn}] : \A c \in Conn : w[c] \in WiresOf(c)}
Handlers ==
  {h \in [Conn -> UNION {HandlersOf(c) : c \in Conn}] : \A c \in Conn : h[c] \in HandlersOf(c)}
Peers == Node \cup {None}
LinkStates == [in : Conn \cup {None}, out : Conn \cup {None}, fwd : BOOLEAN]
SessionStates == [role : {"none", "source", "target"}, peer : Peers, id : Nat]
Locals ==
  [active : Peers, session : SessionStates, held : BOOLEAN, sent : BOOLEAN, down : BOOLEAN]
Loops == [at : {"top", "wait", "send"}, to : Peers, ev : KeyEvents \cup {"none"}]
SwitchStates == [at : {"none", "asked", "go"}, to : Peers, other : BOOLEAN]
EdgeStates == [at : {"watch", "sent", "asked", "start"}, to : Peers, id : Nat]

Types ==
  /\ conn \in [Conn -> {"new", "up", "broken"}] /\ wire \in Wires /\ handler \in Handlers
  /\ link \in [Node -> [Node -> LinkStates]] /\ local \in [Node -> Locals]
  /\ queue \in [Node -> Seq(KeyEvents)] /\ inbox \in [Node -> Seq(KeyEvents)]
  /\ loop \in [Node -> Loops] /\ switch \in [Node -> SwitchStates]
  /\ edge \in [Node -> EdgeStates] /\ begun \in Nat /\ torn \in BOOLEAN

(* The thread that acts on a peer has one.                                   *)
Aimed ==
  \A n \in Node : /\ loop[n].at # "top" => loop[n].to \in Node
                  /\ loop[n].at = "send" => loop[n].ev \in KeyEvents
                  /\ switch[n].at # "none" => switch[n].to \in Node
                  /\ edge[n].at # "watch" => edge[n].to \in Node
                  /\ local[n].session # NoSession => local[n].session.peer \in Node

(* A slot holds a connection of its direction with a running handler.        *)
SlotsFit ==
  \A n, m \in Node :
    /\ link[n][m].out # None =>
         LET c == link[n][m].out
         IN n \in Ends(c) /\ Peer(c, n) = m /\ Slot(c, n) = "out" /\ handler[c][n] = "up"
    /\ link[n][m].in # None =>
         LET c == link[n][m].in
         IN n \in Ends(c) /\ Peer(c, n) = m /\ Slot(c, n) = "in" /\ handler[c][n] = "up"

(* A connection that is up is in its own slot once its handler runs.         *)
SlotsLive ==
  \A c \in Conn : \A n \in Ends(c) :
    conn[c] = "up" /\ handler[c][n] = "up" => link[n][Peer(c, n)][Slot(c, n)] = c

(* Handlers come after the connection and end after its last message.        *)
HandlersFit ==
  \A c \in Conn : \A n \in Ends(c) :
    /\ conn[c] = "new" => handler[c][n] = "none"
    /\ handler[c][n] \in {"leaving", "gone"} => conn[c] = "broken" /\ wire[c][n] = <<>>

(* What forward_loop sends to a peer that was left is nothing tracked.       *)
LoopFits == \A n \in Node : loop[n].at # "top" /\ loop[n].to # local[n].active => ~local[n].sent

(* Every press of a queue has a release behind it.                           *)
Ended(q, press, release) ==
  \A i \in 1..Len(q) : q[i] = press => \E j \in 1..Len(q) : i < j /\ q[j] = release
Holds(q, e) == \E i \in 1..Len(q) : q[i] = e
WireEnded(w, c, n) == Ended(w[c][n], Key("key"), Key("key_up"))
InboxEnded(n) == Ended(inbox[n], "key", "key_up")

(* n will release at m, and can still reach it.                              *)
Tracks(n, m) == local[n].active = m /\ local[n].sent /\ Alive(n, m)
Broken(c, n) == conn[c] = "broken" /\ handler[c][n] \in {"none", "up"}

(* A release that comes after everything in the inbox of n.                  *)
Coming(n) ==
  \/ \E m \in Node : Tracks(m, n)
  \/ \E c \in Conn : n \in Ends(c) /\ (Under(c, n, "key_up") \/ handler[c][n] = "leaving"
                                        \/ Broken(c, n))

DownDue(n) == local[n].down => Waiting(n, "key_up") \/ Coming(n)
InboxDue(n) == InboxEnded(n) \/ Coming(n)
WireDue(c, n) ==
  \/ WireEnded(wire, c, n)
  \/ Tracks(Peer(c, n), n) /\ Via(Peer(c, n), n) = c
  \/ conn[c] = "broken"
KeysDue ==
  /\ \A n \in Node : DownDue(n) /\ InboxDue(n)
  /\ \A c \in Conn : \A n \in Ends(c) : WireDue(c, n)
KeyInv == torn \/ KeysDue

LinkInv == SlotsFit /\ SlotsLive /\ HandlersFit

-----------------------------------------------------------------------------
(* Sequences of events                                                       *)

(* What comes behind a sequence leaves its releases in it; when it presses   *)
(* nothing, every press still has a release behind it.                       *)
LEMMA ConcatKeeps ==
  ASSUME NEW S, NEW q \in Seq(S), NEW r \in Seq(S), NEW press, NEW release,
         \A i \in 1..Len(r) : r[i] # press
  PROVE  /\ q \o r \in Seq(S)
         /\ Holds(q, release) => Holds(q \o r, release)
         /\ Ended(q, press, release) => Ended(q \o r, press, release)
<1>1. /\ q \o r \in Seq(S) /\ Len(q \o r) = Len(q) + Len(r)
      /\ Len(q) \in Nat /\ Len(r) \in Nat
      /\ \A i \in 1..Len(q) : (q \o r)[i] = q[i]
      /\ \A i \in 1..Len(q) + Len(r) : i > Len(q) => (q \o r)[i] = r[i - Len(q)]
  OBVIOUS
<1>2. 1..Len(q) \subseteq 1..Len(q \o r)
  BY <1>1
<1>3. Holds(q, release) => Holds(q \o r, release)
  BY <1>1, <1>2 DEF Holds
<1>4. ASSUME Ended(q, press, release), NEW i \in 1..Len(q \o r), (q \o r)[i] = press
      PROVE  \E j \in 1..Len(q \o r) : i < j /\ (q \o r)[j] = release
  <2>1. i \in 1..Len(q)
    <3>1. CASE i > Len(q)
      <4>1. i - Len(q) \in 1..Len(r) /\ (q \o r)[i] = r[i - Len(q)]
        BY <1>1, <3>1
      <4> QED BY <4>1, <1>4
    <3> QED BY <3>1, <1>1
  <2>2. q[i] = press
    BY <1>1, <1>4, <2>1
  <2>3. PICK j \in 1..Len(q) : i < j /\ q[j] = release
    BY <1>4, <2>1, <2>2 DEF Ended
  <2> QED BY <2>3, <1>1, <1>2
<1> QED BY <1>1, <1>3, <1>4 DEF Ended

(* A release behind them all.                                                *)
LEMMA ConcatEnds ==
  ASSUME NEW S, NEW q \in Seq(S), NEW r \in Seq(S), NEW press, NEW release,
         \A i \in 1..Len(r) : r[i] # press, Holds(r, release)
  PROVE  Holds(q \o r, release) /\ Ended(q \o r, press, release)
<1>1. /\ q \o r \in Seq(S) /\ Len(q \o r) = Len(q) + Len(r)
      /\ Len(q) \in Nat /\ Len(r) \in Nat
      /\ \A i \in 1..Len(q) + Len(r) : i > Len(q) => (q \o r)[i] = r[i - Len(q)]
      /\ \A i \in 1..Len(r) : (q \o r)[Len(q) + i] = r[i]
  OBVIOUS
<1>2. PICK k \in 1..Len(r) : r[k] = release
  BY DEF Holds
<1>3. Len(q) + k \in 1..Len(q \o r) /\ (q \o r)[Len(q) + k] = release
  BY <1>1, <1>2
<1>4. ASSUME NEW i \in 1..Len(q \o r), (q \o r)[i] = press
      PROVE  i < Len(q) + k
  <2>1. CASE i > Len(q)
    <3>1. i - Len(q) \in 1..Len(r) /\ (q \o r)[i] = r[i - Len(q)]
      BY <1>1, <2>1
    <3> QED BY <3>1, <1>4
  <2> QED BY <2>1, <1>1
<1>5. Ended(q \o r, press, release)
  BY <1>3, <1>4 DEF Ended
<1> QED BY <1>3, <1>5 DEF Holds

(* Taking the first.                                                         *)
LEMMA TailKeeps ==
  ASSUME NEW S, NEW q \in Seq(S), q # <<>>, NEW press, NEW release
  PROVE  /\ Tail(q) \in Seq(S) /\ Head(q) \in S
         /\ Holds(q, release) /\ Head(q) # release => Holds(Tail(q), release)
         /\ Ended(q, press, release) => Ended(Tail(q), press, release)
         /\ Ended(q, press, release) /\ Head(q) = press => Holds(Tail(q), release)
<1>1. /\ Tail(q) \in Seq(S) /\ Head(q) \in S /\ Len(q) \in Nat \ {0}
      /\ Len(Tail(q)) = Len(q) - 1 /\ Head(q) = q[1]
      /\ \A i \in 1..Len(q) - 1 : Tail(q)[i] = q[i + 1]
  OBVIOUS
<1>2. ASSUME NEW j \in 1..Len(q), j > 1
      PROVE  j - 1 \in 1..Len(Tail(q)) /\ Tail(q)[j - 1] = q[j]
  BY <1>1, <1>2
<1>3. ASSUME Holds(q, release), Head(q) # release  PROVE Holds(Tail(q), release)
  <2>1. PICK j \in 1..Len(q) : q[j] = release
    BY <1>3 DEF Holds
  <2>2. j > 1
    BY <2>1, <1>1, <1>3
  <2> QED BY <2>1, <2>2, <1>2 DEF Holds
<1>4. ASSUME Ended(q, press, release)  PROVE Ended(Tail(q), press, release)
  <2>1. SUFFICES ASSUME NEW i \in 1..Len(Tail(q)), Tail(q)[i] = press
                 PROVE  \E j \in 1..Len(Tail(q)) : i < j /\ Tail(q)[j] = release
    BY DEF Ended
  <2>2. i + 1 \in 1..Len(q) /\ q[i + 1] = press
    BY <1>1, <2>1
  <2>3. PICK j \in 1..Len(q) : i + 1 < j /\ q[j] = release
    BY <1>4, <2>2 DEF Ended
  <2>4. j > 1 /\ i < j - 1
    BY <2>1, <2>3, <1>1
  <2> QED BY <2>3, <2>4, <1>2
<1>5. ASSUME Ended(q, press, release), Head(q) = press  PROVE Holds(Tail(q), release)
  <2>1. PICK j \in 1..Len(q) : 1 < j /\ q[j] = release
    BY <1>5, <1>1 DEF Ended
  <2> QED BY <2>1, <1>2 DEF Holds
<1> QED BY <1>1, <1>3, <1>4, <1>5

-----------------------------------------------------------------------------
(* Connections and wires                                                     *)

LEMMA EndsOf ==
  ASSUME NEW c \in Conn
  PROVE  /\ Ends(c) \subseteq Node /\ Dialer[c] \in Ends(c) /\ Acceptor[c] \in Ends(c)
         /\ \A n \in Ends(c) : /\ Peer(c, n) \in Ends(c) /\ Peer(c, n) # n
                               /\ Peer(c, Peer(c, n)) = n
                               /\ Ends(c) = {n, Peer(c, n)}
BY PeerAssumption DEF Ends, Peer

LEMMA WireSeq ==
  ASSUME NEW w \in Wires, NEW c \in Conn, NEW n \in Ends(c)
  PROVE  w[c][n] \in Seq(Notes)
<1>1. w[c] \in [Ends(c) -> Seq(Notes)]
  BY DEF Wires, WiresOf
<1> QED BY <1>1

LEMMA WireSet ==
  ASSUME NEW w \in Wires, NEW c \in Conn, NEW n \in Ends(c), NEW q \in Seq(Notes)
  PROVE  /\ [w EXCEPT ![c][n] = q] \in Wires
         /\ \A d \in Conn : \A k \in Ends(d) :
              [w EXCEPT ![c][n] = q][d][k] = IF d = c /\ k = n THEN q ELSE w[d][k]
<1> DEFINE U == UNION {WiresOf(d) : d \in Conn}
           w2 == [w EXCEPT ![c][n] = q]
<1>1. w \in [Conn -> U] /\ \A d \in Conn : w[d] \in WiresOf(d)
  BY DEF Wires
<1>2. w[c] \in [Ends(c) -> Seq(Notes)]
  BY <1>1 DEF WiresOf
<1>3. [w[c] EXCEPT ![n] = q] \in WiresOf(c)
  BY <1>2 DEF WiresOf
<1>4. [w[c] EXCEPT ![n] = q] \in U
  BY <1>3
<1> HIDE DEF U
<1>5. /\ w2 \in [Conn -> U]
      /\ \A d \in Conn : w2[d] = IF d = c THEN [w[c] EXCEPT ![n] = q] ELSE w[d]
  BY <1>1, <1>4
<1>6. \A d \in Conn : w2[d] \in WiresOf(d)
  BY <1>1, <1>3, <1>5
<1>7. w2 \in Wires
  BY <1>5, <1>6 DEF Wires, U
<1>8. \A d \in Conn : \A k \in Ends(d) : w2[d][k] = IF d = c /\ k = n THEN q ELSE w[d][k]
  BY <1>2, <1>5
<1> QED BY <1>7, <1>8

LEMMA HandlerSet ==
  ASSUME NEW h \in Handlers, NEW c \in Conn, NEW n \in Ends(c),
         NEW v \in HandlerStates
  PROVE  /\ [h EXCEPT ![c][n] = v] \in Handlers
         /\ \A d \in Conn : \A k \in Ends(d) :
              [h EXCEPT ![c][n] = v][d][k] = IF d = c /\ k = n THEN v ELSE h[d][k]
<1> DEFINE U == UNION {HandlersOf(d) : d \in Conn}
           h2 == [h EXCEPT ![c][n] = v]
<1>1. h \in [Conn -> U] /\ \A d \in Conn : h[d] \in HandlersOf(d)
  BY DEF Handlers
<1>2. h[c] \in [Ends(c) -> HandlerStates]
  BY <1>1 DEF HandlersOf
<1>3. [h[c] EXCEPT ![n] = v] \in HandlersOf(c)
  BY <1>2 DEF HandlersOf
<1>4. [h[c] EXCEPT ![n] = v] \in U
  BY <1>3
<1> HIDE DEF U
<1>5. /\ h2 \in [Conn -> U]
      /\ \A d \in Conn : h2[d] = IF d = c THEN [h[c] EXCEPT ![n] = v] ELSE h[d]
  BY <1>1, <1>4
<1>6. \A d \in Conn : h2[d] \in HandlersOf(d)
  BY <1>1, <1>3, <1>5
<1>7. h2 \in Handlers
  BY <1>5, <1>6 DEF Handlers, U
<1>8. \A d \in Conn : \A k \in Ends(d) : h2[d][k] = IF d = c /\ k = n THEN v ELSE h[d][k]
  BY <1>2, <1>5
<1> QED BY <1>7, <1>8

(* The connection that n sends to m by has these ends.                       *)
LEMMA ViaFits ==
  ASSUME Types, SlotsFit, NEW n \in Node, NEW m \in Node, Linked(n, m)
  PROVE  /\ Via(n, m) \in Conn /\ n \in Ends(Via(n, m)) /\ m \in Ends(Via(n, m))
         /\ Peer(Via(n, m), n) = m /\ Peer(Via(n, m), m) = n /\ n # m
         /\ handler[Via(n, m)][n] = "up"
<1>1. link[n][m] \in LinkStates
  BY DEF Types
<1>2. Via(n, m) \in Conn
  BY <1>1 DEF Via, Linked, LinkStates
<1>3. n \in Ends(Via(n, m)) /\ Peer(Via(n, m), n) = m /\ handler[Via(n, m)][n] = "up"
  BY DEF SlotsFit, Via, Linked
<1> QED BY <1>2, <1>3, EndsOf

(* The wires w2 come from w by messages that press nothing, and by taking    *)
(* some that are no releases.                                                *)
Kept(w, w2) ==
  /\ w2 \in Wires
  /\ \A c \in Conn : \A n \in Ends(c) :
       /\ conn[c] # "up" /\ w[c][n] = <<>> => w2[c][n] = <<>>
       /\ Holds(w[c][n], Key("key_up")) => Holds(w2[c][n], Key("key_up"))
       /\ WireEnded(w, c, n) => WireEnded(w2, c, n)

LEMMA KeptTwice ==
  ASSUME NEW w, NEW w2, NEW w3, Kept(w, w2), Kept(w2, w3)
  PROVE  Kept(w, w3)
BY DEF Kept

(* The release for m is in the connection of n.                              *)
Told(w, n, m) ==
  Holds(w[Via(n, m)][m], Key("key_up")) /\ WireEnded(w, Via(n, m), m)

(* What is said over a connection that is up.                                *)
LEMMA SaidIsKept ==
  ASSUME NEW w \in Wires, NEW c \in Conn, NEW n \in Ends(c), conn[c] = "up",
         NEW msgs \in Seq(Notes), \A i \in 1..Len(msgs) : msgs[i] # Key("key")
  PROVE  Kept(w, [w EXCEPT ![c][n] = @ \o msgs])
<1> DEFINE q == w[c][n] \o msgs
           w2 == [w EXCEPT ![c][n] = q]
<1>1. w[c][n] \in Seq(Notes)
  BY WireSeq
<1>2. /\ q \in Seq(Notes)
      /\ Holds(w[c][n], Key("key_up")) => Holds(q, Key("key_up"))
      /\ Ended(w[c][n], Key("key"), Key("key_up")) => Ended(q, Key("key"), Key("key_up"))
  BY <1>1, ConcatKeeps
<1> HIDE DEF q
<1>3. /\ w2 \in Wires
      /\ \A d \in Conn : \A k \in Ends(d) : w2[d][k] = IF d = c /\ k = n THEN q ELSE w[d][k]
  BY <1>2, WireSet
<1> HIDE DEF w2
<1>4. Kept(w, w2)
  BY <1>2, <1>3 DEF Kept, WireEnded
<1> QED BY <1>4 DEF w2, q

(* Put, when it presses nothing.                                             *)
LEMMA PutIsKept ==
  ASSUME Types, SlotsFit, NEW w \in Wires, NEW n \in Node, NEW m \in Node,
         NEW msgs \in Seq(Notes), \A i \in 1..Len(msgs) : msgs[i] # Key("key")
  PROVE  Kept(w, Put(w, n, m, msgs))
<1>1. CASE Alive(n, m)
  <2>1. /\ Via(n, m) \in Conn /\ m \in Ends(Via(n, m)) /\ conn[Via(n, m)] = "up"
    BY <1>1, ViaFits DEF Alive
  <2>2. Kept(w, [w EXCEPT ![Via(n, m)][m] = @ \o msgs])
    BY <2>1, SaidIsKept
  <2> QED BY <1>1, <2>2 DEF Put
<1>2. CASE ~Alive(n, m)
  BY <1>2 DEF Put, Kept
<1> QED BY <1>1, <1>2

LEMMA PutTells ==
  ASSUME Types, SlotsFit, NEW w \in Wires, NEW n \in Node, NEW m \in Node, Alive(n, m),
         NEW msgs \in Seq(Notes), \A i \in 1..Len(msgs) : msgs[i] # Key("key"),
         Holds(msgs, Key("key_up"))
  PROVE  Told(Put(w, n, m, msgs), n, m)
<1>1. PICK c \in Conn : c = Via(n, m) /\ m \in Ends(c)
  BY ViaFits DEF Alive
<1> DEFINE q == w[c][m] \o msgs
<1>2. w[c][m] \in Seq(Notes)
  BY <1>1, WireSeq
<1>3. q \in Seq(Notes)
  BY <1>2, ConcatKeeps
<1>4. Holds(q, Key("key_up")) /\ Ended(q, Key("key"), Key("key_up"))
  BY <1>2, ConcatEnds
<1> HIDE DEF q
<1>5. /\ [w EXCEPT ![c][m] = q] \in Wires
      /\ \A d \in Conn : \A k \in Ends(d) :
           [w EXCEPT ![c][m] = q][d][k] = IF d = c /\ k = m THEN q ELSE w[d][k]
  BY <1>1, <1>3, WireSet
<1>7. [w EXCEPT ![c][m] = q][c][m] = q
  BY <1>1, <1>5
<1>6. Put(w, n, m, msgs) = [w EXCEPT ![c][m] = q]
  BY <1>1 DEF Put, q
<1> QED BY <1>1, <1>4, <1>7, <1>6 DEF Told, WireEnded

LEMMA KeptTold ==
  ASSUME Types, SlotsFit, NEW w, NEW w2, NEW n \in Node, NEW m \in Node, Linked(n, m),
         Kept(w, w2), Told(w, n, m)
  PROVE  Told(w2, n, m)
BY ViaFits DEF Kept, Told

-----------------------------------------------------------------------------
(* What a peer is told                                                       *)

LEMMA NoteOf ==
  ASSUME NEW says \in Says, NEW id \in Nat
  PROVE  /\ <<Msg(says, id)>> \in Seq(Notes)
         /\ \A i \in 1..Len(<<Msg(says, id)>>) : <<Msg(says, id)>>[i] # Key("key")
<1>1. Msg(says, id) \in Notes
  BY DEF Msg, Notes
<1>2. says # "key"
  BY DEF Says
<1>3. Msg(says, id) # Key("key")
  BY <1>2 DEF Msg, Key
<1>4. Len(<<Msg(says, id)>>) = 1 /\ <<Msg(says, id)>>[1] = Msg(says, id)
  OBVIOUS
<1> QED BY <1>1, <1>3, <1>4

LEMMA SayIsKept ==
  ASSUME Types, SlotsFit, NEW w \in Wires, NEW n \in Node, NEW m \in Node,
         NEW says \in Says, NEW id \in Nat
  PROVE  Kept(w, Put(w, n, m, <<Msg(says, id)>>))
BY NoteOf, PutIsKept

LEMMA PairOf ==
  ASSUME NEW S, NEW x \in S, NEW y \in S
  PROVE  /\ <<x>> \o <<y>> \in Seq(S) /\ Len(<<x>> \o <<y>>) = 2
         /\ (<<x>> \o <<y>>)[1] = x /\ (<<x>> \o <<y>>)[2] = y
<1>1. /\ <<x>> \in Seq(S) /\ <<y>> \in Seq(S) /\ Len(<<x>>) = 1 /\ Len(<<y>>) = 1
      /\ <<x>>[1] = x /\ <<y>>[1] = y
  OBVIOUS
<1> QED BY <1>1

LEMMA FarewellReleases ==
  ASSUME NEW n \in Node
  PROVE  /\ Farewell(n) \in Seq(Notes) /\ \A i \in 1..Len(Farewell(n)) : Farewell(n)[i] # Key("key")
         /\ local[n].sent => Holds(Farewell(n), Key("key_up"))
<1>1. PICK off \in Notes : off = Msg("fwd_off", 0)
  BY DEF Notes, Msg, Says
<1>5. PICK up \in Notes : up = Key("key_up")
  BY DEF Notes
<1>2. off # Key("key") /\ up # Key("key")
  BY <1>1, <1>5 DEF Msg, Key
<1>3. CASE local[n].sent
  <2>1. Farewell(n) = <<up>> \o <<off>>
    BY <1>1, <1>5, <1>3 DEF Farewell
  <2>3. Farewell(n) \in Seq(Notes) /\ Len(Farewell(n)) = 2 /\ Farewell(n)[1] = up /\ Farewell(n)[2] = off
    BY <2>1, <1>1, PairOf
  <2>4. Holds(Farewell(n), up)
    BY <2>3 DEF Holds
  <2>5. \A i \in 1..Len(Farewell(n)) : i = 1 \/ i = 2
    BY <2>3
  <2> QED BY <2>3, <2>4, <2>5, <1>2, <1>5
<1>4. CASE ~local[n].sent
  <2>1. Farewell(n) = <<>> \o <<off>>
    BY <1>1, <1>4 DEF Farewell
  <2>2. Farewell(n) = <<off>>
    BY <2>1, <1>1
  <2>3. Farewell(n) \in Seq(Notes) /\ Len(Farewell(n)) = 1 /\ Farewell(n)[1] = off
    BY <2>2, <1>1
  <2> QED BY <2>3, <1>2, <1>4
<1> QED BY <1>3, <1>4

LEMMA LocalOf ==
  ASSUME Types, NEW n \in Node
  PROVE  /\ local[n] \in Locals /\ local[n].active \in Peers /\ local[n].session \in SessionStates
         /\ local[n].session.id \in Nat /\ local[n].sent \in BOOLEAN
BY DEF Types, Locals, SessionStates

LEMMA CancelIsKept ==
  ASSUME Types, Aimed, SlotsFit, NEW w \in Wires, NEW n \in Node
  PROVE  Kept(w, CancelSays(w, n))
<1>1. CASE local[n].session = NoSession
  BY <1>1 DEF CancelSays, Kept
<1>2. CASE local[n].session # NoSession
  <2>1. local[n].session.peer \in Node /\ local[n].session.id \in Nat
    BY <1>2, LocalOf DEF Aimed
  <2>2. "cancel" \in Says
    BY DEF Says
  <2>3. Kept(w, Put(w, n, local[n].session.peer, <<Msg("cancel", local[n].session.id)>>))
    BY <2>1, <2>2, SayIsKept
  <2> QED BY <2>3, <1>2 DEF CancelSays
<1> QED BY <1>1, <1>2

(* A peer that stops forwarding releases what it forwarded.                  *)
LEMMA StopTells ==
  ASSUME Types, Aimed, SlotsFit, NEW w \in Wires, NEW n \in Node, NEW returned \in BOOLEAN
  PROVE  /\ Kept(w, StopSays(w, n, returned))
         /\ \A m \in Node : Tracks(n, m) => Told(StopSays(w, n, returned), n, m)
<1> DEFINE told == IF local[n].active = None THEN w ELSE Put(w, n, local[n].active, Farewell(n))
<1>1. Kept(w, told)
  <2>1. CASE local[n].active = None
    BY <2>1 DEF Kept
  <2>2. CASE local[n].active # None
    <3>1. local[n].active \in Node
      BY <2>2, LocalOf DEF Peers
    <3> QED BY <2>2, <3>1, FarewellReleases, PutIsKept
  <2> QED BY <2>1, <2>2
<1>2. ASSUME NEW m \in Node, Tracks(n, m)  PROVE Told(told, n, m)
  <2>1. local[n].active = m /\ m # None /\ local[n].sent /\ Alive(n, m)
    BY <1>2, PeerAssumption DEF Tracks
  <2>2. Told(Put(w, n, m, Farewell(n)), n, m)
    BY <2>1, FarewellReleases, PutTells
  <2> QED BY <2>1, <2>2
<1>3. StopSays(w, n, returned) = IF returned THEN told ELSE CancelSays(told, n)
  BY DEF StopSays
<1>4. told \in Wires
  BY <1>1 DEF Kept
<1> HIDE DEF told
<1>5. Kept(told, StopSays(w, n, returned))
  <2>1. CASE returned
    BY <2>1, <1>3, <1>4 DEF Kept
  <2>2. CASE ~returned
    BY <2>2, <1>3, <1>4, CancelIsKept
  <2> QED BY <2>1, <2>2
<1>6. ASSUME NEW m \in Node, Tracks(n, m)  PROVE Told(StopSays(w, n, returned), n, m)
  <2>1. Linked(n, m)
    BY <1>6 DEF Tracks, Alive
  <2> QED BY <1>2, <1>5, <1>6, <2>1, KeptTold
<1> QED BY <1>1, <1>5, <1>6, KeptTwice

-----------------------------------------------------------------------------
(* Most steps leave the connections alone, press nothing on a wire, and when *)
(* they end a forwarding they say so to the peer (Talk).                     *)

SameSlots ==
  \A n, m \in Node : link'[n][m].in = link[n][m].in /\ link'[n][m].out = link[n][m].out
Calm == conn' = conn /\ handler' = handler /\ SameSlots
Tracking(n, m) == local'[n].active = m /\ local'[n].sent
Talk ==
  /\ Calm /\ Kept(wire, wire') /\ inbox' = inbox
  /\ \A n \in Node : local'[n].down = local[n].down
  /\ torn => torn'
  /\ torn' \/ \A n, m \in Node : Tracks(n, m) => Tracking(n, m) \/ Told(wire', n, m)

LEMMA WireStays == ASSUME Types  PROVE Kept(wire, wire)
BY DEF Types, Kept

LEMMA LinkStays == ASSUME UNCHANGED link  PROVE SameSlots
BY DEF SameSlots

(* Nobody forwards to another peer than before.                              *)
LEMMA TalkBeside ==
  ASSUME Calm, Kept(wire, wire'), inbox' = inbox, torn' = torn,
         \A n \in Node : /\ local'[n].down = local[n].down /\ local'[n].sent = local[n].sent
                         /\ local'[n].active = local[n].active
  PROVE  Talk
BY DEF Talk, Tracks, Tracking

LEMMA HookTalks ==
  ASSUME Types, NEW n \in Node, PressKey(n) \/ ReleaseKey(n)  PROVE Talk
<1>1. PICK v \in BOOLEAN : local' = [local EXCEPT ![n].held = v]
  BY DEF PressKey, ReleaseKey
<1>2. \A k \in Node : /\ local'[k].down = local[k].down /\ local'[k].sent = local[k].sent
                      /\ local'[k].active = local[k].active
  BY <1>1 DEF Types, Locals
<1>3. UNCHANGED <<conn, wire, handler, link, inbox, torn>>
  BY DEF PressKey, ReleaseKey, forwardRest, netVars
<1> QED BY <1>2, <1>3, TalkBeside, WireStays, LinkStays DEF Calm

LEMMA LoopTalks ==
  ASSUME Types, NEW n \in Node, LoopReads(n) \/ LoopDrains(n) \/ LoopTakes(n)  PROVE Talk
<1>1. UNCHANGED <<conn, wire, handler, link, local, inbox, torn>>
  BY DEF LoopReads, LoopDrains, LoopTakes, forwardRest, netVars
<1> QED BY <1>1, TalkBeside, WireStays, LinkStays DEF Calm

(* Who stops forwarding, with what it tracks told.                           *)
LEMMA TalkStops ==
  ASSUME Types, Aimed, SlotsFit, Calm, NEW n \in Node, NEW w \in Wires, NEW returned \in BOOLEAN,
         Kept(wire, w), Kept(StopSays(w, n, returned), wire'), inbox' = inbox, torn' = torn,
         \A k \in Node \ {n} : local'[k] = local[k], local'[n].down = local[n].down
  PROVE  Talk
<1>1. /\ Kept(w, StopSays(w, n, returned))
      /\ \A m \in Node : Tracks(n, m) => Told(StopSays(w, n, returned), n, m)
  BY StopTells
<1>2. Kept(wire, wire')
  BY <1>1, KeptTwice
<1>3. ASSUME NEW m \in Node, Tracks(n, m)  PROVE Told(wire', n, m)
  BY <1>1, <1>3, KeptTold DEF Tracks, Alive
<1>4. ASSUME NEW k \in Node, NEW m \in Node, Tracks(k, m)
      PROVE  Tracking(k, m) \/ Told(wire', k, m)
  BY <1>3, <1>4 DEF Tracks, Tracking
<1> QED BY <1>2, <1>4 DEF Talk

LEMMA StoppedIs ==
  ASSUME Types, NEW n \in Node
  PROVE  /\ Stopped(n) \in Locals /\ Stopped(n).down = local[n].down /\ Stopped(n).active = None
         /\ Stopped(n).sent = FALSE /\ Stopped(n).session = NoSession
<1>1. local[n] \in Locals /\ NoSession \in SessionStates
  BY DEF Types, NoSession, SessionStates, Peers
<1> QED BY <1>1 DEF Stopped, Locals, Peers

LEMMA LocalSet ==
  ASSUME Types, NEW n \in Node, NEW v \in Locals, local' = [local EXCEPT ![n] = v]
  PROVE  local' \in [Node -> Locals] /\ local'[n] = v /\ \A k \in Node \ {n} : local'[k] = local[k]
BY DEF Types

LEMMA ReturnTalks ==
  ASSUME Types, Aimed, SlotsFit, NEW n \in Node, Return(n)  PROVE Talk
<1>1. /\ wire' = StopSays(wire, n, FALSE) /\ local' = [local EXCEPT ![n] = Stopped(n)]
      /\ UNCHANGED <<conn, handler, link, inbox, torn>>
  BY DEF Return, keyVars
<1>2. Kept(wire, wire) /\ wire \in Wires
  BY WireStays DEF Types
<1>3. Kept(StopSays(wire, n, FALSE), wire')
  BY <1>1, <1>2, StopTells DEF Kept
<1>4. (\A k \in Node \ {n} : local'[k] = local[k]) /\ local'[n].down = local[n].down
  BY <1>1, StoppedIs, LocalSet
<1> QED BY <1>1, <1>2, <1>3, <1>4, TalkStops, LinkStays DEF Calm

LEMMA AskTalks ==
  ASSUME Types, SlotsFit, NEW n \in Node, NEW m \in Node, NEW by, AskToStop(n, m, by)
  PROVE  Kept(wire, wire')
BY SayIsKept DEF AskToStop, Types, Says

LEMMA FwdStays ==
  ASSUME Types, NEW n \in Node, NEW m \in Node, NEW on \in BOOLEAN,
         link' = [link EXCEPT ![n][m].fwd = on]
  PROVE  SameSlots /\ link' \in [Node -> [Node -> LinkStates]]
<1>1. link \in [Node -> [Node -> LinkStates]]
  BY DEF Types
<1>2. link[n][m] \in LinkStates
  BY <1>1
<1>5. /\ [link[n][m] EXCEPT !.fwd = on] \in LinkStates
      /\ [link[n][m] EXCEPT !.fwd = on].in = link[n][m].in
      /\ [link[n][m] EXCEPT !.fwd = on].out = link[n][m].out
  BY <1>2 DEF LinkStates
<1>3. PICK l \in LinkStates :
        l = [link[n][m] EXCEPT !.fwd = on] /\ l.in = link[n][m].in /\ l.out = link[n][m].out
  BY <1>5
<1>4. link' = [link EXCEPT ![n][m] = l]
  BY <1>3
<1> QED BY <1>1, <1>3, <1>4 DEF SameSlots

LEMMA SwitchTalks ==
  ASSUME Types, Aimed, SlotsFit, NEW n \in Node,
         ActivateConfirmed(n) \/ ActivateRefused(n) \/ \E m \in Node \ {n} : Activate(n, m)
  PROVE  Talk
<1>1. CASE \E m \in Node \ {n} : Activate(n, m)
  <2>1. Kept(wire, wire')
    BY <1>1, AskTalks, WireStays DEF Activate
  <2>2. UNCHANGED <<conn, handler, link, local, inbox, torn>>
    BY <1>1 DEF Activate, keyVars
  <2> QED BY <2>1, <2>2, TalkBeside, LinkStays DEF Calm
<1>2. CASE ActivateRefused(n)
  <2>1. UNCHANGED <<conn, wire, handler, link, local, inbox, torn>>
    BY <1>2 DEF ActivateRefused, keyVars, netVars
  <2> QED BY <2>1, TalkBeside, WireStays, LinkStays DEF Calm
<1>3. CASE ActivateConfirmed(n)
  <2>1. /\ UNCHANGED <<conn, wire, handler, local, inbox, torn>>
        /\ link' = [link EXCEPT ![n][switch[n].to].fwd = FALSE]
    BY <1>3 DEF ActivateConfirmed, keyVars
  <2>2. switch[n].to \in Node
    BY <1>3 DEF ActivateConfirmed, Aimed
  <2>3. SameSlots
    BY <2>1, <2>2, FwdStays
  <2> QED BY <2>1, <2>3, TalkBeside, WireStays DEF Calm
<1> QED BY <1>1, <1>2, <1>3

LEMMA GoesTalks ==
  ASSUME Types, Aimed, SlotsFit, NEW n \in Node, ActivateGoes(n)
  PROVE  Talk
<1> DEFINE m == switch[n].to
           w == IF switch[n].other THEN StopSays(wire, n, FALSE) ELSE wire
           v == [IF switch[n].other THEN Stopped(n) ELSE local[n] EXCEPT !.active = m, !.sent = FALSE]
<1>1. /\ wire' = Put(w, n, m, <<Msg("fwd_on", 0)>>)
      /\ local' = [local EXCEPT ![n] = v]
      /\ torn' = (torn \/ (~switch[n].other /\ local[n].sent))
      /\ UNCHANGED <<conn, handler, link, inbox>>
      /\ m \in Node
  BY DEF ActivateGoes, Types, Aimed
<1>2. v \in Locals /\ v.down = local[n].down /\ v.sent = FALSE
  <2>1. local[n] \in Locals /\ Stopped(n) \in Locals /\ Stopped(n).down = local[n].down
    BY StoppedIs DEF Types
  <2> QED BY <1>1, <2>1 DEF Locals, Peers
<1>3. (\A k \in Node \ {n} : local'[k] = local[k]) /\ local'[n].down = local[n].down
  BY <1>1, <1>2, LocalSet
<1>4. Kept(wire, wire) /\ wire \in Wires /\ "fwd_on" \in Says
  BY WireStays DEF Types, Says
<1>5. Calm
  BY <1>1, LinkStays DEF Calm
<1>6. CASE switch[n].other
  <2>1. w = StopSays(wire, n, FALSE) /\ Kept(wire, w) /\ w \in Wires
    BY <1>6, <1>4, StopTells DEF Kept
  <2>2. Kept(w, wire')
    BY <1>1, <1>4, <2>1, SayIsKept
  <2>3. torn' = torn
    BY <1>1, <1>6 DEF Types
  <2> HIDE DEF w
  <2>4. Kept(StopSays(wire, n, FALSE), wire')
    BY <2>1, <2>2
  <2> QED BY <1>1, <1>3, <1>4, <1>5, <2>3, <2>4, TalkStops
<1>7. CASE ~switch[n].other
  <2>1. Kept(wire, wire')
    BY <1>1, <1>4, <1>7, SayIsKept
  <2>2. torn' \/ ~local[n].sent
    BY <1>1, <1>7
  <2>3. ASSUME ~local[n].sent, NEW k \in Node, NEW j \in Node, Tracks(k, j)  PROVE Tracking(k, j)
    BY <1>3, <2>3 DEF Tracks, Tracking
  <2>4. \A k \in Node : local'[k].down = local[k].down
    BY <1>3
  <2>5. torn => torn'
    BY <1>1
  <2> QED BY <1>1, <1>5, <2>1, <2>2, <2>3, <2>4, <2>5 DEF Talk
<1> QED BY <1>6, <1>7

LEMMA EdgeTalks ==
  ASSUME Types, Aimed, SlotsFit, NEW n \in Node,
         \/ EdgeRefused(n) \/ EdgeAccepted(n) \/ EdgeConfirmed(n) \/ EdgeUnconfirmed(n)
         \/ EdgeLeft(n) \/ \E m \in Node \ {n} : EdgeReached(n, m)
  PROVE  Talk
<1>1. CASE EdgeRefused(n) \/ EdgeConfirmed(n)
  <2>1. UNCHANGED <<conn, wire, handler, link, local, inbox, torn>>
    BY <1>1 DEF EdgeRefused, EdgeConfirmed, edgeRest, keyVars, netVars
  <2> QED BY <2>1, TalkBeside, WireStays, LinkStays DEF Calm
<1>2. CASE EdgeAccepted(n)
  <2>1. edge[n].to \in Node
    BY <1>2 DEF EdgeAccepted, Aimed
  <2>2. Kept(wire, wire')
    BY <1>2, <2>1, AskTalks, WireStays DEF EdgeAccepted
  <2>3. UNCHANGED <<conn, handler, link, local, inbox, torn>>
    BY <1>2 DEF EdgeAccepted, edgeRest, keyVars
  <2> QED BY <2>2, <2>3, TalkBeside, LinkStays DEF Calm
<1>3. CASE EdgeUnconfirmed(n)
  <2>1. edge[n].to \in Node /\ edge[n].id \in Nat /\ "cancel" \in Says /\ wire \in Wires
    BY <1>3 DEF EdgeUnconfirmed, Aimed, Types, EdgeStates, Says
  <2>2. wire' = Put(wire, n, edge[n].to, <<Msg("cancel", edge[n].id)>>)
    BY <1>3 DEF EdgeUnconfirmed
  <2>3. Kept(wire, wire')
    BY <2>1, <2>2, SayIsKept
  <2>4. UNCHANGED <<conn, handler, link, local, inbox, torn>>
    BY <1>3 DEF EdgeUnconfirmed, edgeRest, keyVars
  <2> QED BY <2>3, <2>4, TalkBeside, LinkStays DEF Calm
<1>4. CASE EdgeLeft(n)
  <2>1. /\ wire' = Put(wire, n, local[n].session.peer, <<Msg("return", local[n].session.id)>>)
        /\ local' = [local EXCEPT ![n].session = NoSession]
        /\ UNCHANGED <<conn, handler, link, inbox, torn>> /\ local[n].session.role = "target"
    BY <1>4 DEF EdgeLeft, edgeRest, keyVars
  <2>2. local[n].session # NoSession
    BY <2>1 DEF NoSession
  <2>3. local[n].session.peer \in Node /\ local[n].session.id \in Nat /\ "return" \in Says /\ wire \in Wires
    BY <2>2, LocalOf DEF Aimed, Types, Says
  <2>4. Kept(wire, wire')
    BY <2>1, <2>3, SayIsKept
  <2>5. \A k \in Node : /\ local'[k].down = local[k].down /\ local'[k].sent = local[k].sent
                        /\ local'[k].active = local[k].active
    BY <2>1 DEF Types, Locals
  <2> QED BY <2>1, <2>4, <2>5, TalkBeside, LinkStays DEF Calm
<1>5. ASSUME NEW m \in Node \ {n}, EdgeReached(n, m)  PROVE Talk
  <2>1. "enter" \in Says /\ wire \in Wires /\ begun' \in Nat
    BY <1>5 DEF EdgeReached, Types, Says
  <2>2. Kept(wire, Put(wire, n, m, <<Msg("enter", begun')>>))
    BY <2>1, SayIsKept
  <2>3. wire' = Put(wire, n, m, <<Msg("enter", begun')>>) \/ wire' = wire
    BY <1>5 DEF EdgeReached
  <2>4. UNCHANGED <<conn, handler, link, local, inbox, torn>>
    BY <1>5 DEF EdgeReached, edgeRest, keyVars
  <2> QED BY <2>2, <2>3, <2>4, TalkBeside, LinkStays, WireStays DEF Calm
<1> QED BY <1>1, <1>2, <1>3, <1>4, <1>5

LEMMA StartTalks ==
  ASSUME Types, Aimed, SlotsFit, NEW n \in Node, EdgeStarts(n)
  PROVE  Talk
<1> DEFINE m == edge[n].to
           v == [local[n] EXCEPT !.active = m, !.sent = FALSE,
                                 !.session = SessionOf("source", m, edge[n].id)]
<1>1. /\ wire' = Put(wire, n, m, <<Msg("fwd_on", 0)>>)
      /\ local' = [local EXCEPT ![n] = v]
      /\ torn' = (torn \/ local[n].sent)
      /\ UNCHANGED <<conn, handler, link, inbox>>
      /\ m \in Node /\ edge[n].id \in Nat
  BY DEF EdgeStarts, Types, Aimed, EdgeStates, keyVars
<1>2. v \in Locals /\ v.down = local[n].down /\ v.sent = FALSE
  <2>1. local[n] \in Locals /\ SessionOf("source", m, edge[n].id) \in SessionStates
    BY <1>1 DEF Types, SessionOf, SessionStates, Peers
  <2> QED BY <1>1, <2>1 DEF Locals, Peers
<1>3. (\A k \in Node \ {n} : local'[k] = local[k]) /\ local'[n].down = local[n].down
  BY <1>1, <1>2, LocalSet
<1>4. Kept(wire, wire')
  BY <1>1, SayIsKept DEF Types, Says
<1>5. Calm
  BY <1>1, LinkStays DEF Calm
<1>6. ASSUME ~local[n].sent, NEW k \in Node, NEW j \in Node, Tracks(k, j)  PROVE Tracking(k, j)
  BY <1>3, <1>6 DEF Tracks, Tracking
<1>7. \A k \in Node : local'[k].down = local[k].down
  BY <1>3
<1>8. (torn => torn') /\ (torn' \/ ~local[n].sent)
  BY <1>1
<1> QED BY <1>1, <1>4, <1>5, <1>6, <1>7, <1>8 DEF Talk

(* The wires without the next message for n.                                 *)
Taken(c, n) == [wire EXCEPT ![c][n] = Tail(@)]

LEMMA TakenIs ==
  ASSUME Types, NEW c \in Conn, NEW n \in Ends(c), wire[c][n] # <<>>
  PROVE  /\ Head(wire[c][n]) \in Notes /\ Taken(c, n) \in Wires
         /\ \A d \in Conn : \A k \in Ends(d) :
              Taken(c, n)[d][k] = IF d = c /\ k = n THEN Tail(wire[c][n]) ELSE wire[d][k]
         /\ Head(wire[c][n]) \notin {Key("key"), Key("key_up")} => Kept(wire, Taken(c, n))
<1>1. wire \in Wires
  BY DEF Types
<1>2. wire[c][n] \in Seq(Notes)
  BY <1>1, WireSeq
<1>3. /\ Tail(wire[c][n]) \in Seq(Notes) /\ Head(wire[c][n]) \in Notes
      /\ Holds(wire[c][n], Key("key_up")) /\ Head(wire[c][n]) # Key("key_up")
           => Holds(Tail(wire[c][n]), Key("key_up"))
      /\ Ended(wire[c][n], Key("key"), Key("key_up"))
           => Ended(Tail(wire[c][n]), Key("key"), Key("key_up"))
  BY <1>2, TailKeeps
<1>6. PICK q \in Seq(Notes) : q = Tail(wire[c][n])
  BY <1>3
<1>7. Taken(c, n) = [wire EXCEPT ![c][n] = q]
  BY <1>6 DEF Taken
<1>8. /\ [wire EXCEPT ![c][n] = q] \in Wires
      /\ \A d \in Conn : \A k \in Ends(d) :
           [wire EXCEPT ![c][n] = q][d][k] = IF d = c /\ k = n THEN q ELSE wire[d][k]
  BY <1>1, WireSet
<1>4. /\ Taken(c, n) \in Wires
      /\ \A d \in Conn : \A k \in Ends(d) :
           Taken(c, n)[d][k] = IF d = c /\ k = n THEN Tail(wire[c][n]) ELSE wire[d][k]
  BY <1>6, <1>7, <1>8
<1>5. ASSUME Head(wire[c][n]) # Key("key_up")  PROVE Kept(wire, Taken(c, n))
  BY <1>3, <1>4, <1>5 DEF Kept, WireEnded
<1> QED BY <1>3, <1>4, <1>5

LEMMA ControlTalks ==
  ASSUME Types, Aimed, SlotsFit, NEW c \in Conn, NEW n \in Ends(c), NEW w \in Wires,
         Kept(wire, w), HandleControl(c, n, Peer(c, n), w), UNCHANGED <<conn, handler, torn>>
  PROVE  Talk
<1> DEFINE m == Peer(c, n)
           stops == local[n].active = m
           told == IF stops THEN StopSays(w, n, FALSE) ELSE w
<1>1. n \in Node /\ m \in Node /\ m \in Ends(c)
  BY EndsOf
<1>2. /\ local' = IF stops THEN [local EXCEPT ![n] = Stopped(n)] ELSE local
      /\ wire' = IF conn[c] = "up" THEN [told EXCEPT ![c][m] = Append(@, Msg("result", 0))] ELSE told
      /\ UNCHANGED <<link, inbox>>
  BY DEF HandleControl
<1>3. Calm
  BY <1>2, LinkStays DEF Calm
<1>4. told \in Wires
  BY <1>1, StopTells DEF Kept
<1> HIDE DEF told
<1>5. Kept(told, wire')
  <2>1. CASE conn[c] # "up"
    BY <2>1, <1>2, <1>4 DEF Kept
  <2>2. CASE conn[c] = "up"
    <3>1. "result" \in Says
      BY DEF Says
    <3>2. PICK x \in Notes : x = Msg("result", 0)
      BY DEF Msg, Notes, Says
    <3>3. <<x>> \in Seq(Notes) /\ \A i \in 1..Len(<<x>>) : <<x>>[i] # Key("key")
      BY <3>1, <3>2, NoteOf
    <3>4. told[c][m] \in Seq(Notes)
      BY <1>1, <1>4, WireSeq
    <3>5. Append(told[c][m], x) = told[c][m] \o <<x>>
      BY <3>4, AppendIsConcat
    <3>6. wire' = [told EXCEPT ![c][m] = Append(told[c][m], x)]
      BY <2>2, <1>2, <3>2
    <3>7. wire' = [told EXCEPT ![c][m] = @ \o <<x>>]
      BY <3>5, <3>6
    <3>8. Kept(told, [told EXCEPT ![c][m] = @ \o <<x>>])
      BY <1>1, <1>4, <2>2, <3>3, SaidIsKept
    <3> QED BY <3>7, <3>8
  <2> QED BY <2>1, <2>2
<1>6. CASE stops
  <2>1. (\A k \in Node \ {n} : local'[k] = local[k]) /\ local'[n].down = local[n].down
    BY <1>1, <1>2, <1>6, StoppedIs, LocalSet
  <2>2. Kept(StopSays(w, n, FALSE), wire')
    BY <1>5, <1>6 DEF told
  <2> QED BY <1>1, <1>2, <1>3, <2>1, <2>2, TalkStops
<1>7. CASE ~stops
  <2>1. Kept(wire, wire')
    BY <1>5, <1>7, KeptTwice DEF told
  <2> QED BY <1>2, <1>3, <1>7, <2>1, TalkBeside
<1> QED BY <1>6, <1>7

LEMMA SessionAlone ==
  ASSUME Types, NEW n \in Node, NEW s, local' = [local EXCEPT ![n].session = s]
  PROVE  \A k \in Node : /\ local'[k].down = local[k].down /\ local'[k].sent = local[k].sent
                         /\ local'[k].active = local[k].active
BY DEF Types, Locals

LEMMA CancelTalks ==
  ASSUME Types, Aimed, SlotsFit, NEW n \in Node, NEW w \in Wires, NEW id, NEW returned \in BOOLEAN,
         Kept(wire, w), UNCHANGED <<conn, handler, torn, link, inbox>>,
         \/ wire' = StopSays(w, n, returned) /\ local' = [local EXCEPT ![n] = Stopped(n)]
         \/ wire' = w /\ (local' = local \/ local' = [local EXCEPT ![n].session = NoSession])
  PROVE  Talk
<1>1. Calm
  BY LinkStays DEF Calm
<1>2. CASE wire' = StopSays(w, n, returned) /\ local' = [local EXCEPT ![n] = Stopped(n)]
  <2>1. (\A k \in Node \ {n} : local'[k] = local[k]) /\ local'[n].down = local[n].down
    BY <1>2, StoppedIs, LocalSet
  <2>2. Kept(StopSays(w, n, returned), wire')
    BY <1>2, StopTells DEF Kept
  <2> QED BY <1>1, <2>1, <2>2, TalkStops
<1>3. CASE wire' = w /\ (local' = local \/ local' = [local EXCEPT ![n].session = NoSession])
  <2>1. \A k \in Node : /\ local'[k].down = local[k].down /\ local'[k].sent = local[k].sent
                        /\ local'[k].active = local[k].active
    BY <1>3, SessionAlone
  <2> QED BY <1>1, <1>3, <2>1, TalkBeside
<1> QED BY <1>2, <1>3

LEMMA EnterTalks ==
  ASSUME Types, Aimed, SlotsFit, NEW n \in Node, NEW m \in Node, NEW id \in Nat, NEW w \in Wires,
         Kept(wire, w), HandleEnter(n, m, id, w), UNCHANGED <<conn, handler, torn>>
  PROVE  Talk
<1>1. PICK says \in {"ack", "reject"} :
        /\ local' = [local EXCEPT ![n].session = SessionOf("target", m, id)] \/ local' = local
        /\ wire' = Put(w, n, m, <<Msg(says, id)>>)
  BY DEF HandleEnter
<1>2. Kept(wire, wire')
  BY <1>1, SayIsKept, KeptTwice DEF Says
<1>3. \A k \in Node : /\ local'[k].down = local[k].down /\ local'[k].sent = local[k].sent
                      /\ local'[k].active = local[k].active
  BY <1>1, SessionAlone
<1>4. Calm /\ inbox' = inbox
  BY LinkStays DEF HandleEnter, Calm
<1> QED BY <1>2, <1>3, <1>4, TalkBeside

LEMMA HandleTalks ==
  ASSUME Types, Aimed, SlotsFit, NEW c \in Conn, NEW n \in Ends(c), Handle(c, n)
  PROVE  \/ Talk
         \/ /\ Head(wire[c][n]) \in {Key("key"), Key("key_up")}
            /\ HandleInput(n, Head(wire[c][n]).says, Taken(c, n))
            /\ UNCHANGED <<conn, handler, torn>>
<1> DEFINE m == Peer(c, n)
           msg == Head(wire[c][n])
           w == Taken(c, n)
<1>1. n \in Node /\ m \in Node /\ wire[c][n] # <<>> /\ UNCHANGED <<conn, handler, torn>>
  BY EndsOf DEF Handle
<1>2. /\ msg \in Notes /\ w \in Wires
      /\ msg \notin {Key("key"), Key("key_up")} => Kept(wire, w)
  BY <1>1, TakenIs
<1>3. CASE msg \in {Key("key"), Key("key_up")}
  <2>1. msg.says \in KeyEvents
    BY <1>3 DEF Key, Msg, KeyEvents
  <2>2. HandleInput(n, msg.says, w)
    BY <2>1 DEF Handle, Taken, KeyEvents
  <2> QED BY <1>1, <1>3, <2>2
<1>4. CASE msg \notin {Key("key"), Key("key_up")}
  <2>1. msg.says \in Says /\ msg.id \in Nat /\ Kept(wire, w)
    BY <1>2, <1>4 DEF Notes
  <2>2. \/ HandleFwdState(n, m, msg.says = "fwd_on", w)
        \/ HandleControl(c, n, m, w) \/ HandleResult(n, m, w) \/ HandleEnter(n, m, msg.id, w)
        \/ HandleReply(n, msg.says, msg.id, w) \/ HandleReturn(n, msg.id, w)
        \/ HandleCancel(n, msg.id, w)
    BY <2>1 DEF Handle, Taken, Says, KeyEvents
  <2> HIDE DEF w, msg, m
  <2>3. CASE HandleFwdState(n, m, msg.says = "fwd_on", w)
    <3>1. wire' = w /\ UNCHANGED <<inbox, local>>
      BY <2>3 DEF HandleFwdState
    <3>2. SameSlots
      BY <1>1, <2>3, LinkStays, FwdStays DEF HandleFwdState
    <3> QED BY <1>1, <2>1, <3>1, <3>2, TalkBeside DEF Calm
  <2>4. CASE HandleControl(c, n, m, w)
    BY <1>1, <1>2, <2>1, <2>4, ControlTalks DEF m
  <2>5. CASE HandleResult(n, m, w) \/ HandleReply(n, msg.says, msg.id, w)
    <3>1. wire' = w /\ UNCHANGED <<link, inbox, local>>
      BY <2>5 DEF HandleResult, HandleReply
    <3> QED BY <1>1, <2>1, <3>1, TalkBeside, LinkStays DEF Calm
  <2>6. CASE HandleEnter(n, m, msg.id, w)
    BY <1>1, <1>2, <2>1, <2>6, EnterTalks
  <2>7. CASE HandleReturn(n, msg.id, w)
    <3>1. /\ UNCHANGED <<link, inbox>>
          /\ \/ wire' = StopSays(w, n, TRUE) /\ local' = [local EXCEPT ![n] = Stopped(n)]
             \/ wire' = w /\ local' = local
      BY <2>7 DEF HandleReturn
    <3> QED BY <1>1, <1>2, <2>1, <3>1, CancelTalks
  <2>8. CASE HandleCancel(n, msg.id, w)
    <3>1. /\ UNCHANGED <<link, inbox>>
          /\ \/ wire' = StopSays(w, n, FALSE) /\ local' = [local EXCEPT ![n] = Stopped(n)]
             \/ wire' = w /\ (local' = local \/ local' = [local EXCEPT ![n].session = NoSession])
      BY <2>8 DEF HandleCancel
    <3> QED BY <1>1, <1>2, <2>1, <3>1, CancelTalks
  <2> QED BY <2>2, <2>3, <2>4, <2>5, <2>6, <2>7, <2>8
<1> QED BY <1>3, <1>4

(* A press that goes out: n tracks it from now on.                           *)
Presses(n, m) ==
  /\ Calm /\ inbox' = inbox /\ wire' = Put(wire, n, m, <<Key("key")>>)
  /\ \A k \in Node : local'[k].down = local[k].down
  /\ \A k \in Node \ {n} : local'[k] = local[k]
  /\ local'[n].active = local[n].active /\ local'[n].sent
  /\ (torn => torn') /\ (torn' \/ local[n].active = m)

LEMMA KeyNote ==
        /\ <<Key("key")>> \in Seq(Notes) /\ <<Key("key_up")>> \in Seq(Notes)
        /\ \A i \in 1..Len(<<Key("key_up")>>) : <<Key("key_up")>>[i] # Key("key")
        /\ Holds(<<Key("key_up")>>, Key("key_up"))
<1>1. Key("key") \in Notes /\ Key("key_up") \in Notes /\ Key("key_up") # Key("key")
  BY DEF Notes, Key, Msg
<1>2. Len(<<Key("key_up")>>) = 1 /\ <<Key("key_up")>>[1] = Key("key_up")
  OBVIOUS
<1> QED BY <1>1, <1>2 DEF Holds

LEMMA SendTalks ==
  ASSUME Types, Aimed, SlotsFit, LoopFits, NEW n \in Node, LoopSends(n)
  PROVE  Talk \/ Presses(n, loop[n].to)
<1> DEFINE m == loop[n].to
           ev == loop[n].ev
           v == [local[n] EXCEPT !.sent = ev = "key"]
<1>1. /\ m \in Node /\ ev \in KeyEvents /\ loop[n].at = "send"
      /\ UNCHANGED <<conn, handler, link, inbox>>
  BY DEF LoopSends, Aimed
<1>2. Calm
  BY <1>1, LinkStays DEF Calm
<1>3. \/ /\ wire' = Put(wire, n, m, <<Key(ev)>>) /\ local' = [local EXCEPT ![n] = v]
         /\ torn' = (torn \/ (ev = "key" /\ local[n].active # m))
      \/ /\ wire' = StopSays(wire, n, FALSE) /\ local' = [local EXCEPT ![n] = Stopped(n)]
         /\ torn' = torn
  BY DEF LoopSends
<1>4. v \in Locals /\ v.down = local[n].down /\ v.sent = (ev = "key") /\ v.active = local[n].active
  BY DEF Types, Locals
<1> HIDE DEF v
<1>5. CASE /\ wire' = StopSays(wire, n, FALSE) /\ local' = [local EXCEPT ![n] = Stopped(n)]
           /\ torn' = torn
  <2>1. (\A k \in Node \ {n} : local'[k] = local[k]) /\ local'[n].down = local[n].down
    BY <1>5, StoppedIs, LocalSet
  <2>2. Kept(wire, wire) /\ wire \in Wires
    BY WireStays DEF Types
  <2>3. Kept(StopSays(wire, n, FALSE), wire')
    BY <1>5, <2>2, StopTells DEF Kept
  <2> QED BY <1>1, <1>2, <1>5, <2>1, <2>2, <2>3, TalkStops
<1>6. CASE /\ wire' = Put(wire, n, m, <<Key(ev)>>) /\ local' = [local EXCEPT ![n] = v]
           /\ torn' = (torn \/ (ev = "key" /\ local[n].active # m))
  <2>1. /\ \A k \in Node \ {n} : local'[k] = local[k]
        /\ local'[n] = v
    BY <1>4, <1>6, LocalSet
  <2>2. \A k \in Node : local'[k].down = local[k].down
    BY <1>4, <2>1
  <2>3. CASE ev = "key"
    BY <1>1, <1>2, <1>4, <1>6, <2>1, <2>2, <2>3 DEF Presses
  <2>4. CASE ev = "key_up"
    <3>1. Kept(wire, wire')
      BY <1>1, <1>6, <2>4, KeyNote, PutIsKept DEF Types
    <3>2. torn' = torn
      BY <1>6, <2>4 DEF Types
    <3>3. ASSUME NEW k \in Node, NEW j \in Node, Tracks(k, j)
          PROVE  Tracking(k, j) \/ Told(wire', k, j)
      <4>1. CASE k # n
        BY <2>1, <3>3, <4>1 DEF Tracks, Tracking
      <4>2. CASE k = n
        <5>1. j = m /\ Alive(n, m)
          BY <1>1, <3>3, <4>2 DEF Tracks, LoopFits
        <5> QED BY <1>1, <1>6, <2>4, <4>2, <5>1, KeyNote, PutTells DEF Types
      <4> QED BY <4>1, <4>2
    <3> QED BY <1>1, <1>2, <2>2, <3>1, <3>2, <3>3 DEF Talk
  <2> QED BY <1>1, <2>3, <2>4 DEF KeyEvents
<1> QED BY <1>3, <1>5, <1>6

-----------------------------------------------------------------------------
(* The kinds of steps                                                        *)

(* A message about the key is taken and queued for injection.                *)
TakesKey(c, n) ==
  /\ wire[c][n] # <<>> /\ handler[c][n] = "up"
  /\ Head(wire[c][n]) \in {Key("key"), Key("key_up")}
  /\ wire' = Taken(c, n) /\ inbox' = [inbox EXCEPT ![n] = Append(@, Head(wire[c][n]).says)]
  /\ Calm /\ local' = local /\ torn' = torn

LinkStep(c) == Connect(c) \/ Break(c) \/ \E n \in Ends(c) :
  Install(c, n) \/ HandshakeFails(c, n) \/ HandlerEnds(c, n) \/ Released(c, n)

LEMMA StepIs ==
  ASSUME Types, Aimed, SlotsFit, LoopFits, [Next]_vars
  PROVE  \/ Talk
         \/ \E n \in Node : loop[n].to \in Node /\ Presses(n, loop[n].to)
         \/ \E c \in Conn : LinkStep(c) \/ \E n \in Ends(c) : TakesKey(c, n)
         \/ \E n \in Node : Inject(n)
<1>1. CASE UNCHANGED vars
  <2>1. UNCHANGED <<conn, wire, handler, link, local, inbox, torn>>
    BY <1>1 DEF vars, netVars, keyVars
  <2> QED BY <2>1, TalkBeside, WireStays, LinkStays DEF Calm
<1>2. CASE Users
  BY <1>2, HookTalks, ReturnTalks, EdgeTalks, SwitchTalks DEF Users
<1>3. CASE Network
  BY <1>3 DEF Network, LinkStep
<1>4. ASSUME NEW c \in Conn, NEW n \in Ends(c), Links(c, n)
      PROVE  Talk \/ LinkStep(c) \/ TakesKey(c, n)
  <2>1. CASE Handle(c, n)
    <3>1. CASE /\ Head(wire[c][n]) \in {Key("key"), Key("key_up")}
               /\ HandleInput(n, Head(wire[c][n]).says, Taken(c, n))
               /\ UNCHANGED <<conn, handler, torn>>
      <4>1. wire[c][n] # <<>> /\ handler[c][n] = "up"
        BY <2>1 DEF Handle
      <4>2. /\ wire' = Taken(c, n) /\ inbox' = [inbox EXCEPT ![n] = Append(@, Head(wire[c][n]).says)]
            /\ UNCHANGED <<link, local>>
        BY <3>1 DEF HandleInput
      <4> QED BY <3>1, <4>1, <4>2, LinkStays DEF TakesKey, Calm
    <3> QED BY <2>1, <3>1, HandleTalks
  <2>2. CASE Install(c, n) \/ HandshakeFails(c, n) \/ HandlerEnds(c, n) \/ Released(c, n)
    BY <2>2 DEF LinkStep
  <2> QED BY <1>4, <2>1, <2>2 DEF Links
<1>5. ASSUME NEW n \in Node, Forwards(n)
      PROVE  Talk \/ (loop[n].to \in Node /\ Presses(n, loop[n].to))
  <2>1. CASE LoopSends(n)
    <3>1. loop[n].to \in Node
      BY <2>1 DEF LoopSends, Aimed
    <3> QED BY <2>1, <3>1, SendTalks
  <2> QED BY <1>5, <2>1, LoopTalks DEF Forwards
<1>6. ASSUME NEW n \in Node, Switches(n)  PROVE Talk
  BY <1>6, SwitchTalks, GoesTalks DEF Switches
<1>7. ASSUME NEW n \in Node, Edges(n)  PROVE Talk
  BY <1>7, EdgeTalks, StartTalks DEF Edges
<1> QED BY <1>1, <1>2, <1>3, <1>4, <1>5, <1>6, <1>7 DEF Next

-----------------------------------------------------------------------------
(* The links                                                                 *)

(* Nothing comes on a connection that has broken and is read to its end.     *)
Safe ==
  /\ wire' \in Wires
  /\ \A c \in Conn : \A n \in Ends(c) : conn[c] # "up" /\ wire[c][n] = <<>> => wire'[c][n] = <<>>

LEMMA CalmVia ==
  ASSUME Calm, NEW n \in Node, NEW m \in Node
  PROVE  Via(n, m)' = Via(n, m) /\ Linked(n, m)' = Linked(n, m) /\ Alive(n, m)' = Alive(n, m)
BY DEF Calm, SameSlots, Via, Linked, Alive

LEMMA CalmLinks ==
  ASSUME LinkInv, Calm, Safe
  PROVE  LinkInv'
<1>1. \A n, m \in Node : link'[n][m].in = link[n][m].in /\ link'[n][m].out = link[n][m].out
  BY DEF Calm, SameSlots
<1>2. conn' = conn /\ handler' = handler
  BY DEF Calm
<1>3. SlotsFit'
  BY <1>1, <1>2 DEF LinkInv, SlotsFit
<1>4. SlotsLive'
  <2>1. \A c \in Conn : \A n \in Ends(c) :
          link'[n][Peer(c, n)][Slot(c, n)] = link[n][Peer(c, n)][Slot(c, n)]
    BY <1>1, EndsOf DEF Slot
  <2> QED BY <1>2, <2>1 DEF LinkInv, SlotsLive
<1>5. HandlersFit'
  BY <1>2 DEF LinkInv, HandlersFit, Safe
<1> QED BY <1>3, <1>4, <1>5 DEF LinkInv

LEMMA PressIsSafe ==
  ASSUME Types, SlotsFit, NEW n \in Node, NEW m \in Node, wire' = Put(wire, n, m, <<Key("key")>>)
  PROVE  /\ Safe
         /\ \A c \in Conn : \A k \in Ends(c) :
              wire'[c][k] = IF Alive(n, m) /\ c = Via(n, m) /\ k = m
                            THEN wire[c][k] \o <<Key("key")>> ELSE wire[c][k]
<1>1. CASE ~Alive(n, m)
  BY <1>1 DEF Put, Safe, Types
<1>2. CASE Alive(n, m)
  <2>1. PICK c \in Conn : c = Via(n, m) /\ m \in Ends(c) /\ conn[c] = "up"
    BY <1>2, ViaFits DEF Alive
  <2>2. wire[c][m] \in Seq(Notes) /\ wire \in Wires
    BY <2>1, WireSeq DEF Types
  <2>6. wire[c][m] \o <<Key("key")>> \in Seq(Notes)
    BY <2>2, KeyNote, ConcatProperties
  <2>3. PICK q \in Seq(Notes) : q = wire[c][m] \o <<Key("key")>>
    BY <2>6
  <2>4. wire' = [wire EXCEPT ![c][m] = q]
    BY <1>2, <2>1, <2>3 DEF Put
  <2>5. /\ [wire EXCEPT ![c][m] = q] \in Wires
        /\ \A d \in Conn : \A k \in Ends(d) :
             [wire EXCEPT ![c][m] = q][d][k] = IF d = c /\ k = m THEN q ELSE wire[d][k]
    BY <2>1, <2>2, WireSet
  <2>7. /\ wire' \in Wires
        /\ \A d \in Conn : \A k \in Ends(d) : wire'[d][k] = IF d = c /\ k = m THEN q ELSE wire[d][k]
    BY <2>4, <2>5
  <2>8. Safe
    BY <2>1, <2>7 DEF Safe
  <2> QED BY <1>2, <2>1, <2>3, <2>7, <2>8
<1> QED BY <1>1, <1>2

LEMMA TakeIsSafe ==
  ASSUME Types, LinkInv, NEW c \in Conn, NEW n \in Ends(c), wire[c][n] # <<>>, wire' = Taken(c, n)
  PROVE  Safe
BY TakenIs DEF Safe

LEMMA ConnectLinks ==
  ASSUME Types, LinkInv, NEW c \in Conn, Connect(c)
  PROVE  LinkInv' /\ wire' \in Wires /\ handler' \in Handlers
<1>1. /\ conn[c] = "new" /\ conn' = [conn EXCEPT ![c] = "up"]
      /\ UNCHANGED <<wire, handler, link>>
  BY DEF Connect
<1>2. \A d \in Conn : d # c => conn'[d] = conn[d]
  BY <1>1 DEF Types
<1>3. \A n \in Ends(c) : handler[c][n] = "none"
  BY <1>1 DEF LinkInv, HandlersFit
<1>4. SlotsFit'
  BY <1>1 DEF LinkInv, SlotsFit
<1>5. SlotsLive'
  BY <1>1, <1>2, <1>3 DEF LinkInv, SlotsLive
<1>6. conn'[c] = "up"
  BY <1>1 DEF Types
<1>7. HandlersFit'
  BY <1>1, <1>2, <1>3, <1>6 DEF LinkInv, HandlersFit
<1> QED BY <1>1, <1>4, <1>5, <1>7 DEF LinkInv, Types

LEMMA PrefixOf ==
  ASSUME NEW S, NEW q \in Seq(S), NEW i \in 0..Len(q)
  PROVE  SubSeq(q, 1, i) \in Seq(S)
BY SubSeqProperties

LEMMA BreakIs ==
  ASSUME Types, NEW c \in Conn, Break(c)
  PROVE  /\ conn[c] = "up" /\ conn'[c] = "broken" /\ \A d \in Conn \ {c} : conn'[d] = conn[d]
         /\ wire' \in Wires /\ \A d \in Conn \ {c} : \A k \in Ends(d) : wire'[d][k] = wire[d][k]
         /\ UNCHANGED <<handler, link, local, inbox, torn>>
<1>1. /\ conn[c] = "up" /\ conn' = [conn EXCEPT ![c] = "broken"]
      /\ UNCHANGED <<handler, link, local, inbox, torn>>
  BY DEF Break, linkRest, keyVars
<1>2. PICK i \in 0..Len(wire[c][Dialer[c]]), j \in 0..Len(wire[c][Acceptor[c]]) :
        wire' = [wire EXCEPT ![c][Dialer[c]] = SubSeq(@, 1, i),
                             ![c][Acceptor[c]] = SubSeq(@, 1, j)]
  BY DEF Break
<1>3. /\ wire \in Wires /\ Dialer[c] \in Ends(c) /\ Acceptor[c] \in Ends(c)
      /\ wire[c][Dialer[c]] \in Seq(Notes) /\ wire[c][Acceptor[c]] \in Seq(Notes)
  BY EndsOf, WireSeq DEF Types
<1>13. /\ SubSeq(wire[c][Dialer[c]], 1, i) \in Seq(Notes)
       /\ SubSeq(wire[c][Acceptor[c]], 1, j) \in Seq(Notes)
  BY <1>3, PrefixOf
<1>4. PICK q \in Seq(Notes) : q = SubSeq(wire[c][Dialer[c]], 1, i)
  BY <1>13
<1>5. PICK r \in Seq(Notes) : r = SubSeq(wire[c][Acceptor[c]], 1, j)
  BY <1>13
<1>6. /\ [wire EXCEPT ![c][Dialer[c]] = q] \in Wires
      /\ \A d \in Conn : \A k \in Ends(d) :
           [wire EXCEPT ![c][Dialer[c]] = q][d][k] = IF d = c /\ k = Dialer[c] THEN q ELSE wire[d][k]
  BY <1>3, WireSet
<1>7. PICK w \in Wires : w = [wire EXCEPT ![c][Dialer[c]] = q]
  BY <1>6
<1>18. w \in Wires /\ r \in Seq(Notes) /\ Acceptor[c] \in Ends(c)
  BY <1>3, <1>5, <1>7
<1>8. /\ [w EXCEPT ![c][Acceptor[c]] = r] \in Wires
      /\ \A d \in Conn : \A k \in Ends(d) :
           [w EXCEPT ![c][Acceptor[c]] = r][d][k] = IF d = c /\ k = Acceptor[c] THEN r ELSE w[d][k]
  BY <1>18, WireSet
<1>14. Acceptor[c] # Dialer[c]
  BY PeerAssumption
<1>9. w[c][Acceptor[c]] = wire[c][Acceptor[c]]
  BY <1>3, <1>6, <1>7, <1>14
<1>10. wire' = [wire EXCEPT ![c][Dialer[c]] = q, ![c][Acceptor[c]] = r]
  BY <1>2, <1>4, <1>5, <1>7, <1>9
<1>11. wire' = [w EXCEPT ![c][Acceptor[c]] = r]
  BY <1>7, <1>10
<1>12. conn'[c] = "broken" /\ \A d \in Conn \ {c} : conn'[d] = conn[d]
  BY <1>1 DEF Types
<1>15. \A d \in Conn \ {c} : \A k \in Ends(d) : w[d][k] = wire[d][k]
  BY <1>6, <1>7
<1>16. \A d \in Conn \ {c} : \A k \in Ends(d) : wire'[d][k] = wire[d][k]
  BY <1>8, <1>11, <1>15
<1>17. wire' \in Wires
  BY <1>8, <1>11
<1> QED BY <1>1, <1>12, <1>16, <1>17

LEMMA BreakLinks ==
  ASSUME Types, LinkInv, NEW c \in Conn, Break(c)
  PROVE  LinkInv'
<1>1. /\ conn[c] = "up" /\ conn'[c] = "broken" /\ \A d \in Conn \ {c} : conn'[d] = conn[d]
      /\ \A d \in Conn \ {c} : \A k \in Ends(d) : wire'[d][k] = wire[d][k]
      /\ UNCHANGED <<handler, link>>
  BY BreakIs
<1>2. SlotsFit'
  BY <1>1 DEF LinkInv, SlotsFit
<1>3. SlotsLive'
  BY <1>1 DEF LinkInv, SlotsLive
<1>4. \A k \in Ends(c) : handler[c][k] \notin {"leaving", "gone"}
  BY <1>1 DEF LinkInv, HandlersFit
<1>5. HandlersFit'
  BY <1>1, <1>4 DEF LinkInv, HandlersFit
<1> QED BY <1>2, <1>3, <1>5 DEF LinkInv

LEMMA SlotsOf ==
  ASSUME Types, SlotsFit, NEW n \in Node, NEW m \in Node, NEW slot \in SlotNames,
         link[n][m][slot] # None
  PROVE  LET c == link[n][m][slot]
         IN /\ c \in Conn /\ n \in Ends(c) /\ Peer(c, n) = m /\ Slot(c, n) = slot
            /\ handler[c][n] = "up"
<1>1. link[n][m] \in LinkStates
  BY DEF Types
<1>2. link[n][m][slot] \in Conn
  BY <1>1 DEF LinkStates, SlotNames
<1>3. CASE slot = "in"
  BY <1>2, <1>3 DEF SlotsFit
<1>4. CASE slot = "out"
  BY <1>2, <1>4 DEF SlotsFit
<1> QED BY <1>3, <1>4 DEF SlotNames

LEMMA InstallIs ==
  ASSUME Types, SlotsFit, NEW c \in Conn, NEW n \in Ends(c), Install(c, n),
         NEW m, m = Peer(c, n), NEW old, old = link[n][m][Slot(c, n)]
  PROVE  /\ n \in Node /\ m \in Node /\ conn[c] = "up" /\ handler[c][n] = "none"
         /\ handler' \in Handlers
         /\ \A d \in Conn : \A k \in Ends(d) :
              handler'[d][k] = IF d = c /\ k = n THEN "up" ELSE handler[d][k]
         /\ link' \in [Node -> [Node -> LinkStates]]
         /\ \A a, b \in Node : \A s \in SlotNames :
              link'[a][b][s] = IF a = n /\ b = m /\ s = Slot(c, n) THEN c ELSE link[a][b][s]
         /\ old # c
         /\ old # None => /\ old \in Conn /\ n \in Ends(old) /\ Peer(old, n) = m
                          /\ Slot(old, n) = Slot(c, n) /\ handler[old][n] = "up"
         /\ \A d \in Conn : conn'[d] = IF d = old THEN "broken" ELSE conn[d]
         /\ wire' \in Wires
         /\ \A d \in Conn : \A k \in Ends(d) :
              wire'[d][k] = wire[d][k] \/ (d = old /\ k = n /\ wire'[d][k] = <<>>)
         /\ UNCHANGED <<local, inbox>>
         /\ torn' = (torn \/ \E d \in Conn : m \in Ends(d) /\ Peer(d, m) = n /\ Under(d, m, "key"))
<1>1. /\ conn[c] = "up" /\ handler[c][n] = "none"
      /\ handler' = [handler EXCEPT ![c][n] = "up"]
      /\ link' = [link EXCEPT ![n][m][Slot(c, n)] = c]
      /\ IF old = None \/ conn[old] = "broken" THEN UNCHANGED <<conn, wire>>
         ELSE /\ conn' = [conn EXCEPT ![old] = "broken"]
              /\ wire' = [wire EXCEPT ![old][n] = <<>>]
      /\ UNCHANGED <<local, inbox>>
      /\ torn' = (torn \/ \E d \in Conn : m \in Ends(d) /\ Peer(d, m) = n /\ Under(d, m, "key"))
  BY DEF Install, linkRest, keyVars
<1>2. n \in Node /\ m \in Node /\ Slot(c, n) \in SlotNames
  BY EndsOf DEF Slot, SlotNames
<1>3. /\ handler' \in Handlers
      /\ \A d \in Conn : \A k \in Ends(d) :
           handler'[d][k] = IF d = c /\ k = n THEN "up" ELSE handler[d][k]
  <2>1. PICK v \in HandlerStates : v = "up"
    BY DEF HandlerStates
  <2>2. handler \in Handlers /\ v \in HandlerStates
    BY <2>1 DEF Types
  <2>3. /\ [handler EXCEPT ![c][n] = v] \in Handlers
        /\ \A d \in Conn : \A k \in Ends(d) :
             [handler EXCEPT ![c][n] = v][d][k] = IF d = c /\ k = n THEN v ELSE handler[d][k]
    BY <2>2, HandlerSet
  <2> QED BY <1>1, <2>1, <2>3
<1>4. /\ link' \in [Node -> [Node -> LinkStates]]
      /\ \A a, b \in Node : \A s \in SlotNames :
           link'[a][b][s] = IF a = n /\ b = m /\ s = Slot(c, n) THEN c ELSE link[a][b][s]
  <2>1. link' = [link EXCEPT ![n][m][Slot(c, n)] = c]
    BY <1>1
  <2>2. PICK slot \in SlotNames : slot = Slot(c, n)
    BY <1>2
  <2>3. link' = [link EXCEPT ![n][m][slot] = c]
    BY <2>1, <2>2
  <2>4. link \in [Node -> [Node -> LinkStates]] /\ n \in Node /\ m \in Node
    BY <1>2 DEF Types
  <2>5. link[n][m] \in LinkStates
    BY <2>4
  <2>6. /\ [link[n][m] EXCEPT ![slot] = c] \in LinkStates
        /\ \A s \in SlotNames :
             [link[n][m] EXCEPT ![slot] = c][s] = IF s = slot THEN c ELSE link[n][m][s]
    BY <2>2, <2>5 DEF LinkStates, SlotNames
  <2>7. PICK k \in LinkStates :
          /\ k = [link[n][m] EXCEPT ![slot] = c]
          /\ \A s \in SlotNames : k[s] = IF s = slot THEN c ELSE link[n][m][s]
    BY <2>6
  <2>8. link' = [link EXCEPT ![n][m] = k]
    BY <2>3, <2>7
  <2>9. /\ link' \in [Node -> [Node -> LinkStates]]
        /\ \A a, b \in Node : link'[a][b] = IF a = n /\ b = m THEN k ELSE link[a][b]
    BY <2>4, <2>7, <2>8
  <2> QED BY <2>2, <2>7, <2>9
<1>5. old # None => /\ old \in Conn /\ n \in Ends(old) /\ Peer(old, n) = m
                    /\ Slot(old, n) = Slot(c, n) /\ handler[old][n] = "up"
  BY <1>2, SlotsOf
<1>6. old # c
  BY <1>1, <1>5, PeerAssumption
<1>7. wire \in Wires /\ <<>> \in Seq(Notes) /\ conn \in [Conn -> {"new", "up", "broken"}]
  BY DEF Types
<1>8. CASE old = None \/ conn[old] = "broken"
  <2>1. \A d \in Conn : conn'[d] = IF d = old THEN "broken" ELSE conn[d]
    BY <1>1, <1>8, PeerAssumption
  <2> QED BY <1>1, <1>2, <1>3, <1>4, <1>5, <1>6, <1>7, <1>8, <2>1
<1>9. CASE ~(old = None \/ conn[old] = "broken")
  <2>1. /\ conn' = [conn EXCEPT ![old] = "broken"] /\ wire' = [wire EXCEPT ![old][n] = <<>>]
        /\ old \in Conn /\ n \in Ends(old)
    BY <1>1, <1>5, <1>9
  <2>2. \A d \in Conn : conn'[d] = IF d = old THEN "broken" ELSE conn[d]
    BY <1>7, <2>1
  <2>3. /\ wire' \in Wires
        /\ \A d \in Conn : \A k \in Ends(d) :
             wire'[d][k] = IF d = old /\ k = n THEN <<>> ELSE wire[d][k]
    <3>1. wire \in Wires /\ <<>> \in Seq(Notes) /\ old \in Conn /\ n \in Ends(old)
      BY <1>7, <2>1
    <3>2. PICK q \in Seq(Notes) : q = <<>>
      BY <3>1
    <3>3. q \in Seq(Notes)
      BY <3>2
    <3>4. /\ [wire EXCEPT ![old][n] = q] \in Wires
          /\ \A d \in Conn : \A k \in Ends(d) :
               [wire EXCEPT ![old][n] = q][d][k] = IF d = old /\ k = n THEN q ELSE wire[d][k]
      BY <3>1, <3>3, WireSet
    <3> QED BY <2>1, <3>2, <3>4
  <2> QED BY <1>1, <1>2, <1>3, <1>4, <1>5, <1>6, <2>2, <2>3
<1> QED BY <1>8, <1>9

LEMMA InstallLinks ==
  ASSUME Types, LinkInv, NEW c \in Conn, NEW n \in Ends(c), Install(c, n)
  PROVE  LinkInv'
<1>1. PICK m : m = Peer(c, n)
  OBVIOUS
<1>2. PICK old : old = link[n][m][Slot(c, n)]
  OBVIOUS
<1>3. /\ n \in Node /\ m \in Node /\ conn[c] = "up" /\ handler[c][n] = "none"
      /\ \A d \in Conn : \A k \in Ends(d) :
           handler'[d][k] = IF d = c /\ k = n THEN "up" ELSE handler[d][k]
      /\ \A a, b \in Node : \A s \in SlotNames :
           link'[a][b][s] = IF a = n /\ b = m /\ s = Slot(c, n) THEN c ELSE link[a][b][s]
      /\ old # c
      /\ \A d \in Conn : conn'[d] = IF d = old THEN "broken" ELSE conn[d]
      /\ \A d \in Conn : \A k \in Ends(d) :
           wire'[d][k] = wire[d][k] \/ (d = old /\ k = n /\ wire'[d][k] = <<>>)
  BY <1>1, <1>2, InstallIs DEF LinkInv
<1>4. Slot(c, n) \in SlotNames
  BY DEF Slot, SlotNames
<1>5. ASSUME NEW a \in Node, NEW b \in Node, NEW s \in SlotNames, link'[a][b][s] # None
      PROVE  LET d == link'[a][b][s]
             IN a \in Ends(d) /\ Peer(d, a) = b /\ Slot(d, a) = s /\ handler'[d][a] = "up"
  <2>1. CASE a = n /\ b = m /\ s = Slot(c, n)
    BY <1>1, <1>3, <2>1
  <2>2. CASE ~(a = n /\ b = m /\ s = Slot(c, n))
    <3>1. PICK d : d = link[a][b][s]
      OBVIOUS
    <3>2. link'[a][b][s] = d
      BY <1>3, <2>2, <3>1
    <3>3. /\ d \in Conn /\ a \in Ends(d) /\ Peer(d, a) = b /\ Slot(d, a) = s
          /\ handler[d][a] = "up"
      BY <1>5, <3>1, <3>2, SlotsOf DEF LinkInv
    <3> QED BY <1>3, <3>2, <3>3
  <2> QED BY <2>1, <2>2
<1>6. SlotsFit'
  <2>1. ASSUME NEW a \in Node, NEW b \in Node, link'[a][b].out # None
        PROVE  LET d == link'[a][b].out
               IN a \in Ends(d) /\ Peer(d, a) = b /\ Slot(d, a) = "out" /\ handler'[d][a] = "up"
    <3>1. "out" \in SlotNames /\ link'[a][b]["out"] # None
      BY <2>1 DEF SlotNames
    <3> QED BY <3>1, <1>5
  <2>2. ASSUME NEW a \in Node, NEW b \in Node, link'[a][b].in # None
        PROVE  LET d == link'[a][b].in
               IN a \in Ends(d) /\ Peer(d, a) = b /\ Slot(d, a) = "in" /\ handler'[d][a] = "up"
    <3>1. "in" \in SlotNames /\ link'[a][b]["in"] # None
      BY <2>2 DEF SlotNames
    <3> QED BY <3>1, <1>5
  <2> QED BY <2>1, <2>2 DEF SlotsFit
<1>7. SlotsLive'
  <2>1. SUFFICES ASSUME NEW d \in Conn, NEW k \in Ends(d), conn'[d] = "up", handler'[d][k] = "up"
                 PROVE  link'[k][Peer(d, k)][Slot(d, k)] = d
    BY DEF SlotsLive
  <2>2. k \in Node /\ Peer(d, k) \in Node /\ Slot(d, k) \in SlotNames
    BY EndsOf DEF Slot, SlotNames
  <2>3. d # old /\ conn[d] = "up"
    BY <1>3, <2>1
  <2>4. CASE d = c /\ k = n
    BY <1>1, <1>3, <2>2, <2>4
  <2>5. CASE ~(d = c /\ k = n)
    <3>1. handler[d][k] = "up"
      BY <1>3, <2>1, <2>5
    <3>2. link[k][Peer(d, k)][Slot(d, k)] = d
      BY <2>3, <3>1 DEF LinkInv, SlotsLive
    <3>3. ~(k = n /\ Peer(d, k) = m /\ Slot(d, k) = Slot(c, n))
      BY <1>2, <2>3, <3>2
    <3> QED BY <1>3, <2>2, <3>2, <3>3
  <2> QED BY <2>4, <2>5
<1>8. HandlersFit'
  <2>1. ASSUME NEW d \in Conn, NEW k \in Ends(d)
        PROVE  /\ conn'[d] = "new" => handler'[d][k] = "none"
               /\ handler'[d][k] \in {"leaving", "gone"} => conn'[d] = "broken" /\ wire'[d][k] = <<>>
    BY <1>3 DEF LinkInv, HandlersFit
  <2> QED BY <2>1 DEF HandlersFit
<1> QED BY <1>6, <1>7, <1>8 DEF LinkInv

LEMMA FailsIs ==
  ASSUME Types, NEW c \in Conn, NEW n \in Ends(c), HandshakeFails(c, n)
  PROVE  /\ conn[c] = "broken" /\ handler[c][n] = "none" /\ handler' \in Handlers
         /\ \A d \in Conn : \A k \in Ends(d) :
              handler'[d][k] = IF d = c /\ k = n THEN "gone" ELSE handler[d][k]
         /\ wire' \in Wires
         /\ \A d \in Conn : \A k \in Ends(d) :
              wire'[d][k] = IF d = c /\ k = n THEN <<>> ELSE wire[d][k]
         /\ torn' = (torn \/ KeyStays(n)) /\ UNCHANGED <<conn, link, local, inbox>>
<1>1. /\ conn[c] = "broken" /\ handler[c][n] = "none"
      /\ handler' = [handler EXCEPT ![c][n] = "gone"] /\ wire' = [wire EXCEPT ![c][n] = <<>>]
      /\ torn' = (torn \/ KeyStays(n)) /\ UNCHANGED <<conn, link, local, inbox>>
  BY DEF HandshakeFails, linkRest, keyVars
<1>2. PICK v \in HandlerStates : v = "gone"
  BY DEF HandlerStates
<1>3. v \in HandlerStates /\ handler \in Handlers
  BY <1>2 DEF Types
<1>9. /\ [handler EXCEPT ![c][n] = v] \in Handlers
      /\ \A d \in Conn : \A k \in Ends(d) :
           [handler EXCEPT ![c][n] = v][d][k] = IF d = c /\ k = n THEN v ELSE handler[d][k]
  BY <1>3, HandlerSet
<1>4. /\ handler' \in Handlers
      /\ \A d \in Conn : \A k \in Ends(d) :
           handler'[d][k] = IF d = c /\ k = n THEN v ELSE handler[d][k]
  BY <1>1, <1>2, <1>9
<1>10. <<>> \in Seq(Notes)
  OBVIOUS
<1>5. PICK q \in Seq(Notes) : q = <<>>
  BY <1>10
<1>6. q \in Seq(Notes) /\ wire \in Wires
  BY <1>5 DEF Types
<1>7. /\ [wire EXCEPT ![c][n] = q] \in Wires
      /\ \A d \in Conn : \A k \in Ends(d) :
           [wire EXCEPT ![c][n] = q][d][k] = IF d = c /\ k = n THEN q ELSE wire[d][k]
  BY <1>6, WireSet
<1>8. /\ wire' \in Wires
      /\ \A d \in Conn : \A k \in Ends(d) :
           wire'[d][k] = IF d = c /\ k = n THEN <<>> ELSE wire[d][k]
  BY <1>1, <1>5, <1>7
<1> QED BY <1>1, <1>2, <1>4, <1>8

LEMMA FailsLinks ==
  ASSUME Types, LinkInv, NEW c \in Conn, NEW n \in Ends(c), HandshakeFails(c, n)
  PROVE  LinkInv'
<1>1. /\ conn[c] = "broken" /\ handler[c][n] = "none"
      /\ \A d \in Conn : \A k \in Ends(d) :
           handler'[d][k] = IF d = c /\ k = n THEN "gone" ELSE handler[d][k]
      /\ \A d \in Conn : \A k \in Ends(d) :
           wire'[d][k] = IF d = c /\ k = n THEN <<>> ELSE wire[d][k]
      /\ conn' = conn /\ link' = link
  BY FailsIs
<1>2. SlotsFit'
  <2>1. ASSUME NEW a \in Node, NEW b \in Node, NEW s \in SlotNames, link[a][b][s] # None
        PROVE  handler'[link[a][b][s]][a] = "up"
    BY <1>1, <2>1, SlotsOf DEF LinkInv
  <2>2. "in" \in SlotNames /\ "out" \in SlotNames
    BY DEF SlotNames
  <2> QED BY <1>1, <2>1, <2>2 DEF LinkInv, SlotsFit
<1>3. SlotsLive'
  BY <1>1 DEF LinkInv, SlotsLive
<1>4. HandlersFit'
  BY <1>1 DEF LinkInv, HandlersFit
<1> QED BY <1>2, <1>3, <1>4 DEF LinkInv

LEMMA ReleasedIs ==
  ASSUME Types, NEW c \in Conn, NEW n \in Ends(c), Released(c, n)
  PROVE  /\ handler[c][n] = "leaving" /\ handler' \in Handlers
         /\ \A d \in Conn : \A k \in Ends(d) :
              handler'[d][k] = IF d = c /\ k = n THEN "gone" ELSE handler[d][k]
         /\ \A k \in Node : /\ local'[k].active = local[k].active /\ local'[k].sent = local[k].sent
                            /\ k # n => local'[k].down = local[k].down
         /\ ~local'[n].down
         /\ torn' = (torn \/ Waiting(n, "key")) /\ UNCHANGED <<conn, wire, link, inbox>>
<1>1. /\ handler[c][n] = "leaving" /\ handler' = [handler EXCEPT ![c][n] = "gone"]
      /\ local' = [local EXCEPT ![n].down = FALSE]
      /\ torn' = (torn \/ Waiting(n, "key")) /\ UNCHANGED <<conn, wire, link, inbox>>
  BY DEF Released, linkRest, keyVars
<1>2. PICK v \in HandlerStates : v = "gone"
  BY DEF HandlerStates
<1>3. v \in HandlerStates /\ handler \in Handlers
  BY <1>2 DEF Types
<1>9. /\ [handler EXCEPT ![c][n] = v] \in Handlers
      /\ \A d \in Conn : \A k \in Ends(d) :
           [handler EXCEPT ![c][n] = v][d][k] = IF d = c /\ k = n THEN v ELSE handler[d][k]
  BY <1>3, HandlerSet
<1>4. /\ handler' \in Handlers
      /\ \A d \in Conn : \A k \in Ends(d) :
           handler'[d][k] = IF d = c /\ k = n THEN v ELSE handler[d][k]
  BY <1>1, <1>2, <1>9
<1>5. \A k \in Node : /\ local'[k].active = local[k].active /\ local'[k].sent = local[k].sent
                      /\ k # n => local'[k].down = local[k].down
  BY <1>1 DEF Types, Locals
<1>6. n \in Node
  BY EndsOf
<1>7. ~local'[n].down
  BY <1>1, <1>6 DEF Types, Locals
<1> QED BY <1>1, <1>2, <1>4, <1>5, <1>7

LEMMA ReleasedLinks ==
  ASSUME Types, LinkInv, NEW c \in Conn, NEW n \in Ends(c), Released(c, n)
  PROVE  LinkInv'
<1>1. /\ handler[c][n] = "leaving"
      /\ \A d \in Conn : \A k \in Ends(d) :
           handler'[d][k] = IF d = c /\ k = n THEN "gone" ELSE handler[d][k]
      /\ conn' = conn /\ wire' = wire /\ link' = link
  BY ReleasedIs
<1>2. SlotsFit'
  <2>1. ASSUME NEW a \in Node, NEW b \in Node, NEW s \in SlotNames, link[a][b][s] # None
        PROVE  handler'[link[a][b][s]][a] = "up"
    BY <1>1, <2>1, SlotsOf DEF LinkInv
  <2>2. "in" \in SlotNames /\ "out" \in SlotNames
    BY DEF SlotNames
  <2> QED BY <1>1, <2>1, <2>2 DEF LinkInv, SlotsFit
<1>3. SlotsLive'
  BY <1>1 DEF LinkInv, SlotsLive
<1>4. HandlersFit'
  BY <1>1 DEF LinkInv, HandlersFit
<1> QED BY <1>2, <1>3, <1>4 DEF LinkInv

(* What is left of a link.                                                   *)
LEMMA RemovedIs ==
  ASSUME NEW l \in LinkStates, NEW c \in Conn
  PROVE  /\ Removed(l, c) \in LinkStates
         /\ Removed(l, c).in = IF l.in = c THEN None ELSE l.in
         /\ Removed(l, c).out = IF l.out = c THEN None ELSE l.out
         /\ Removed(l, c) = NoLink => Removed(l, c).in = None /\ Removed(l, c).out = None
<1> DEFINE rest == [l EXCEPT !.in = IF @ = c THEN None ELSE @, !.out = IF @ = c THEN None ELSE @]
<1>1. /\ rest \in LinkStates /\ rest.in = (IF l.in = c THEN None ELSE l.in)
      /\ rest.out = (IF l.out = c THEN None ELSE l.out)
  BY DEF LinkStates
<1>2. NoLink \in LinkStates /\ NoLink.in = None /\ NoLink.out = None
  BY DEF NoLink, LinkStates
<1>3. Removed(l, c) = IF rest.in = None /\ rest.out = None THEN NoLink ELSE rest
  BY DEF Removed
<1> QED BY <1>1, <1>2, <1>3

LEMMA EndsIs ==
  ASSUME Types, NEW c \in Conn, NEW n \in Ends(c), HandlerEnds(c, n),
         NEW m, m = Peer(c, n), NEW gone, gone = (Linked(n, m) /\ Removed(link[n][m], c) = NoLink)
  PROVE  /\ n \in Node /\ m \in Node
         /\ handler[c][n] = "up" /\ conn[c] = "broken" /\ wire[c][n] = <<>>
         /\ handler' \in Handlers
         /\ \A d \in Conn : \A k \in Ends(d) : d # c \/ k # n => handler'[d][k] = handler[d][k]
         /\ handler'[c][n] = IF gone THEN "leaving" ELSE "gone"
         /\ link' \in [Node -> [Node -> LinkStates]]
         /\ \A a, b \in Node : \A s \in SlotNames :
              link'[a][b][s] = IF a = n /\ b = m /\ link[a][b][s] = c THEN None ELSE link[a][b][s]
         /\ \A k \in Node : /\ local'[k].active = local[k].active /\ local'[k].sent = local[k].sent
                            /\ local'[k].down = local[k].down
         /\ torn' = (torn \/ (~gone /\ KeyStays(n))) /\ UNCHANGED <<conn, wire, inbox>>
<1>1. /\ handler[c][n] = "up" /\ StreamEnds(c, n)
      /\ link' = [link EXCEPT ![n][m] = Removed(@, c)]
      /\ handler' = [handler EXCEPT ![c][n] = IF gone THEN "leaving" ELSE "gone"]
      /\ local' = [local EXCEPT ![n].session = NoSession] \/ local' = local
      /\ torn' = (torn \/ (~gone /\ KeyStays(n))) /\ UNCHANGED <<conn, wire, inbox>>
  BY DEF HandlerEnds, linkRest, keyVars
<1>2. n \in Node /\ m \in Node
  BY EndsOf
<1>3. PICK v \in HandlerStates : v = IF gone THEN "leaving" ELSE "gone"
  BY DEF HandlerStates
<1>4. v \in HandlerStates /\ handler \in Handlers
  BY <1>3 DEF Types
<1>13. /\ [handler EXCEPT ![c][n] = v] \in Handlers
       /\ \A d \in Conn : \A k \in Ends(d) :
            [handler EXCEPT ![c][n] = v][d][k] = IF d = c /\ k = n THEN v ELSE handler[d][k]
  BY <1>4, HandlerSet
<1>5. /\ handler' \in Handlers
      /\ \A d \in Conn : \A k \in Ends(d) :
           handler'[d][k] = IF d = c /\ k = n THEN v ELSE handler[d][k]
  BY <1>1, <1>3, <1>13
<1>6. link \in [Node -> [Node -> LinkStates]] /\ link[n][m] \in LinkStates
  BY <1>2 DEF Types
<1>7. PICK r \in LinkStates :
        /\ r = Removed(link[n][m], c)
        /\ r.in = (IF link[n][m].in = c THEN None ELSE link[n][m].in)
        /\ r.out = (IF link[n][m].out = c THEN None ELSE link[n][m].out)
  BY <1>6, RemovedIs
<1>8. link' = [link EXCEPT ![n][m] = r]
  BY <1>1, <1>7
<1>9. /\ link' \in [Node -> [Node -> LinkStates]]
      /\ \A a, b \in Node : link'[a][b] = IF a = n /\ b = m THEN r ELSE link[a][b]
  BY <1>2, <1>6, <1>7, <1>8
<1>10. \A a, b \in Node : \A s \in SlotNames :
         link'[a][b][s] = IF a = n /\ b = m /\ link[a][b][s] = c THEN None ELSE link[a][b][s]
  BY <1>7, <1>9 DEF SlotNames
<1>11. \A k \in Node : /\ local'[k].active = local[k].active /\ local'[k].sent = local[k].sent
                       /\ local'[k].down = local[k].down
  BY <1>1, <1>2, SessionAlone
<1>12. conn[c] = "broken" /\ wire[c][n] = <<>>
  BY <1>1 DEF StreamEnds
<1> QED BY <1>1, <1>2, <1>3, <1>5, <1>9, <1>10, <1>11, <1>12

LEMMA EndsLinks ==
  ASSUME Types, LinkInv, NEW c \in Conn, NEW n \in Ends(c), HandlerEnds(c, n)
  PROVE  LinkInv'
<1>1. PICK m : m = Peer(c, n)
  OBVIOUS
<1>2. PICK gone : gone = (Linked(n, m) /\ Removed(link[n][m], c) = NoLink)
  OBVIOUS
<1>3. /\ n \in Node /\ m \in Node
      /\ handler[c][n] = "up" /\ conn[c] = "broken" /\ wire[c][n] = <<>>
      /\ \A d \in Conn : \A k \in Ends(d) : d # c \/ k # n => handler'[d][k] = handler[d][k]
      /\ handler'[c][n] \in {"leaving", "gone"}
      /\ \A a, b \in Node : \A s \in SlotNames :
           link'[a][b][s] = IF a = n /\ b = m /\ link[a][b][s] = c THEN None ELSE link[a][b][s]
      /\ conn' = conn /\ wire' = wire
  BY <1>1, <1>2, EndsIs
<1>4. "in" \in SlotNames /\ "out" \in SlotNames
  BY DEF SlotNames
<1>5. ASSUME NEW a \in Node, NEW b \in Node, NEW s \in SlotNames, link'[a][b][s] # None
      PROVE  LET d == link'[a][b][s]
             IN a \in Ends(d) /\ Peer(d, a) = b /\ Slot(d, a) = s /\ handler'[d][a] = "up"
  <2>1. PICK d : d = link[a][b][s]
    OBVIOUS
  <2>2. link'[a][b][s] = d /\ ~(a = n /\ b = m /\ d = c)
    BY <1>3, <1>5, <2>1
  <2>3. /\ d \in Conn /\ a \in Ends(d) /\ Peer(d, a) = b /\ Slot(d, a) = s
        /\ handler[d][a] = "up"
    BY <1>5, <2>1, <2>2, SlotsOf DEF LinkInv
  <2>4. d # c \/ a # n
    BY <1>1, <2>2, <2>3
  <2> QED BY <1>3, <2>2, <2>3, <2>4
<1>6. SlotsFit'
  <2>1. ASSUME NEW a \in Node, NEW b \in Node, link'[a][b].out # None
        PROVE  LET d == link'[a][b].out
               IN a \in Ends(d) /\ Peer(d, a) = b /\ Slot(d, a) = "out" /\ handler'[d][a] = "up"
    <3>1. link'[a][b]["out"] # None
      BY <2>1
    <3> QED BY <1>4, <3>1, <1>5
  <2>2. ASSUME NEW a \in Node, NEW b \in Node, link'[a][b].in # None
        PROVE  LET d == link'[a][b].in
               IN a \in Ends(d) /\ Peer(d, a) = b /\ Slot(d, a) = "in" /\ handler'[d][a] = "up"
    <3>1. link'[a][b]["in"] # None
      BY <2>2
    <3> QED BY <1>4, <3>1, <1>5
  <2> QED BY <2>1, <2>2 DEF SlotsFit
<1>7. SlotsLive'
  <2>1. SUFFICES ASSUME NEW d \in Conn, NEW k \in Ends(d), conn'[d] = "up", handler'[d][k] = "up"
                 PROVE  link'[k][Peer(d, k)][Slot(d, k)] = d
    BY DEF SlotsLive
  <2>2. k \in Node /\ Peer(d, k) \in Node /\ Slot(d, k) \in SlotNames
    BY EndsOf DEF Slot, SlotNames
  <2>3. d # c /\ handler[d][k] = "up" /\ conn[d] = "up"
    BY <1>3, <2>1
  <2>4. link[k][Peer(d, k)][Slot(d, k)] = d
    BY <2>3 DEF LinkInv, SlotsLive
  <2> QED BY <1>3, <2>2, <2>3, <2>4
<1>8. HandlersFit'
  <2>1. ASSUME NEW d \in Conn, NEW k \in Ends(d)
        PROVE  /\ conn'[d] = "new" => handler'[d][k] = "none"
               /\ handler'[d][k] \in {"leaving", "gone"} => conn'[d] = "broken" /\ wire'[d][k] = <<>>
    <3>1. CASE d = c /\ k = n
      BY <1>3, <3>1
    <3>2. CASE d # c \/ k # n
      BY <1>3, <3>2 DEF LinkInv, HandlersFit
    <3> QED BY <3>1, <3>2
  <2> QED BY <2>1 DEF HandlersFit
<1> QED BY <1>6, <1>7, <1>8 DEF LinkInv

LEMMA LinkInvNext ==
  ASSUME Types, Aimed, LinkInv, LoopFits, [Next]_vars
  PROVE  LinkInv' /\ wire' \in Wires
<1>1. SlotsFit
  BY DEF LinkInv
<1>2. CASE Talk
  <2>1. Calm /\ Kept(wire, wire')
    BY <1>2 DEF Talk
  <2>2. Safe
    BY <2>1 DEF Safe, Kept
  <2> QED BY <2>1, <2>2, CalmLinks DEF Safe
<1>3. ASSUME NEW n \in Node, loop[n].to \in Node, Presses(n, loop[n].to)
      PROVE  LinkInv' /\ wire' \in Wires
  <2>1. Calm /\ Safe
    BY <1>1, <1>3, PressIsSafe DEF Presses
  <2> QED BY <2>1, CalmLinks DEF Safe
<1>4. ASSUME NEW c \in Conn, NEW n \in Ends(c), TakesKey(c, n)
      PROVE  LinkInv' /\ wire' \in Wires
  <2>1. Calm /\ Safe
    BY <1>4, TakeIsSafe DEF TakesKey
  <2> QED BY <2>1, CalmLinks DEF Safe
<1>5. ASSUME NEW n \in Node, Inject(n)  PROVE LinkInv' /\ wire' \in Wires
  <2>1. UNCHANGED <<conn, wire, handler, link>>
    BY <1>5 DEF Inject, forwardRest, netVars
  <2>2. Calm
    BY <2>1, LinkStays DEF Calm
  <2>3. Safe
    BY <2>1 DEF Safe, Types
  <2> QED BY <2>2, <2>3, CalmLinks DEF Safe
<1>6. ASSUME NEW c \in Conn, LinkStep(c)  PROVE LinkInv' /\ wire' \in Wires
  <2>1. CASE Connect(c)
    BY <2>1, ConnectLinks
  <2>2. CASE Break(c)
    BY <2>2, BreakIs, BreakLinks
  <2>3. ASSUME NEW n \in Ends(c), Install(c, n)  PROVE LinkInv' /\ wire' \in Wires
    BY <1>1, <2>3, InstallIs, InstallLinks
  <2>4. ASSUME NEW n \in Ends(c), HandshakeFails(c, n)  PROVE LinkInv' /\ wire' \in Wires
    BY <2>4, FailsIs, FailsLinks
  <2>5. ASSUME NEW n \in Ends(c), HandlerEnds(c, n)  PROVE LinkInv' /\ wire' \in Wires
    <3>1. wire' = wire
      BY <2>5 DEF HandlerEnds
    <3> QED BY <2>5, <3>1, EndsLinks DEF Types
  <2>6. ASSUME NEW n \in Ends(c), Released(c, n)  PROVE LinkInv' /\ wire' \in Wires
    <3>1. wire' = wire
      BY <2>6 DEF Released
    <3> QED BY <2>6, <3>1, ReleasedLinks DEF Types
  <2> QED BY <1>6, <2>1, <2>2, <2>3, <2>4, <2>5, <2>6 DEF LinkStep
<1> QED BY <1>1, <1>2, <1>3, <1>4, <1>5, <1>6, StepIs

-----------------------------------------------------------------------------
(* Types, the targets of the threads, and what forward_loop sends            *)

LocalKept ==
  /\ local' \in [Node -> Locals]
  /\ \A n \in Node : /\ local'[n].session # NoSession => local'[n].session.peer \in Node
                     /\ \/ ~local'[n].sent
                        \/ local'[n].active = local[n].active /\ local'[n].sent = local[n].sent

LEMMA LocalStays == ASSUME Types, Aimed, local' = local  PROVE LocalKept
BY DEF Types, Aimed, LocalKept

LEMMA LocalMoves ==
  ASSUME Types, Aimed, NEW n \in Node, NEW v \in Locals, local' = [local EXCEPT ![n] = v],
         v.session # NoSession => v.session.peer \in Node,
         ~v.sent \/ (v.active = local[n].active /\ v.sent = local[n].sent)
  PROVE  LocalKept
<1>1. local' \in [Node -> Locals] /\ local'[n] = v /\ \A k \in Node \ {n} : local'[k] = local[k]
  BY LocalSet
<1> QED BY <1>1 DEF Aimed, LocalKept

LEMMA SessionMoves ==
  ASSUME Types, Aimed, NEW n \in Node, NEW s \in SessionStates, s # NoSession => s.peer \in Node,
         local' = [local EXCEPT ![n].session = s]
  PROVE  LocalKept
<1>1. local[n] \in Locals
  BY DEF Types
<1>2. /\ [local[n] EXCEPT !.session = s] \in Locals /\ [local[n] EXCEPT !.session = s].session = s
      /\ [local[n] EXCEPT !.session = s].active = local[n].active
      /\ [local[n] EXCEPT !.session = s].sent = local[n].sent
  BY <1>1 DEF Locals
<1>3. PICK v \in Locals : /\ v = [local[n] EXCEPT !.session = s] /\ v.session = s
                          /\ v.active = local[n].active /\ v.sent = local[n].sent
  BY <1>2
<1>4. local' = [local EXCEPT ![n] = v]
  BY <1>3
<1> QED BY <1>3, <1>4, LocalMoves

LEMMA StopMoves ==
  ASSUME Types, Aimed, NEW n \in Node, local' = [local EXCEPT ![n] = Stopped(n)]
  PROVE  LocalKept
BY StoppedIs, LocalMoves

LEMMA NoSessionIs == NoSession \in SessionStates
BY DEF NoSession, SessionStates, Peers

LEMMA LocalNext ==
  ASSUME Types, Aimed, [Next]_vars
  PROVE  LocalKept \/ \E n \in Node : LoopSends(n) /\ local' = [local EXCEPT ![n].sent = loop[n].ev = "key"]
<1>1. CASE UNCHANGED local
  BY <1>1, LocalStays
<1>2. ASSUME NEW n \in Node, PressKey(n) \/ ReleaseKey(n) \/ Inject(n)  PROVE LocalKept
  <2>1. local[n] \in Locals
    BY DEF Types
  <2>2. /\ \A x \in BOOLEAN : [local[n] EXCEPT !.held = x] \in Locals
        /\ \A x \in BOOLEAN : [local[n] EXCEPT !.down = x] \in Locals
        /\ \A x : /\ [local[n] EXCEPT !.held = x].session = local[n].session
                  /\ [local[n] EXCEPT !.down = x].session = local[n].session
                  /\ [local[n] EXCEPT !.held = x].active = local[n].active
                  /\ [local[n] EXCEPT !.down = x].active = local[n].active
                  /\ [local[n] EXCEPT !.held = x].sent = local[n].sent
                  /\ [local[n] EXCEPT !.down = x].sent = local[n].sent
    BY <2>1 DEF Locals
  <2>3. PICK x \in BOOLEAN : \/ local' = [local EXCEPT ![n].held = x]
                             \/ local' = [local EXCEPT ![n].down = x]
    BY <1>2 DEF PressKey, ReleaseKey, Inject
  <2>4. PICK v \in Locals : /\ local' = [local EXCEPT ![n] = v] /\ v.session = local[n].session
                            /\ v.active = local[n].active /\ v.sent = local[n].sent
    BY <2>2, <2>3
  <2>5. v.session # NoSession => v.session.peer \in Node
    BY <2>4 DEF Aimed
  <2> QED BY <2>4, <2>5, LocalMoves
<1>3. ASSUME NEW n \in Node, Return(n)  PROVE LocalKept
  BY <1>3, StopMoves DEF Return
<1>4. ASSUME NEW n \in Node, EdgeLeft(n)  PROVE LocalKept
  BY <1>4, SessionMoves, NoSessionIs DEF EdgeLeft
<1>5. ASSUME NEW n \in Node, ActivateGoes(n)  PROVE LocalKept
  <2> DEFINE v == [IF switch[n].other THEN Stopped(n) ELSE local[n] EXCEPT
                     !.active = switch[n].to, !.sent = FALSE]
  <2>1. local' = [local EXCEPT ![n] = v] /\ switch[n].to \in Node
    BY <1>5 DEF ActivateGoes, Aimed
  <2>2. local[n] \in Locals /\ Stopped(n) \in Locals /\ Stopped(n).session = NoSession
    BY StoppedIs DEF Types
  <2>3. /\ v \in Locals /\ v.sent = FALSE
        /\ v.session = IF switch[n].other THEN NoSession ELSE local[n].session
    BY <2>1, <2>2 DEF Locals, Peers
  <2> HIDE DEF v
  <2>4. v.session # NoSession => v.session.peer \in Node
    BY <2>3 DEF Aimed
  <2> QED BY <2>1, <2>3, <2>4, LocalMoves
<1>6. ASSUME NEW n \in Node, EdgeStarts(n)  PROVE LocalKept
  <2> DEFINE s == SessionOf("source", edge[n].to, edge[n].id)
             v == [local[n] EXCEPT !.active = edge[n].to, !.sent = FALSE, !.session = s]
  <2>1. local' = [local EXCEPT ![n] = v] /\ edge[n].to \in Node /\ edge[n].id \in Nat
    BY <1>6 DEF EdgeStarts, Aimed, Types, EdgeStates
  <2>2. s \in SessionStates /\ s.peer \in Node
    BY <2>1 DEF SessionOf, SessionStates, Peers
  <2> HIDE DEF s
  <2>3. local[n] \in Locals
    BY DEF Types
  <2>4. v \in Locals /\ v.sent = FALSE /\ v.session = s
    BY <2>1, <2>2, <2>3 DEF Locals, Peers
  <2> HIDE DEF v
  <2> QED BY <2>1, <2>2, <2>4, LocalMoves
<1>7. ASSUME NEW n \in Node, LoopSends(n)
      PROVE  LocalKept \/ local' = [local EXCEPT ![n].sent = loop[n].ev = "key"]
  BY <1>7, StopMoves DEF LoopSends
<1>8. ASSUME NEW c \in Conn, NEW n \in Ends(c), Handle(c, n)  PROVE LocalKept
  <2>1. n \in Node /\ Peer(c, n) \in Node /\ wire[c][n] # <<>>
    BY <1>8, EndsOf DEF Handle
  <2>2. Head(wire[c][n]) \in Notes
    BY <2>1, TakenIs
  <2>3. PICK msg \in Notes : msg = Head(wire[c][n])
    BY <2>2
  <2>4. msg.id \in Nat
    BY <2>3 DEF Notes, Key, Msg
  <2>7. /\ SessionOf("target", Peer(c, n), msg.id) \in SessionStates
        /\ SessionOf("target", Peer(c, n), msg.id).peer \in Node
    BY <2>1, <2>4 DEF SessionOf, SessionStates, Peers
  <2>5. PICK s \in SessionStates : s = SessionOf("target", Peer(c, n), msg.id) /\ s.peer \in Node
    BY <2>7
  <2>6. \/ local' = local \/ local' = [local EXCEPT ![n] = Stopped(n)]
        \/ local' = [local EXCEPT ![n].session = NoSession]
        \/ local' = [local EXCEPT ![n].session = s]
    BY <1>8, <2>3, <2>5
       DEF Handle, HandleInput, HandleFwdState, HandleControl, HandleResult, HandleEnter,
           HandleReply, HandleReturn, HandleCancel
  <2> QED BY <2>1, <2>5, <2>6, LocalStays, StopMoves, SessionMoves, NoSessionIs
<1>9. ASSUME NEW c \in Conn, NEW n \in Ends(c), HandlerEnds(c, n)  PROVE LocalKept
  <2>1. n \in Node
    BY EndsOf
  <2>2. local' = local \/ local' = [local EXCEPT ![n].session = NoSession]
    BY <1>9 DEF HandlerEnds
  <2> QED BY <2>1, <2>2, LocalStays, SessionMoves, NoSessionIs
<1>10. ASSUME NEW c \in Conn, NEW n \in Ends(c), Released(c, n)  PROVE LocalKept
  <2>1. n \in Node
    BY EndsOf
  <2>2. local[n] \in Locals /\ local' = [local EXCEPT ![n].down = FALSE]
    BY <1>10, <2>1 DEF Types, Released
  <2>3. /\ [local[n] EXCEPT !.down = FALSE] \in Locals
        /\ [local[n] EXCEPT !.down = FALSE].session = local[n].session
        /\ [local[n] EXCEPT !.down = FALSE].active = local[n].active
        /\ [local[n] EXCEPT !.down = FALSE].sent = local[n].sent
    BY <2>2 DEF Locals
  <2>4. PICK v \in Locals : /\ v = [local[n] EXCEPT !.down = FALSE] /\ v.session = local[n].session
                            /\ v.active = local[n].active /\ v.sent = local[n].sent
    BY <2>3
  <2>5. (v.session # NoSession => v.session.peer \in Node) /\ local' = [local EXCEPT ![n] = v]
    BY <2>1, <2>2, <2>4 DEF Aimed
  <2> QED BY <2>1, <2>4, <2>5, LocalMoves
<1>11. ASSUME NEW c \in Conn, NEW n \in Ends(c), Links(c, n)  PROVE LocalKept
  <2>1. CASE Install(c, n) \/ HandshakeFails(c, n)
    BY <2>1, LocalStays DEF Install, HandshakeFails
  <2> QED BY <1>8, <1>9, <1>10, <1>11, <2>1 DEF Links
<1>12. CASE Users
  <2>1. ASSUME NEW n \in Node, NEW m \in Node \ {n}, Activate(n, m) \/ EdgeReached(n, m)
        PROVE  LocalKept
    BY <2>1, LocalStays DEF Activate, EdgeReached
  <2> QED BY <1>2, <1>3, <1>4, <1>12, <2>1 DEF Users
<1>13. CASE Network
  BY <1>13, LocalStays DEF Network, Connect, Break
<1>14. ASSUME NEW n \in Node, Switches(n)  PROVE LocalKept
  BY <1>5, <1>14, LocalStays DEF Switches, ActivateConfirmed, ActivateRefused
<1>15. ASSUME NEW n \in Node, Edges(n)  PROVE LocalKept
  BY <1>6, <1>15, LocalStays
     DEF Edges, EdgeRefused, EdgeAccepted, EdgeConfirmed, EdgeUnconfirmed
<1>16. ASSUME NEW n \in Node, LoopReads(n) \/ LoopDrains(n) \/ LoopTakes(n)  PROVE LocalKept
  BY <1>16, LocalStays DEF LoopReads, LoopDrains, LoopTakes
<1>17. CASE UNCHANGED vars
  BY <1>17, LocalStays DEF vars
<1> QED BY <1>2, <1>7, <1>11, <1>12, <1>13, <1>14, <1>15, <1>16, <1>17 DEF Next, Forwards

(* What the threads have read, and whom they act on.                         *)
Threads ==
  /\ queue \in [Node -> Seq(KeyEvents)] /\ inbox \in [Node -> Seq(KeyEvents)]
  /\ loop \in [Node -> Loops] /\ switch \in [Node -> SwitchStates]
  /\ edge \in [Node -> EdgeStates] /\ begun \in Nat
  /\ \A n \in Node : /\ loop[n].at # "top" => loop[n].to \in Node
                     /\ loop[n].at = "send" => loop[n].ev \in KeyEvents
                     /\ switch[n].at # "none" => switch[n].to \in Node
                     /\ edge[n].at # "watch" => edge[n].to \in Node

LEMMA ThreadsHold == ASSUME Types, Aimed  PROVE Threads
BY DEF Types, Aimed, Threads

LEMMA UsersThreads ==
  ASSUME Types, Aimed, Users  PROVE Threads'
<1>1. Threads
  BY ThreadsHold
<1>2. ASSUME NEW n \in Node, PressKey(n) \/ ReleaseKey(n)  PROVE Threads'
  <2>1. \E ev \in KeyEvents : Hook(n, ev)
    BY <1>2 DEF PressKey, ReleaseKey, KeyEvents
  <2>2. queue' \in [Node -> Seq(KeyEvents)]
    BY <1>1, <2>1 DEF Hook, Threads
  <2>3. UNCHANGED <<inbox, loop, switch, edge, begun>>
    BY <1>2 DEF PressKey, ReleaseKey, forwardRest, switchVars, edgeVars
  <2> QED BY <1>1, <2>2, <2>3 DEF Threads
<1>3. ASSUME NEW n \in Node, Return(n) \/ EdgeLeft(n)  PROVE Threads'
  <2>1. UNCHANGED <<queue, inbox, loop, switch, edge, begun>>
    BY <1>3 DEF Return, EdgeLeft, edgeRest, keyVars, switchVars, edgeVars
  <2> QED BY <1>1, <2>1 DEF Threads
<1>4. ASSUME NEW n \in Node, NEW m \in Node \ {n}, Activate(n, m)  PROVE Threads'
  <2>1. PICK at \in {"asked", "go"}, other \in BOOLEAN :
          switch' = [switch EXCEPT ![n] = [at |-> at, to |-> m, other |-> other]]
    BY <1>4 DEF Activate
  <2>2. UNCHANGED <<queue, inbox, loop, edge, begun>>
    BY <1>4 DEF Activate, keyVars, edgeVars
  <2> QED BY <1>1, <2>1, <2>2 DEF Threads, SwitchStates, Peers
<1>5. ASSUME NEW n \in Node, NEW m \in Node \ {n}, EdgeReached(n, m)  PROVE Threads'
  <2>1. \/ edge' = edge
        \/ edge' = [edge EXCEPT ![n] = [at |-> "sent", to |-> m, id |-> begun']]
    BY <1>5 DEF EdgeReached
  <2>2. begun' = begun + 1 /\ UNCHANGED <<queue, inbox, loop, switch>>
    BY <1>5 DEF EdgeReached, edgeRest, keyVars, switchVars
  <2>3. begun' \in Nat
    BY <1>1, <2>2 DEF Threads
  <2>4. [at |-> "sent", to |-> m, id |-> begun'] \in EdgeStates
    BY <2>3 DEF EdgeStates, Peers
  <2>5. PICK e \in EdgeStates : e = [at |-> "sent", to |-> m, id |-> begun']
    BY <2>4
  <2>6. e.to \in Node /\ (edge' = edge \/ edge' = [edge EXCEPT ![n] = e])
    BY <2>1, <2>5
  <2>7. /\ edge' \in [Node -> EdgeStates]
        /\ \A k \in Node : edge'[k] = edge[k] \/ edge'[k] = e
    <3>1. edge \in [Node -> EdgeStates] /\ e \in EdgeStates
      BY <1>1, <2>5 DEF Threads
    <3> QED BY <2>6, <3>1
  <2> QED BY <1>1, <2>2, <2>3, <2>6, <2>7 DEF Threads
<1> QED BY <1>2, <1>3, <1>4, <1>5 DEF Users

LEMMA ForwardsThreads ==
  ASSUME Types, Aimed, NEW n \in Node, Forwards(n) \/ Inject(n)  PROVE Threads'
<1>1. Threads
  BY ThreadsHold
<1>2. UNCHANGED <<switch, edge, begun>>
  BY DEF Forwards, Inject, LoopReads, LoopDrains, LoopTakes, LoopSends, forwardRest, switchVars, edgeVars
<1>3. AtTop \in Loops /\ AtTop.at = "top"
  BY PeerAssumption DEF AtTop, Loops, Peers
<1>4. local[n].active \in Peers
  BY LocalOf
<1>5. CASE LoopReads(n)
  <2>1. /\ loop' = [loop EXCEPT ![n] = [at |-> "wait", to |-> local[n].active, ev |-> "none"]]
        /\ local[n].active # None /\ UNCHANGED <<queue, inbox>>
    BY <1>5 DEF LoopReads
  <2>2. [at |-> "wait", to |-> local[n].active, ev |-> "none"] \in Loops /\ local[n].active \in Node
    BY <1>4, <2>1 DEF Loops, Peers
  <2> QED BY <1>1, <1>2, <2>1, <2>2 DEF Threads
<1>6. CASE LoopDrains(n)
  <2>1. queue' = [queue EXCEPT ![n] = <<>>] /\ UNCHANGED <<inbox, loop>>
    BY <1>6 DEF LoopDrains
  <2>2. queue' \in [Node -> Seq(KeyEvents)]
    BY <1>1, <2>1 DEF Threads
  <2> QED BY <1>1, <1>2, <2>1, <2>2 DEF Threads
<1>7. CASE LoopTakes(n)
  <2>1. CASE queue[n] = <<>>
    <3>1. loop' = [loop EXCEPT ![n] = AtTop] /\ UNCHANGED <<queue, inbox>>
      BY <1>7, <2>1 DEF LoopTakes
    <3> QED BY <1>1, <1>2, <1>3, <3>1 DEF Threads
  <2>2. CASE queue[n] # <<>>
    <3>1. /\ loop' = [loop EXCEPT ![n].at = "send", ![n].ev = Head(queue[n])]
          /\ queue' = [queue EXCEPT ![n] = Tail(@)] /\ inbox' = inbox
          /\ loop[n].at = "wait"
      BY <1>7, <2>2 DEF LoopTakes
    <3>2. queue[n] \in Seq(KeyEvents) /\ loop[n] \in Loops
      BY <1>1 DEF Threads
    <3>3. Head(queue[n]) \in KeyEvents /\ Tail(queue[n]) \in Seq(KeyEvents)
      BY <2>2, <3>2
    <3>4. PICK ev \in KeyEvents : ev = Head(queue[n])
      BY <3>3
    <3>5. PICK l : l = [loop[n] EXCEPT !.at = "send", !.ev = ev]
      OBVIOUS
    <3>6. l \in Loops /\ l.at = "send" /\ l.to = loop[n].to /\ l.ev = ev
      BY <3>2, <3>4, <3>5 DEF Loops
    <3>7. loop' = [loop EXCEPT ![n] = l]
      BY <3>1, <3>4, <3>5
    <3>8. queue' \in [Node -> Seq(KeyEvents)]
      BY <1>1, <3>1, <3>3 DEF Threads
    <3>9. l.to \in Node
      BY <1>1, <3>1, <3>6 DEF Threads
    <3>10. /\ loop' \in [Node -> Loops]
           /\ \A k \in Node : loop'[k] = IF k = n THEN l ELSE loop[k]
      BY <1>1, <3>6, <3>7 DEF Threads
    <3> QED BY <1>1, <1>2, <3>1, <3>4, <3>6, <3>8, <3>9, <3>10 DEF Threads
  <2> QED BY <2>1, <2>2
<1>8. CASE LoopSends(n)
  <2>1. loop' = [loop EXCEPT ![n] = AtTop] /\ UNCHANGED <<queue, inbox>>
    BY <1>8 DEF LoopSends
  <2> QED BY <1>1, <1>2, <1>3, <2>1 DEF Threads
<1>9. CASE Inject(n)
  <2>1. inbox[n] # <<>> /\ inbox' = [inbox EXCEPT ![n] = Tail(@)] /\ UNCHANGED <<queue, loop>>
    BY <1>9 DEF Inject
  <2>2. inbox' \in [Node -> Seq(KeyEvents)]
    BY <1>1, <2>1 DEF Threads
  <2> QED BY <1>1, <1>2, <2>1, <2>2 DEF Threads
<1> QED BY <1>5, <1>6, <1>7, <1>8, <1>9 DEF Forwards

LEMMA SwitchesThreads ==
  ASSUME Types, Aimed, NEW n \in Node, Switches(n)  PROVE Threads'
<1>1. Threads
  BY ThreadsHold
<1>2. UNCHANGED <<inbox, loop, edge, begun>>
  BY DEF Switches, ActivateConfirmed, ActivateRefused, ActivateGoes, keyVars, edgeVars
<1>3. queue' \in [Node -> Seq(KeyEvents)]
  <2>1. queue' = queue \/ queue' = [queue EXCEPT ![n] = <<>>]
    BY DEF Switches, ActivateConfirmed, ActivateRefused, ActivateGoes, keyVars
  <2>2. <<>> \in Seq(KeyEvents)
    OBVIOUS
  <2> QED BY <1>1, <2>1, <2>2 DEF Threads
<1>4. NoSwitch \in SwitchStates /\ NoSwitch.at = "none"
  BY DEF NoSwitch, SwitchStates, Peers
<1>5. switch[n] \in SwitchStates
  BY <1>1 DEF Threads
<1>6. /\ [switch[n] EXCEPT !.at = "go"] \in SwitchStates
      /\ [switch[n] EXCEPT !.at = "go"].to = switch[n].to
  BY <1>5 DEF SwitchStates
<1>7. PICK s \in SwitchStates : s = [switch[n] EXCEPT !.at = "go"] /\ s.to = switch[n].to
  BY <1>6
<1>8. \/ switch' = [switch EXCEPT ![n] = NoSwitch]
      \/ switch' = [switch EXCEPT ![n] = s] /\ switch[n].at = "asked"
  BY <1>7 DEF Switches, ActivateConfirmed, ActivateRefused, ActivateGoes
<1>9. /\ switch' \in [Node -> SwitchStates]
      /\ \A k \in Node : switch'[k] = IF k = n THEN switch'[n] ELSE switch[k]
      /\ switch'[n] = NoSwitch \/ (switch'[n] = s /\ switch[n].at = "asked")
  BY <1>1, <1>4, <1>7, <1>8 DEF Threads
<1>10. switch'[n].at # "none" => switch'[n].to \in Node
  BY <1>1, <1>4, <1>7, <1>9 DEF Threads
<1> QED BY <1>1, <1>2, <1>3, <1>9, <1>10 DEF Threads

LEMMA EdgesThreads ==
  ASSUME Types, Aimed, NEW n \in Node, Edges(n)  PROVE Threads'
<1>1. Threads
  BY ThreadsHold
<1>2. UNCHANGED <<queue, inbox, loop, switch, begun>>
  BY DEF Edges, EdgeRefused, EdgeAccepted, EdgeConfirmed, EdgeUnconfirmed, EdgeStarts,
         edgeRest, keyVars, switchVars
<1>3. Watching \in EdgeStates /\ Watching.at = "watch"
  BY DEF Watching, EdgeStates, Peers
<1>4. edge[n] \in EdgeStates
  BY <1>1 DEF Threads
<1>5. PICK at \in {"asked", "start"} :
        \/ edge' = [edge EXCEPT ![n] = Watching]
        \/ edge' = [edge EXCEPT ![n].at = at] /\ edge[n].at # "watch"
  BY DEF Edges, EdgeRefused, EdgeAccepted, EdgeConfirmed, EdgeUnconfirmed, EdgeStarts
<1>6. /\ [edge[n] EXCEPT !.at = at] \in EdgeStates
      /\ [edge[n] EXCEPT !.at = at].to = edge[n].to
  BY <1>4 DEF EdgeStates
<1>7. PICK e \in EdgeStates : e = [edge[n] EXCEPT !.at = at] /\ e.to = edge[n].to
  BY <1>6
<1>8. \/ edge' = [edge EXCEPT ![n] = Watching]
      \/ edge' = [edge EXCEPT ![n] = e] /\ edge[n].at # "watch"
  BY <1>5, <1>7
<1> QED BY <1>1, <1>2, <1>3, <1>7, <1>8 DEF Threads

LEMMA LinksThreads ==
  ASSUME Types, Aimed, NEW c \in Conn, NEW n \in Ends(c), Links(c, n)  PROVE Threads'
<1>1. Threads
  BY ThreadsHold
<1>2. n \in Node
  BY EndsOf
<1>3. CASE Handle(c, n)
  <2>1. UNCHANGED <<queue, loop, switch, edge, begun>>
    BY <1>3 DEF Handle
  <2>2. inbox' = inbox \/ \E ev \in KeyEvents : inbox' = [inbox EXCEPT ![n] = Append(@, ev)]
    BY <1>3 DEF Handle, HandleInput, HandleFwdState, HandleControl, HandleResult, HandleEnter,
                HandleReply, HandleReturn, HandleCancel
  <2>4. inbox[n] \in Seq(KeyEvents)
    BY <1>1, <1>2 DEF Threads
  <2>5. \A ev \in KeyEvents : Append(inbox[n], ev) \in Seq(KeyEvents)
    BY <2>4
  <2>3. inbox' \in [Node -> Seq(KeyEvents)]
    BY <1>1, <1>2, <2>2, <2>5 DEF Threads
  <2> QED BY <1>1, <2>1, <2>3 DEF Threads
<1>4. CASE Install(c, n) \/ HandshakeFails(c, n) \/ HandlerEnds(c, n) \/ Released(c, n)
  <2>1. UNCHANGED <<queue, inbox, loop, switch, edge, begun>>
    BY <1>4 DEF Install, HandshakeFails, HandlerEnds, Released, linkRest, keyVars, switchVars, edgeVars
  <2> QED BY <1>1, <2>1 DEF Threads
<1> QED BY <1>3, <1>4 DEF Links

LEMMA ThreadsNext ==
  ASSUME Types, Aimed, [Next]_vars  PROVE Threads'
<1>1. Threads
  BY ThreadsHold
<1>2. CASE UNCHANGED vars \/ Network
  <2>1. UNCHANGED <<queue, inbox, loop, switch, edge, begun>>
    BY <1>2 DEF vars, Network, Connect, Break, linkRest, keyVars, switchVars, edgeVars
  <2> QED BY <1>1, <2>1 DEF Threads
<1> QED BY <1>2, UsersThreads, ForwardsThreads, SwitchesThreads, EdgesThreads, LinksThreads DEF Next

LEMMA LinkTyped ==
  ASSUME Types, Aimed, SlotsFit, [Next]_vars
  PROVE  link' \in [Node -> [Node -> LinkStates]]
<1>1. link \in [Node -> [Node -> LinkStates]]
  BY DEF Types
<1>2. CASE link' = link
  BY <1>1, <1>2
<1>3. ASSUME NEW c \in Conn, NEW n \in Ends(c), Install(c, n)
      PROVE  link' \in [Node -> [Node -> LinkStates]]
  BY <1>3, InstallIs
<1>4. ASSUME NEW c \in Conn, NEW n \in Ends(c), HandlerEnds(c, n)
      PROVE  link' \in [Node -> [Node -> LinkStates]]
  BY <1>4, EndsIs
<1>5. ASSUME NEW n \in Node, ActivateConfirmed(n)
      PROVE  link' \in [Node -> [Node -> LinkStates]]
  <2>1. switch[n].to \in Node /\ link' = [link EXCEPT ![n][switch[n].to].fwd = FALSE]
    BY <1>5 DEF ActivateConfirmed, Aimed
  <2> QED BY <2>1, FwdStays
<1>6. ASSUME NEW c \in Conn, NEW n \in Ends(c), Handle(c, n)
      PROVE  link' \in [Node -> [Node -> LinkStates]]
  <2>1. PICK on \in BOOLEAN : link' = link \/ link' = [link EXCEPT ![n][Peer(c, n)].fwd = on]
    BY <1>6 DEF Handle, HandleInput, HandleFwdState, HandleControl, HandleResult, HandleEnter,
                HandleReply, HandleReturn, HandleCancel
  <2> QED BY <1>1, <2>1, FwdStays, EndsOf
<1>7. CASE UNCHANGED vars
  BY <1>2, <1>7 DEF vars, netVars
<1>8. CASE Users
  BY <1>2, <1>8 DEF Users, PressKey, ReleaseKey, Return, EdgeLeft, Activate, EdgeReached,
                    forwardRest, netVars
<1>9. CASE Network
  BY <1>2, <1>9 DEF Network, Connect, Break
<1>10. ASSUME NEW c \in Conn, NEW n \in Ends(c), Links(c, n)
       PROVE  link' \in [Node -> [Node -> LinkStates]]
  BY <1>2, <1>3, <1>4, <1>6, <1>10 DEF Links, HandshakeFails, Released
<1>11. ASSUME NEW n \in Node, Forwards(n) \/ Inject(n)
       PROVE  link' \in [Node -> [Node -> LinkStates]]
  BY <1>2, <1>11 DEF Forwards, Inject, LoopReads, LoopDrains, LoopTakes, LoopSends,
                     forwardRest, netVars
<1>12. ASSUME NEW n \in Node, Switches(n) \/ Edges(n)
       PROVE  link' \in [Node -> [Node -> LinkStates]]
  BY <1>2, <1>5, <1>12 DEF Switches, ActivateRefused, ActivateGoes, Edges, EdgeRefused,
                           EdgeAccepted, EdgeConfirmed, EdgeUnconfirmed, EdgeStarts, netVars
<1> QED BY <1>7, <1>8, <1>9, <1>10, <1>11, <1>12 DEF Next

LEMMA NetTyped ==
  ASSUME Types, Aimed, SlotsFit, LoopFits, [Next]_vars
  PROVE  /\ conn' \in [Conn -> {"new", "up", "broken"}] /\ handler' \in Handlers
         /\ torn' \in BOOLEAN
<1>1. conn \in [Conn -> {"new", "up", "broken"}] /\ handler \in Handlers /\ torn \in BOOLEAN
  BY DEF Types
<1>2. conn' \in [Conn -> {"new", "up", "broken"}] /\ handler' \in Handlers
  <2>1. CASE conn' = conn /\ handler' = handler
    BY <1>1, <2>1
  <2>2. ASSUME NEW c \in Conn, LinkStep(c)
        PROVE  conn' \in [Conn -> {"new", "up", "broken"}] /\ handler' \in Handlers
    <3>1. CASE Connect(c) \/ Break(c)
      BY <1>1, <3>1 DEF Connect, Break
    <3>2. ASSUME NEW n \in Ends(c), Install(c, n)
          PROVE  conn' \in [Conn -> {"new", "up", "broken"}] /\ handler' \in Handlers
      <4>1. conn' = conn \/ \E old : conn' = [conn EXCEPT ![old] = "broken"]
        BY <3>2 DEF Install
      <4> QED BY <1>1, <3>2, <4>1, InstallIs
    <3>3. ASSUME NEW n \in Ends(c), HandshakeFails(c, n) \/ HandlerEnds(c, n) \/ Released(c, n)
          PROVE  conn' \in [Conn -> {"new", "up", "broken"}] /\ handler' \in Handlers
      <4>1. conn' = conn
        BY <3>3 DEF HandshakeFails, HandlerEnds, Released
      <4> QED BY <1>1, <3>3, <4>1, FailsIs, EndsIs, ReleasedIs
    <3> QED BY <2>2, <3>1, <3>2, <3>3 DEF LinkStep
  <2>3. ASSUME NEW n \in Node, Inject(n)  PROVE conn' = conn /\ handler' = handler
    BY <2>3 DEF Inject, forwardRest, netVars
  <2> QED BY <2>1, <2>2, <2>3, StepIs DEF Talk, Presses, TakesKey, Calm
<1>3. torn' \in BOOLEAN
  <2>1. CASE torn' = torn
    BY <1>1, <2>1
  <2>2. CASE UNCHANGED vars
    BY <2>1, <2>2 DEF vars
  <2>3. CASE Users
    BY <2>1, <2>3 DEF Users, PressKey, ReleaseKey, Return, EdgeLeft, Activate, EdgeReached, edgeRest
  <2>4. CASE Network
    BY <2>1, <2>4 DEF Network, Connect, Break
  <2>5. ASSUME NEW c \in Conn, NEW n \in Ends(c), Links(c, n)  PROVE torn' \in BOOLEAN
    BY <2>1, <2>5 DEF Links, Install, HandshakeFails, Handle, HandlerEnds, Released
  <2>6. ASSUME NEW n \in Node, Forwards(n) \/ Inject(n)  PROVE torn' \in BOOLEAN
    BY <2>1, <2>6 DEF Forwards, Inject, LoopReads, LoopDrains, LoopTakes, LoopSends
  <2>7. ASSUME NEW n \in Node, Switches(n) \/ Edges(n)  PROVE torn' \in BOOLEAN
    BY <2>1, <2>7 DEF Switches, ActivateConfirmed, ActivateRefused, ActivateGoes, Edges,
                      EdgeRefused, EdgeAccepted, EdgeConfirmed, EdgeUnconfirmed, EdgeStarts, edgeRest
  <2> QED BY <2>2, <2>3, <2>4, <2>5, <2>6, <2>7 DEF Next
<1> QED BY <1>2, <1>3

LEMMA LoopNext ==
  ASSUME Types, Aimed, LoopFits, [Next]_vars
  PROVE  LoopFits'
<1>1. CASE LocalKept /\ loop' = loop
  BY <1>1 DEF LocalKept, LoopFits
<1>2. ASSUME NEW n \in Node, LoopSends(n)  PROVE LoopFits'
  <2>1. loop' = [loop EXCEPT ![n] = AtTop] /\ \A k \in Node \ {n} : local'[k] = local[k]
    BY <1>2 DEF LoopSends, Types
  <2>2. loop'[n].at = "top" /\ \A k \in Node \ {n} : loop'[k] = loop[k]
    BY <2>1 DEF AtTop, Types
  <2> QED BY <2>1, <2>2 DEF LoopFits
<1>3. ASSUME NEW n \in Node, LoopReads(n)  PROVE LoopFits'
  <2>1. /\ loop' = [loop EXCEPT ![n] = [at |-> "wait", to |-> local[n].active, ev |-> "none"]]
        /\ local' = local
    BY <1>3 DEF LoopReads
  <2>2. loop'[n].to = local[n].active /\ \A k \in Node \ {n} : loop'[k] = loop[k]
    BY <2>1 DEF Types
  <2> QED BY <2>1, <2>2 DEF LoopFits
<1>4. ASSUME NEW n \in Node, LoopTakes(n)  PROVE LoopFits'
  <2>1. local' = local /\ loop[n].at = "wait"
    BY <1>4 DEF LoopTakes
  <2>2. \/ loop' = [loop EXCEPT ![n] = AtTop]
        \/ loop' = [loop EXCEPT ![n].at = "send", ![n].ev = Head(queue[n])]
    BY <1>4 DEF LoopTakes
  <2>3. loop[n] \in Loops /\ loop \in [Node -> Loops]
    BY DEF Types
  <2>4. /\ loop'[n].at = "top" \/ loop'[n].to = loop[n].to
        /\ \A k \in Node \ {n} : loop'[k] = loop[k]
    BY <2>2, <2>3 DEF AtTop, Loops
  <2> QED BY <2>1, <2>4 DEF LoopFits
<1>5. LocalKept \/ \E n \in Node : LoopSends(n)
  BY LocalNext
<1>6. CASE LocalKept /\ ~\E n \in Node : LoopSends(n) \/ LoopReads(n) \/ LoopTakes(n)
  <2>1. CASE UNCHANGED vars
    BY <1>1, <1>6, <2>1 DEF vars, keyVars
  <2>2. CASE Users
    BY <1>1, <1>6, <2>2 DEF Users, PressKey, ReleaseKey, Return, EdgeLeft, Activate, EdgeReached,
                            edgeRest, keyVars
  <2>3. CASE Network
    BY <1>1, <1>6, <2>3 DEF Network, Connect, Break, linkRest, keyVars
  <2>4. ASSUME NEW c \in Conn, NEW n \in Ends(c), Links(c, n)  PROVE LoopFits'
    BY <1>1, <1>6, <2>4 DEF Links, Install, HandshakeFails, Handle, HandlerEnds, Released,
                            linkRest, keyVars
  <2>5. ASSUME NEW n \in Node, LoopDrains(n) \/ Inject(n)  PROVE LoopFits'
    BY <1>1, <1>6, <2>5 DEF LoopDrains, Inject
  <2>6. ASSUME NEW n \in Node, Switches(n) \/ Edges(n)  PROVE LoopFits'
    BY <1>1, <1>6, <2>6 DEF Switches, ActivateConfirmed, ActivateRefused, ActivateGoes, Edges,
                            EdgeRefused, EdgeAccepted, EdgeConfirmed, EdgeUnconfirmed, EdgeStarts,
                            edgeRest, keyVars
  <2> QED BY <1>6, <2>1, <2>2, <2>3, <2>4, <2>5, <2>6 DEF Next, Forwards
<1> QED BY <1>2, <1>3, <1>4, <1>5, <1>6

-----------------------------------------------------------------------------
(* The invariant without the keys                                            *)

Core == Types /\ Aimed /\ LinkInv /\ LoopFits

LEMMA CoreNext ==
  ASSUME Core, [Next]_vars
  PROVE  Core'
<1>1. LinkInv' /\ wire' \in Wires
  BY LinkInvNext DEF Core
<1>2. Threads' /\ LoopFits'
  BY ThreadsNext, LoopNext DEF Core
<1>3. /\ link' \in [Node -> [Node -> LinkStates]]
      /\ conn' \in [Conn -> {"new", "up", "broken"}] /\ handler' \in Handlers /\ torn' \in BOOLEAN
  BY LinkTyped, NetTyped DEF Core, LinkInv
<1>4. /\ local' \in [Node -> Locals]
      /\ \A n \in Node : local'[n].session # NoSession => local'[n].session.peer \in Node
  <2>1. CASE LocalKept
    BY <2>1 DEF LocalKept
  <2>2. ASSUME NEW n \in Node, local' = [local EXCEPT ![n].sent = loop[n].ev = "key"]
        PROVE  /\ local' \in [Node -> Locals]
               /\ \A k \in Node : local'[k].session = local[k].session
    <3>1. local \in [Node -> Locals] /\ local[n] \in Locals
      BY DEF Core, Types
    <3>2. PICK x \in BOOLEAN : x = (loop[n].ev = "key")
      OBVIOUS
    <3>3. /\ [local[n] EXCEPT !.sent = x] \in Locals
          /\ [local[n] EXCEPT !.sent = x].session = local[n].session
      BY <3>1, <3>2 DEF Locals
    <3>4. PICK v \in Locals : v = [local[n] EXCEPT !.sent = x] /\ v.session = local[n].session
      BY <3>3
    <3>5. local' = [local EXCEPT ![n] = v]
      BY <2>2, <3>2, <3>4
    <3> QED BY <3>1, <3>4, <3>5
  <2>3. ASSUME NEW n \in Node, local' = [local EXCEPT ![n].sent = loop[n].ev = "key"]
        PROVE  \A k \in Node : local'[k].session # NoSession => local'[k].session.peer \in Node
    BY <2>2, <2>3 DEF Core, Aimed
  <2> QED BY <2>1, <2>2, <2>3, LocalNext DEF Core
<1> QED BY <1>1, <1>2, <1>3, <1>4 DEF Core, Types, Aimed, Threads

LEMMA CoreInit == ASSUME Init  PROVE Core /\ KeysDue
<1>1. PICK s \in Scenarios :
        /\ conn = [c \in Conn |-> IF c \in s.linked THEN "up" ELSE "new"]
        /\ wire = [c \in Conn |-> [n \in Ends(c) |-> <<>>]]
        /\ handler = [c \in Conn |-> [n \in Ends(c) |-> IF c \in s.linked THEN "up" ELSE "none"]]
        /\ link = [n \in Node |-> [m \in Node |->
             [in |-> Joined(s, n, m, "in"), out |-> Joined(s, n, m, "out"), fwd |-> FALSE]]]
        /\ local = [n \in Node |-> Quiet]
        /\ queue = [n \in Node |-> <<>>] /\ inbox = [n \in Node |-> <<>>]
        /\ loop = [n \in Node |-> AtTop]
        /\ switch = [n \in Node |-> NoSwitch]
        /\ edge = [n \in Node |-> Watching]
        /\ begun = 0 /\ torn = FALSE
  BY DEF Init
<1>2. s.linked \subseteq Conn
  BY PeerAssumption
<1>3. ASSUME NEW n \in Node, NEW m \in Node, NEW slot \in SlotNames, Joined(s, n, m, slot) # None
      PROVE  LET c == Joined(s, n, m, slot)
             IN c \in s.linked /\ Ends(c) = {n, m} /\ n # m /\ Slot(c, n) = slot
  <2> DEFINE there == {c \in s.linked : Ends(c) = {n, m} /\ n # m /\ Slot(c, n) = slot}
  <2>1. Joined(s, n, m, slot) = IF there = {} THEN None ELSE CHOOSE c \in there : TRUE
    BY DEF Joined
  <2>2. there # {}
    BY <1>3, <2>1
  <2>3. (CHOOSE c \in there : TRUE) \in there
    BY <2>2
  <2>4. Joined(s, n, m, slot) \in there
    BY <2>1, <2>2, <2>3
  <2> QED BY <2>4
<1>4. ASSUME NEW c \in s.linked, NEW n \in Ends(c)
      PROVE  Joined(s, n, Peer(c, n), Slot(c, n)) = c
  <2>1. PICK m : m = Peer(c, n)
    OBVIOUS
  <2>2. PICK slot : slot = Slot(c, n)
    OBVIOUS
  <2> DEFINE there == {d \in s.linked : Ends(d) = {n, m} /\ n # m /\ Slot(d, n) = slot}
  <2>3. c \in there
    BY <1>2, <2>1, <2>2, EndsOf
  <2>4. ASSUME NEW d \in there  PROVE d = c
    <3>1. d \in Conn /\ c \in Conn /\ Ends(d) = {n, m} /\ Ends(c) = {n, m} /\ Slot(d, n) = Slot(c, n)
      BY <1>2, <2>2, <2>3, <2>4
    <3>2. (n = Dialer[d]) <=> (n = Dialer[c])
      BY <3>1 DEF Slot
    <3>3. Dialer[c] # Acceptor[c] /\ Dialer[d] # Acceptor[d]
      BY <3>1, PeerAssumption
    <3>4. {Dialer[d], Acceptor[d]} = {Dialer[c], Acceptor[c]}
      BY <3>1 DEF Ends
    <3>5. n \in {Dialer[c], Acceptor[c]}
      BY DEF Ends
    <3>6. Dialer[c] = Dialer[d] /\ Acceptor[c] = Acceptor[d]
      BY <3>2, <3>3, <3>4, <3>5
    <3> QED BY <2>4, <3>6, PeerAssumption
  <2>5. Joined(s, n, m, slot) = IF there = {} THEN None ELSE CHOOSE d \in there : TRUE
    BY DEF Joined
  <2>6. (CHOOSE d \in there : TRUE) \in there
    BY <2>3
  <2>7. Joined(s, n, m, slot) = c
    BY <2>3, <2>4, <2>5, <2>6
  <2> QED BY <2>1, <2>2, <2>7
<1>5. \A n, m \in Node : Joined(s, n, m, "in") \in Conn \cup {None}
                         /\ Joined(s, n, m, "out") \in Conn \cup {None}
  BY <1>2, <1>3 DEF SlotNames
<1>6. link \in [Node -> [Node -> LinkStates]]
  BY <1>1, <1>5 DEF LinkStates
<1>7. conn \in [Conn -> {"new", "up", "broken"}]
  BY <1>1
<1>8. wire \in Wires
  <2>1. \A c \in Conn : wire[c] \in WiresOf(c)
    BY <1>1 DEF WiresOf
  <2>2. wire \in [Conn -> UNION {WiresOf(c) : c \in Conn}]
    BY <1>1, <2>1
  <2> QED BY <2>1, <2>2 DEF Wires
<1>9. handler \in Handlers
  <2>1. \A c \in Conn : handler[c] \in HandlersOf(c)
    BY <1>1 DEF HandlersOf, HandlerStates
  <2>2. handler \in [Conn -> UNION {HandlersOf(c) : c \in Conn}]
    BY <1>1, <2>1
  <2> QED BY <2>1, <2>2 DEF Handlers
<1>10. /\ Quiet \in Locals /\ Quiet.session = NoSession /\ Quiet.sent = FALSE /\ Quiet.down = FALSE
       /\ AtTop \in Loops /\ AtTop.at = "top"
       /\ NoSwitch \in SwitchStates /\ NoSwitch.at = "none"
       /\ Watching \in EdgeStates /\ Watching.at = "watch"
  <2>1. /\ Quiet \in Locals /\ Quiet.session = NoSession /\ Quiet.sent = FALSE
        /\ Quiet.down = FALSE
    BY NoSessionIs DEF Quiet, Locals, Peers
  <2>2. AtTop \in Loops /\ AtTop.at = "top"
    BY DEF AtTop, Loops, Peers
  <2>3. NoSwitch \in SwitchStates /\ NoSwitch.at = "none"
    BY DEF NoSwitch, SwitchStates, Peers
  <2>4. Watching \in EdgeStates /\ Watching.at = "watch"
    BY DEF Watching, EdgeStates, Peers
  <2> QED BY <2>1, <2>2, <2>3, <2>4
<1>11. Types
  <2>1. local \in [Node -> Locals] /\ loop \in [Node -> Loops]
    BY <1>1, <1>10
  <2>2. switch \in [Node -> SwitchStates] /\ edge \in [Node -> EdgeStates]
    BY <1>1, <1>10
  <2>3. queue \in [Node -> Seq(KeyEvents)] /\ inbox \in [Node -> Seq(KeyEvents)]
    BY <1>1
  <2>4. begun \in Nat /\ torn \in BOOLEAN
    BY <1>1
  <2> QED BY <1>6, <1>7, <1>8, <1>9, <2>1, <2>2, <2>3, <2>4 DEF Types
<1>12. Aimed /\ LoopFits
  BY <1>1, <1>10 DEF Aimed, LoopFits
<1>13. \A n, m \in Node : link[n][m].in = Joined(s, n, m, "in") /\ link[n][m].out = Joined(s, n, m, "out")
  BY <1>1
<1>14. SlotsFit
  <2>1. ASSUME NEW n \in Node, NEW m \in Node, NEW slot \in SlotNames, Joined(s, n, m, slot) # None
        PROVE  LET c == Joined(s, n, m, slot)
               IN n \in Ends(c) /\ Peer(c, n) = m /\ Slot(c, n) = slot /\ handler[c][n] = "up"
    <3>1. PICK c : c = Joined(s, n, m, slot)
      OBVIOUS
    <3>2. c \in s.linked /\ Ends(c) = {n, m} /\ n # m /\ Slot(c, n) = slot
      BY <1>3, <2>1, <3>1
    <3>3. c \in Conn /\ n \in Ends(c) /\ m \in Ends(c)
      BY <1>2, <3>2
    <3>4. Peer(c, n) = m
      BY <3>2, <3>3, EndsOf
    <3>5. handler[c][n] = "up"
      BY <1>1, <3>2, <3>3
    <3> QED BY <3>1, <3>2, <3>3, <3>4, <3>5
  <2> QED BY <1>13, <2>1 DEF SlotsFit, SlotNames
<1>15. SlotsLive
  <2>1. SUFFICES ASSUME NEW c \in Conn, NEW n \in Ends(c), conn[c] = "up"
                 PROVE  link[n][Peer(c, n)][Slot(c, n)] = c
    BY DEF SlotsLive
  <2>2. c \in s.linked
    BY <1>1, <2>1
  <2>3. n \in Node /\ Peer(c, n) \in Node
    BY EndsOf
  <2> QED BY <1>4, <1>13, <2>2, <2>3 DEF Slot
<1>16. HandlersFit
  BY <1>1 DEF HandlersFit
<1>17. KeysDue
  BY <1>1, <1>10, EndsOf DEF KeysDue, DownDue, InboxDue, InboxEnded, WireDue, WireEnded, Ended
<1> QED BY <1>11, <1>12, <1>14, <1>15, <1>16, <1>17 DEF Core, LinkInv

-----------------------------------------------------------------------------
(* The keys                                                                  *)

LEMMA UnderIs ==
  ASSUME NEW c \in Conn, NEW n \in Ends(c)
  PROVE  Under(c, n, "key_up") <=> Holds(wire[c][n], Key("key_up"))
BY DEF Under, Holds

LEMMA UnderNext ==
  ASSUME NEW c \in Conn, NEW n \in Ends(c)
  PROVE  Under(c, n, "key_up")' <=> Holds(wire'[c][n], Key("key_up"))
BY DEF Under, Holds, Key, Msg

(* As long as whatever releases at n stays, and so does the inbox.           *)
LEMMA DueStays ==
  ASSUME KeysDue, NEW n \in Node, Coming(n) => Coming(n)', inbox'[n] = inbox[n],
         local'[n].down = local[n].down
  PROVE  DownDue(n)' /\ InboxDue(n)'
BY DEF KeysDue, DownDue, InboxDue, InboxEnded, Waiting

(* Conn and handlers as they were, and no release lost on the wire: then     *)
(* what is due stays due if who tracks goes on to, or has told.              *)
LEMMA ComingStays ==
  ASSUME Core, Calm, NEW n \in Node,
         \A c \in Conn : n \in Ends(c) /\ Holds(wire[c][n], Key("key_up"))
                           => Holds(wire'[c][n], Key("key_up")),
         \A m \in Node : Tracks(m, n) => Tracking(m, n) \/ Told(wire', m, n),
         Coming(n)
  PROVE  Coming(n)'
<1>1. CASE \E m \in Node : Tracks(m, n)
  <2>1. PICK m \in Node : Tracks(m, n)
    BY <1>1
  <2>2. CASE Tracking(m, n)
    <3>1. Tracks(m, n)'
      BY <2>1, <2>2, CalmVia DEF Tracks, Tracking
    <3> QED BY <3>1 DEF Coming
  <2>3. CASE Told(wire', m, n)
    <3>1. PICK c \in Conn : c = Via(m, n) /\ n \in Ends(c)
      BY <2>1, ViaFits DEF Tracks, Alive, Core, LinkInv
    <3>2. Under(c, n, "key_up")'
      BY <2>3, <3>1, UnderNext DEF Told
    <3> QED BY <3>1, <3>2 DEF Coming
  <2> QED BY <2>1, <2>2, <2>3
<1>2. CASE \E c \in Conn : n \in Ends(c) /\ Under(c, n, "key_up")
  <2>1. PICK c \in Conn : n \in Ends(c) /\ Under(c, n, "key_up")
    BY <1>2
  <2>2. Under(c, n, "key_up")'
    BY <2>1, UnderIs, UnderNext
  <2> QED BY <2>1, <2>2 DEF Coming
<1>3. CASE \E c \in Conn : n \in Ends(c) /\ (handler[c][n] = "leaving" \/ Broken(c, n))
  BY <1>3 DEF Coming, Calm, Broken
<1> QED BY <1>1, <1>2, <1>3 DEF Coming

LEMMA WireStaysDue ==
  ASSUME Core, Core', Calm, NEW c \in Conn, NEW n \in Ends(c), WireDue(c, n),
         WireEnded(wire, c, n) => WireEnded(wire', c, n),
         \A m \in Node : Tracks(m, n) => Tracking(m, n) \/ Told(wire', m, n)
  PROVE  WireDue(c, n)'
<1>1. n \in Node /\ Peer(c, n) \in Node
  BY EndsOf
<1>2. CASE WireEnded(wire, c, n)
  BY <1>2 DEF WireDue, WireEnded, Ended
<1>3. CASE conn[c] = "broken"
  BY <1>3 DEF WireDue, Calm
<1>4. CASE Tracks(Peer(c, n), n) /\ Via(Peer(c, n), n) = c
  <2>1. CASE Tracking(Peer(c, n), n)
    BY <1>1, <1>4, <2>1, CalmVia DEF WireDue, Tracks, Tracking
  <2>2. CASE Told(wire', Peer(c, n), n)
    BY <1>4, <2>2 DEF WireDue, Told, WireEnded, Ended
  <2> QED BY <1>1, <1>4, <2>1, <2>2
<1> QED BY <1>2, <1>3, <1>4 DEF WireDue

LEMMA TalkKeys ==
  ASSUME Core, Core', KeysDue, Talk
  PROVE  KeyInv'
<1>1. CASE torn'
  BY <1>1 DEF KeyInv
<1>2. CASE ~torn'
  <2>1. /\ Calm /\ Kept(wire, wire') /\ inbox' = inbox
        /\ \A n \in Node : local'[n].down = local[n].down
        /\ \A n, m \in Node : Tracks(n, m) => Tracking(n, m) \/ Told(wire', n, m)
    BY <1>2 DEF Talk
  <2>2. ASSUME NEW n \in Node  PROVE DownDue(n)' /\ InboxDue(n)'
    <3>1. \A c \in Conn : n \in Ends(c) /\ Holds(wire[c][n], Key("key_up"))
                            => Holds(wire'[c][n], Key("key_up"))
      BY <2>1 DEF Kept
    <3>2. Coming(n) => Coming(n)'
      BY <2>1, <3>1, ComingStays
    <3> QED BY <2>1, <3>2, DueStays
  <2>3. ASSUME NEW c \in Conn, NEW n \in Ends(c)  PROVE WireDue(c, n)'
    <3>1. n \in Node /\ WireDue(c, n) /\ (WireEnded(wire, c, n) => WireEnded(wire', c, n))
      BY <2>1, EndsOf DEF KeysDue, Kept
    <3> QED BY <2>1, <3>1, WireStaysDue
  <2> QED BY <2>2, <2>3 DEF KeyInv, KeysDue
<1> QED BY <1>1, <1>2

LEMMA PressKeys ==
  ASSUME Core, Core', KeysDue, NEW n \in Node, NEW m \in Node, Presses(n, m)
  PROVE  KeyInv'
<1>1. /\ Calm /\ inbox' = inbox /\ wire' = Put(wire, n, m, <<Key("key")>>)
      /\ \A k \in Node : local'[k].down = local[k].down
      /\ \A k \in Node \ {n} : local'[k] = local[k]
      /\ local'[n].active = local[n].active /\ local'[n].sent
      /\ torn' \/ local[n].active = m
  BY DEF Presses
<1>2. \A c \in Conn : \A k \in Ends(c) :
        wire'[c][k] = IF Alive(n, m) /\ c = Via(n, m) /\ k = m
                      THEN wire[c][k] \o <<Key("key")>> ELSE wire[c][k]
  BY <1>1, PressIsSafe DEF Core, LinkInv
<1>3. CASE torn'
  BY <1>3 DEF KeyInv
<1>4. CASE ~torn'
  <2>1. \A k, j \in Node : Tracks(k, j) => Tracking(k, j)
    BY <1>1 DEF Tracks, Tracking
  <2>2. ASSUME NEW c \in Conn, NEW k \in Ends(c), Holds(wire[c][k], Key("key_up"))
        PROVE  Holds(wire'[c][k], Key("key_up"))
    <3>1. wire[c][k] \in Seq(Notes)
      BY WireSeq DEF Core, Types
    <3>2. Key("key") # Key("key_up") /\ Key("key") \in Notes
      BY DEF Key, Msg, Notes
    <3>3. <<Key("key")>> \in Seq(Notes) /\ \A i \in 1..Len(<<Key("key")>>) : <<Key("key")>>[i] # Key("key_up")
      BY <3>2
    <3>4. Holds(wire[c][k] \o <<Key("key")>>, Key("key_up"))
      BY <2>2, <3>1, <3>3, ConcatKeeps
    <3> QED BY <1>2, <2>2, <3>4
  <2>3. ASSUME NEW k \in Node  PROVE DownDue(k)' /\ InboxDue(k)'
    <3>1. Coming(k) => Coming(k)'
      BY <1>1, <2>1, <2>2, ComingStays
    <3> QED BY <1>1, <3>1, DueStays
  <2>4. ASSUME NEW c \in Conn, NEW k \in Ends(c)  PROVE WireDue(c, k)'
    <3>1. CASE Alive(n, m) /\ c = Via(n, m) /\ k = m
      <4>1. Peer(c, k) = n
        BY <3>1, ViaFits DEF Alive, Core, LinkInv
      <4>2. Alive(n, m)' /\ Via(n, m)' = c
        BY <1>1, <3>1, CalmVia
      <4>3. Tracks(n, m)'
        BY <1>1, <1>4, <4>2 DEF Tracks
      <4> QED BY <3>1, <4>1, <4>2, <4>3 DEF WireDue
    <3>2. CASE ~(Alive(n, m) /\ c = Via(n, m) /\ k = m)
      <4>1. wire'[c][k] = wire[c][k]
        BY <1>2, <3>2
      <4>2. WireEnded(wire, c, k) => WireEnded(wire', c, k)
        BY <4>1 DEF WireEnded
      <4>3. WireDue(c, k) /\ k \in Node
        BY EndsOf DEF KeysDue
      <4> QED BY <1>1, <2>1, <4>2, <4>3, WireStaysDue
    <3> QED BY <3>1, <3>2
  <2> QED BY <2>3, <2>4 DEF KeyInv, KeysDue
<1> QED BY <1>3, <1>4

LEMMA TakeKeys ==
  ASSUME Core, Core', KeysDue, NEW c \in Conn, NEW n \in Ends(c), TakesKey(c, n)
  PROVE  KeysDue'
<1>1. /\ wire[c][n] # <<>> /\ handler[c][n] = "up"
      /\ Head(wire[c][n]) \in {Key("key"), Key("key_up")}
      /\ wire' = Taken(c, n) /\ inbox' = [inbox EXCEPT ![n] = Append(@, Head(wire[c][n]).says)]
      /\ Calm /\ local' = local
  BY DEF TakesKey
<1>2. n \in Node /\ Types
  BY EndsOf DEF Core
<1>3. \A d \in Conn : \A k \in Ends(d) :
        wire'[d][k] = IF d = c /\ k = n THEN Tail(wire[c][n]) ELSE wire[d][k]
  BY <1>1, <1>2, TakenIs
<1>4. wire[c][n] \in Seq(Notes)
  BY <1>2, WireSeq DEF Types
<1>5. \A k, j \in Node : Tracks(k, j) => Tracking(k, j)
  BY <1>1 DEF Tracks, Tracking
<1>6. inbox[n] \in Seq(KeyEvents) /\ \A k \in Node \ {n} : inbox'[k] = inbox[k]
  BY <1>1, <1>2 DEF Types
<1>7. ASSUME NEW k \in Node \ {n}  PROVE DownDue(k)' /\ InboxDue(k)'
  <2>1. Coming(k) => Coming(k)'
    BY <1>1, <1>3, <1>5, ComingStays
  <2> QED BY <1>1, <1>6, <2>1, DueStays
<1>8. ASSUME NEW d \in Conn, NEW k \in Ends(d)  PROVE WireDue(d, k)'
  <2>1. WireEnded(wire, d, k) => WireEnded(wire', d, k)
    <3>1. CASE d = c /\ k = n
      <4>1. Ended(wire[c][n], Key("key"), Key("key_up"))
              => Ended(Tail(wire[c][n]), Key("key"), Key("key_up"))
        BY <1>1, <1>4, TailKeeps
      <4> QED BY <1>3, <3>1, <4>1 DEF WireEnded
    <3>2. CASE ~(d = c /\ k = n)
      BY <1>3, <3>2 DEF WireEnded
    <3> QED BY <3>1, <3>2
  <2>2. WireDue(d, k) /\ k \in Node
    BY EndsOf DEF KeysDue
  <2> QED BY <1>1, <1>5, <2>1, <2>2, WireStaysDue
<1>9. CASE Head(wire[c][n]) = Key("key_up")
  <2>1. inbox'[n] = Append(inbox[n], "key_up")
    BY <1>1, <1>2, <1>9 DEF Types, Key, Msg
  <2>2. PICK x \in KeyEvents : x = "key_up"
    BY DEF KeyEvents
  <2>3. Append(inbox[n], x) = inbox[n] \o <<x>>
    BY <1>6, AppendIsConcat
  <2>4. /\ <<x>> \in Seq(KeyEvents) /\ \A i \in 1..Len(<<x>>) : <<x>>[i] # "key"
        /\ Holds(<<x>>, "key_up")
    BY <2>2 DEF Holds
  <2>5. Holds(inbox[n] \o <<x>>, "key_up") /\ Ended(inbox[n] \o <<x>>, "key", "key_up")
    BY <1>6, <2>4, ConcatEnds
  <2>6. Holds(inbox'[n], "key_up") /\ Ended(inbox'[n], "key", "key_up")
    BY <2>1, <2>2, <2>3, <2>5
  <2>7. DownDue(n)' /\ InboxDue(n)'
    BY <2>6 DEF DownDue, InboxDue, InboxEnded, Waiting, Holds
  <2> QED BY <1>7, <1>8, <2>7 DEF KeysDue
<1>10. CASE Head(wire[c][n]) = Key("key")
  <2>1. Coming(n)'
    <3>1. CASE WireEnded(wire, c, n)
      <4>1. Holds(Tail(wire[c][n]), Key("key_up"))
        BY <1>1, <1>4, <1>10, <3>1, TailKeeps DEF WireEnded
      <4>2. Under(c, n, "key_up")'
        BY <1>3, <4>1, UnderNext
      <4> QED BY <4>2 DEF Coming
    <3>2. CASE Tracks(Peer(c, n), n)
      <4>1. PICK m \in Node : m = Peer(c, n)
        BY EndsOf
      <4>2. Tracks(m, n)'
        BY <1>1, <1>2, <3>2, <4>1, CalmVia DEF Tracks
      <4> QED BY <4>2 DEF Coming
    <3>3. CASE conn[c] = "broken"
      BY <1>1, <3>3 DEF Coming, Broken, Calm
    <3>4. WireDue(c, n)
      BY DEF KeysDue
    <3> QED BY <3>1, <3>2, <3>3, <3>4 DEF WireDue
  <2>2. DownDue(n)' /\ InboxDue(n)'
    BY <2>1 DEF DownDue, InboxDue
  <2> QED BY <1>7, <1>8, <2>2 DEF KeysDue
<1> QED BY <1>1, <1>9, <1>10

LEMMA InjectKeys ==
  ASSUME Core, Core', KeysDue, NEW n \in Node, Inject(n)
  PROVE  KeysDue'
<1>1. /\ inbox[n] # <<>> /\ inbox' = [inbox EXCEPT ![n] = Tail(@)]
      /\ local' = [local EXCEPT ![n].down = Head(inbox[n]) = "key"]
      /\ UNCHANGED <<conn, wire, handler, link>>
  BY DEF Inject, forwardRest, netVars
<1>2. Types
  BY DEF Core
<1>3. Calm
  BY <1>1, LinkStays DEF Calm
<1>4. \A k \in Node : local'[k].active = local[k].active /\ local'[k].sent = local[k].sent
  BY <1>1, <1>2 DEF Types, Locals
<1>5. \A k, j \in Node : Tracks(k, j) => Tracking(k, j)
  BY <1>4 DEF Tracks, Tracking
<1>6. \A k \in Node : Coming(k) => Coming(k)'
  BY <1>1, <1>3, <1>5, ComingStays
<1>7. \A k \in Node \ {n} : local'[k].down = local[k].down /\ inbox'[k] = inbox[k]
  BY <1>1, <1>2 DEF Types
<1>8. ASSUME NEW k \in Node \ {n}  PROVE DownDue(k)' /\ InboxDue(k)'
  BY <1>6, <1>7, DueStays
<1>9. inbox[n] \in Seq(KeyEvents) /\ inbox'[n] = Tail(inbox[n])
  BY <1>1, <1>2 DEF Types
<1>10. /\ Ended(inbox[n], "key", "key_up") => Ended(inbox'[n], "key", "key_up")
       /\ Ended(inbox[n], "key", "key_up") /\ Head(inbox[n]) = "key" => Holds(inbox'[n], "key_up")
  BY <1>1, <1>9, TailKeeps
<1>11. InboxEnded(n) \/ Coming(n)
  BY DEF KeysDue, InboxDue
<1>12. InboxDue(n)'
  BY <1>6, <1>10, <1>11 DEF InboxDue, InboxEnded
<1>13. DownDue(n)'
  <2>1. CASE Head(inbox[n]) = "key"
    BY <1>6, <1>10, <1>11, <2>1 DEF DownDue, InboxEnded, Waiting, Holds
  <2>2. CASE Head(inbox[n]) # "key"
    <3>1. ~local'[n].down
      BY <1>1, <1>2, <2>2 DEF Types, Locals
    <3> QED BY <3>1 DEF DownDue
  <2> QED BY <2>1, <2>2
<1>14. ASSUME NEW d \in Conn, NEW k \in Ends(d)  PROVE WireDue(d, k)'
  <2>1. WireDue(d, k) /\ k \in Node
    BY EndsOf DEF KeysDue
  <2> QED BY <1>1, <1>3, <1>5, <2>1, WireStaysDue
<1> QED BY <1>8, <1>12, <1>13, <1>14 DEF KeysDue

(* With no key down and none in the inbox nothing is due.                    *)
LEMMA NothingDue ==
  ASSUME NEW n \in Node, ~local'[n].down, inbox' = inbox, ~Waiting(n, "key")
  PROVE  DownDue(n)' /\ InboxDue(n)'
BY DEF DownDue, InboxDue, InboxEnded, Ended, Waiting

LEMMA ConnectKeys ==
  ASSUME Core, Core', KeysDue, NEW c \in Conn, Connect(c)
  PROVE  KeysDue'
<1>1. /\ conn[c] = "new" /\ conn' = [conn EXCEPT ![c] = "up"]
      /\ UNCHANGED <<wire, handler, link, local, inbox>>
  BY DEF Connect, linkRest, keyVars
<1>2. \A d \in Conn : conn[d] # "new" => conn'[d] = conn[d]
  BY <1>1 DEF Core, Types
<1>3. ASSUME NEW m \in Node, NEW n \in Node, Tracks(m, n)
      PROVE  Tracks(m, n)' /\ Via(m, n)' = Via(m, n)
  <2>1. Via(m, n)' = Via(m, n) /\ Linked(m, n)' = Linked(m, n)
    BY <1>1 DEF Via, Linked
  <2>2. Via(m, n) \in Conn /\ conn[Via(m, n)] = "up"
    BY <1>3, ViaFits DEF Tracks, Alive, Core, LinkInv
  <2>3. Alive(m, n)'
    BY <1>2, <1>3, <2>1, <2>2 DEF Tracks, Alive
  <2> QED BY <1>1, <1>3, <2>1, <2>3 DEF Tracks
<1>4. ASSUME NEW n \in Node  PROVE DownDue(n)' /\ InboxDue(n)'
  <2>1. ASSUME NEW d \in Conn, n \in Ends(d), Under(d, n, "key_up")  PROVE Under(d, n, "key_up")'
    BY <1>1, <2>1, UnderIs, UnderNext
  <2>2. ASSUME NEW d \in Conn, n \in Ends(d), handler[d][n] = "leaving" \/ Broken(d, n)
        PROVE  handler'[d][n] = "leaving" \/ Broken(d, n)'
    BY <1>1, <1>2, <2>2 DEF Broken
  <2>3. Coming(n) => Coming(n)'
    BY <1>3, <2>1, <2>2 DEF Coming
  <2> QED BY <1>1, <2>3, DueStays
<1>5. ASSUME NEW d \in Conn, NEW n \in Ends(d)  PROVE WireDue(d, n)'
  <2>1. WireDue(d, n) /\ n \in Node /\ Peer(d, n) \in Node
    BY EndsOf DEF KeysDue
  <2>2. CASE WireEnded(wire, d, n)
    BY <1>1, <2>2 DEF WireDue, WireEnded, Ended
  <2>3. CASE Tracks(Peer(d, n), n) /\ Via(Peer(d, n), n) = d
    BY <1>3, <2>1, <2>3 DEF WireDue
  <2>4. CASE conn[d] = "broken"
    BY <1>2, <2>4 DEF WireDue
  <2> QED BY <2>1, <2>2, <2>3, <2>4 DEF WireDue
<1> QED BY <1>4, <1>5 DEF KeysDue

LEMMA BreakKeys ==
  ASSUME Core, Core', KeysDue, NEW c \in Conn, Break(c)
  PROVE  KeysDue'
<1>1. /\ conn[c] = "up" /\ conn'[c] = "broken" /\ \A d \in Conn \ {c} : conn'[d] = conn[d]
      /\ \A d \in Conn \ {c} : \A k \in Ends(d) : wire'[d][k] = wire[d][k]
      /\ UNCHANGED <<handler, link, local, inbox>>
  BY BreakIs DEF Core
<1>2. ASSUME NEW m \in Node, NEW n \in Node, Tracks(m, n), Via(m, n) # c
      PROVE  Tracks(m, n)' /\ Via(m, n)' = Via(m, n)
  <2>1. Via(m, n)' = Via(m, n) /\ Linked(m, n)' = Linked(m, n)
    BY <1>1 DEF Via, Linked
  <2>2. Via(m, n) \in Conn
    BY <1>2, ViaFits DEF Tracks, Alive, Core, LinkInv
  <2>3. Alive(m, n)'
    BY <1>1, <1>2, <2>1, <2>2 DEF Tracks, Alive
  <2> QED BY <1>1, <1>2, <2>1, <2>3 DEF Tracks
<1>3. ASSUME NEW n \in Ends(c)  PROVE Broken(c, n)' /\ Coming(n)'
  <2>1. handler[c][n] \in HandlerStates
    <3>1. handler[c] \in HandlersOf(c)
      BY DEF Core, Types, Handlers
    <3> QED BY <3>1 DEF HandlersOf
  <2>2. handler[c][n] \notin {"leaving", "gone"}
    BY <1>1 DEF Core, LinkInv, HandlersFit
  <2>3. Broken(c, n)'
    BY <1>1, <2>1, <2>2 DEF Broken, HandlerStates
  <2> QED BY <2>3 DEF Coming
<1>4. ASSUME NEW n \in Node  PROVE DownDue(n)' /\ InboxDue(n)'
  <2>1. CASE n \in Ends(c)
    BY <1>3, <2>1 DEF DownDue, InboxDue
  <2>2. CASE n \notin Ends(c)
    <3>1. ASSUME NEW m \in Node, Tracks(m, n)  PROVE Tracks(m, n)'
      <4>1. n \in Ends(Via(m, n))
        BY <3>1, ViaFits DEF Tracks, Alive, Core, LinkInv
      <4> QED BY <1>2, <2>2, <3>1, <4>1
    <3>2. ASSUME NEW d \in Conn, n \in Ends(d), Under(d, n, "key_up")  PROVE Under(d, n, "key_up")'
      <4>1. d # c
        BY <2>2, <3>2
      <4>2. wire'[d][n] = wire[d][n]
        BY <1>1, <3>2, <4>1
      <4> QED BY <3>2, <4>2, UnderIs, UnderNext
    <3>3. ASSUME NEW d \in Conn, n \in Ends(d), handler[d][n] = "leaving" \/ Broken(d, n)
          PROVE  handler'[d][n] = "leaving" \/ Broken(d, n)'
      <4>1. d # c
        BY <2>2, <3>3
      <4> QED BY <1>1, <3>3, <4>1 DEF Broken
    <3>4. Coming(n) => Coming(n)'
      BY <3>1, <3>2, <3>3 DEF Coming
    <3> QED BY <1>1, <3>4, DueStays
  <2> QED BY <2>1, <2>2
<1>5. ASSUME NEW d \in Conn, NEW n \in Ends(d)  PROVE WireDue(d, n)'
  <2>1. WireDue(d, n) /\ n \in Node /\ Peer(d, n) \in Node
    BY EndsOf DEF KeysDue
  <2>2. CASE d = c
    BY <1>1, <2>2 DEF WireDue
  <2>3. CASE d # c
    <3>1. CASE WireEnded(wire, d, n)
      BY <1>1, <2>3, <3>1 DEF WireDue, WireEnded, Ended
    <3>2. CASE Tracks(Peer(d, n), n) /\ Via(Peer(d, n), n) = d
      BY <1>2, <2>1, <2>3, <3>2 DEF WireDue
    <3>3. CASE conn[d] = "broken"
      BY <1>1, <2>3, <3>3 DEF WireDue
    <3> QED BY <2>1, <3>1, <3>2, <3>3 DEF WireDue
  <2> QED BY <2>2, <2>3
<1> QED BY <1>4, <1>5 DEF KeysDue

(* The wires and the ways stay; the handler c of n has nothing more to do.   *)
LEMMA EndKeys ==
  ASSUME Core, Core', KeysDue, NEW c \in Conn, NEW n \in Ends(c),
         conn' = conn, inbox' = inbox, conn[c] = "broken",
         \A d \in Conn : \A k \in Ends(d) : d # c \/ k # n =>
           wire'[d][k] = wire[d][k] /\ handler'[d][k] = handler[d][k],
         \A m, k \in Node : Tracks(m, k) => Tracks(m, k)' /\ Via(m, k)' = Via(m, k),
         \A k \in Node \ {n} : local'[k].down = local[k].down,
         DownDue(n)' /\ InboxDue(n)'
  PROVE  KeysDue'
<1>1. ASSUME NEW k \in Node \ {n}  PROVE DownDue(k)' /\ InboxDue(k)'
  <2>1. ASSUME NEW d \in Conn, k \in Ends(d), Under(d, k, "key_up")  PROVE Under(d, k, "key_up")'
    BY <2>1, UnderIs, UnderNext
  <2>2. ASSUME NEW d \in Conn, k \in Ends(d), handler[d][k] = "leaving" \/ Broken(d, k)
        PROVE  handler'[d][k] = "leaving" \/ Broken(d, k)'
    BY <2>2 DEF Broken
  <2>3. Coming(k) => Coming(k)'
    BY <2>1, <2>2 DEF Coming
  <2> QED BY <2>3, DueStays
<1>2. ASSUME NEW d \in Conn, NEW k \in Ends(d)  PROVE WireDue(d, k)'
  <2>1. WireDue(d, k) /\ k \in Node /\ Peer(d, k) \in Node
    BY EndsOf DEF KeysDue
  <2>2. CASE d = c /\ k = n
    BY <2>2 DEF WireDue
  <2>3. CASE d # c \/ k # n
    <3>1. CASE WireEnded(wire, d, k)
      BY <2>3, <3>1 DEF WireDue, WireEnded, Ended
    <3>2. CASE Tracks(Peer(d, k), k) /\ Via(Peer(d, k), k) = d
      BY <2>1, <3>2 DEF WireDue
    <3>3. CASE conn[d] = "broken"
      BY <3>3 DEF WireDue
    <3> QED BY <2>1, <3>1, <3>2, <3>3 DEF WireDue
  <2> QED BY <2>2, <2>3
<1> QED BY <1>1, <1>2 DEF KeysDue

LEMMA SameWay ==
  ASSUME conn' = conn, link' = link, NEW m \in Node, NEW k \in Node, Tracks(m, k),
         local'[m].active = local[m].active, local'[m].sent = local[m].sent
  PROVE  Tracks(m, k)' /\ Via(m, k)' = Via(m, k)
BY DEF Tracks, Alive, Linked, Via

LEMMA FailsKeys ==
  ASSUME Core, Core', KeysDue, NEW c \in Conn, NEW n \in Ends(c), HandshakeFails(c, n)
  PROVE  KeyInv'
<1>1. /\ conn[c] = "broken"
      /\ \A d \in Conn : \A k \in Ends(d) : d # c \/ k # n =>
           wire'[d][k] = wire[d][k] /\ handler'[d][k] = handler[d][k]
      /\ torn' = (torn \/ KeyStays(n))
      /\ conn' = conn /\ link' = link /\ local' = local /\ inbox' = inbox
  BY FailsIs DEF Core
<1>2. CASE torn'
  BY <1>2 DEF KeyInv
<1>3. CASE ~torn'
  <2>1. n \in Node /\ ~local'[n].down /\ ~Waiting(n, "key")
    BY <1>1, <1>3, EndsOf DEF KeyStays
  <2>2. DownDue(n)' /\ InboxDue(n)'
    BY <1>1, <2>1, NothingDue
  <2>3. \A m, k \in Node : Tracks(m, k) => Tracks(m, k)' /\ Via(m, k)' = Via(m, k)
    BY <1>1, SameWay
  <2>4. KeysDue'
    BY <1>1, <2>2, <2>3, EndKeys
  <2> QED BY <2>4 DEF KeyInv
<1> QED BY <1>2, <1>3

LEMMA ReleasedKeys ==
  ASSUME Core, Core', KeysDue, NEW c \in Conn, NEW n \in Ends(c), Released(c, n)
  PROVE  KeyInv'
<1>1. /\ handler[c][n] = "leaving"
      /\ \A d \in Conn : \A k \in Ends(d) : d # c \/ k # n => handler'[d][k] = handler[d][k]
      /\ \A k \in Node : /\ local'[k].active = local[k].active /\ local'[k].sent = local[k].sent
                         /\ k # n => local'[k].down = local[k].down
      /\ ~local'[n].down /\ torn' = (torn \/ Waiting(n, "key"))
      /\ conn' = conn /\ wire' = wire /\ link' = link /\ inbox' = inbox
  BY ReleasedIs DEF Core
<1>2. CASE torn'
  BY <1>2 DEF KeyInv
<1>3. CASE ~torn'
  <2>1. n \in Node /\ ~Waiting(n, "key")
    BY <1>1, <1>3, EndsOf
  <2>2. DownDue(n)' /\ InboxDue(n)'
    BY <1>1, <2>1, NothingDue
  <2>3. \A m, k \in Node : Tracks(m, k) => Tracks(m, k)' /\ Via(m, k)' = Via(m, k)
    BY <1>1, SameWay
  <2>4. conn[c] = "broken"
    BY <1>1 DEF Core, LinkInv, HandlersFit
  <2>5. KeysDue'
    BY <1>1, <2>2, <2>3, <2>4, EndKeys
  <2> QED BY <2>5 DEF KeyInv
<1> QED BY <1>2, <1>3

LEMMA EndsKeys ==
  ASSUME Core, Core', KeysDue, NEW c \in Conn, NEW n \in Ends(c), HandlerEnds(c, n)
  PROVE  KeyInv'
<1>1. PICK m : m = Peer(c, n)
  OBVIOUS
<1>2. PICK gone : gone = (Linked(n, m) /\ Removed(link[n][m], c) = NoLink)
  OBVIOUS
<1>3. /\ n \in Node /\ m \in Node /\ conn[c] = "broken"
      /\ \A d \in Conn : \A k \in Ends(d) : d # c \/ k # n => handler'[d][k] = handler[d][k]
      /\ handler'[c][n] = (IF gone THEN "leaving" ELSE "gone")
      /\ \A a, b \in Node : \A s \in SlotNames :
           link'[a][b][s] = IF a = n /\ b = m /\ link[a][b][s] = c THEN None ELSE link[a][b][s]
      /\ \A k \in Node : /\ local'[k].active = local[k].active /\ local'[k].sent = local[k].sent
                         /\ local'[k].down = local[k].down
      /\ torn' = (torn \/ (~gone /\ KeyStays(n)))
      /\ conn' = conn /\ wire' = wire /\ inbox' = inbox
  BY <1>1, <1>2, EndsIs DEF Core
<1>4. ASSUME NEW a \in Node, NEW b \in Node, Tracks(a, b)
      PROVE  Tracks(a, b)' /\ Via(a, b)' = Via(a, b)
  <2>1. Linked(a, b) /\ conn[Via(a, b)] = "up"
    BY <1>4 DEF Tracks, Alive
  <2>2. Via(a, b) # c /\ Via(a, b) # None
    BY <1>3, <2>1 DEF Linked
  <2>3. /\ link'[a][b].in = IF a = n /\ b = m /\ link[a][b].in = c THEN None ELSE link[a][b].in
        /\ link'[a][b].out = IF a = n /\ b = m /\ link[a][b].out = c THEN None ELSE link[a][b].out
    BY <1>3 DEF SlotNames
  <2>4. Via(a, b)' = Via(a, b)
    BY <2>2, <2>3 DEF Via
  <2>5. Alive(a, b)'
    BY <1>3, <2>1, <2>2, <2>4 DEF Alive, Linked
  <2> QED BY <1>3, <1>4, <2>4, <2>5 DEF Tracks
<1>5. CASE torn'
  BY <1>5 DEF KeyInv
<1>6. CASE ~torn'
  <2>1. DownDue(n)' /\ InboxDue(n)'
    <3>1. CASE gone
      <4>1. Coming(n)'
        BY <1>3, <3>1 DEF Coming
      <4> QED BY <4>1 DEF DownDue, InboxDue
    <3>2. CASE ~gone
      <4>1. ~local'[n].down /\ ~Waiting(n, "key")
        BY <1>3, <1>6, <3>2 DEF KeyStays
      <4> QED BY <1>3, <4>1, NothingDue
    <3> QED BY <3>1, <3>2
  <2>2. KeysDue'
    BY <1>3, <1>4, <2>1, EndKeys
  <2> QED BY <2>2 DEF KeyInv
<1> QED BY <1>5, <1>6

(* The way to a peer changes by a new connection only in its own direction.  *)
LEMMA InstallWays ==
  ASSUME Core, NEW c \in Conn, NEW n \in Ends(c), Install(c, n), NEW m, m = Peer(c, n),
         NEW old, old = link[n][m][Slot(c, n)], NEW a \in Node, NEW b \in Node, Tracks(a, b)
  PROVE  /\ a # n \/ b # m => Via(a, b)' = Via(a, b)
         /\ Tracks(a, b)' \/ (b = n /\ Via(a, b) = old)
<1>1. /\ n \in Node /\ m \in Node /\ conn[c] = "up"
      /\ \A x, y \in Node : \A s \in SlotNames :
           link'[x][y][s] = IF x = n /\ y = m /\ s = Slot(c, n) THEN c ELSE link[x][y][s]
      /\ old # c
      /\ old # None => /\ old \in Conn /\ n \in Ends(old) /\ Peer(old, n) = m
                       /\ Slot(old, n) = Slot(c, n)
      /\ \A d \in Conn : conn'[d] = IF d = old THEN "broken" ELSE conn[d]
      /\ local' = local
  BY InstallIs DEF Core, LinkInv
<1>2. /\ link'[a][b].in = IF a = n /\ b = m /\ "in" = Slot(c, n) THEN c ELSE link[a][b].in
      /\ link'[a][b].out = IF a = n /\ b = m /\ "out" = Slot(c, n) THEN c ELSE link[a][b].out
  BY <1>1 DEF SlotNames
<1>3. /\ local[a].active = b /\ local[a].sent
      /\ Linked(a, b) /\ conn[Via(a, b)] = "up"
  BY DEF Tracks, Alive
<1>4. Via(a, b) \in Conn /\ a \in Ends(Via(a, b)) /\ b \in Ends(Via(a, b)) /\ Peer(Via(a, b), a) = b /\ a # b
  BY <1>3, ViaFits DEF Core, LinkInv
<1>5. c # None
  BY PeerAssumption
<1>6. CASE a # n \/ b # m
  <2>1. Via(a, b)' = Via(a, b) /\ Linked(a, b)' = Linked(a, b)
    BY <1>2, <1>6 DEF Via, Linked
  <2>2. CASE Via(a, b) = old
    <3>1. n \in Ends(Via(a, b)) /\ Peer(Via(a, b), n) = m
      BY <1>1, <1>3, <2>2 DEF Linked
    <3>2. b = n
      BY <1>4, <1>6, <3>1, EndsOf
    <3> QED BY <2>1, <2>2, <3>2
  <2>3. CASE Via(a, b) # old
    BY <1>1, <1>3, <1>4, <2>1, <2>3 DEF Tracks, Alive
  <2> QED BY <2>1, <2>2, <2>3
<1>7. CASE a = n /\ b = m
  <2>1. Via(a, b)' = c \/ (Via(a, b)' = Via(a, b) /\ Via(a, b) # old)
    <3>1. CASE Slot(c, n) = "out"
      BY <1>2, <1>5, <1>7, <3>1 DEF Via
    <3>2. CASE Slot(c, n) # "out"
      <4>1. Slot(c, n) = "in" /\ "in" # "out"
        BY <3>2 DEF Slot
      <4>2. CASE link[a][b].out = None
        BY <1>2, <1>7, <4>1, <4>2 DEF Via
      <4>3. CASE link[a][b].out # None
        <5>1. Slot(link[a][b].out, a) = "out"
          BY <4>3 DEF Core, LinkInv, SlotsFit
        <5>2. old # link[a][b].out
          BY <1>1, <1>7, <4>1, <4>3, <5>1
        <5> QED BY <1>2, <1>7, <4>1, <4>3, <5>2 DEF Via
      <4> QED BY <4>2, <4>3
    <3> QED BY <3>1, <3>2
  <2>2. Linked(a, b)' /\ conn'[Via(a, b)'] = "up"
    <3>1. CASE Via(a, b)' = c
      BY <1>1, <1>5, <3>1 DEF Linked
    <3>2. CASE Via(a, b)' = Via(a, b) /\ Via(a, b) # old
      BY <1>1, <1>3, <1>4, <3>2 DEF Linked
    <3> QED BY <2>1, <3>1, <3>2
  <2>3. Alive(a, b)'
    BY <2>2 DEF Alive
  <2> QED BY <1>1, <1>3, <1>7, <2>3 DEF Tracks
<1> QED BY <1>6, <1>7

LEMMA InstallKeys ==
  ASSUME Core, Core', KeysDue, NEW c \in Conn, NEW n \in Ends(c), Install(c, n)
  PROVE  KeyInv'
<1>1. PICK m : m = Peer(c, n)
  OBVIOUS
<1>2. PICK old : old = link[n][m][Slot(c, n)]
  OBVIOUS
<1>3. /\ n \in Node /\ m \in Node /\ conn[c] = "up" /\ handler[c][n] = "none"
      /\ \A d \in Conn : \A k \in Ends(d) :
           handler'[d][k] = IF d = c /\ k = n THEN "up" ELSE handler[d][k]
      /\ old # c
      /\ old # None => old \in Conn /\ n \in Ends(old) /\ handler[old][n] = "up"
      /\ \A d \in Conn : conn'[d] = IF d = old THEN "broken" ELSE conn[d]
      /\ \A d \in Conn : \A k \in Ends(d) :
           wire'[d][k] = wire[d][k] \/ (d = old /\ k = n /\ wire'[d][k] = <<>>)
      /\ local' = local /\ inbox' = inbox
      /\ torn' = (torn \/ \E d \in Conn : m \in Ends(d) /\ Peer(d, m) = n /\ Under(d, m, "key"))
  BY <1>1, <1>2, InstallIs DEF Core, LinkInv
<1>4. old # None => Broken(old, n)' /\ Coming(n)'
  <2>1. SUFFICES ASSUME old # None  PROVE Broken(old, n)' /\ Coming(n)'
    OBVIOUS
  <2>2. old \in Conn /\ n \in Ends(old) /\ handler[old][n] = "up"
    BY <1>3, <2>1
  <2>3. conn'[old] = "broken" /\ handler'[old][n] = "up"
    BY <1>3, <2>2
  <2>4. Broken(old, n)'
    BY <2>3 DEF Broken
  <2> QED BY <2>2, <2>4 DEF Coming
<1>5. ASSUME NEW a \in Node, NEW b \in Node, Tracks(a, b)
      PROVE  /\ a # n \/ b # m => Via(a, b)' = Via(a, b)
             /\ Tracks(a, b)' \/ (b = n /\ Via(a, b) = old)
  BY <1>1, <1>2, <1>5, InstallWays
<1>6. ASSUME NEW a \in Node, NEW b \in Node, Tracks(a, b)  PROVE Via(a, b) # None
  BY <1>6 DEF Tracks, Alive, Linked
<1>7. ASSUME NEW k \in Node, Coming(k)  PROVE Coming(k)'
  <2>1. CASE \E a \in Node : Tracks(a, k)
    <3>1. PICK a \in Node : Tracks(a, k)
      BY <2>1
    <3>2. CASE Tracks(a, k)'
      BY <3>2 DEF Coming
    <3>3. CASE k = n /\ Via(a, k) = old
      BY <1>4, <1>6, <3>1, <3>3
    <3> QED BY <1>5, <3>1, <3>2, <3>3
  <2>2. ASSUME NEW d \in Conn, k \in Ends(d), Under(d, k, "key_up")  PROVE Coming(k)'
    <3>1. CASE d = old /\ k = n
      BY <1>3, <1>4, <3>1, PeerAssumption
    <3>2. CASE ~(d = old /\ k = n)
      <4>1. wire'[d][k] = wire[d][k]
        BY <1>3, <2>2, <3>2
      <4>2. Under(d, k, "key_up")'
        BY <2>2, <4>1, UnderIs, UnderNext
      <4> QED BY <2>2, <4>2 DEF Coming
    <3> QED BY <3>1, <3>2
  <2>3. ASSUME NEW d \in Conn, k \in Ends(d), handler[d][k] = "leaving" \/ Broken(d, k)
        PROVE  Coming(k)'
    <3>1. d # c \/ k # n
      BY <1>3, <2>3 DEF Broken
    <3>2. handler'[d][k] = handler[d][k] /\ (conn[d] = "broken" => conn'[d] = "broken")
      BY <1>3, <2>3, <3>1
    <3>3. handler'[d][k] = "leaving" \/ Broken(d, k)'
      BY <2>3, <3>2 DEF Broken
    <3> QED BY <2>3, <3>3 DEF Coming
  <2> QED BY <1>7, <2>1, <2>2, <2>3 DEF Coming
<1>8. ASSUME NEW k \in Node  PROVE DownDue(k)' /\ InboxDue(k)'
  BY <1>3, <1>7, DueStays
<1>9. CASE torn'
  BY <1>9 DEF KeyInv
<1>10. CASE ~torn'
  <2>1. ASSUME NEW d \in Conn, NEW k \in Ends(d)  PROVE WireDue(d, k)'
    <3>1. PICK a \in Node : a = Peer(d, k)
      BY EndsOf
    <3>2. k \in Node /\ WireDue(d, k)
      BY EndsOf DEF KeysDue
    <3>3. WireEnded(wire, d, k) => WireEnded(wire', d, k)
      <4>1. Ended(<<>>, Key("key"), Key("key_up"))
        BY DEF Ended
      <4> QED BY <1>3, <4>1 DEF WireEnded
    <3>4. CASE WireEnded(wire, d, k)
      BY <3>3, <3>4 DEF WireDue, WireEnded, Ended
    <3>5. CASE conn[d] = "broken"
      BY <1>3, <3>5 DEF WireDue
    <3>6. CASE Tracks(a, k) /\ Via(a, k) = d
      <4>1. CASE d = old
        BY <1>3, <4>1 DEF WireDue
      <4>2. CASE a = n /\ k = m
        <5>1. ~Under(d, m, "key")
          BY <1>3, <1>10, <3>1, <4>2
        <5>2. WireEnded(wire, d, k)
          BY <4>2, <5>1 DEF WireEnded, Ended, Under
        <5> QED BY <3>3, <5>2 DEF WireDue, WireEnded, Ended
      <4>3. CASE d # old /\ (a # n \/ k # m)
        <5>1. Tracks(a, k)' /\ Via(a, k)' = d
          BY <1>5, <3>2, <3>6, <4>3
        <5> QED BY <3>1, <5>1 DEF WireDue
      <4> QED BY <4>1, <4>2, <4>3
    <3> QED BY <3>1, <3>2, <3>4, <3>5, <3>6 DEF WireDue
  <2> QED BY <1>8, <2>1 DEF KeyInv, KeysDue
<1> QED BY <1>9, <1>10

(* What was overtaken stays so.                                              *)
LEMMA TornStays ==
  ASSUME Core, [Next]_vars, torn
  PROVE  torn'
<1>1. CASE Talk
  BY <1>1 DEF Talk
<1>2. ASSUME NEW n \in Node, NEW m \in Node, Presses(n, m)  PROVE torn'
  BY <1>2 DEF Presses
<1>3. ASSUME NEW c \in Conn, NEW n \in Ends(c), TakesKey(c, n)  PROVE torn'
  BY <1>3 DEF TakesKey
<1>4. ASSUME NEW n \in Node, Inject(n)  PROVE torn'
  BY <1>4 DEF Inject
<1>5. ASSUME NEW c \in Conn, LinkStep(c)  PROVE torn'
  <2>1. CASE Connect(c) \/ Break(c)
    BY <2>1 DEF Connect, Break
  <2>2. ASSUME NEW n \in Ends(c), Install(c, n)  PROVE torn'
    BY <2>2 DEF Install
  <2>3. ASSUME NEW n \in Ends(c), HandshakeFails(c, n) \/ HandlerEnds(c, n) \/ Released(c, n)
        PROVE  torn'
    BY <2>3 DEF HandshakeFails, HandlerEnds, Released
  <2> QED BY <1>5, <2>1, <2>2, <2>3 DEF LinkStep
<1> QED BY <1>1, <1>2, <1>3, <1>4, <1>5, StepIs DEF Core, LinkInv

LEMMA KeysNext ==
  ASSUME Core, KeyInv, [Next]_vars
  PROVE  KeyInv'
<1>1. Core'
  BY CoreNext
<1>2. CASE torn
  BY <1>2, TornStays DEF KeyInv
<1>3. CASE KeysDue
  <2>1. CASE Talk
    BY <1>1, <1>3, <2>1, TalkKeys
  <2>2. ASSUME NEW n \in Node, loop[n].to \in Node, Presses(n, loop[n].to)  PROVE KeyInv'
    BY <1>1, <1>3, <2>2, PressKeys
  <2>3. ASSUME NEW c \in Conn, NEW n \in Ends(c), TakesKey(c, n)  PROVE KeyInv'
    BY <1>1, <1>3, <2>3, TakeKeys DEF KeyInv
  <2>4. ASSUME NEW n \in Node, Inject(n)  PROVE KeyInv'
    BY <1>1, <1>3, <2>4, InjectKeys DEF KeyInv
  <2>5. ASSUME NEW c \in Conn, LinkStep(c)  PROVE KeyInv'
    <3>1. CASE Connect(c)
      BY <1>1, <1>3, <3>1, ConnectKeys DEF KeyInv
    <3>2. CASE Break(c)
      BY <1>1, <1>3, <3>2, BreakKeys DEF KeyInv
    <3>3. ASSUME NEW n \in Ends(c), Install(c, n)  PROVE KeyInv'
      BY <1>1, <1>3, <3>3, InstallKeys
    <3>4. ASSUME NEW n \in Ends(c), HandshakeFails(c, n)  PROVE KeyInv'
      BY <1>1, <1>3, <3>4, FailsKeys
    <3>5. ASSUME NEW n \in Ends(c), HandlerEnds(c, n)  PROVE KeyInv'
      BY <1>1, <1>3, <3>5, EndsKeys
    <3>6. ASSUME NEW n \in Ends(c), Released(c, n)  PROVE KeyInv'
      BY <1>1, <1>3, <3>6, ReleasedKeys
    <3> QED BY <2>5, <3>1, <3>2, <3>3, <3>4, <3>5, <3>6 DEF LinkStep
  <2> QED BY <2>1, <2>2, <2>3, <2>4, <2>5, StepIs DEF Core, LinkInv
<1> QED BY <1>2, <1>3 DEF KeyInv

-----------------------------------------------------------------------------

(* The invariant: every variable has its type and every thread a peer to act *)
(* on (Types, Aimed), the registry holds the connections whose handlers run  *)
(* (LinkInv), forward_loop tracks what it sent to the active peer only       *)
(* (LoopFits), and every press has its release behind it on the way to the   *)
(* peer, or somebody who still owes it (KeyInv).                             *)
THEOREM PeersAreSound == Spec => [](Core /\ KeyInv)
<1>1. Init => Core /\ KeyInv
  BY CoreInit DEF KeyInv
<1>2. Core /\ KeyInv /\ [Next]_vars => (Core /\ KeyInv)'
  BY CoreNext, KeysNext
<1> QED BY <1>1, <1>2, PTL DEF Spec

(* install_peer_connection and remove_peer_connection keep a connection that *)
(* both ends read from in the registry, whichever direction comes or goes.   *)
THEOREM LinksAreUsable == Spec => []LinksAreLive
<1>1. Core => LinksAreLive
  <2>1. SUFFICES ASSUME Core, NEW c \in Conn, NEW n \in Ends(c),
                        conn[c] = "up", handler[c][n] = "up"
                 PROVE  c \in {link[n][Peer(c, n)].in, link[n][Peer(c, n)].out}
    BY DEF LinksAreLive
  <2>2. link[n][Peer(c, n)][Slot(c, n)] = c
    BY <2>1 DEF Core, LinkInv, SlotsLive
  <2>3. Slot(c, n) = "in" \/ Slot(c, n) = "out"
    BY DEF Slot
  <2> QED BY <2>2, <2>3
<1> QED BY <1>1, PeersAreSound, PTL

(* A key that forward_loop pressed at a peer and that inject_loop holds down *)
(* there has a release due, by the one who forwards, on the wire, in the     *)
(* inject queue or with the end of the last connection, unless the press     *)
(* overtook its release (torn).                                              *)
THEOREM KeysAreDue == Spec => []KeysComeUp
<1>1. Core /\ KeyInv => KeysComeUp
  <2>1. SUFFICES ASSUME KeysDue, NEW n \in Node, local[n].down  PROVE ReleaseDue(n)
    BY DEF KeysComeUp, KeyInv
  <2>2. Waiting(n, "key_up") \/ Coming(n)
    BY <2>1 DEF KeysDue, DownDue
  <2> QED BY <2>2 DEF Coming, Tracks, Broken, ReleaseDue
<1> QED BY <1>1, PeersAreSound, PTL

==============================================================================
