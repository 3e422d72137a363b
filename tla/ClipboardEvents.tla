--------------------------- MODULE ClipboardEvents ---------------------------
(***************************************************************************)
(* Changes of the Windows clipboard on their way to the capture: the queue  *)
(* BoundedClipboardEvents and the ClipboardWriteSuppressor, which tells the *)
(* writes of this program from copies of the user (clipboard_events).        *)
(***************************************************************************)
EXTENDS Naturals, Sequences, FiniteSets

CONSTANTS
  Content,      \* what can be on the clipboard
  Capacity,     \* of the event queue
  MaxTokens,    \* of the suppressor
  MaxAttempts,  \* reads of one sequence number that may fail
  None,
  Scenarios     \* how often users, other programs and Windows may act

Kinds == {"copy", "paste", "die", "busy", "fail", "late"}

ASSUME EventsAssumption ==
  /\ Capacity \in Nat \ {0} /\ MaxTokens \in Nat \ {0} /\ MaxAttempts \in Nat \ {0}
  /\ None \notin Content
  /\ Scenarios \subseteq [Kinds -> Nat]

VARIABLES
  clip,      \* the clipboard: sequence number, content, open for writing
  listener,  \* the message window: alive, posted updates, the number just read
  events,    \* the queue of sequence numbers
  tokens,    \* the suppressor's deque
  writer,    \* perform_windows_write, under its lock
  watcher,   \* clipboard_watcher
  hist,      \* history: own writes; numbers captured, suppressed and done with; may an own write be captured
  left       \* budget

Spend(k) == left[k] > 0 /\ left' = [left EXCEPT ![k] = @ - 1]

(* --- BoundedClipboardEvents ------------------------------------------------ *)
(* (mutant: a full queue refuses the new event)                                *)
SubmittedIfRoom(q, s) == IF Len(q) >= Capacity THEN q ELSE Append(q, s)
Submitted(q, s) ==
  IF q # <<>> /\ q[Len(q)] = s THEN q
  ELSE Append(IF Len(q) >= Capacity THEN Tail(q) ELSE q, s)

(* --- ClipboardWriteSuppressor ---------------------------------------------- *)
Token(c, before) == [content |-> c, before |-> before, seq |-> 0]
Prepared(ts, token) ==
  LET all == Append(ts, token)
  IN  IF Len(all) > MaxTokens THEN Tail(all) ELSE all
Without(ts, i) == SubSeq(ts, 1, i - 1) \o SubSeq(ts, i + 1, Len(ts))
Uncommitted(ts) == {i \in 1 .. Len(ts) : ts[i].seq = 0}

(* finish: the write is withdrawn or bound to the number it has led to; its    *)
(* token may have gone meanwhile.                                              *)
(* (mutant: the token is bound to what the clipboard had before)               *)
FinishedEarly(ts, success, after) ==
  IF Uncommitted(ts) = {} THEN ts
  ELSE LET i == CHOOSE k \in Uncommitted(ts) : TRUE
       IN  IF success THEN [ts EXCEPT ![i].seq = after - 1] ELSE Without(ts, i)
Finished(ts, success, after) ==
  IF Uncommitted(ts) = {} THEN ts
  ELSE LET i == CHOOSE k \in Uncommitted(ts) : TRUE
       IN  IF success THEN [ts EXCEPT ![i].seq = after] ELSE Without(ts, i)

(* consume: what suppresses number s with content c, and what still may.       *)
(* (mutant: any write of the same content)                                     *)
MatchesContent(ts, s, c) == {i \in 1 .. Len(ts) : ts[i].seq # 0 /\ ts[i].content = c}
Matches(ts, s, c) == {i \in 1 .. Len(ts) : ts[i].seq # 0 /\ ts[i].seq = s /\ ts[i].content = c}
MayMatch(ts, s, c) == \E i \in Uncommitted(ts) : ts[i].before # s /\ ts[i].content = c
==============================================================================
