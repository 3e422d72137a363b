------------------------ MODULE ClipboardWatchProofs -------------------------
(***************************************************************************)
(* Only the program's own writes are passed over, and they are passed over: *)
(* CopiesAreNotHidden and NoEcho for every capacity of the event queue and  *)
(* of the suppressor, every number of attempts and every budget.            *)
(***************************************************************************)
EXTENDS ClipboardWatch, SequenceTheorems, TLAPS

Contents == Content \cup {None}
Counts == UNION {[D -> Nat] : D \in SUBSET Nat}
Bound == [content : Content, before : Nat, seq : Nat]

Clips == [seq : Nat, content : Contents, locked : BOOLEAN]
Listeners == [on : BOOLEAN, posted : Nat, got : Nat \cup {None}, since : Nat]
Writers == [at : {"idle", "opening", "setting", "finishing"}, content : Contents, after : Nat]
Watchers ==
  [at : {"starting", "loop", "observing", "reading", "consuming", "captured"},
   mode : {"poll", "listen"}, seq : Nat, read : Contents, last : Nat, tries : Counts]
Histories ==
  [own : SUBSET (Nat \ {0}), captured : SUBSET Nat, suppressed : SUBSET Nat,
   done : SUBSET Nat, excused : BOOLEAN]

Types ==
  /\ clip \in Clips /\ listener \in Listeners /\ events \in Seq(Nat)
  /\ tokens \in Seq(Bound) /\ writer \in Writers /\ watcher \in Watchers
  /\ hist \in Histories

(* Numbers that wait or were dealt with are not ahead of the clipboard.      *)
InOrder ==
  /\ \A i \in 1..Len(events) : events[i] <= clip.seq
  /\ listener.got # None => listener.got <= clip.seq
  /\ watcher.last <= clip.seq /\ watcher.seq <= clip.seq
  /\ \A s \in hist.own \cup hist.captured : s <= clip.seq
  /\ watcher.at \in {"observing", "reading"} => watcher.seq # watcher.last
  /\ watcher.at = "consuming" => watcher.last < watcher.seq
  /\ ~hist.excused => \A s \in hist.suppressed : s <= watcher.last

(* The writer's token is the only one without a number.                      *)
WriterToken ==
  /\ Len(tokens) <= MaxTokens
  /\ \A i, j \in Uncommitted(tokens) : i = j
  /\ writer.at = "idle" => Uncommitted(tokens) = {}
  /\ writer.at # "idle" => hist.excused \/ Uncommitted(tokens) # {}
  /\ \A i \in Uncommitted(tokens) :
       /\ tokens[i].content = writer.content
       /\ IF writer.at = "finishing" THEN writer.after # 0 => tokens[i].before < writer.after
          ELSE tokens[i].before <= clip.seq

(* A token that has a number has that of a write.                            *)
TokensAreOwn ==
  /\ \A i \in 1..Len(tokens) : tokens[i].seq # 0 => tokens[i].seq \in hist.own
  /\ writer.at = "finishing" /\ writer.after # 0 => writer.after \in hist.own

(* What was written under number s is c, wherever s can still be seen.       *)
Same(s, c) ==
  /\ clip.seq = s => clip.content = c
  /\ watcher.at = "consuming" /\ watcher.seq = s => watcher.read = c
(* A write that was not suppressed yet has a token that will suppress it.    *)
Guarded(s) ==
  \/ \E i \in 1..Len(tokens) : tokens[i].seq = s /\ Same(s, tokens[i].content)
  \/ writer.at = "finishing" /\ writer.after = s /\ Same(s, writer.content)
WritesAreGuarded == ~hist.excused => \A s \in hist.own \ hist.suppressed : Guarded(s)

WatchInv ==
  Types /\ InOrder /\ WriterToken /\ TokensAreOwn /\ WritesAreGuarded
    /\ CopiesAreNotHidden /\ NoEcho

----------------------------------------------------------------------------
(* Queues and deques                                                         *)

(* What is left of a queue when its first element is taken.                  *)
LEMMA Tailed ==
  ASSUME NEW S, NEW q \in Seq(S), q # <<>>
  PROVE  /\ Tail(q) \in Seq(S) /\ Len(Tail(q)) = Len(q) - 1 /\ Head(q) = q[1] /\ 1 \in 1..Len(q)
         /\ \A i \in 1..Len(Tail(q)) : i + 1 \in 1..Len(q) /\ Tail(q)[i] = q[i + 1]
BY HeadTailProperties, EmptySeq, LenProperties

(* A queue with one more element.                                            *)
LEMMA Appended ==
  ASSUME NEW S, NEW q \in Seq(S), NEW x \in S
  PROVE  /\ Append(q, x) \in Seq(S) /\ Len(Append(q, x)) = Len(q) + 1
         /\ \A i \in 1..Len(q) : Append(q, x)[i] = q[i]
         /\ Append(q, x)[Len(q) + 1] = x
BY AppendProperties

(* An event queue to which a number is submitted holds nothing new but it.   *)
LEMMA SubmittedNumbers ==
  ASSUME NEW q \in Seq(Nat), NEW s \in Nat
  PROVE  /\ Submitted(q, s) \in Seq(Nat)
         /\ \A n \in Nat : s <= n /\ (\A i \in 1..Len(q) : q[i] <= n)
              => \A i \in 1..Len(Submitted(q, s)) : Submitted(q, s)[i] <= n
<1>1. CASE q # <<>> /\ q[Len(q)] = s
  BY <1>1 DEF Submitted
<1>2. CASE ~(q # <<>> /\ q[Len(q)] = s)
  <2> DEFINE r == IF Len(q) >= Capacity THEN Tail(q) ELSE q
  <2>1. Len(q) >= Capacity => q # <<>>
    BY EventsAssumption, EmptySeq
  <2>2. Len(q) \in Nat
    BY LenProperties
  <2>3. /\ r \in Seq(Nat) /\ Len(r) \in Nat
        /\ \A n \in Nat : (\A i \in 1..Len(q) : q[i] <= n) => \A i \in 1..Len(r) : r[i] <= n
    BY <2>1, <2>2, Tailed
  <2>4. Submitted(q, s) = Append(r, s)
    BY <1>2 DEF Submitted
  <2> HIDE DEF r
  <2> QED
    BY <2>3, <2>4, Appended
<1> QED
  BY <1>1, <1>2

(* The deque without its i-th token.                                         *)
LEMMA WithoutToken ==
  ASSUME NEW S, NEW q \in Seq(S), NEW i \in 1..Len(q)
  PROVE  /\ Without(q, i) \in Seq(S) /\ Len(Without(q, i)) = Len(q) - 1
         /\ \A k \in 1..Len(q) - 1 : Without(q, i)[k] = IF k < i THEN q[k] ELSE q[k + 1]
<1> DEFINE a == SubSeq(q, 1, i - 1)
           b == SubSeq(q, i + 1, Len(q))
<1>1. Len(q) \in Nat
  BY LenProperties
<1>2. a \in Seq(S) /\ Len(a) = i - 1 /\ \A k \in 1..i - 1 : a[k] = q[k]
  BY <1>1, SubSeqProperties
<1>3. b \in Seq(S) /\ Len(b) = Len(q) - i /\ \A k \in 1..Len(q) - i : b[k] = q[k + i]
  BY <1>1, SubSeqProperties
<1>4. Without(q, i) = a \o b
  BY DEF Without
<1> HIDE DEF a, b
<1>5. /\ a \o b \in Seq(S) /\ Len(a \o b) = Len(q) - 1
      /\ \A k \in 1..Len(q) - 1 : (a \o b)[k] = IF k <= i - 1 THEN a[k] ELSE b[k - (i - 1)]
  <2>1. /\ a \o b \in Seq(S) /\ Len(a \o b) = Len(a) + Len(b)
        /\ \A k \in 1..Len(a) + Len(b) : (a \o b)[k] = IF k <= Len(a) THEN a[k] ELSE b[k - Len(a)]
    BY <1>2, <1>3, ConcatProperties
  <2>2. Len(a) + Len(b) = Len(q) - 1
    BY <1>1, <1>2, <1>3
  <2> QED
    BY <1>2, <2>1, <2>2
<1>6. ASSUME NEW k \in 1..Len(q) - 1
      PROVE  (a \o b)[k] = IF k < i THEN q[k] ELSE q[k + 1]
  <2>1. k - (i - 1) + i = k + 1 /\ (k >= i => k - (i - 1) \in 1..Len(q) - i)
    BY <1>1
  <2> QED
    BY <1>1, <1>2, <1>3, <1>5, <2>1
<1> QED
  BY <1>4, <1>5, <1>6

----------------------------------------------------------------------------
(* What finish and consume do to the deque                                   *)

(* Uncommitted tokens are those of the deque without a number.               *)
LEMMA UncommittedIs ==
  ASSUME NEW ts \in Seq(Bound)
  PROVE  /\ \A i \in Uncommitted(ts) : i \in 1..Len(ts) /\ ts[i].seq = 0
         /\ \A i \in 1..Len(ts) : ts[i].seq = 0 => i \in Uncommitted(ts)
         /\ \A i \in 1..Len(ts) : ts[i] \in Bound
BY ElementOfSeq DEF Uncommitted

(* A token is bound to a number: the others stay.                            *)
LEMMA BoundToken ==
  ASSUME NEW ts \in Seq(Bound), NEW i \in 1..Len(ts), NEW after \in Nat
  PROVE  /\ [ts EXCEPT ![i].seq = after] \in Seq(Bound)
         /\ Len([ts EXCEPT ![i].seq = after]) = Len(ts)
         /\ \A j \in 1..Len(ts) :
              [ts EXCEPT ![i].seq = after][j] = IF j = i THEN [ts[i] EXCEPT !.seq = after] ELSE ts[j]
<1>1. ts[i] \in Bound
  BY UncommittedIs
<1>2. [ts[i] EXCEPT !.seq = after] \in Bound
  BY <1>1 DEF Bound
<1>3. [ts EXCEPT ![i].seq = after] = [ts EXCEPT ![i] = [ts[i] EXCEPT !.seq = after]]
  OBVIOUS
<1> QED
  BY <1>2, <1>3, ExceptSeq

(* The token without a number, if there is one, is bound or withdrawn.       *)
Settled(ts, us, after) ==
  \/ Uncommitted(ts) = {} /\ us = ts
  \/ \E i \in 1..Len(ts) :
       /\ Uncommitted(ts) = {i} /\ ts[i].seq = 0
       /\ after # 0 => us = [ts EXCEPT ![i].seq = after]
       /\ after = 0 => us = Without(ts, i)

(* finish finds at most one token.                                           *)
LEMMA FinishedTokens ==
  ASSUME NEW ts \in Seq(Bound), NEW after \in Nat, \A i, j \in Uncommitted(ts) : i = j,
         NEW us, us = Finished(ts, after # 0, after)
  PROVE  us \in Seq(Bound) /\ Settled(ts, us, after)
<1> USE DEF Settled
<1>1. CASE Uncommitted(ts) = {}
  BY <1>1 DEF Finished
<1>2. CASE Uncommitted(ts) # {}
  <2> DEFINE i == CHOOSE k \in Uncommitted(ts) : TRUE
  <2>1. i \in Uncommitted(ts)
    BY <1>2
  <2>2. /\ after # 0 => us = [ts EXCEPT ![i].seq = after]
        /\ after = 0 => us = Without(ts, i)
    BY <1>2 DEF Finished
  <2> HIDE DEF i
  <2>3. i \in 1..Len(ts) /\ Uncommitted(ts) = {i} /\ ts[i].seq = 0
    BY <2>1, UncommittedIs
  <2>4. us = [ts EXCEPT ![i].seq = after] \/ us = Without(ts, i)
    BY <2>2
  <2>5. [ts EXCEPT ![i].seq = after] \in Seq(Bound) /\ Without(ts, i) \in Seq(Bound)
    BY <2>3, BoundToken, WithoutToken
  <2>6. us \in Seq(Bound)
    BY <2>4, <2>5
  <2> QED
    BY <2>2, <2>3, <2>6
<1> QED
  BY <1>1, <1>2

(* us holds tokens of ts, and may hold one more behind them.                 *)
Grown(ts, us) == \A i \in 1..Len(us) - 1 : \E j \in 1..Len(ts) : us[i] = ts[j]

(* prepare appends a token and may drop the oldest.                          *)
LEMMA PreparedTokens ==
  ASSUME NEW ts \in Seq(Bound), NEW x \in Bound, Len(ts) <= MaxTokens,
         NEW us, us = Prepared(ts, x)
  PROVE  /\ us \in Seq(Bound)
         /\ Len(us) <= MaxTokens
         /\ Len(us) \in Nat \ {0}
         /\ us[Len(us)] = x
         /\ Len(ts) # MaxTokens => us = Append(ts, x)
         /\ Grown(ts, us)
<1> USE DEF Grown
<1>1. Len(ts) \in Nat /\ MaxTokens \in Nat \ {0}
  BY EventsAssumption, LenProperties
<1> DEFINE all == Append(ts, x)
<1>2. /\ all \in Seq(Bound) /\ Len(all) = Len(ts) + 1 /\ all[Len(ts) + 1] = x
      /\ \A i \in 1..Len(ts) : all[i] = ts[i]
  BY Appended
<1>3. us = IF Len(all) > MaxTokens THEN Tail(all) ELSE all
  BY DEF Prepared
<1> HIDE DEF all
<1>4. CASE Len(all) > MaxTokens
  <2>1. all # <<>>
    BY <1>1, <1>2, EmptySeq
  <2>2. /\ Tail(all) \in Seq(Bound) /\ Len(Tail(all)) = Len(ts)
        /\ \A i \in 1..Len(Tail(all)) : Tail(all)[i] = all[i + 1]
    BY <1>1, <1>2, <2>1, Tailed
  <2>3. Len(ts) = MaxTokens
    BY <1>1, <1>2, <1>4
  <2>4. ASSUME NEW k \in 1..Len(ts) - 1
        PROVE  k + 1 \in 1..Len(ts) /\ Tail(all)[k] = ts[k + 1]
    BY <1>1, <1>2, <2>2, <2>4
  <2> QED
    BY <1>1, <1>2, <1>3, <1>4, <2>2, <2>3, <2>4
<1>5. CASE ~(Len(all) > MaxTokens)
  <2>1. us = Append(ts, x)
    BY <1>3, <1>5 DEF all
  <2> QED
    BY <1>1, <1>2, <1>3, <1>5, <2>1
<1> QED
  BY <1>4, <1>5

----------------------------------------------------------------------------
(* Types                                                                     *)

(* A change of the clipboard posts an update.                                *)
LEMMA NotifiedType ==
  ASSUME listener \in Listeners, Notified
  PROVE  listener' \in Listeners /\ listener'.got = listener.got
BY DEF Notified, Listeners

(* A change of the clipboard raises its number.                              *)
LEMMA ChangedType ==
  ASSUME clip \in Clips, NEW c \in Contents, NEW locked \in BOOLEAN, Changed(c, locked)
  PROVE  /\ clip' \in Clips /\ clip'.seq = clip.seq + 1
         /\ clip'.content = c /\ clip'.locked = locked
BY DEF Changed, Clips

(* Types: copies, the program's writes, expiry.                              *)
LEMMA WriterTypes ==
  ASSUME Types, WriterToken, UserCopies \/ Prepare \/ Writes \/ Expire
  PROVE  Types'
<1> USE DEF Types
<1>0. Content \subseteq Contents /\ None \in Contents
  BY DEF Contents
<1>1. CASE UserCopies
  BY <1>0, <1>1, NotifiedType, ChangedType DEF UserCopies, Contents
<1>2. CASE Prepare
  <2>1. PICK c \in Content :
          /\ tokens' = Prepared(tokens, Token(c, clip.seq))
          /\ writer' = [writer EXCEPT !.at = "opening", !.content = c]
    BY <1>2 DEF Prepare
  <2>2. Token(c, clip.seq) \in Bound
    BY DEF Token, Bound, Clips
  <2>3. tokens' \in Seq(Bound)
    BY <2>1, <2>2, PreparedTokens DEF WriterToken
  <2>4. writer' \in Writers
    BY <1>0, <2>1 DEF Writers
  <2>5. hist' = [hist EXCEPT !.excused = @ \/ Len(tokens) = MaxTokens]
    BY <1>2 DEF Prepare
  <2>6. hist' \in Histories
    BY <2>5 DEF Histories
  <2> QED
    BY <1>2, <2>3, <2>4, <2>6 DEF Prepare
<1>3. CASE Empty
  BY <1>0, <1>3, ChangedType DEF Empty, Writers
<1>4. CASE Locked
  BY <1>4 DEF Locked, Writers
<1>5. CASE SetData
  <2>1. Notified /\ UNCHANGED <<events, tokens, watcher>>
    BY <1>5 DEF SetData
  <2>2. CASE /\ Changed(writer.content, FALSE)
             /\ writer' = [writer EXCEPT !.at = "finishing", !.after = clip.seq + 1]
             /\ hist' = [hist EXCEPT !.own = @ \cup {clip.seq + 1}]
    <3>1. writer.content \in Contents /\ clip.seq + 1 \in Nat \ {0}
      BY DEF Writers, Clips
    <3>2. writer' \in Writers
      BY <2>2, <3>1 DEF Writers
    <3>3. hist' \in Histories
      BY <2>2, <3>1 DEF Histories
    <3> QED
      BY <2>1, <2>2, <3>1, <3>2, <3>3, ChangedType, NotifiedType
  <2>3. CASE /\ clip' = [clip EXCEPT !.locked = FALSE]
             /\ writer' = [writer EXCEPT !.at = "finishing", !.after = 0]
             /\ UNCHANGED hist
    <3>1. writer' \in Writers
      BY <2>3 DEF Writers
    <3>2. clip' \in Clips
      BY <2>3 DEF Clips
    <3> QED
      BY <2>1, <2>3, <3>1, <3>2, NotifiedType
  <2> QED
    BY <1>5, <2>2, <2>3 DEF SetData
<1>6. CASE Finish
  <2>1. tokens' = Finished(tokens, writer.after # 0, writer.after) /\ writer.after \in Nat
    BY <1>6 DEF Finish, Writers
  <2>2. tokens' \in Seq(Bound)
    BY <2>1, FinishedTokens DEF WriterToken
  <2>3. writer' \in Writers
    BY <1>0, <1>6 DEF Finish, Writers
  <2> QED
    BY <1>6, <2>2, <2>3 DEF Finish
<1>7. CASE Expire
  <2>1. hist' \in Histories
    BY <1>7 DEF Expire, Histories
  <2> QED
    BY <1>7, <2>1, Tailed DEF Expire
<1> QED
  BY <1>1, <1>2, <1>3, <1>4, <1>5, <1>6, <1>7 DEF Writes

(* A queue to which a number is submitted is a queue.                        *)
LEMMA SubmittedType ==
  ASSUME NEW q \in Seq(Nat), NEW s \in Nat
  PROVE  Submitted(q, s) \in Seq(Nat)
BY SubmittedNumbers

(* Types: the listener.                                                      *)
LEMMA ListenerTypes ==
  ASSUME Types, Listens \/ ListenerDies
  PROVE  Types'
<1> USE DEF Types
<1>1. CASE WindowProc
  <2>1. listener.posted - 1 \in Nat /\ clip.seq \in Nat
    BY <1>1 DEF WindowProc, Listeners, Clips
  <2>2. listener' \in Listeners
    BY <1>1, <2>1 DEF WindowProc, Listeners
  <2> QED
    BY <1>1, <2>2 DEF WindowProc
<1>2. CASE Callback
  <2>1. listener.got \in Nat /\ listener' \in Listeners
    BY <1>2 DEF Callback, Listeners
  <2> QED
    BY <1>2, <2>1, SubmittedType DEF Callback
<1>3. CASE ListenerDies
  <2>1. listener' \in Listeners
    BY <1>3 DEF ListenerDies, Listeners
  <2> QED
    BY <1>3, <2>1 DEF ListenerDies
<1> QED
  BY <1>1, <1>2, <1>3 DEF Listens

(* The watcher goes back to its loop, and what is recorded with it.          *)
LEMMA AgainType ==
  ASSUME Types
  PROVE  /\ Again \in Watchers /\ Done \in Watchers
         /\ Again.last = watcher.last /\ Done.last = watcher.seq
         /\ Again.seq = 0 /\ Done.seq = 0 /\ Again.at = "loop" /\ Done.at = "loop"
         /\ \A c \in Counts : /\ [Again EXCEPT !.tries = c] \in Watchers
                              /\ [Done EXCEPT !.tries = c] \in Watchers
BY DEF Types, Again, Done, Seq0, Watchers, Contents

(* What is recorded of a number that is dealt with.                          *)
LEMMA DoneWithType ==
  ASSUME Types, DoneWith
  PROVE  /\ hist' \in Histories
         /\ hist'.own = hist.own /\ hist'.captured = hist.captured
         /\ hist'.suppressed = hist.suppressed
         /\ hist'.excused = (hist.excused \/ watcher.seq < watcher.last)
BY DEF Types, DoneWith, Seq0, Histories, Watchers

(* A failed look at the clipboard leaves a queue.                            *)
LEMMA RetriedType ==
  ASSUME Types, Retried
  PROVE  events' \in Seq(Nat)
BY SubmittedType DEF Types, Retried, Clips

(* Types: the watcher.                                                       *)
LEMMA WatcherTypes ==
  ASSUME Types, Watches
  PROVE  Types'
<1> USE DEF Types
<1>0. clip.seq \in Nat /\ clip.content \in Contents
  BY DEF Clips
<1>1. CASE Start
  <2>1. PICK on \in BOOLEAN :
          /\ listener' = [listener EXCEPT !.on = on, !.since = IF on THEN clip.seq ELSE 0]
          /\ watcher' = [watcher EXCEPT !.at = "loop", !.mode = IF on THEN "listen" ELSE "poll"]
    BY <1>1 DEF Start
  <2>2. listener' \in Listeners
    BY <1>0, <2>1 DEF Listeners
  <2>3. watcher' \in Watchers
    BY <2>1 DEF Watchers
  <2> QED
    BY <1>1, <2>2, <2>3 DEF Start
<1>2. CASE Turn
  <2> DEFINE unchanged == Mode = "poll" /\ clip.seq = watcher.last
             q == IF Mode = "poll" /\ ~unchanged THEN Submitted(events, clip.seq) ELSE events
             takes == ~unchanged /\ q # <<>>
  <2>1. q \in Seq(Nat)
    BY <1>0, SubmittedType
  <2>2. Mode \in {"poll", "listen"}
    BY DEF Mode, Watchers
  <2>3. /\ events' = IF takes THEN Tail(q) ELSE q
        /\ watcher' = IF takes /\ Head(q) # watcher.last
                      THEN [watcher EXCEPT !.mode = Mode, !.at = "observing", !.seq = Head(q)]
                      ELSE [watcher EXCEPT !.mode = Mode]
        /\ UNCHANGED <<clip, listener, tokens, writer, hist, left>>
    BY <1>2 DEF Turn
  <2>4. takes => Head(q) \in Nat /\ Tail(q) \in Seq(Nat)
    BY <2>1, HeadTailProperties
  <2> HIDE DEF q, takes
  <2>5. watcher' \in Watchers
    BY <2>2, <2>3, <2>4 DEF Watchers
  <2> QED
    BY <2>1, <2>3, <2>4, <2>5
<1>3. CASE Observe
  <2>1. watcher' \in Watchers
    BY <1>0, <1>3 DEF Observe, Steps, Watchers
  <2> QED
    BY <1>3, <2>1 DEF Observe
<1>4. CASE ReadNothing
  BY <1>4, AgainType, DoneWithType DEF ReadNothing, Steps
<1>5. CASE ReadContent
  <2>1. [watcher EXCEPT !.at = "consuming", !.read = clip.content] \in Watchers
    BY <1>0 DEF Watchers
  <2> QED
    BY <1>5, <2>1, AgainType, RetriedType DEF ReadContent, Steps
<1>6. CASE ReadFails
  <2> DEFINE counted == [s \in DOMAIN watcher.tries \cup {Seq0} |->
                           IF s = Seq0 THEN Tries ELSE watcher.tries[s]]
  <2>1. PICK D \in SUBSET Nat : watcher.tries \in [D -> Nat]
    BY DEF Watchers, Counts
  <2>2. Seq0 \in Nat /\ Tries \in Nat
    BY <2>1 DEF Watchers, Seq0, Tries
  <2>3. counted \in [D \cup {Seq0} -> Nat]
    BY <2>1, <2>2
  <2>4. counted \in Counts
    BY <2>1, <2>2, <2>3 DEF Counts
  <2>5. /\ UNCHANGED <<clip, listener, tokens, writer>>
        /\ \/ /\ events' = Submitted(events, clip.seq)
              /\ watcher' = [Again EXCEPT !.tries = counted] /\ UNCHANGED hist
           \/ /\ UNCHANGED events
              /\ watcher' = [Done EXCEPT !.tries = counted] /\ DoneWith
    BY <1>6 DEF ReadFails, Steps
  <2> HIDE DEF counted
  <2> QED
    BY <1>0, <2>4, <2>5, AgainType, DoneWithType, SubmittedType
<1>7. CASE Suppress
  <2>1. PICK i \in 1..Len(tokens) : tokens' = Without(tokens, i)
    BY <1>7 DEF Suppress, Matches
  <2>2. tokens' \in Seq(Bound)
    BY <2>1, WithoutToken
  <2>3. hist' \in Histories
    BY <1>7 DEF Suppress, Histories, Watchers, Seq0
  <2> QED
    BY <1>7, <2>2, <2>3, AgainType DEF Suppress, Steps
<1>8. CASE Capture
  <2>1. hist' \in Histories
    BY <1>8 DEF Capture, Histories, Watchers, Seq0
  <2>2. watcher' \in Watchers
    BY <1>8 DEF Capture, Steps, Watchers
  <2> QED
    BY <1>8, <2>1, <2>2 DEF Capture
<1>9. CASE Check
  BY <1>9, AgainType, DoneWithType, RetriedType DEF Check, Steps
<1>10. CASE TooLarge
  BY <1>10, AgainType, DoneWithType DEF TooLarge, Steps
<1>11. CASE CaptureFails
  BY <1>11, AgainType, DoneWithType, RetriedType DEF CaptureFails, Steps
<1> QED
  BY <1>1, <1>2, <1>3, <1>4, <1>5, <1>6, <1>7, <1>8, <1>9, <1>10, <1>11 DEF Watches

----------------------------------------------------------------------------
(* Order                                                                     *)

(* The clipboard's number never goes back.                                   *)
LEMMA ClipStep ==
  ASSUME Types, Next
  PROVE  clip.seq \in Nat /\ clip'.seq \in Nat /\ clip.seq <= clip'.seq
<1>1. clip.seq \in Nat
  BY DEF Types, Clips
<1>2. CASE UNCHANGED clip
  BY <1>1, <1>2
<1>3. CASE clip'.seq = clip.seq + 1 \/ clip'.seq = clip.seq
  BY <1>1, <1>3
<1>4. CASE UserCopies \/ Empty \/ SetData
  <2>1. \/ \E c, l : Changed(c, l)
        \/ clip' = [clip EXCEPT !.locked = FALSE]
    BY <1>4 DEF UserCopies, Empty, SetData
  <2> QED
    BY <1>3, <2>1 DEF Changed, Types, Clips
<1>5. CASE Prepare \/ Locked \/ Finish \/ Expire \/ Listens \/ ListenerDies \/ Watches
  BY <1>2, <1>5
  DEF Prepare, Locked, Finish, Expire, Listens, WindowProc, Callback, ListenerDies, Watches, Start,
      Turn, Observe, ReadNothing, ReadContent, ReadFails, Suppress, Capture, Check, TooLarge,
      CaptureFails
<1> QED
  BY <1>4, <1>5 DEF Next, Writes

(* Nothing that waits is ahead of the clipboard.                             *)
LEMMA EventsStep ==
  ASSUME Types, InOrder, Next
  PROVE  /\ \A i \in 1..Len(events') : events'[i] <= clip'.seq
         /\ listener'.got # None => listener'.got <= clip'.seq
<1> DEFINE Behind(q) == q \in Seq(Nat) /\ \A i \in 1..Len(q) : q[i] <= clip.seq
<1>1. Behind(events) /\ clip.seq \in Nat /\ clip'.seq \in Nat /\ clip.seq <= clip'.seq
  BY ClipStep DEF InOrder, Types
<1>2. ASSUME NEW q, Behind(q)
      PROVE  Behind(Submitted(q, clip.seq))
  <2>1. q \in Seq(Nat) /\ clip.seq \in Nat /\ clip.seq <= clip.seq
    BY <1>1, <1>2
  <2> QED
    BY <1>2, <2>1, SubmittedNumbers
<1>3. \A q : Behind(q) /\ q # <<>> => Behind(Tail(q))
  BY Tailed
<1>4. ASSUME Behind(events')
      PROVE  \A i \in 1..Len(events') : events'[i] <= clip'.seq
  <2>1. \A i \in 1..Len(events') : events'[i] \in Nat
    BY <1>4, ElementOfSeq
  <2> QED
    BY <1>1, <1>4, <2>1
<1>5. listener.got \in Nat \cup {None} /\ (listener.got # None => listener.got <= clip.seq)
  BY DEF InOrder, Types, Listeners
<1>6. ASSUME listener'.got \in {None, clip.seq, listener.got}
      PROVE  listener'.got # None => listener'.got <= clip'.seq
  BY <1>1, <1>5, <1>6
<1> HIDE DEF Behind
<1>7. CASE Callback
  <2>1. listener.got \in Nat /\ listener.got <= clip.seq
    BY <1>5, <1>7 DEF Callback
  <2>2. events' = Submitted(events, listener.got) /\ listener'.got = None
    BY <1>7 DEF Callback, Types, Listeners
  <2>3. Behind(events')
    BY <1>1, <2>1, <2>2, SubmittedNumbers DEF Behind
  <2> QED
    BY <1>4, <1>6, <2>2, <2>3
<1>8. CASE Turn
  <2> DEFINE unchanged == Mode = "poll" /\ clip.seq = watcher.last
             q == IF Mode = "poll" /\ ~unchanged THEN Submitted(events, clip.seq) ELSE events
  <2>1. Behind(q)
    BY <1>1, <1>2
  <2>2. events' = q \/ (q # <<>> /\ events' = Tail(q))
    BY <1>8 DEF Turn
  <2>3. listener' = listener
    BY <1>8 DEF Turn
  <2> HIDE DEF q
  <2> QED
    BY <1>3, <1>4, <1>6, <2>1, <2>2, <2>3
<1>9. CASE ReadContent \/ ReadFails \/ Check \/ CaptureFails
  <2>1. events' = events \/ events' = Submitted(events, clip.seq)
    BY <1>9 DEF ReadContent, ReadFails, Check, CaptureFails, Retried
  <2>2. listener' = listener
    BY <1>9 DEF ReadContent, ReadFails, Check, CaptureFails
  <2> QED
    BY <1>1, <1>2, <1>4, <1>6, <2>1, <2>2
<1>10. CASE \/ UserCopies \/ Prepare \/ Writes \/ Expire \/ WindowProc \/ ListenerDies \/ Start
            \/ Observe \/ ReadNothing \/ Suppress \/ Capture \/ TooLarge
  <2>1. events' = events
    BY <1>10
    DEF UserCopies, Prepare, Writes, Empty, Locked, SetData, Finish, Expire, WindowProc,
        ListenerDies, Start, Observe, ReadNothing, Suppress, Capture, TooLarge
  <2>2. CASE UserCopies \/ SetData
    BY <1>1, <1>4, <1>6, <2>1, <2>2, NotifiedType DEF UserCopies, SetData, Types
  <2>3. CASE WindowProc \/ ListenerDies \/ Start
    <3>1. listener'.got \in {None, clip.seq, listener.got}
      BY <2>3 DEF WindowProc, ListenerDies, Start, Types, Listeners
    <3> QED
      BY <1>1, <1>4, <1>6, <2>1, <3>1
  <2>4. CASE UNCHANGED listener
    BY <1>1, <1>4, <1>6, <2>1, <2>4
  <2> QED
    BY <1>10, <2>2, <2>3, <2>4
    DEF Prepare, Writes, Empty, Locked, Finish, Expire, Observe, ReadNothing, Suppress, Capture,
        TooLarge
<1> QED
  BY <1>7, <1>8, <1>9, <1>10 DEF Next, Listens, Watches

(* Where the watcher stands, and what that says of its numbers.              *)
LEMMA OrderStep ==
  ASSUME Types, Types', InOrder, Next
  PROVE  InOrder'
<1>1. clip.seq \in Nat /\ clip'.seq \in Nat /\ clip.seq <= clip'.seq
  BY ClipStep
<1>2. /\ watcher.last \in Nat /\ watcher.seq \in Nat /\ watcher'.last \in Nat /\ watcher'.seq \in Nat
      /\ hist.own \subseteq Nat /\ hist.captured \subseteq Nat /\ hist.suppressed \subseteq Nat
      /\ hist'.own \subseteq Nat /\ hist'.captured \subseteq Nat /\ hist'.suppressed \subseteq Nat
      /\ hist.excused \in BOOLEAN /\ hist'.excused \in BOOLEAN
  BY DEF Types, Watchers, Histories
<1>3. SUFFICES /\ watcher'.last <= clip'.seq /\ watcher'.seq <= clip'.seq
               /\ \A s \in hist'.own \cup hist'.captured : s <= clip'.seq
               /\ watcher'.at \in {"observing", "reading"} => watcher'.seq # watcher'.last
               /\ watcher'.at = "consuming" => watcher'.last < watcher'.seq
               /\ ~hist'.excused => \A s \in hist'.suppressed : s <= watcher'.last
  BY EventsStep DEF InOrder
<1>4. CASE /\ UNCHANGED watcher /\ hist'.captured = hist.captured
           /\ hist'.own \subseteq hist.own \cup {clip'.seq}
           /\ hist'.suppressed = hist.suppressed /\ (hist.excused => hist'.excused)
  BY <1>1, <1>2, <1>4 DEF InOrder
<1>5. CASE UserCopies \/ Prepare \/ Writes \/ Expire \/ Listens \/ ListenerDies
  <2>1. UNCHANGED watcher
    BY <1>5
    DEF UserCopies, Prepare, Writes, Empty, Locked, SetData, Finish, Expire, Listens, WindowProc,
        Callback, ListenerDies
  <2>2. CASE SetData
    <3>1. \/ UNCHANGED hist
          \/ Changed(writer.content, FALSE) /\ hist' = [hist EXCEPT !.own = @ \cup {clip.seq + 1}]
      BY <2>2 DEF SetData
    <3>2. Changed(writer.content, FALSE) => clip'.seq = clip.seq + 1
      BY DEF Changed, Types, Clips
    <3> QED
      BY <1>4, <2>1, <3>1, <3>2 DEF Types, Histories
  <2>3. CASE Prepare \/ Expire
    <3>1. \/ hist' = [hist EXCEPT !.excused = @ \/ Len(tokens) = MaxTokens]
          \/ hist' = [hist EXCEPT !.excused = TRUE]
      BY <2>3 DEF Prepare, Expire
    <3> QED
      BY <1>4, <2>1, <3>1 DEF Types, Histories
  <2>4. CASE UNCHANGED hist
    BY <1>4, <2>1, <2>4
  <2> QED
    BY <1>5, <2>2, <2>3, <2>4
    DEF UserCopies, Writes, Empty, Locked, Finish, Listens, WindowProc, Callback, ListenerDies
<1>6. CASE Watches
  <2>1. clip' = clip
    BY <1>6 DEF Watches, Start, Turn, Observe, ReadNothing, ReadContent, ReadFails, Suppress,
                Capture, Check, TooLarge, CaptureFails
  <2>2. CASE Start
    BY <1>1, <1>2, <2>1, <2>2 DEF Start, InOrder, Types, Watchers
  <2>3. CASE Turn
    <3> DEFINE unchanged == Mode = "poll" /\ clip.seq = watcher.last
               q == IF Mode = "poll" /\ ~unchanged THEN Submitted(events, clip.seq) ELSE events
               takes == ~unchanged /\ q # <<>>
    <3>1. /\ UNCHANGED hist
          /\ watcher' = IF takes /\ Head(q) # watcher.last
                        THEN [watcher EXCEPT !.mode = Mode, !.at = "observing", !.seq = Head(q)]
                        ELSE [watcher EXCEPT !.mode = Mode]
      BY <2>3 DEF Turn
    <3>2. q \in Seq(Nat) /\ \A i \in 1..Len(q) : q[i] <= clip.seq
      <4>1. /\ events \in Seq(Nat) /\ \A i \in 1..Len(events) : events[i] <= clip.seq
            /\ clip.seq <= clip.seq
        BY <1>1 DEF InOrder, Types
      <4>2. /\ Submitted(events, clip.seq) \in Seq(Nat)
            /\ \A i \in 1..Len(Submitted(events, clip.seq)) :
                 Submitted(events, clip.seq)[i] <= clip.seq
        BY <1>1, <4>1, SubmittedNumbers
      <4> QED
        BY <4>1, <4>2
    <3>3. takes => Head(q) <= clip.seq
      BY <3>2, Tailed
    <3> HIDE DEF q, takes
    <3>4. watcher.at = "loop"
      BY <2>3 DEF Turn
    <3>5. /\ watcher'.last = watcher.last
          /\ \/ watcher'.at = "loop" /\ watcher'.seq = watcher.seq
             \/ watcher'.at = "observing" /\ watcher'.seq <= clip.seq /\ watcher'.seq # watcher.last
      BY <3>1, <3>3, <3>4 DEF Types, Watchers
    <3> QED
      BY <1>2, <2>1, <3>1, <3>5 DEF InOrder
  <2>4. CASE Observe
    BY <1>2, <2>1, <2>4 DEF Observe, Steps, InOrder, Types, Watchers
  <2>5. CASE watcher' = Again /\ (UNCHANGED hist \/ DoneWith)
    BY <1>1, <1>2, <2>1, <2>5, AgainType, DoneWithType DEF InOrder
  <2>6. CASE watcher' = Done /\ DoneWith
    <3>1. watcher'.last = watcher.seq /\ watcher'.seq = 0 /\ watcher'.at = "loop"
      BY <2>6, AgainType
    <3> QED
      BY <1>1, <1>2, <2>1, <2>6, <3>1, DoneWithType DEF InOrder
  <2>7. CASE ReadContent
    <3>1. CASE StillThere /\ watcher' = [watcher EXCEPT !.at = "consuming", !.read = clip.content]
      <4>1. /\ watcher'.at = "consuming" /\ watcher'.last = watcher.last
            /\ watcher'.seq = watcher.seq /\ clip.seq = watcher.seq /\ UNCHANGED hist
        BY <2>7, <3>1 DEF ReadContent, StillThere, Seq0, Types, Watchers
      <4>2. watcher.at = "reading"
        BY <2>7 DEF ReadContent, Steps
      <4> QED
        BY <1>1, <1>2, <2>1, <4>1, <4>2 DEF InOrder
    <3> QED
      BY <2>5, <2>7, <3>1 DEF ReadContent, Steps
  <2>8. CASE ReadFails
    <3>1. PICK c : \/ watcher' = [Again EXCEPT !.tries = c] /\ UNCHANGED hist
                   \/ watcher' = [Done EXCEPT !.tries = c] /\ DoneWith
      BY <2>8 DEF ReadFails, Steps
    <3>2. /\ watcher'.seq = 0 /\ watcher'.at = "loop"
          /\ \/ watcher'.last = watcher.last /\ UNCHANGED hist
             \/ watcher'.last = watcher.seq /\ DoneWith
      BY <3>1 DEF Again, Done, Seq0, Types, Watchers
    <3> QED
      BY <1>1, <1>2, <2>1, <3>2, DoneWithType DEF InOrder
  <2>9. CASE Suppress
    <3>1. /\ watcher'.last = watcher.seq /\ watcher'.seq = 0 /\ watcher'.at = "loop"
          /\ watcher.at = "consuming"
      BY <2>9, AgainType DEF Suppress, Steps
    <3>2. /\ hist'.own = hist.own /\ hist'.captured = hist.captured
          /\ hist'.excused = hist.excused
          /\ hist'.suppressed = hist.suppressed \cup {watcher.seq}
      BY <2>9 DEF Suppress, Types, Histories, Seq0
    <3> QED
      BY <1>1, <1>2, <2>1, <3>1, <3>2 DEF InOrder
  <2>10. CASE Capture
    <3>1. watcher'.last = watcher.last /\ watcher'.seq = watcher.seq /\ watcher'.at = "captured"
      BY <2>10 DEF Capture, Steps, Types, Watchers
    <3>2. PICK b \in BOOLEAN :
            hist' = [hist EXCEPT !.captured = @ \cup {watcher.seq}, !.excused = @ \/ b]
      BY <2>10 DEF Capture, Seq0, MayMatch
    <3>3. /\ hist'.own = hist.own /\ hist'.captured = hist.captured \cup {watcher.seq}
          /\ hist'.excused = (hist.excused \/ b) /\ hist'.suppressed = hist.suppressed
      BY <3>2 DEF Types, Histories
    <3> QED
      BY <1>1, <1>2, <2>1, <3>1, <3>3 DEF InOrder
  <2> QED
    BY <1>6, <2>2, <2>3, <2>4, <2>5, <2>6, <2>7, <2>8, <2>9, <2>10
    DEF Watches, ReadNothing, Check, TooLarge, CaptureFails, Steps
<1> QED
  BY <1>5, <1>6 DEF Next

----------------------------------------------------------------------------
(* The tokens                                                                *)

(* us is ts without its i-th token.                                          *)
Removed(ts, us, i) ==
  /\ us \in Seq(Bound) /\ i \in 1..Len(ts) /\ Len(us) = Len(ts) - 1
  /\ \A k \in 1..Len(us) : us[k] = IF k < i THEN ts[k] ELSE ts[k + 1]

From(us, ts) == \A k \in 1..Len(us) : \E j \in 1..Len(ts) : us[k] = ts[j]
Kept(ts, us, i) == \A j \in 1..Len(ts) : j # i => \E k \in 1..Len(us) : us[k] = ts[j]
Apart(us, ts) ==
  \A a, b \in 1..Len(us) : a # b =>
    \E c, d \in 1..Len(ts) : c # d /\ us[a] = ts[c] /\ us[b] = ts[d]

(* Every other token stays, and no two tokens become one.                    *)
LEMMA RemovedToken ==
  ASSUME NEW ts \in Seq(Bound), NEW us, NEW i, Removed(ts, us, i)
  PROVE  From(us, ts) /\ Kept(ts, us, i) /\ Apart(us, ts)
<1> USE DEF From, Kept, Apart
<1>1. Len(ts) \in Nat /\ i \in Nat /\ Len(us) \in Nat /\ Len(us) = Len(ts) - 1 /\ i \in 1..Len(ts)
  BY LenProperties DEF Removed
<1> DEFINE Old(k) == IF k < i THEN k ELSE k + 1
<1>2. \A k \in 1..Len(us) : Old(k) \in 1..Len(ts) /\ us[k] = ts[Old(k)]
  BY <1>1 DEF Removed
<1>3. \A a, b \in 1..Len(us) : a # b => Old(a) # Old(b)
  BY <1>1
<1>4. ASSUME NEW j \in 1..Len(ts), j # i
      PROVE  \E k \in 1..Len(us) : Old(k) = j
  <2>1. CASE j < i
    BY <1>1, <2>1
  <2>2. CASE j > i
    <3>1. j - 1 \in 1..Len(us) /\ Old(j - 1) = j
      BY <1>1, <2>2
    <3> QED
      BY <3>1
  <2> QED
    BY <1>1, <1>4, <2>1, <2>2
<1> HIDE DEF Old
<1> QED
  BY <1>2, <1>3, <1>4

(* At most one token without a number is left when one is removed.           *)
LEMMA RemovedUncommitted ==
  ASSUME NEW ts \in Seq(Bound), NEW us, NEW i, Removed(ts, us, i),
         \A a, b \in Uncommitted(ts) : a = b
  PROVE  \A a, b \in Uncommitted(us) : a = b
<1>1. us \in Seq(Bound)
  BY DEF Removed
<1> SUFFICES ASSUME NEW a \in Uncommitted(us), NEW b \in Uncommitted(us), a # b
             PROVE  FALSE
  OBVIOUS
<1>2. a \in 1..Len(us) /\ us[a].seq = 0 /\ b \in 1..Len(us) /\ us[b].seq = 0
  BY <1>1, UncommittedIs
<1>3. Apart(us, ts)
  BY RemovedToken
<1>4. PICK c, d \in 1..Len(ts) : c # d /\ us[a] = ts[c] /\ us[b] = ts[d]
  BY <1>2, <1>3 DEF Apart
<1>5. c \in Uncommitted(ts) /\ d \in Uncommitted(ts)
  BY <1>2, <1>4, UncommittedIs
<1> QED
  BY <1>4, <1>5

(* Expire and consume remove a token.                                        *)
LEMMA Removals ==
  ASSUME NEW ts \in Seq(Bound)
  PROVE  /\ ts # <<>> => Removed(ts, Tail(ts), 1)
         /\ \A i \in 1..Len(ts) : Removed(ts, Without(ts, i), i)
<1>1. ASSUME ts # <<>>
      PROVE  Removed(ts, Tail(ts), 1)
  <2>1. \A k \in 1..Len(Tail(ts)) : ~(k < 1)
    BY <1>1, Tailed, LenProperties
  <2> QED
    BY <1>1, <2>1, Tailed DEF Removed
<1>2. ASSUME NEW i \in 1..Len(ts)
      PROVE  Removed(ts, Without(ts, i), i)
  BY <1>2, WithoutToken DEF Removed
<1> QED
  BY <1>1, <1>2

(* What a step of each process leaves alone.                                 *)
LEMMA TokensKept ==
  ASSUME Next
  PROVE  \/ UserCopies \/ Prepare \/ Empty \/ Locked \/ SetData \/ Finish \/ Expire \/ Suppress
         \/ UNCHANGED <<tokens, writer>>
BY DEF Next, Writes, Listens, WindowProc, Callback, ListenerDies, Watches, Start, Turn, Observe,
       ReadNothing, ReadContent, ReadFails, Suppress, Capture, Check, TooLarge, CaptureFails

(* The history only grows.                                                   *)
LEMMA HistoryGrows ==
  ASSUME Types, Next
  PROVE  /\ hist.own \subseteq hist'.own /\ (hist.excused => hist'.excused)
         /\ hist.suppressed \subseteq hist'.suppressed
<1>1. CASE UNCHANGED hist
  BY <1>1
<1>2. CASE DoneWith
  BY <1>2, DoneWithType
<1>3. CASE Prepare \/ Expire \/ SetData \/ Suppress \/ Capture
  BY <1>1, <1>3 DEF Prepare, Expire, SetData, Suppress, Capture, Types, Histories
<1>4. CASE ~(Prepare \/ Expire \/ SetData \/ Suppress \/ Capture)
  <2>1. UNCHANGED hist \/ DoneWith
    BY <1>4
    DEF Next, UserCopies, Writes, Empty, Locked, Finish, Listens, WindowProc, Callback,
        ListenerDies, Watches, Start, Turn, Observe, ReadNothing, ReadContent, ReadFails, Check,
        TooLarge, CaptureFails
  <2> QED
    BY <1>1, <1>2, <2>1
<1> QED
  BY <1>3, <1>4

(* The writer and its token.                                                 *)
LEMMA WriterTokenStep ==
  ASSUME Types, Types', WriterToken, Next
  PROVE  WriterToken'
<1>0. /\ tokens \in Seq(Bound) /\ tokens' \in Seq(Bound) /\ Len(tokens) \in Nat
      /\ Len(tokens) <= MaxTokens /\ MaxTokens \in Nat
      /\ \A i, j \in Uncommitted(tokens) : i = j
  BY EventsAssumption, LenProperties DEF Types, WriterToken
<1>1. clip.seq \in Nat /\ clip'.seq \in Nat /\ clip.seq <= clip'.seq
  BY ClipStep
<1>2. \A i \in 1..Len(tokens) : tokens[i].before \in Nat
  BY UncommittedIs DEF Types, Bound
<1>3. hist.excused => hist'.excused
  BY HistoryGrows
<1>4. \A i \in Uncommitted(tokens) : i \in 1..Len(tokens)
  BY UncommittedIs DEF Types
<1>5. CASE UNCHANGED <<tokens, writer>>
  BY <1>1, <1>2, <1>3, <1>4, <1>5 DEF WriterToken
<1>6. CASE UserCopies \/ Empty \/ Locked \/ SetData
  <2>1. UNCHANGED tokens
    BY <1>6 DEF UserCopies, Empty, Locked, SetData
  <2>2. CASE UserCopies
    BY <1>5, <2>1, <2>2 DEF UserCopies
  <2>3. CASE Empty \/ Locked \/ SetData
    <3>1. writer.at \in {"opening", "setting"} /\ writer'.content = writer.content
      BY <2>3 DEF Empty, Locked, SetData, Types, Writers
    <3>2. \/ writer'.at = "setting"
          \/ writer'.at = "finishing" /\ writer'.after \in {0, clip.seq + 1}
      BY <2>3 DEF Empty, Locked, SetData, Types, Writers
    <3>3. /\ \A i \in Uncommitted(tokens) :
               tokens[i].content = writer.content /\ tokens[i].before <= clip.seq
          /\ hist.excused \/ Uncommitted(tokens) # {}
      BY <3>1 DEF WriterToken
    <3>4. \A i \in Uncommitted(tokens) :
            tokens[i].before <= clip'.seq /\ tokens[i].before < clip.seq + 1
      BY <1>1, <1>2, <1>4, <3>3
    <3> QED
      BY <1>0, <1>3, <2>1, <3>1, <3>2, <3>3, <3>4 DEF WriterToken
  <2> QED
    BY <1>6, <2>2, <2>3
<1>7. CASE Prepare
  <2>1. PICK c \in Content :
          /\ tokens' = Prepared(tokens, Token(c, clip.seq))
          /\ writer' = [writer EXCEPT !.at = "opening", !.content = c]
    BY <1>7 DEF Prepare
  <2>2. Token(c, clip.seq) \in Bound /\ UNCHANGED clip /\ Uncommitted(tokens) = {}
    BY <1>1, <1>7, <2>1 DEF Token, Bound, Prepare, WriterToken
  <2>3. /\ Len(tokens') <= MaxTokens /\ Len(tokens') \in Nat \ {0}
        /\ tokens'[Len(tokens')] = Token(c, clip.seq)
        /\ \A i \in 1..Len(tokens') - 1 : \E j \in 1..Len(tokens) : tokens'[i] = tokens[j]
    <3>1. Grown(tokens, tokens')
      BY <1>0, <2>1, <2>2, PreparedTokens
    <3>2. /\ Len(tokens') <= MaxTokens /\ Len(tokens') \in Nat \ {0}
          /\ tokens'[Len(tokens')] = Token(c, clip.seq)
      BY <1>0, <2>1, <2>2, PreparedTokens
    <3> QED
      BY <3>1, <3>2 DEF Grown
  <2>4. \A i \in 1..Len(tokens') - 1 : tokens'[i].seq # 0
    BY <1>0, <2>2, <2>3, UncommittedIs
  <2>5. \A i \in Uncommitted(tokens') : i = Len(tokens')
    <3> SUFFICES ASSUME NEW i \in Uncommitted(tokens')
                 PROVE  i = Len(tokens')
      OBVIOUS
    <3>1. i \in 1..Len(tokens') /\ tokens'[i].seq = 0
      BY <1>0, UncommittedIs
    <3> QED
      BY <2>3, <2>4, <3>1
  <2>6. Len(tokens') \in Uncommitted(tokens')
    BY <1>0, <2>3, UncommittedIs DEF Token
  <2>7. writer'.at = "opening" /\ writer'.content = c
    BY <2>1 DEF Types, Writers
  <2> QED
    BY <1>1, <2>2, <2>3, <2>5, <2>6, <2>7 DEF WriterToken, Token
<1>8. CASE Finish
  <2>1. /\ tokens' = Finished(tokens, writer.after # 0, writer.after)
        /\ writer'.at = "idle" /\ writer.after \in Nat
    BY <1>8 DEF Finish, Types, Writers
  <2>2. Uncommitted(tokens') = {} /\ Len(tokens') <= Len(tokens) /\ Len(tokens') \in Nat
    <3>1. CASE Uncommitted(tokens) = {}
      BY <1>0, <2>1, <3>1 DEF Finished
    <3>2. CASE Uncommitted(tokens) # {}
      <4>1. PICK i \in 1..Len(tokens) :
              /\ Uncommitted(tokens) = {i}
              /\ writer.after # 0 => tokens' = [tokens EXCEPT ![i].seq = writer.after]
              /\ writer.after = 0 => tokens' = Without(tokens, i)
        <5>1. Settled(tokens, tokens', writer.after)
          BY <1>0, <2>1, FinishedTokens
        <5> QED
          BY <3>2, <5>1 DEF Settled
      <4>2. CASE writer.after # 0
        <5>1. /\ Len(tokens') = Len(tokens)
              /\ \A j \in 1..Len(tokens) :
                   tokens'[j] = IF j = i THEN [tokens[i] EXCEPT !.seq = writer.after] ELSE tokens[j]
          BY <1>0, <2>1, <4>1, <4>2, BoundToken
        <5>2. tokens[i] \in Bound
          BY <1>0, UncommittedIs
        <5>3. tokens'[i].seq = writer.after
          BY <5>1, <5>2 DEF Bound
        <5>4. \A j \in 1..Len(tokens) : j # i => tokens[j].seq # 0
          BY <1>0, <4>1, UncommittedIs
        <5> QED
          BY <1>0, <4>2, <5>1, <5>3, <5>4 DEF Uncommitted
      <4>3. CASE writer.after = 0
        <5>1. Removed(tokens, tokens', i)
          BY <1>0, <4>1, <4>3, Removals
        <5>2. \A k \in 1..Len(tokens') : tokens'[k].seq # 0
          <6> SUFFICES ASSUME NEW k \in 1..Len(tokens')
                       PROVE  tokens'[k].seq # 0
            OBVIOUS
          <6>1. PICK j \in 1..Len(tokens) : j # i /\ tokens'[k] = tokens[j]
            <7>1. /\ Len(tokens') = Len(tokens) - 1 /\ i \in Nat
                  /\ tokens'[k] = IF k < i THEN tokens[k] ELSE tokens[k + 1]
              BY <5>1 DEF Removed
            <7>2. CASE k < i
              BY <1>0, <7>1, <7>2
            <7>3. CASE ~(k < i)
              <8>1. k + 1 \in 1..Len(tokens) /\ k + 1 # i
                BY <1>0, <7>1, <7>3
              <8> QED
                BY <7>1, <7>3, <8>1
            <7> QED
              BY <7>2, <7>3
          <6> QED
            BY <1>0, <4>1, <6>1, UncommittedIs
        <5> QED
          BY <1>0, <5>1, <5>2 DEF Uncommitted, Removed
      <4> QED
        BY <4>2, <4>3
    <3> QED
      BY <3>1, <3>2
  <2> QED
    BY <1>0, <2>1, <2>2 DEF WriterToken
<1>9. CASE Expire \/ Suppress
  <2>1. PICK i : Removed(tokens, tokens', i) /\ (tokens[i].seq # 0 \/ hist'.excused)
    <3>1. CASE Expire
      BY <1>0, <3>1, Removals DEF Expire, Types, Histories
    <3>2. CASE Suppress
      BY <1>0, <3>2, Removals DEF Suppress, Matches
    <3> QED
      BY <1>9, <3>1, <3>2
  <2>2. \A a, b \in Uncommitted(tokens') : a = b
    BY <1>0, <2>1, RemovedUncommitted
  <2>3. Len(tokens') <= MaxTokens
    BY <1>0, <2>1 DEF Removed
  <2>4. UNCHANGED <<clip, writer>>
    BY <1>9 DEF Expire, Suppress
  <2>5. ASSUME NEW k \in Uncommitted(tokens')
        PROVE  \E j \in Uncommitted(tokens) : tokens'[k] = tokens[j]
    <3>1. k \in 1..Len(tokens') /\ tokens'[k].seq = 0
      BY <1>0, UncommittedIs
    <3>2. PICK j \in 1..Len(tokens) : tokens'[k] = tokens[j]
      <4>1. From(tokens', tokens)
        BY <1>0, <2>1, RemovedToken
      <4> QED
        BY <3>1, <4>1 DEF From
    <3> QED
      BY <1>0, <3>1, <3>2, UncommittedIs
  <2>6. ASSUME NEW j \in Uncommitted(tokens), ~hist'.excused
        PROVE  Uncommitted(tokens') # {}
    <3>1. j \in 1..Len(tokens) /\ tokens[j].seq = 0
      BY <1>0, UncommittedIs
    <3>2. PICK k \in 1..Len(tokens') : tokens'[k] = tokens[j]
      <4>1. Kept(tokens, tokens', i) /\ j # i
        BY <1>0, <2>1, <2>6, <3>1, RemovedToken
      <4> QED
        BY <3>1, <4>1 DEF Kept
    <3> QED
      BY <1>0, <3>1, <3>2, UncommittedIs
  <2> QED
    BY <1>3, <2>2, <2>3, <2>4, <2>5, <2>6 DEF WriterToken
<1> QED
  BY <1>5, <1>6, <1>7, <1>8, <1>9, TokensKept

(* Where a token with a number comes from.                                   *)
LEMMA OwnTokensStep ==
  ASSUME Types, Types', WriterToken, TokensAreOwn, Next
  PROVE  TokensAreOwn'
<1>0. /\ tokens \in Seq(Bound) /\ tokens' \in Seq(Bound) /\ Len(tokens) \in Nat
      /\ \A i, j \in Uncommitted(tokens) : i = j
      /\ Len(tokens) <= MaxTokens
  BY LenProperties DEF Types, WriterToken
<1>1. hist.own \subseteq hist'.own
  BY HistoryGrows
<1>3. CASE UNCHANGED <<tokens, writer>>
  BY <1>1, <1>3 DEF TokensAreOwn
<1>4. CASE UserCopies \/ Empty \/ Locked
  <2>1. UNCHANGED tokens /\ (writer'.at = "finishing" => writer'.after \in {0, writer.after})
    BY <1>4 DEF UserCopies, Empty, Locked, Types, Writers
  <2>2. writer'.at = "finishing" => writer'.after = 0 \/ writer' = writer
    BY <1>4 DEF UserCopies, Empty, Locked, Types, Writers
  <2> QED
    BY <1>1, <2>1, <2>2 DEF TokensAreOwn
<1>5. CASE SetData
  <2>1. UNCHANGED tokens /\ (writer'.after = 0 \/ writer'.after \in hist'.own)
    <3>1. \/ writer' = [writer EXCEPT !.at = "finishing", !.after = 0]
          \/ /\ writer' = [writer EXCEPT !.at = "finishing", !.after = clip.seq + 1]
             /\ hist' = [hist EXCEPT !.own = @ \cup {clip.seq + 1}]
      BY <1>5 DEF SetData
    <3>2. UNCHANGED tokens
      BY <1>5 DEF SetData
    <3> QED
      <4>1. writer \in Writers /\ hist \in Histories
        BY DEF Types
      <4>2. CASE writer' = [writer EXCEPT !.at = "finishing", !.after = 0]
        BY <3>2, <4>1, <4>2 DEF Writers
      <4>3. CASE /\ writer' = [writer EXCEPT !.at = "finishing", !.after = clip.seq + 1]
                 /\ hist' = [hist EXCEPT !.own = @ \cup {clip.seq + 1}]
        <5>1. writer'.after = clip.seq + 1
          BY <4>1, <4>3 DEF Writers
        <5>2. clip.seq + 1 \in hist'.own
          BY <4>1, <4>3 DEF Histories
        <5> QED
          BY <3>2, <5>1, <5>2
      <4> QED
        BY <3>1, <4>2, <4>3
  <2> QED
    BY <1>1, <2>1 DEF TokensAreOwn
<1>6. CASE Prepare
  <2>1. PICK c \in Content :
          /\ tokens' = Prepared(tokens, Token(c, clip.seq))
          /\ writer' = [writer EXCEPT !.at = "opening", !.content = c]
    BY <1>6 DEF Prepare
  <2>2. Token(c, clip.seq) \in Bound /\ writer'.at = "opening"
    BY <2>1 DEF Token, Bound, Types, Clips, Writers
  <2>3. /\ tokens'[Len(tokens')] = Token(c, clip.seq) /\ Len(tokens') \in Nat \ {0}
        /\ \A i \in 1..Len(tokens') - 1 : \E j \in 1..Len(tokens) : tokens'[i] = tokens[j]
    <3>1. Grown(tokens, tokens')
      BY <1>0, <2>1, <2>2, PreparedTokens
    <3>2. /\ Len(tokens') <= MaxTokens /\ Len(tokens') \in Nat \ {0}
          /\ tokens'[Len(tokens')] = Token(c, clip.seq)
      BY <1>0, <2>1, <2>2, PreparedTokens
    <3> QED
      BY <3>1, <3>2 DEF Grown
  <2>4. Token(c, clip.seq).seq = 0
    BY DEF Token
  <2>5. \A k \in 1..Len(tokens') : tokens'[k].seq = 0 \/ \E j \in 1..Len(tokens) : tokens'[k] = tokens[j]
    BY <2>3, <2>4
  <2> QED
    BY <1>1, <2>2, <2>5 DEF TokensAreOwn
<1>7. CASE Finish
  <2>1. /\ tokens' = Finished(tokens, writer.after # 0, writer.after)
        /\ writer'.at = "idle" /\ writer.after \in Nat
        /\ (writer.after # 0 => writer.after \in hist.own)
    BY <1>7 DEF Finish, Types, Writers, TokensAreOwn
  <2>2. CASE tokens' = tokens
    BY <1>1, <2>1, <2>2 DEF TokensAreOwn
  <2>3. CASE tokens' # tokens
    <3>1. PICK i \in 1..Len(tokens) :
            /\ writer.after # 0 => tokens' = [tokens EXCEPT ![i].seq = writer.after]
            /\ writer.after = 0 => tokens' = Without(tokens, i)
      <4>1. Settled(tokens, tokens', writer.after)
        BY <1>0, <2>1, FinishedTokens
      <4> QED
        BY <2>3, <4>1 DEF Settled
    <3>2. CASE writer.after # 0
      <4>1. /\ Len(tokens') = Len(tokens)
            /\ \A j \in 1..Len(tokens) :
                 tokens'[j] = IF j = i THEN [tokens[i] EXCEPT !.seq = writer.after] ELSE tokens[j]
        BY <1>0, <2>1, <3>1, <3>2, BoundToken
      <4>2. tokens[i] \in Bound
        BY <1>0, UncommittedIs
      <4>3. tokens'[i].seq = writer.after
        BY <4>1, <4>2 DEF Bound
      <4> QED
        BY <1>1, <2>1, <3>2, <4>1, <4>3 DEF TokensAreOwn
    <3>3. CASE writer.after = 0
      <4>1. Removed(tokens, tokens', i)
        BY <1>0, <3>1, <3>3, Removals
      <4> QED
        <5>1. From(tokens', tokens)
          BY <1>0, <4>1, RemovedToken
        <5> QED
          <6>1. \A k \in 1..Len(tokens') : tokens'[k].seq # 0 => tokens'[k].seq \in hist.own
            BY <5>1 DEF From, TokensAreOwn
          <6> QED
            BY <1>1, <2>1, <6>1 DEF TokensAreOwn
    <3> QED
      BY <3>2, <3>3
  <2> QED
    BY <2>2, <2>3
<1>8. CASE Expire \/ Suppress
  <2>1. PICK i : Removed(tokens, tokens', i)
    BY <1>0, <1>8, Removals DEF Expire, Suppress, Matches
  <2>2. UNCHANGED writer
    BY <1>8 DEF Expire, Suppress
  <2> QED
    <3>1. From(tokens', tokens)
      BY <1>0, <2>1, RemovedToken
    <3> QED
      BY <1>1, <2>2, <3>1 DEF From, TokensAreOwn
<1> QED
  BY <1>3, <1>4, <1>5, <1>6, <1>7, <1>8, TokensKept

----------------------------------------------------------------------------
(* Own writes and copies                                                     *)

(* What is written under a number stays what is seen under it: what is on   *)
(* the clipboard changes with its number, and is read with it.               *)
LEMMA SameStep ==
  ASSUME Types, Types', InOrder, Next, NEW s \in Nat, s <= clip.seq, NEW c, Same(s, c)
  PROVE  Same(s, c)'
<1>1. clip.seq \in Nat
  BY DEF Types, Clips
<1>2. clip'.seq = s => clip'.content = c
  <2>1. CASE \E x, l : Changed(x, l)
    <3>1. clip'.seq = clip.seq + 1
      BY <2>1 DEF Changed, Types, Clips
    <3> QED
      BY <1>1, <3>1
  <2>2. CASE UNCHANGED clip \/ clip' = [clip EXCEPT !.locked = FALSE]
    <3>1. clip'.seq = clip.seq /\ clip'.content = clip.content
      BY <2>2 DEF Types, Clips
    <3> QED
      BY <3>1 DEF Same
  <2> QED
    BY <2>1, <2>2
    DEF Next, UserCopies, Prepare, Writes, Empty, Locked, SetData, Finish, Expire, Listens,
        WindowProc, Callback, ListenerDies, Watches, Start, Turn, Observe, ReadNothing, ReadContent,
        ReadFails, Suppress, Capture, Check, TooLarge, CaptureFails
<1>3. watcher'.at = "consuming" /\ watcher'.seq = s => watcher'.read = c
  <2>1. CASE UNCHANGED watcher
    BY <2>1 DEF Same
  <2>2. CASE ReadContent /\ watcher' = [watcher EXCEPT !.at = "consuming", !.read = clip.content]
              /\ StillThere
    BY <2>2 DEF StillThere, Seq0, Same, Types, Watchers
  <2>3. CASE watcher'.at # "consuming"
    BY <2>3
  <2>4. CASE Start \/ Turn
    <3>1. watcher.at # "consuming" /\ (watcher'.at = watcher.at \/ watcher'.at \in {"loop", "observing"})
      BY <2>4 DEF Start, Turn, Types, Watchers
    <3> QED
      BY <2>3, <3>1
  <2>5. CASE Observe \/ Capture
    BY <2>3, <2>5 DEF Observe, Capture, Steps, Types, Watchers
  <2>6. CASE watcher' \in {Again, Done} \/ \E x : watcher' \in {[Again EXCEPT !.tries = x],
                                                               [Done EXCEPT !.tries = x]}
    <3>1. watcher'.at = "loop"
      BY <2>6 DEF Again, Done, Types, Watchers
    <3> QED
      BY <2>3, <3>1
  <2> QED
    BY <2>1, <2>2, <2>4, <2>5, <2>6
    DEF Next, UserCopies, Prepare, Writes, Empty, Locked, SetData, Finish, Expire, Listens,
        WindowProc, Callback, ListenerDies, Watches, ReadNothing, ReadContent, ReadFails, Suppress,
        Check, TooLarge, CaptureFails, Steps
<1> QED
  BY <1>2, <1>3 DEF Same

(* Each write not yet suppressed keeps its token, or its writer.             *)
LEMMA GuardedStep ==
  ASSUME Types, Types', InOrder, WriterToken, Next, ~hist'.excused,
         NEW s \in hist.own \ hist'.suppressed, Guarded(s)
  PROVE  Guarded(s)'
<1>0. /\ tokens \in Seq(Bound) /\ tokens' \in Seq(Bound) /\ Len(tokens) \in Nat
      /\ \A i, j \in Uncommitted(tokens) : i = j
      /\ Len(tokens) <= MaxTokens
      /\ s \in Nat \ {0} /\ s <= clip.seq /\ ~hist.excused
  BY HistoryGrows, LenProperties DEF Types, WriterToken, Histories, InOrder
<1>1. \A c : Same(s, c) => Same(s, c)'
  BY <1>0, SameStep
<1>2. CASE \A j \in 1..Len(tokens) : tokens[j].seq = s => \E k \in 1..Len(tokens') : tokens'[k] = tokens[j]
  <2>1. CASE UNCHANGED writer \/ writer.at # "finishing"
    BY <1>1, <1>2, <2>1 DEF Guarded
  <2>2. CASE ~(UNCHANGED writer \/ writer.at # "finishing")
    <3>1. Finish
      BY <2>2, TokensKept DEF UserCopies, Prepare, Empty, Locked, SetData, Expire, Suppress
    <3>2. PICK i \in 1..Len(tokens) : i \in Uncommitted(tokens)
      BY <1>0, <2>2, UncommittedIs DEF WriterToken
    <3>3. CASE writer.after = s
      <4>1. tokens' = Finished(tokens, writer.after # 0, writer.after)
        BY <3>1 DEF Finish
      <4>2. /\ Uncommitted(tokens) = {i}
            /\ tokens' = [tokens EXCEPT ![i].seq = s]
        <5>1. Settled(tokens, tokens', writer.after)
          BY <1>0, <3>3, <4>1, FinishedTokens
        <5> QED
          BY <1>0, <3>2, <3>3, <5>1 DEF Settled
      <4>3. /\ Len(tokens') = Len(tokens)
            /\ tokens'[i] = [tokens[i] EXCEPT !.seq = s]
        BY <1>0, <3>2, <4>2, BoundToken
      <4>4. tokens[i] \in Bound
        BY <1>0, UncommittedIs
      <4>5. tokens'[i].seq = s /\ tokens'[i].content = writer.content
        BY <3>2, <4>3, <4>4 DEF Bound, WriterToken
      <4> QED
        BY <1>1, <1>2, <3>3, <4>3, <4>5 DEF Guarded
    <3>4. CASE writer.after # s
      BY <1>1, <1>2, <3>4 DEF Guarded
    <3> QED
      BY <3>3, <3>4
  <2> QED
    BY <2>1, <2>2
<1>3. CASE UNCHANGED tokens
  BY <1>2, <1>3
<1>4. CASE Prepare
  <2>1. PICK c \in Content : tokens' = Prepared(tokens, Token(c, clip.seq))
    BY <1>4 DEF Prepare
  <2>2. Token(c, clip.seq) \in Bound
    BY DEF Token, Bound, Types, Clips
  <2>3. Len(tokens) # MaxTokens
    BY <1>4 DEF Prepare, Types, Histories
  <2>4. tokens' = Append(tokens, Token(c, clip.seq))
    BY <1>0, <2>1, <2>2, <2>3, PreparedTokens
  <2> QED
    BY <1>0, <1>2, <2>2, <2>4, Appended
<1>5. CASE Finish
  <2>1. tokens' = Finished(tokens, writer.after # 0, writer.after) /\ writer.after \in Nat
    BY <1>5 DEF Finish, Types, Writers
  <2>2. \/ tokens' = tokens
        \/ \E i \in 1..Len(tokens) :
             /\ tokens[i].seq = 0
             /\ \/ Removed(tokens, tokens', i)
                \/ tokens' = [tokens EXCEPT ![i].seq = writer.after]
    <3>1. Settled(tokens, tokens', writer.after)
      BY <1>0, <2>1, FinishedTokens
    <3>2. \A i \in 1..Len(tokens) : Removed(tokens, Without(tokens, i), i)
      BY <1>0, Removals
    <3> QED
      BY <3>1, <3>2 DEF Settled
  <2>3. ASSUME NEW i \in 1..Len(tokens), tokens[i].seq = 0,
               \/ Removed(tokens, tokens', i)
               \/ tokens' = [tokens EXCEPT ![i].seq = writer.after]
        PROVE  \A j \in 1..Len(tokens) : tokens[j].seq = s => \E k \in 1..Len(tokens') : tokens'[k] = tokens[j]
    <3>1. CASE Removed(tokens, tokens', i)
      <4>1. Kept(tokens, tokens', i)
        BY <1>0, <3>1, RemovedToken
      <4> QED
        BY <1>0, <2>3, <4>1 DEF Kept
    <3>2. CASE tokens' = [tokens EXCEPT ![i].seq = writer.after]
      BY <1>0, <2>1, <2>3, <3>2, BoundToken
    <3> QED
      BY <2>3, <3>1, <3>2
  <2> QED
    BY <1>2, <1>3, <2>2, <2>3
<1>6. CASE Expire
  BY <1>6 DEF Expire, Types, Histories
<1>7. CASE Suppress
  <2>1. PICK i \in Matches(tokens, Seq0, watcher.read) : tokens' = Without(tokens, i)
    BY <1>7 DEF Suppress
  <2>2. i \in 1..Len(tokens) /\ tokens[i].seq = Seq0
    BY DEF Matches
  <2>3. hist'.suppressed = hist.suppressed \cup {Seq0}
    BY <1>7 DEF Suppress, Types, Histories
  <2>4. Removed(tokens, tokens', i) /\ s # Seq0
    BY <1>0, <2>1, <2>2, <2>3, Removals
  <2> QED
    <3>1. Kept(tokens, tokens', i)
      BY <1>0, <2>4, RemovedToken
    <3> QED
      BY <1>2, <2>2, <2>4, <3>1 DEF Kept
<1> QED
  BY <1>3, <1>4, <1>5, <1>6, <1>7, TokensKept DEF UserCopies, Empty, Locked, SetData

(* Old writes stay guarded, and a new one is guarded by its writer.          *)
LEMMA WritesGuardedStep ==
  ASSUME Types, Types', InOrder, WriterToken, WritesAreGuarded, Next
  PROVE  WritesAreGuarded'
<1> SUFFICES ASSUME ~hist'.excused, NEW s \in hist'.own \ hist'.suppressed
             PROVE  Guarded(s)'
  BY DEF WritesAreGuarded
<1>1. ~hist.excused /\ hist.suppressed \subseteq hist'.suppressed
  BY HistoryGrows
<1>2. CASE s \in hist.own
  BY <1>1, <1>2, GuardedStep DEF WritesAreGuarded
<1>3. CASE s \notin hist.own
  <2>1. hist'.own # hist.own
    BY <1>3
  <2>2. SetData
    <3>1. CASE DoneWith
      BY <2>1, <3>1, DoneWithType
    <3>2. CASE Prepare \/ Expire \/ Suppress \/ Capture
      BY <2>1, <3>2 DEF Prepare, Expire, Suppress, Capture, Types, Histories
    <3> QED
      BY <2>1, <3>1, <3>2
      DEF Next, UserCopies, Writes, Empty, Locked, Finish, Listens, WindowProc, Callback,
          ListenerDies, Watches, Start, Turn, Observe, ReadNothing, ReadContent, ReadFails, Check,
          TooLarge, CaptureFails
  <2>3. /\ Changed(writer.content, FALSE)
        /\ writer' = [writer EXCEPT !.at = "finishing", !.after = clip.seq + 1]
        /\ hist' = [hist EXCEPT !.own = @ \cup {clip.seq + 1}]
        /\ UNCHANGED watcher
    BY <2>1, <2>2 DEF SetData
  <2>4. s = clip.seq + 1
    BY <1>3, <2>3 DEF Types, Histories
  <2>5. /\ writer'.at = "finishing" /\ writer'.after = s /\ writer'.content = writer.content
        /\ clip'.content = writer.content
    BY <2>3, <2>4 DEF Changed, Types, Writers, Clips
  <2>6. watcher'.seq # s
    BY <2>3, <2>4 DEF InOrder, Types, Watchers, Clips
  <2> QED
    BY <2>5, <2>6 DEF Guarded, Same
<1> QED
  BY <1>2, <1>3

(* A copy is not passed over, a write is not captured.                       *)
LEMMA SuppressedStep ==
  ASSUME Types, TokensAreOwn, CopiesAreNotHidden, Next
  PROVE  CopiesAreNotHidden'
<1>1. hist.own \subseteq hist'.own
  BY HistoryGrows
<1>2. CASE hist'.suppressed = hist.suppressed
  BY <1>1, <1>2 DEF CopiesAreNotHidden
<1>3. CASE Suppress
  <2>1. PICK i \in 1..Len(tokens) : tokens[i].seq # 0 /\ tokens[i].seq = Seq0
    BY <1>3 DEF Suppress, Matches
  <2>2. hist'.suppressed = hist.suppressed \cup {Seq0}
    BY <1>3 DEF Suppress, Types, Histories
  <2> QED
    BY <1>1, <2>1, <2>2 DEF CopiesAreNotHidden, TokensAreOwn
<1>4. CASE DoneWith
  BY <1>2, <1>4, DoneWithType
<1>5. CASE Prepare \/ Expire \/ SetData \/ Capture
  BY <1>2, <1>5 DEF Prepare, Expire, SetData, Capture, Types, Histories
<1> QED
  BY <1>2, <1>3, <1>4, <1>5
  DEF Next, UserCopies, Writes, Empty, Locked, Finish, Listens, WindowProc, Callback,
      ListenerDies, Watches, Start, Turn, Observe, ReadNothing, ReadContent, ReadFails, Check,
      TooLarge, CaptureFails

(* A guarded write is not captured: its token matches, or may match.         *)
LEMMA CapturedStep ==
  ASSUME Types, Types', InOrder, WriterToken, WritesAreGuarded, NoEcho, Next
  PROVE  NoEcho'
<1> SUFFICES ASSUME ~hist'.excused
             PROVE  hist'.captured \cap hist'.own = {}
  BY DEF NoEcho
<1>1. ~hist.excused /\ hist.captured \cap hist.own = {}
  BY HistoryGrows DEF NoEcho
<1>2. CASE hist'.captured = hist.captured /\ hist'.own = hist.own
  BY <1>1, <1>2
<1>3. CASE SetData
  <2>1. UNCHANGED hist \/ hist' = [hist EXCEPT !.own = @ \cup {clip.seq + 1}]
    BY <1>3 DEF SetData
  <2>2. clip.seq + 1 \notin hist.captured
    BY DEF InOrder, Types, Clips, Histories
  <2> QED
    BY <1>1, <2>1, <2>2 DEF Types, Histories
<1>4. CASE Capture
  <2>1. PICK pending \in BOOLEAN :
          /\ pending <=> MayMatch(tokens, Seq0, watcher.read)
          /\ hist' = [hist EXCEPT !.captured = @ \cup {Seq0}, !.excused = @ \/ pending]
    BY <1>4 DEF Capture, MayMatch
  <2>2. /\ hist'.captured = hist.captured \cup {Seq0} /\ hist'.own = hist.own
        /\ ~MayMatch(tokens, Seq0, watcher.read)
        /\ Matches(tokens, Seq0, watcher.read) = {} /\ watcher.at = "consuming"
    BY <1>4, <2>1 DEF Capture, Steps, Types, Histories
  <2>3. Seq0 \notin hist.suppressed
    BY <1>1, <2>2 DEF InOrder, Types, Histories, Watchers, Seq0
  <2>4. ASSUME Seq0 \in hist.own
        PROVE  FALSE
    <3>1. Guarded(Seq0) /\ Seq0 # 0
      BY <1>1, <2>3, <2>4 DEF WritesAreGuarded, Types, Histories
    <3>2. \A c : Same(Seq0, c) => watcher.read = c
      BY <2>2 DEF Same, Seq0
    <3>3. CASE \E i \in 1..Len(tokens) : tokens[i].seq = Seq0 /\ Same(Seq0, tokens[i].content)
      BY <2>2, <3>1, <3>2, <3>3 DEF Matches
    <3>4. CASE writer.at = "finishing" /\ writer.after = Seq0 /\ Same(Seq0, writer.content)
      <4>1. PICK i \in Uncommitted(tokens) : /\ tokens[i].content = writer.content
                                             /\ tokens[i].before < Seq0
        BY <1>1, <3>1, <3>4 DEF WriterToken
      <4>2. tokens[i].before # Seq0
        BY <4>1, UncommittedIs DEF Types, Bound, Watchers, Seq0
      <4> QED
        BY <2>2, <3>2, <3>4, <4>1, <4>2 DEF MayMatch
    <3> QED
      BY <3>1, <3>3, <3>4 DEF Guarded
  <2> QED
    BY <1>1, <2>2, <2>4
<1>5. CASE DoneWith
  BY <1>2, <1>5, DoneWithType
<1>6. CASE Prepare \/ Expire \/ Suppress
  BY <1>2, <1>6 DEF Prepare, Expire, Suppress, Types, Histories
<1> QED
  BY <1>2, <1>3, <1>4, <1>5, <1>6
  DEF Next, UserCopies, Writes, Empty, Locked, Finish, Listens, WindowProc, Callback,
      ListenerDies, Watches, Start, Turn, Observe, ReadNothing, ReadContent, ReadFails, Check,
      TooLarge, CaptureFails

----------------------------------------------------------------------------

(* The invariant holds before the listener starts.                           *)
LEMMA WatchInit ==
  ASSUME Init
  PROVE  WatchInv
<1>1. clip \in Clips /\ listener \in Listeners /\ writer \in Writers
  BY DEF Init, Clips, Listeners, Writers, Contents
<1>2. events = <<>> /\ tokens = <<>> /\ events \in Seq(Nat) /\ tokens \in Seq(Bound)
  BY EmptySeq DEF Init
<1>3. watcher \in Watchers
  <2>1. [s \in {} |-> 0] \in Counts
    BY DEF Counts
  <2> QED
    BY <2>1 DEF Init, Watchers, Contents
<1>4. hist \in Histories
  BY DEF Init, Histories
<1>5. Len(events) = 0 /\ Len(tokens) = 0 /\ Uncommitted(tokens) = {} /\ 1..0 = {}
  BY <1>2, EmptySeq DEF Uncommitted
<1>6. Types
  BY <1>1, <1>2, <1>3, <1>4 DEF Types
<1>7. InOrder
  BY <1>5 DEF Init, InOrder
<1>8. WriterToken /\ TokensAreOwn
  BY <1>5, EventsAssumption DEF Init, WriterToken, TokensAreOwn
<1>9. WritesAreGuarded /\ CopiesAreNotHidden /\ NoEcho
  BY DEF Init, WritesAreGuarded, CopiesAreNotHidden, NoEcho
<1> QED
  BY <1>6, <1>7, <1>8, <1>9 DEF WatchInv

(* Every step keeps it.                                                      *)
LEMMA WatchStep ==
  ASSUME WatchInv, [Next]_vars
  PROVE  WatchInv'
<1>1. CASE Next
  <2>1. Types'
    BY <1>1, WriterTypes, ListenerTypes, WatcherTypes DEF WatchInv, Next
  <2> QED
    BY <1>1, <2>1, OrderStep, WriterTokenStep, OwnTokensStep, WritesGuardedStep, SuppressedStep,
       CapturedStep DEF WatchInv
<1>2. CASE UNCHANGED vars
  BY <1>2
  DEF vars, WatchInv, Types, InOrder, WriterToken, TokensAreOwn, WritesAreGuarded, Guarded, Same,
      CopiesAreNotHidden, NoEcho
<1> QED
  BY <1>1, <1>2

(* The inductive invariant of the capture.                                   *)
THEOREM WatchInvariant == Spec => []WatchInv
BY WatchInit, WatchStep, PTL DEF Spec

(* clipboard_events: "Sequence-bound suppression that cannot hide a later    *)
(* equal user copy": whatever the order in which writes, events, reads and   *)
(* expiries meet, only a number a write of the program led to is passed over. *)
THEOREM CopiesAreNeverHidden == Spec => []CopiesAreNotHidden
<1>1. WatchInv => CopiesAreNotHidden
  BY DEF WatchInv
<1> QED
  BY <1>1, WatchInvariant, PTL

(* What the program puts on the clipboard comes back as a copy of the user's *)
(* only when a token was dropped, consume gave up on a write that still had   *)
(* no number, or the last number was turned back.                             *)
THEOREM WritesAreNotEchoed == Spec => []NoEcho
<1>1. WatchInv => NoEcho
  BY DEF WatchInv
<1> QED
  BY <1>1, WatchInvariant, PTL
==============================================================================
