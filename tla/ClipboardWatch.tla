---------------------------- MODULE ClipboardWatch ---------------------------
(***************************************************************************)
(* The capture of what the user copies: the listener's window procedure     *)
(* (clipboard_win), the watcher thread (tray) and the program's own writes   *)
(* (ClipboardManager.perform_windows_write) on the clipboard all programs    *)
(* of the desktop share.                                                     *)
(***************************************************************************)
EXTENDS ClipboardEvents

vars == <<clip, listener, events, tokens, writer, watcher, hist, left>>

Init ==
  /\ clip = [seq |-> 0, content |-> None, locked |-> FALSE]
  /\ listener = [on |-> FALSE, posted |-> 0, got |-> None, since |-> 0]
  /\ events = <<>> /\ tokens = <<>>
  /\ writer = [at |-> "idle", content |-> None, after |-> 0]
  /\ watcher = [at |-> "starting", mode |-> "poll", seq |-> 0, read |-> None, last |-> 0,
                tries |-> [s \in {} |-> 0]]
  /\ hist = [own |-> {}, captured |-> {}, suppressed |-> {}, done |-> {}, excused |-> FALSE]
  /\ left \in Scenarios

Changed(c, locked) == clip' = [seq |-> clip.seq + 1, content |-> c, locked |-> locked]
Notified == listener' = IF listener.on THEN [listener EXCEPT !.posted = @ + 1] ELSE listener

(* Another program copies, or empties the clipboard.                          *)
UserCopies ==
  /\ ~clip.locked /\ Spend("copy")
  /\ \E c \in Content \cup {None} : Changed(c, FALSE)
  /\ Notified
  /\ UNCHANGED <<events, tokens, writer, watcher, hist>>

(* --- perform_windows_write -------------------------------------------------- *)
Prepare ==
  /\ writer.at = "idle" /\ Spend("paste")
  /\ \E c \in Content :
       /\ tokens' = Prepared(tokens, Token(c, clip.seq))
       /\ writer' = [writer EXCEPT !.at = "opening", !.content = c]
  /\ hist' = [hist EXCEPT !.excused = @ \/ Len(tokens) = MaxTokens]
  /\ UNCHANGED <<clip, listener, events, watcher>>
(* OpenClipboard and EmptyClipboard, or the clipboard stays locked.           *)
Empty ==
  /\ writer.at = "opening" /\ ~clip.locked
  /\ Changed(None, TRUE)
  /\ writer' = [writer EXCEPT !.at = "setting"]
  /\ UNCHANGED <<listener, events, tokens, watcher, hist, left>>
Locked ==
  /\ writer.at = "opening" /\ Spend("busy")
  /\ writer' = [writer EXCEPT !.at = "finishing", !.after = 0]
  /\ UNCHANGED <<clip, listener, events, tokens, watcher, hist>>
(* The new number is read while the clipboard is still open.                  *)
SetData ==
  /\ writer.at = "setting"
  /\ \/ /\ Changed(writer.content, FALSE)
        /\ writer' = [writer EXCEPT !.at = "finishing", !.after = clip.seq + 1]
        /\ hist' = [hist EXCEPT !.own = @ \cup {clip.seq + 1}]
        /\ UNCHANGED left
     \/ /\ Spend("busy") /\ clip' = [clip EXCEPT !.locked = FALSE]
        /\ writer' = [writer EXCEPT !.at = "finishing", !.after = 0]
        /\ UNCHANGED hist
  /\ Notified
  /\ UNCHANGED <<events, tokens, watcher>>
Finish ==
  /\ writer.at = "finishing"
  /\ tokens' = Finished(tokens, writer.after # 0, writer.after)
  /\ writer' = [at |-> "idle", content |-> None, after |-> 0]
  /\ UNCHANGED <<clip, listener, events, watcher, hist, left>>
(* The oldest token has outlived its time.                                    *)
Expire ==
  /\ tokens # <<>> /\ Spend("late")
  /\ tokens' = Tail(tokens) /\ hist' = [hist EXCEPT !.excused = TRUE]
  /\ UNCHANGED <<clip, listener, events, writer, watcher>>

(* --- ClipboardListener ------------------------------------------------------ *)
WindowProc ==
  /\ listener.on /\ listener.posted > 0 /\ listener.got = None
  /\ listener' = [listener EXCEPT !.posted = @ - 1, !.got = clip.seq]
  /\ UNCHANGED <<clip, events, tokens, writer, watcher, hist, left>>
Callback ==
  /\ listener.got # None
  /\ events' = Submitted(events, listener.got)
  /\ listener' = [listener EXCEPT !.got = None]
  /\ UNCHANGED <<clip, tokens, writer, watcher, hist, left>>
ListenerDies ==
  /\ listener.on /\ listener.got = None /\ Spend("die")
  /\ listener' = [listener EXCEPT !.on = FALSE, !.posted = 0]
  /\ UNCHANGED <<clip, events, tokens, writer, watcher, hist>>

(* --- clipboard_watcher -------------------------------------------------------- *)
(* The last number is read before the listener starts, or fails to.           *)
Start ==
  /\ watcher.at = "starting"
  /\ \E on \in BOOLEAN :
       /\ on \/ left["die"] > 0
       /\ listener' = [listener EXCEPT !.on = on, !.since = IF on THEN clip.seq ELSE 0]
       /\ watcher' = [watcher EXCEPT !.at = "loop", !.mode = IF on THEN "listen" ELSE "poll"]
  /\ UNCHANGED <<clip, events, tokens, writer, hist, left>>

(* Once round the loop: poll or listen, take an event that is news.           *)
Mode == IF listener.on THEN watcher.mode ELSE "poll"
Turn ==
  LET unchanged == Mode = "poll" /\ clip.seq = watcher.last
      q == IF Mode = "poll" /\ ~unchanged THEN Submitted(events, clip.seq) ELSE events
      takes == ~unchanged /\ q # <<>>
  IN  /\ watcher.at = "loop" /\ (takes \/ Mode # watcher.mode)
      /\ events' = IF takes THEN Tail(q) ELSE q
      /\ watcher' = IF takes /\ Head(q) # watcher.last
                    THEN [watcher EXCEPT !.mode = Mode, !.at = "observing", !.seq = Head(q)]
                    ELSE [watcher EXCEPT !.mode = Mode]
      /\ UNCHANGED <<clip, listener, tokens, writer, hist, left>>

Seq0 == watcher.seq
Steps(at, f) == watcher.at = at /\ watcher' = f
Again == [watcher EXCEPT !.at = "loop", !.seq = 0, !.read = None]
Done == [Again EXCEPT !.last = Seq0]
DoneWith ==
  hist' = [hist EXCEPT !.done = @ \cup {Seq0}, !.excused = @ \/ Seq0 < watcher.last]
StillThere == clip.seq = Seq0
(* Any other exception: only another number is looked at again.               *)
Retried == events' = IF StillThere THEN events ELSE Submitted(events, clip.seq)
Tries == IF Seq0 \in DOMAIN watcher.tries THEN watcher.tries[Seq0] + 1 ELSE 1

Observe ==
  /\ Steps("observing", [watcher EXCEPT !.at = "reading", !.read = clip.content])
  /\ UNCHANGED <<clip, listener, events, tokens, writer, hist, left>>
(* Nothing there, or nothing of the kind there was: no check of the number.   *)
ReadNothing ==
  /\ ~clip.locked /\ (clip.content = None \/ clip.content # watcher.read)
  /\ Steps("reading", Done) /\ DoneWith
  /\ UNCHANGED <<clip, listener, events, tokens, writer, left>>
ReadContent ==
  /\ ~clip.locked /\ clip.content # None
  /\ \/ /\ StillThere /\ UNCHANGED events
        /\ Steps("reading", [watcher EXCEPT !.at = "consuming", !.read = clip.content])
     \/ ~StillThere /\ Retried /\ Steps("reading", Again)
  /\ UNCHANGED <<clip, listener, tokens, writer, hist, left>>
(* The clipboard stayed locked: five attempts for a number.                   *)
ReadFails ==
  /\ IF clip.locked THEN UNCHANGED left ELSE Spend("busy")
  /\ LET counted == [s \in DOMAIN watcher.tries \cup {Seq0} |->
                       IF s = Seq0 THEN Tries ELSE watcher.tries[s]]
     IN  \/ /\ Tries < MaxAttempts /\ events' = Submitted(events, clip.seq)
            /\ Steps("reading", [Again EXCEPT !.tries = counted]) /\ UNCHANGED hist
         \/ /\ Tries >= MaxAttempts /\ UNCHANGED events
            /\ Steps("reading", [Done EXCEPT !.tries = counted]) /\ DoneWith
  /\ UNCHANGED <<clip, listener, tokens, writer>>

Suppress ==
  /\ \E i \in Matches(tokens, Seq0, watcher.read) : tokens' = Without(tokens, i)
  /\ Steps("consuming", Done)
  /\ hist' = [hist EXCEPT !.suppressed = @ \cup {Seq0}, !.done = @ \cup {Seq0}]
  /\ UNCHANGED <<clip, listener, events, writer, left>>
(* No token, or it stays uncommitted for the 100 ms consume waits.            *)
Capture ==
  /\ Matches(tokens, Seq0, watcher.read) = {}
  /\ LET pending == MayMatch(tokens, Seq0, watcher.read)
     IN  /\ IF pending THEN Spend("late") ELSE UNCHANGED left
         /\ hist' = [hist EXCEPT !.captured = @ \cup {Seq0}, !.excused = @ \/ pending]
  /\ Steps("consuming", [watcher EXCEPT !.at = "captured"])
  /\ UNCHANGED <<clip, listener, events, tokens, writer>>
Check ==
  /\ \/ StillThere /\ Steps("captured", Done) /\ DoneWith /\ UNCHANGED events
     \/ ~StillThere /\ Steps("captured", Again) /\ Retried /\ UNCHANGED hist
  /\ UNCHANGED <<clip, listener, tokens, writer, left>>
(* Too large, or another failure of reading or capturing.                     *)
TooLarge ==
  /\ watcher.at = "reading" /\ Spend("fail") /\ Steps("reading", Done) /\ DoneWith
  /\ UNCHANGED <<clip, listener, events, tokens, writer>>
CaptureFails ==
  /\ Spend("fail") /\ Steps("captured", Again) /\ Retried
  /\ IF StillThere THEN DoneWith ELSE UNCHANGED hist
  /\ UNCHANGED <<clip, listener, tokens, writer>>

Writes == Empty \/ Locked \/ SetData \/ Finish
Listens == WindowProc \/ Callback
Watches ==
  \/ Start \/ Turn \/ Observe \/ ReadNothing \/ ReadContent \/ ReadFails
  \/ Suppress \/ Capture \/ Check \/ TooLarge \/ CaptureFails
Next == UserCopies \/ Prepare \/ Writes \/ Listens \/ Watches \/ Expire \/ ListenerDies
Spec == Init /\ [][Next]_vars
(* The threads of the program go on; a write keeps the clipboard open only    *)
(* for a while.                                                               *)
FairSpec == Spec /\ WF_vars(Writes) /\ WF_vars(Listens) /\ WF_vars(Watches)

-----------------------------------------------------------------------------

(* "Sequence-bound suppression that cannot hide a later equal user copy": only *)
(* the program's own writes are passed over, however equal a copy is.          *)
CopiesAreNotHidden == hist.suppressed \subseteq hist.own

(* What the program itself puts on the clipboard is captured as a copy only    *)
(* when its token was dropped, when consume gave up, or when an older event    *)
(* that came last could not be read and turned the last number back.           *)
NoEcho == hist.captured \cap hist.own # {} => hist.excused

(* Whatever is on the clipboard since the listener runs is dealt with or       *)
(* replaced: dropped events, a dead listener or a lock lose no copy for good.  *)
Unhandled ==
  watcher.at # "starting" /\ clip.seq > listener.since /\ clip.seq \notin hist.done
NewestIsHandled == Unhandled ~> ~Unhandled
==============================================================================
