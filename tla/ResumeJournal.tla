---------------------------- MODULE ResumeJournal ----------------------------
(***************************************************************************)
(* The durable resume journal of one stream_v2 transfer                     *)
(* (clipboard_resume_v2.py).  A transfer owns one journal on each side: the *)
(* sender's outgoing journal and the receiver's incoming journal.  Both are *)
(* files that survive a crash, and both obey the same transition table.     *)
(*                                                                          *)
(* Files are sent one after the other, so the per-file offsets of a journal *)
(* are written here as ONE position in the concatenation of the files: the  *)
(* rule "progress is sequential" of _validate_entries makes the two views   *)
(* equivalent.  For the outgoing journal durable is the sum of the          *)
(* receiver_durable_offset fields, for the incoming journal of the          *)
(* durable_offset fields; stored is the position up to which the incoming   *)
(* files have storage_state "verified".                                     *)
(***************************************************************************)
EXTENDS Naturals

JournalStates ==
  {"created", "preflight", "accepted", "sending_manifest", "transferring",
   "paused", "waiting_reconnect", "verifying", "finalizing", "completed",
   "cancelled", "failed", "purging"}

(* Leaving states that every unfinished state may go to.                    *)
Exits == {"cancelled", "failed", "purging"}
Waits == {"paused", "waiting_reconnect"}

(* _STATE_TRANSITIONS.  A failed journal may be resumed (transferring,      *)
(* paused, waiting_reconnect) but not finalized.                            *)
Transitions ==
  [created           |-> {"created", "preflight", "accepted", "sending_manifest",
                          "transferring", "finalizing"} \cup Waits \cup Exits,
   preflight         |-> {"preflight", "accepted", "transferring"} \cup Waits \cup Exits,
   accepted          |-> {"accepted", "sending_manifest", "transferring"} \cup Waits \cup Exits,
   sending_manifest  |-> {"sending_manifest", "transferring"} \cup Waits \cup Exits,
   transferring      |-> {"transferring", "verifying", "finalizing"} \cup Waits \cup Exits,
   paused            |-> {"transferring", "finalizing"} \cup Waits \cup Exits,
   waiting_reconnect |-> {"transferring", "finalizing"} \cup Waits \cup Exits,
   verifying         |-> {"verifying", "finalizing"} \cup Waits \cup Exits,
   finalizing        |-> {"finalizing", "completed"} \cup Waits \cup Exits,
   completed         |-> {"completed", "purging"},
   cancelled         |-> {"cancelled", "purging"},
   failed            |-> {"failed", "transferring", "cancelled", "purging"} \cup Waits,
   purging           |-> {"purging"}]

(* A journal file, or "none" when the file does not exist.                  *)
NoJournal == [state |-> "none", durable |-> 0, stored |-> 0, retry |-> 0]
NewJournal == [NoJournal EXCEPT !.state = "created"]

Exists(j) == j.state # "none"

(* _validate_transition, the part that concerns the session state.          *)
CanEnter(j, state) == Exists(j) /\ state \in Transitions[j.state]

(* A commit that the store refuses raises; the callers modelled here swallow *)
(* the error and keep the journal they had.                                 *)
Entered(j, state) == IF CanEnter(j, state) THEN [j EXCEPT !.state = state] ELSE j

(* Journals an interrupted sender offers again after a restart              *)
(* (STREAM_V2_OUTGOING_RESUMABLE_STATES).                                   *)
WithoutManifestState ==    \* (mutant: a state forgotten)
  {"accepted", "transferring", "paused", "waiting_reconnect", "finalizing"}
OutgoingResumable ==
  {"accepted", "sending_manifest", "transferring", "paused",
   "waiting_reconnect", "finalizing"}

(* Journals IncomingTransferStage.reopen refuses.                           *)
NotReopenable == {"completed", "cancelled", "purging"}
=============================================================================
