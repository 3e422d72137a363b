------------------------- MODULE ProgramReplacement --------------------------
(***************************************************************************)
(* What a software update promises about the installed program: it is       *)
(* replaced only while it does not run, only by a newer version, and a      *)
(* replacement that is not kept ends with the version that was there.       *)
(***************************************************************************)
EXTENDS Naturals

CONSTANT Newest

VARIABLES
  running,   \* the program runs
  version,   \* the version that is installed, or was before the replacement
  phase      \* settled, replacing (files in motion), or trial (new one started)

vars == <<running, version, phase>>

Init == version \in 1..Newest /\ running = FALSE /\ phase = "settled"

Start == /\ ~running /\ phase \in {"settled", "trial"}
         /\ running' = TRUE /\ UNCHANGED <<version, phase>>

Stop == running /\ running' = FALSE /\ UNCHANGED <<version, phase>>

Replace == /\ ~running /\ phase = "settled"
           /\ phase' = "replacing" /\ UNCHANGED <<running, version>>

(* The new program runs before it is known to be healthy.                    *)
Try == phase = "replacing" /\ running' \in BOOLEAN /\ phase' = "trial" /\ UNCHANGED version

Keep == /\ phase = "trial" /\ running
        /\ phase' = "settled" /\ UNCHANGED running
        /\ version' \in (version + 1)..Newest

Reject == phase = "trial" /\ phase' = "replacing" /\ UNCHANGED <<running, version>>

PutBack == /\ phase = "replacing"
           /\ phase' = "settled" /\ running' = FALSE /\ UNCHANGED version

(* A user installs a newer version by hand.                                  *)
Upgrade == /\ ~running /\ phase = "settled"
           /\ version' \in (version + 1)..Newest /\ UNCHANGED <<running, phase>>

Next == Start \/ Stop \/ Replace \/ Try \/ Keep \/ Reject \/ PutBack \/ Upgrade

Spec == Init /\ [][Next]_vars
==============================================================================
