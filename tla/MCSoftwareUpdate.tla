-------------------------- MODULE MCSoftwareUpdate ---------------------------
(***************************************************************************)
(* Small instances of SoftwareUpdate: two versions, two hand-off requests.  *)
(***************************************************************************)
EXTENDS SoftwareUpdate

Calm == [[f \in Faults |-> 0] EXCEPT !["install"] = 1]

(* A failure and its retry; a crash at any point; a shutdown by the user,    *)
(* after which a version may be installed by hand over a downloaded one; an  *)
(* answer that comes too late, and a second hand-off.                        *)
Scenarios == {[Calm EXCEPT !["failure"] = 1, !["install"] = 2],
              [Calm EXCEPT !["crash"] = 1],
              [Calm EXCEPT !["request"] = 1, !["upgrade"] = 1],
              [Calm EXCEPT !["late"] = 1, !["install"] = 2]}
NoFaults == {Calm}
==============================================================================
