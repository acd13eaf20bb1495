---------------------------- MODULE BurnContract ----------------------------
(***************************************************************************)
(* What writing an installer stick promises its user, whatever the mode:   *)
(*   - the tool reports success only over a stick that boots a complete    *)
(*     installer, unless the host deceived it in a way it never looks at   *)
(*     (honest = FALSE);                                                   *)
(*   - a stick becomes bootable only by being written, in a running run.   *)
(***************************************************************************)

VARIABLES
  media,      \* "untouched", "partial" or "bootable".
  report,     \* As in DiskHost.
  honest      \* No deception the tool cannot notice has happened in this run.

contractVars == <<media, report, honest>>

Init ==
  /\ media = "untouched"
  /\ report = "running"
  /\ honest \in BOOLEAN

\* What a step can make of the stick: a bootable stick is never made of an
\* untouched one in a single step.
Written ==
  \/ media' \in {media, "partial"}
  \/ media # "untouched" /\ media' = "bootable"

Write ==
  /\ report = "running"
  /\ Written
  /\ honest' \in BOOLEAN /\ (honest' => honest)
  /\ UNCHANGED report

\* The run ends without success; the write it died in may have landed, or torn
\* the stick.
Stop ==
  /\ report = "running"
  /\ report' \in {"failed", "killed"}
  /\ Written
  /\ UNCHANGED honest

Deliver ==
  /\ report = "running"
  /\ honest => media = "bootable"
  /\ report' = "ok"
  /\ UNCHANGED <<media, honest>>

Again ==
  /\ report # "running"
  /\ report' = "running"
  /\ honest' \in BOOLEAN
  /\ UNCHANGED media

Next == Write \/ Stop \/ Deliver \/ Again

Spec == Init /\ [][Next]_contractVars
=============================================================================
