------------------------- MODULE MCDocumentContent -------------------------
(* Instances of DocumentContent for TLC.                                   *)
EXTENDS DocumentContent, TLC

\* Two pages with a restore, one page with two restores and a manual snapshot,
\* or three edits and nothing else.  Only users and failures are limited.
TwoPages == count.edits <= 2 /\ count.restores <= 1 /\ count.snapshots = 0
OnePage ==
    /\ count.edits <= 2 /\ count.rejects = 0
    /\ ~page["p2"].open /\ \A r \in wire : r.page = "p1"
EditsOnly == count.restores = 0 /\ count.snapshots = 0 /\ count.giveUps = 0 /\ count.rejects = 0
Scenarios == TwoPages \/ OnePage \/ EditsOnly
=============================================================================
