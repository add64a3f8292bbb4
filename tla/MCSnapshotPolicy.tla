-------------------------- MODULE MCSnapshotPolicy --------------------------
(* Small instances of SnapshotPolicy for TLC. *)
EXTENDS SnapshotPolicy

CONSTANTS nightly, weekly, web, db

\* Two policies that may select one machine.
Overlapping == [p \in Policies |-> IF p = nightly THEN {{web, db}, {db}} ELSE {{web, db}}]
=============================================================================
