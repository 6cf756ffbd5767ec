------------------------------ MODULE MCIngest ------------------------------
(* Ingest on small instances. *)
EXTENDS Ingest, TLC

\* Contents of a record and ingesters are interchangeable.
Symmetry == Permutations(Values) \cup Permutations(Ingesters)

\* The clocks are put forward, or back, between the instants 1 and 2.
PutForward == [t \in 0..MaxTime |-> IF t < 2 THEN 1 ELSE 2]
PutBack == [t \in 0..MaxTime |-> IF t < 2 THEN 2 ELSE 1]

=============================================================================
