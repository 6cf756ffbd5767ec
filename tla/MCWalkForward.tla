--------------------------- MODULE MCWalkForward ---------------------------
(* WalkForward on small instances: a tick is six hours. *)
EXTENDS WalkForward, TLC

\* A normal day, the change to summer time, the change back, a normal day.
MCMidnights == <<0, 4, 7, 12, 16>>

\* Decisions on the eve at noon and at six, and at noon of the day itself.
MCOffset == [h \in Horizons |-> CASE h = "D-1" -> 2 [] h = "MI1" -> 1 [] OTHER -> -2]

=============================================================================
