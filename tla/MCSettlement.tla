---------------------------- MODULE MCSettlement ----------------------------
(* Two periods of one day; the charge of a period decides on its position. *)
EXTENDS Settlement, TLC

CONSTANTS c1, c2

MCDayOf == [p \in {1, 2} |-> 1]
MCAsOf == [d \in {1} |-> 2]
MCForecast == <<[p \in {1, 2} |-> 2], [p \in {1, 2} |-> -2]>>
MCFeatures == <<5, 5>>
MCChargeValues == {-3, 1}
MCMultipliers == {10}

Symmetry == Permutations({c1, c2})

=============================================================================
