---------------------------- MODULE MCAlgorithms ----------------------------
(* Three centuries of Easters, eleven years of days, small samples, books and frames. *)
EXTENDS Algorithms

MCYears == 1900..2199
MCWalkedYears == 2018..2028

MCBookRows ==
  [day : {0}, load : {NaN}, delta : {-1, 0, 2}, e_spread : {2}, charge : {10},
   spread : {NaN, -2, 3}, published : {NaN, -1, 2}]

\* Half days around the change to summer time, which is the end of the month as well.
MCLocalParts ==
  [t \in 0..4 |-> CASE t \in {0, 2} -> <<3, 0>> [] t \in {1, 3} -> <<3, 12>> [] OTHER -> <<4, 1>>]

MCFrameRows == [area : {1, 2}, t : 0..4, y : {0, 1, NaN}]

MCLoads == {NaN, 5}
MCMultipliers == {5, 10, 15}

=============================================================================
