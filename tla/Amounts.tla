------------------------------- MODULE Amounts -------------------------------
(***************************************************************************)
(* What the modules on scores and money share.                             *)
(***************************************************************************)
EXTENDS Integers, FiniteSets, FiniteSetsExt, Functions

CONSTANT NaN  \* a value that is missing or not finite

ASSUME NaNAssumption == NaN \notin Int

SumOver(S, f(_)) == SumFunctionOnSet([x \in S |-> f(x)], S)

Absolute(x) == IF x < 0 THEN -x ELSE x

SignOf(x) == IF x < 0 THEN -1 ELSE IF x > 0 THEN 1 ELSE 0

==============================================================================
