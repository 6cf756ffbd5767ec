------------------------------ MODULE Normalize ------------------------------
(***************************************************************************)
(* Numbers and signs that sources send as text (sfe/curate/normalize.py).  *)
(*                                                                         *)
(* What parse_number does to a number depends only on the marks between    *)
(* its groups of digits: the digits themselves are kept.  A text is its    *)
(* minus sign and the sequence of its marks, and its value is the position *)
(* of the mark that is read as the decimal point, 0 when there is none.    *)
(***************************************************************************)
EXTENDS Integers, Sequences, FiniteSets

CONSTANT None   \* what the parsers return for a text they cannot read

Marks == {"dot", "comma", "gap"}

\* How many marks of a text are m.
Count(marks, m) == Cardinality({i \in DOMAIN marks : marks[i] = m})

\* The thousands pattern drops spaces and apostrophes between two digits; the
\* positions of the marks that stay.
Kept(marks) == {i \in DOMAIN marks : marks[i] # "gap"}

\* Faulty variant of DecimalMark: a comma is always the decimal point.
CommaIsDecimal(marks) == IF Count(marks, "comma") > 0 THEN "comma" ELSE "dot"

\* Which mark is the decimal point: with both kinds in the text the one seen last.
DecimalMark(marks) ==
  LET kept == Kept(marks)
  IN  IF Count(marks, "comma") > 0 /\ Count(marks, "dot") > 0
      THEN marks[CHOOSE i \in kept : \A j \in kept : j <= i]
      ELSE IF Count(marks, "comma") > 0 THEN "comma" ELSE "dot"

\* The marks of the other kind are removed; float() accepts one decimal point.
parse_number(marks) ==
  LET points == {i \in DOMAIN marks : marks[i] = DecimalMark(marks)}
  IN  CASE points = {} -> 0
        [] Cardinality(points) = 1 -> CHOOSE i \in points : TRUE
        [] OTHER -> None

\* The sign of a number, given as -1, 0 or 1, whose text can be read.
parse_sign(sign, marks) == IF parse_number(marks) = None THEN None ELSE sign

---------------------------------------------------------------------------
(* What sources print *)

\* A way to print numbers: the mark between thousands and the decimal mark.
Formats == {[thousands |-> "dot", decimal |-> "comma"], [thousands |-> "comma", decimal |-> "dot"],
            [thousands |-> "gap", decimal |-> "comma"], [thousands |-> "gap", decimal |-> "dot"]}

\* The marks of a number with so many thousands marks, with or without decimals.
Printed(format, groups, fraction) ==
  [i \in 1..groups |-> format.thousands] \o (IF fraction THEN <<format.decimal>> ELSE <<>>)

\* Where the decimal point of that number really is.
PointOf(groups, fraction) == IF fraction THEN groups + 1 ELSE 0

==============================================================================
