----------------------------- MODULE MCDecision -----------------------------
(* Decision on frames of two rows. *)
EXTENDS Decision

\* Fans that are long, short, balanced, narrow and wide.
SmallFans ==
  {<<4, 5, 6, 7, 8>>, <<-8, -7, -6, -5, -4>>, <<-2, -1, 0, 1, 3>>, <<-9, 2, 6, 9, 12>>,
   <<-20, -12, -6, 1, 10>>}

==============================================================================
