---------------------------- MODULE MCTernaClient ----------------------------
(* TernaClient on small instances. *)
EXTENDS TernaClient, TLC

==============================================================================
