----------------------------- MODULE MCWatermark -----------------------------
(* Watermark on small instances: one process with every thread, or one each. *)
EXTENDS Watermark, TLC

CONSTANTS t1, t2

OneProcess == [t \in Threads |-> CHOOSE p \in Processes : TRUE]
ThreadsApart == (t1 :> 1) @@ (t2 :> 2)

==============================================================================
