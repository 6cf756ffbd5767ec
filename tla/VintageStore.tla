---------------------------- MODULE VintageStore ----------------------------
(***************************************************************************)
(* What the landing zone promises (sfe/io/storage.py:1-6,                  *)
(* sfe/ingest/landing.py:7-8): a vintage, known by its payload hash, is    *)
(* stored once by whoever ingests it, in one place, and stays there for    *)
(* good.                                                                   *)
(***************************************************************************)
VARIABLE held   \* records with the hash of a vintage, its writer (by) and its place (at)

Init == held = {}

\* Some vintages arrive, none of which its writer stored before; all others stay.
Deposit ==
  /\ held \subseteq held'
  /\ \A e \in held' \ held : \A f \in held' : f.hash = e.hash /\ f.by = e.by => f = e

Spec == Init /\ [][Deposit]_held

=============================================================================
