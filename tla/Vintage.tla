------------------------------ MODULE Vintage ------------------------------
(***************************************************************************)
(* Point-in-time views over landed rows (sfe/curate/vintage.py).           *)
(*                                                                         *)
(* A row is a record with at least a field key, which stands for the       *)
(* grouping columns (_area, _mtu_start, field), and a field pub, its       *)
(* _publication_ts.  A view is a set of rows.                              *)
(***************************************************************************)
EXTENDS Naturals

\* Rows whose publication timestamp is strictly before the decision time.
Visible(rows, asOf) == {r \in rows : r.pub < asOf}

\* The rows that may come last in their group once it is sorted by publication.
Latest(rows) == {r \in rows : \A s \in rows : s.key = r.key => s.pub <= r.pub}

\* groupby(keys).tail(1) after a sort by publication.  The sort is not stable,
\* so between rows of one key with equal timestamps any of them may be kept: the
\* operator gives every candidate, and a view is one candidate for each key.
as_of_view(rows, asOf) == Latest(Visible(rows, asOf))

\* The view with a cut-off that no row reaches (the year 2999 in the code).
latest_view(rows) == Latest(rows)

============================================================================
