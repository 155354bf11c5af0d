-------------------------------- MODULE Rows --------------------------------
(* A table as the stores use it: a set of rows, each of a tenant and with an   *)
(* id.  What a TypeORM repository and a Map keyed by "tenant:id" both are.     *)
EXTENDS Integers, FiniteSets, SequencesExt

(* The rows row-level security and every WHERE clause leave of a table. *)
Of(table, t) == {r \in table : r.tenant = t}

Found(table, t, id) == {r \in Of(table, t) : r.id = id}

Without(table, t, id) == table \ Found(table, t, id)

Upsert(table, row) == Without(table, row.tenant, row.id) \cup {row}

(* An UPDATE: every row that Matches becomes what Edited makes of it. *)
Edit(table, Matches(_), Edited(_)) ==
    {r \in table : ~Matches(r)} \cup {Edited(r) : r \in {x \in table : Matches(x)}}

(* The tables after a call and what the call answers. *)
Says(tables, answer) == [db |-> tables, says |-> answer]

YesNo(p) == IF p THEN "yes" ELSE "no"

Before(a, b) == a.at > b.at \/ (a.at = b.at /\ a.id > b.id)

Newest(rows) == SetToSortSeq(rows, Before)
=============================================================================
