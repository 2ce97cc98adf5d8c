------------------------------- MODULE Table -------------------------------
(***************************************************************************)
(* A database table as the query builder sees it: a function from primary  *)
(* keys to rows.  The three operators are the effects of one INSERT,       *)
(* UPDATE ... WHERE id = k and DELETE ... WHERE id = k statement; the last *)
(* two touch no row when the key is absent, as in SQL.                     *)
(***************************************************************************)

InsertRow(table, k, row) ==
    [i \in DOMAIN table \cup {k} |-> IF i = k THEN row ELSE table[i]]

UpdateRow(table, k, row) ==
    [i \in DOMAIN table |-> IF i = k THEN row ELSE table[i]]

DeleteRow(table, k) == [i \in DOMAIN table \ {k} |-> table[i]]

EmptyTable == [i \in {} |-> i]
=============================================================================
