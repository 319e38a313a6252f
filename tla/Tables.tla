------------------------------- MODULE Tables -------------------------------
(***************************************************************************)
(* A SQL table as the value of one variable: a function from the primary   *)
(* keys of the rows it holds to the columns of each row.  The database is  *)
(* not part of the repository; these three operators are what the backends *)
(* ask of it, each the effect of one statement.                            *)
(***************************************************************************)
\* INSERT of a row under a new key, or UPDATE of the row under an old one.
WithRow(table, key, row) ==
  [k \in (DOMAIN table) \cup {key} |-> IF k = key THEN row ELSE table[k]]

\* DELETE of the rows under these keys (of those that exist).
WithoutRows(table, keys) ==
  [k \in (DOMAIN table) \ keys |-> table[k]]

\* Every table whose keys are among Keys and whose rows are in Rows.
TablesOf(Keys, Rows) == UNION { [K -> Rows] : K \in SUBSET Keys }
=============================================================================
