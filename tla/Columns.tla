------------------------------ MODULE Columns -------------------------------
(* Rows of a table and their columns, as a session of SQLAlchemy holds and *)
(* changes them. A table is a function from ids to rows, a row a record.   *)

(* The row with some of its columns set. *)
Overlay(columns, row) ==
    [c \in DOMAIN columns \cup DOMAIN row |->
        IF c \in DOMAIN columns THEN columns[c] ELSE row[c]]

(* The table with a row in the place of what the id had, if anything. *)
With(table, id, row) ==
    [i \in DOMAIN table \cup {id} |-> IF i = id THEN row ELSE table[i]]

Without(table, gone) == [i \in DOMAIN table \ gone |-> table[i]]
=============================================================================
