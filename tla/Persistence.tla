---------------------------- MODULE Persistence ----------------------------
(***************************************************************************)
(* What the services share of the database (app/core/database.py): a       *)
(* request loads its rows, and at its commit writes the columns whose      *)
(* value differs from the one it had loaded.                               *)
(***************************************************************************)

CONSTANT None   \* NULL, or nothing at all

\* A column of a row after a commit that changed it from loaded to new.
Column(loaded, new, row) == IF new = loaded THEN row ELSE new
=============================================================================
