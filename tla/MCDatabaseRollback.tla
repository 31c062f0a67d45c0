------------------------- MODULE MCDatabaseRollback -------------------------
(* Values for checking DatabaseRollback. *)
EXTENDS DatabaseRollback

CommandsMC == {1, 2}
=============================================================================
