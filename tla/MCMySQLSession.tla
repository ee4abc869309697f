--------------------------- MODULE MCMySQLSession ---------------------------
(***************************************************************************)
(* Two sessions that follow each other on one pooled connection.           *)
(***************************************************************************)
EXTENDS MySQLSession
MCLists == {<<"update", "insert">>, <<"bad">>}
=============================================================================
