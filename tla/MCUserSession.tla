--------------------------- MODULE MCUserSession ---------------------------
(***************************************************************************)
(* Three calls: the first of any kind, the others of those that meet it in *)
(* a batch or in a transaction.                                            *)
(***************************************************************************)
EXTENDS UserSession
MCKindsOf(c) ==
  CASE c = 1 -> Kinds \ {"execute", "commit", "rollback"}
    [] c = 2 -> {"persist", "execute", "commit"}
    [] c = 3 -> {"save", "execute", "commit", "rollback"}
=============================================================================
