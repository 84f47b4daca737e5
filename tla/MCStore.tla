------------------------------ MODULE MCStore ------------------------------
(***************************************************************************)
(* The database on a small instance: one row of an older version, two      *)
(* events, a window of one day.                                            *)
(***************************************************************************)
EXTENDS Store
=============================================================================
