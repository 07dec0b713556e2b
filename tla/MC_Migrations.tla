---------------------------- MODULE MC_Migrations ----------------------------
(* The releases before and after the revisions that touch rows; a database  *)
(* at 8 has 9, 12 and 13 on its way.  Jobs do not meet in a migration: one  *)
(* of any kind is enough.                                                   *)
EXTENDS Migrations

CONSTANTS j1

MCJobIds == {j1}
MCStops == {8, 13, 14, 16, 17, 18}
=============================================================================
