---------------------------- MODULE MCResultFile ----------------------------
(***************************************************************************)
(* Two directories; time advances by half the validity period.             *)
(***************************************************************************)
EXTENDS ResultFile

CONSTANTS d1, d2   \* directories, model values

MCDirs       == {d1, d2}
MCHalfPeriod == {RESULT_VALIDITY_PERIOD \div 2}
=============================================================================
