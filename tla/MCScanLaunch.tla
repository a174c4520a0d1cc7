---------------------------- MODULE MCScanLaunch ----------------------------
(***************************************************************************)
(* Two clients, and three processes at a time.                             *)
(***************************************************************************)
EXTENDS ScanLaunch

CONSTANTS c1, c2, p1, p2, p3   \* model values
=============================================================================
