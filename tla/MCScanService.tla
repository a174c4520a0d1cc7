--------------------------- MODULE MCScanService ---------------------------
(***************************************************************************)
(* Small instances of ScanService for TLC.                                 *)
(***************************************************************************)
EXTENDS ScanServiceInv, TLC

CONSTANTS c1, c2   \* the clients, model values

MCClients     == {c1, c2}
MCOneClient   == {c1}
MCSymmetry    == Permutations(MCClients)
MCAllRequests == AllRequests
MCScan        == {SCAN_REQUEST_IMG}
MCScanOrExit  == {SCAN_REQUEST_IMG, SCAN_REQUEST_EXIT}
=============================================================================
