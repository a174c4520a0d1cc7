--------------------------- MODULE MCClientThreads ---------------------------
(* The calls the client program makes or has in comments (22-28), and two   *)
(* automatic scans in a row; the scan process finds two directories.        *)
EXTENDS ClientThreads

CONSTANTS p1, p2, f1, f2

MCCallLists == {<<"dir", "manual">>, <<"auto", "auto">>, <<"auto", "manual">>,
                <<"manual", "load">>}
Old == <<1, "add">>
MCStored == {[d \in Databases |-> {}], [path |-> {<<p1, Old>>}, file |-> {<<f1, Old>>}]}
=============================================================================
