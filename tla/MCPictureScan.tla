---------------------------- MODULE MCPictureScan ----------------------------
(***************************************************************************)
(* Two directories; a picture that may be in both, one with an apostrophe  *)
(* in its name, and a name without a dot.                                  *)
(***************************************************************************)
EXTENDS PictureScan

CONSTANTS d1, d2, pic, quo, raw

MCSuffix == [n \in Names |-> IF n = raw THEN Rule!NO_SUFFIX ELSE <<".", "j", "p", "g">>]

v1 == [mh |-> 1, ml |-> 1, sh |-> 0, sl |-> 1]
v2 == [mh |-> 1, ml |-> 2, sh |-> 0, sl |-> 1]
MCVersions == {v1, v2}

MCDisks  == {[k \in Keys |-> IF k \in {<<d1, pic>>, <<d2, pic>>, <<d2, quo>>} THEN v1 ELSE Absent]}
MCEdited == {<<d1, pic>>, <<d1, raw>>, <<d2, quo>>}
MCClosed == {{}, {d1}}
=============================================================================
