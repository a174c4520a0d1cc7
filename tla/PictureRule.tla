---------------------------- MODULE PictureRule ----------------------------
(***************************************************************************)
(* How ScanTargetDir decides that a directory is a picture directory       *)
(* (disk_scan/disk_scanner.cpp:243-277): the loop over its entries counts  *)
(* the files with a picture suffix and the files with another suffix, and  *)
(* the two counts are judged at the end.                                   *)
(*                                                                         *)
(* Data: the files of a directory are the sequence of their suffixes, in   *)
(* the order of the listing; a suffix is a sequence of characters in lower *)
(* case, because the code looks for it inside another one, and NO_SUFFIX   *)
(* when the name has no dot.                                               *)
(***************************************************************************)
EXTENDS Naturals, SequencesExt

NO_SUFFIX == <<>>

\* The picture suffixes (disk_scanner.h:19).
IMG_SUFFIX == << <<".", "j", "p", "g">>, <<".", "p", "n", "g">>, <<".", "j", "p", "e", "g">>,
                 <<".", "b", "m", "p">>, <<".", "g", "i", "f">>, <<".", "p", "s", "d">>,
                 <<".", "h", "d", "r">>, <<".", "p", "i", "c">>, <<".", "t", "g", "a">> >>

\* IMG_SUFFIX->find: the suffix is looked for inside the first element only.
IsTarget(suffix) == suffix \in SubSeqs(IMG_SUFFIX[1])

\* The loop passes over a name without a suffix.
Targets(files) == {i \in DOMAIN files : files[i] # NO_SUFFIX /\ IsTarget(files[i])}
Others(files)  == {i \in DOMAIN files : files[i] # NO_SUFFIX /\ ~IsTarget(files[i])}

\* Mutant of PictureDirectory: nine tenths are enough.
PictureDirectory_NineTenths(targetCount, otherCount) ==
  targetCount > 5 /\ (targetCount * 10) \div (targetCount + otherCount) >= 9

\* The integer quotient is in tenths, rounded down.
PictureDirectory(targetCount, otherCount) ==
  targetCount > 5 /\ (targetCount * 10) \div (targetCount + otherCount) > 9

\* The verdict on a directory.
HoldsPictures(files) == PictureDirectory(Cardinality(Targets(files)), Cardinality(Others(files)))
-----------------------------------------------------------------------------
\* What the rule amounts to: one file with another suffix makes a directory
\* no picture directory, whatever the proportion of the two counts.
OnlyPictures(files) == Cardinality(Targets(files)) > 5 /\ Others(files) = {}

\* What disk_scanner.h:19 declares to be pictures.
AllPictures(files) ==
  /\ \A i \in DOMAIN files : files[i] = NO_SUFFIX \/ Contains(IMG_SUFFIX, files[i])
  /\ Cardinality({i \in DOMAIN files : files[i] # NO_SUFFIX}) > 5
=============================================================================
