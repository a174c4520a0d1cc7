----------------------------- MODULE ResultFile -----------------------------
(***************************************************************************)
(* The persisted result of disk_scan: the file .scan_result, which         *)
(* SaveImgScanResult writes and LoadImgScanResult reads                    *)
(* (disk_scan/disk_scanner.cpp), across the lives of the process that      *)
(* ThreadExecute (disk_scan_process.cpp) runs in.  The process may end     *)
(* between any two steps: it is killed, or its main thread has waited for  *)
(* the worker for TIMEOUT and returns.                                     *)
(*                                                                         *)
(* Data: the file is the time of its first line and the directories of the *)
(* others; a line that was cut short before its end is not kept, since the *)
(* reader drops what follows the last newline.  A write that fails leaves  *)
(* nothing of its line.                                                    *)
(*                                                                         *)
(* Grain: a step reads or writes one line.                                 *)
(***************************************************************************)
EXTENDS Integers, SequencesExt

CONSTANTS
  Dirs,       \* the directories that may hold pictures
  Jumps,      \* how far time advances between two steps, in seconds
  MaxTime     \* bound: the time the model goes up to

ASSUME FileAssumption ==
  /\ IsFiniteSet(Dirs)
  /\ Jumps \subseteq Nat
  /\ MaxTime \in Nat

RESULT_VALIDITY_PERIOD == 172880

ABSENT == -2   \* there is no file
EMPTY  == -1   \* there is one, without a whole first line
NOTIME == -3   \* its first line is a directory, which reads as the time 0, long ago

VARIABLES
  now,               \* the clock
  disk,              \* the directories that exist
  pc,                \* the worker: "off" when the process does not run
  m_ImgDirectorys,
  curTime,           \* the time SaveImgScanResult has read
  next,              \* the line it reads or writes next
  stamp,             \* the time in the first line of the file, or one of these
  lines,             \* the directories in its other lines
  writer,            \* history: what the scan that wrote the file found, and when
  kept               \* history: what was there all the time since reading began

fileVars == <<stamp, lines, writer>>
vars     == <<now, disk, pc, m_ImgDirectorys, curTime, next, fileVars, kept>>

\* Sequences of directories that a scan may find.
Findings == {s \in Seq(Dirs) : Len(s) <= Cardinality(Dirs)}

TypeOK ==
  /\ now \in 0 .. MaxTime
  /\ disk \subseteq Dirs
  /\ pc \in {"off", "load", "stuck", "read", "scan", "save", "stamp", "write", "reply"}
  /\ m_ImgDirectorys \in Findings
  /\ curTime \in 0 .. MaxTime
  /\ next \in 1 .. Cardinality(Dirs) + 1
  /\ stamp \in {ABSENT, EMPTY, NOTIME} \/ stamp \in 0 .. MaxTime
  /\ lines \in Findings
  /\ writer \in [found : Findings, at : 0 .. MaxTime]
  /\ kept \subseteq Dirs

Init ==
  /\ now = 0
  /\ disk = Dirs
  /\ pc = "off"
  /\ m_ImgDirectorys = <<>>
  /\ curTime = 0 /\ next = 1
  /\ stamp = ABSENT /\ lines = <<>>
  /\ writer = [found |-> <<>>, at |-> 0]
  /\ kept = {}
-----------------------------------------------------------------------------
\* The process starts with an empty scanner and is asked for a scan.
Start ==
  /\ pc = "off"
  /\ pc' = "load"
  /\ m_ImgDirectorys' = <<>>
  /\ kept' = {}
  /\ UNCHANGED <<now, disk, curTime, next, fileVars>>

Recent == now - stamp < RESULT_VALIDITY_PERIOD

\* Mutant of LoadNothing: an old result is neither used nor replaced.
LoadNothing_OldIsKept ==
  /\ pc = "load"
  /\ stamp = ABSENT
  /\ pc' = "scan"
  /\ UNCHANGED <<now, disk, m_ImgDirectorys, curTime, next, fileVars, kept>>

\* No file, or one that is too old: scan.
LoadNothing ==
  /\ pc = "load"
  /\ stamp \in {ABSENT, NOTIME} \/ (stamp # EMPTY /\ ~Recent)
  /\ pc' = "scan"
  /\ UNCHANGED <<now, disk, m_ImgDirectorys, curTime, next, fileVars, kept>>

\* A file that cannot be opened is none.
OpenFails ==
  /\ pc = "load"
  /\ pc' = "scan"
  /\ UNCHANGED <<now, disk, m_ImgDirectorys, curTime, next, fileVars, kept>>

\* A first line that is recent: the others are read.
LoadImgScanResult ==
  /\ pc = "load"
  /\ stamp \notin {ABSENT, EMPTY, NOTIME}
  /\ Recent
  /\ next' = 1
  /\ kept' = disk
  /\ pc' = "read"
  /\ UNCHANGED <<now, disk, m_ImgDirectorys, curTime, fileVars>>

\* Mutant of ReadLine: a directory that is gone ends the reading.
ReadLine_StopsAtGone ==
  /\ pc = "read"
  /\ next <= Len(lines)
  /\ IF lines[next] \in disk
     THEN m_ImgDirectorys' = Append(m_ImgDirectorys, lines[next]) /\ next' = next + 1
     ELSE m_ImgDirectorys' = m_ImgDirectorys /\ next' = Len(lines) + 1
  /\ UNCHANGED <<now, disk, pc, curTime, fileVars, kept>>

\* A directory that can be entered is taken.
ReadLine ==
  /\ pc = "read"
  /\ next <= Len(lines)
  /\ m_ImgDirectorys' = IF lines[next] \in disk
                        THEN Append(m_ImgDirectorys, lines[next]) ELSE m_ImgDirectorys
  /\ next' = next + 1
  /\ UNCHANGED <<now, disk, pc, curTime, fileVars, kept>>

\* A result without any directory is none: scan.
CloseRead ==
  /\ pc = "read"
  /\ next > Len(lines)
  /\ pc' = IF m_ImgDirectorys # <<>> THEN "reply" ELSE "scan"
  /\ UNCHANGED <<now, disk, m_ImgDirectorys, curTime, next, fileVars, kept>>

\* ReadFile succeeds at the end of the file and leaves buf as it was: the loop
\* that looks for the first newline goes on for ever.
LoadEmpty ==
  /\ pc = "load"
  /\ stamp = EMPTY
  /\ pc' = "stuck"
  /\ UNCHANGED <<now, disk, m_ImgDirectorys, curTime, next, fileVars, kept>>

Find ==
  /\ pc = "scan"
  /\ \E d \in disk \ ToSet(m_ImgDirectorys) :
       m_ImgDirectorys' = Append(m_ImgDirectorys, d)
  /\ UNCHANGED <<now, disk, pc, curTime, next, fileVars, kept>>

\* The scan is over, or m_Exit cut it short; the time is taken first.
EndScan ==
  /\ pc = "scan"
  /\ curTime' = now
  /\ pc' = "save"
  /\ UNCHANGED <<now, disk, m_ImgDirectorys, next, fileVars, kept>>

\* Mutant of CreateResult: an existing file is opened and not emptied.
CreateResult_KeepsLines ==
  /\ pc = "save"
  /\ stamp' = IF stamp = ABSENT THEN EMPTY ELSE stamp
  /\ next' = 1
  /\ writer' = [found |-> m_ImgDirectorys, at |-> curTime]
  /\ pc' = "stamp"
  /\ UNCHANGED <<now, disk, m_ImgDirectorys, curTime, lines, kept>>

\* CREATE_ALWAYS empties the file.
CreateResult ==
  /\ pc = "save"
  /\ stamp' = EMPTY /\ lines' = <<>>
  /\ next' = 1
  /\ writer' = [found |-> m_ImgDirectorys, at |-> curTime]
  /\ pc' = "stamp"
  /\ UNCHANGED <<now, disk, m_ImgDirectorys, curTime, kept>>

\* The file cannot be created: nothing is saved, and nothing is said.
CreateFails ==
  /\ pc = "save"
  /\ pc' = "reply"
  /\ UNCHANGED <<now, disk, m_ImgDirectorys, curTime, next, fileVars, kept>>

\* Mutant of WriteTime: the time of the write is written.
WriteTime_OfWrite ==
  /\ pc = "stamp"
  /\ stamp' = now
  /\ pc' = "write"
  /\ UNCHANGED <<now, disk, m_ImgDirectorys, curTime, next, lines, writer, kept>>

WriteTime ==
  /\ pc = "stamp"
  /\ stamp' = curTime
  /\ pc' = "write"
  /\ UNCHANGED <<now, disk, m_ImgDirectorys, curTime, next, lines, writer, kept>>

\* A directory is the first line of a file that has none.
WriteDirectory ==
  /\ pc = "write"
  /\ next <= Len(m_ImgDirectorys)
  /\ IF stamp = EMPTY
     THEN stamp' = NOTIME /\ UNCHANGED lines
     ELSE lines' = Append(lines, m_ImgDirectorys[next]) /\ UNCHANGED stamp
  /\ next' = next + 1
  /\ UNCHANGED <<now, disk, pc, m_ImgDirectorys, curTime, writer, kept>>

\* Mutant of WriteFails: the line is tried again after the next one.
WriteFails_TriesLater ==
  /\ pc = "write"
  /\ next < Len(m_ImgDirectorys)
  /\ stamp # EMPTY
  /\ lines' = lines \o <<m_ImgDirectorys[next + 1], m_ImgDirectorys[next]>>
  /\ next' = next + 2
  /\ UNCHANGED <<now, disk, pc, m_ImgDirectorys, curTime, stamp, writer, kept>>

\* The disk is full, or the write fails otherwise: nobody looks at the result,
\* and the next line is written, for which there may be room.
WriteFails ==
  /\ \/ pc = "stamp" /\ pc' = "write" /\ UNCHANGED next
     \/ pc = "write" /\ next <= Len(m_ImgDirectorys) /\ next' = next + 1 /\ UNCHANGED pc
  /\ UNCHANGED <<now, disk, m_ImgDirectorys, curTime, fileVars, kept>>

CloseResult ==
  /\ pc = "write"
  /\ next > Len(m_ImgDirectorys)
  /\ pc' = "reply"
  /\ UNCHANGED <<now, disk, m_ImgDirectorys, curTime, next, fileVars, kept>>

\* A fresh scan is asked for: ClearResult deletes the file, if it can be deleted.
ClearResult ==
  /\ pc = "reply"
  /\ m_ImgDirectorys' = <<>>
  /\ \/ stamp' = ABSENT /\ lines' = <<>>
     \/ UNCHANGED <<stamp, lines>>
  /\ pc' = "load"
  /\ UNCHANGED <<now, disk, curTime, next, writer, kept>>

\* The process ends, wherever the worker is.
End ==
  /\ pc # "off"
  /\ pc' = "off"
  /\ UNCHANGED <<now, disk, m_ImgDirectorys, curTime, next, fileVars, kept>>

Worker ==
  \/ LoadNothing \/ LoadImgScanResult \/ LoadEmpty \/ ReadLine \/ CloseRead \/ Find
  \/ EndScan \/ CreateResult \/ WriteTime \/ WriteDirectory \/ CloseResult

\* What the file system may refuse, at any time.
Refused == OpenFails \/ CreateFails \/ WriteFails

\* Time passes; the user removes and makes directories.
Tick ==
  /\ \E j \in Jumps : now' = now + j /\ now + j <= MaxTime
  /\ UNCHANGED <<disk, pc, m_ImgDirectorys, curTime, next, fileVars, kept>>

ChangeDisk ==
  /\ \E d \in Dirs : disk' \in {disk \cup {d}, disk \ {d}}
  /\ kept' = kept \cap disk'
  /\ UNCHANGED <<now, pc, m_ImgDirectorys, curTime, next, fileVars>>

Next == Start \/ Worker \/ Refused \/ ClearResult \/ End \/ Tick \/ ChangeDisk

Spec == Init /\ [][Next]_vars

\* The worker keeps running, whatever is refused, and does not find directories for ever.
FairSpec == Spec /\ WF_vars(Worker) /\ WF_vars(EndScan)
-----------------------------------------------------------------------------
\* A saved result that is read comes from a scan that ended less than
\* RESULT_VALIDITY_PERIOD before, however long saving it took.
LoadedIsRecent ==
  [][pc = "load" /\ pc' = "read" => now - writer.at < RESULT_VALIDITY_PERIOD]_vars

\* s is what is left of t, in the order of t, when some of it is dropped (of
\* sequences that have everything once).
InOrder(s, t) ==
  /\ ToSet(s) \subseteq ToSet(t)
  /\ \A i, j \in DOMAIN s : i < j =>
       \E k, l \in DOMAIN t : k < l /\ t[k] = s[i] /\ t[l] = s[j]

\* What is read back is a part of what one scan found, in its order, whatever
\* was refused or cut short when it was written: lines of two scans are never
\* mixed.  Of the lines that are there those are taken that were there all the
\* time, and no other but what came or went meanwhile; the disk is scanned again
\* only when nothing is left.
LoadedIsOneScan ==
  [][pc = "read" /\ pc' \in {"reply", "scan"} =>
       /\ InOrder(m_ImgDirectorys', lines) /\ InOrder(lines, writer.found)
       /\ kept \cap ToSet(lines) \subseteq ToSet(m_ImgDirectorys')]_vars

\* What was found is found once, the file is at every moment a part of what one
\* scan found, under the time at which it ended or none, and what has been read
\* back is what there is up to the next line.
FileInv ==
  /\ TypeOK
  /\ IsInjective(m_ImgDirectorys) /\ IsInjective(writer.found) /\ IsInjective(lines)
  /\ stamp \in {ABSENT, EMPTY, NOTIME} \/ stamp = writer.at
  /\ InOrder(lines, writer.found)
  /\ pc = "load" => m_ImgDirectorys = <<>>
  /\ pc = "stamp" => curTime = writer.at /\ lines = <<>> /\ next = 1
  /\ pc \in {"stamp", "write"} => writer.found = m_ImgDirectorys
  /\ pc = "write" =>
       /\ next <= Len(m_ImgDirectorys) + 1
       /\ InOrder(lines, SubSeq(m_ImgDirectorys, 1, next - 1))
  /\ kept \subseteq disk
  /\ pc = "read" =>
       /\ next <= Len(lines) + 1
       /\ InOrder(m_ImgDirectorys, SubSeq(lines, 1, next - 1))
       /\ kept \cap ToSet(SubSeq(lines, 1, next - 1)) \subseteq ToSet(m_ImgDirectorys)

\* A result that a worker may use.
ValidResult == stamp \notin {ABSENT, EMPTY, NOTIME} /\ Recent /\ ToSet(lines) \cap disk # {}

\* A worker that finds no result, an old one or one of directories that are
\* gone comes to scan (or one of the saved directories comes back while it
\* looks, or the process ends), unless the file was cut short before its time.
ScansUnlessCut ==
  (pc = "load" /\ ~ValidResult /\ stamp # EMPTY) ~> (pc \in {"scan", "reply", "off"})

\* disk_scan_process.cpp:228 says so of every file that is no valid result.
ScansUnlessValid == (pc = "load" /\ ~ValidResult) ~> (pc \in {"scan", "reply", "off"})
=============================================================================
