------------------------------ MODULE DirScan ------------------------------
(***************************************************************************)
(* CScanner (disk_scan/disk_scanner.cpp): its constructor collects the     *)
(* roots of the walk, then ScanTargetDir is called for m_PriorityDirs and  *)
(* for m_BaseDirs, and calls itself once per level of the directory tree   *)
(* with the directories it met on the level above.                         *)
(*                                                                         *)
(* Data: a directory is named by its path, the sequence of its names from  *)
(* its drive on; the files of a directory are judged by the rule of module *)
(* PictureRule.  The current directory of the process is a variable,       *)
(* because the code lists "*", not the directory or the drive it is at.    *)
(*                                                                         *)
(* Grain: a step is one pass of a loop.                                    *)
(***************************************************************************)
EXTENDS PictureRule

CONSTANTS
  Names,         \* names of drives and directories
  Disk,          \* paths of the local drives and their directories
  Home,          \* the directory the process is started in
  System,        \* directories with the SYSTEM attribute
  Programs,      \* what InitBaseDir takes for Windows and program directories
  FileLists,     \* the files that the directories may hold
  BarredSets,    \* the sets of directories that cannot be entered
  UnlistedSets,  \* the sets of directories that cannot be listed
  RootLists,     \* what the constructor may find: recent links, folders, drives
  MaxPath        \* bound: the walk is followed down to paths of this length

Path == Seq(Names)

\* The loops of the constructor: over the links to recent files, the folders of
\* PRIORITY_DIRS and of IGNORE_DIRS, the drives, and the entries of a drive.
Sources == {"link", "folder", "ignore", "drive", "top"}

\* The disk is a forest below its drives.  The folders are there; every drive is
\* found, and the top directories are read off the drives, not given.
ASSUME WalkAssumption ==
  /\ IsFiniteSet(Names) /\ IsFiniteSet(Disk)
  /\ Disk \subseteq Path \ {<<>>}
  /\ \A d \in Disk : \A n \in 1 .. Len(d) : SubSeq(d, 1, n) \in Disk
  /\ Home \in Disk
  /\ FileLists \subseteq [Disk -> Seq(Seq(STRING))]
  /\ \A S \in {BarredSets, UnlistedSets} : S \subseteq SUBSET Disk
  /\ RootLists \subseteq Seq((Sources \ {"top"}) \X Path)
  /\ \A s \in RootLists :
       /\ \A i \in DOMAIN s :
            s[i][1] \in {"folder", "drive"} =>
              s[i][2] \in Disk /\ (s[i][1] = "drive" => Len(s[i][2]) = 1)
       /\ \A d \in Disk : Len(d) = 1 => <<"drive", d>> \in ToSet(s)
  /\ MaxPath \in Nat

VARIABLES
  files, barred, unlisted,       \* the disk, apart from its tree
  todo,          \* what the constructor still has to look at
  m_PriorityDirs, m_BaseDirs, m_IgnoreDirs, m_FirstDirs,
  phase,         \* "roots": the constructor runs; "start": no call of ScanTargetDir
                 \* yet; then the call that runs; "done" after the second one
  level,         \* what is left of its baseDir
  searchDir,     \* the next level
  cwd,           \* current directory of the process
  m_ScanDirs, m_TotalDirs, m_ImgDirectorys, m_Exit,
  halted         \* history: the walk returned early because of m_Exit

disk     == <<files, barred, unlisted>>
rootVars == <<todo, m_PriorityDirs, m_BaseDirs, m_IgnoreDirs, m_FirstDirs>>
walkVars == <<level, searchDir, m_ScanDirs, m_ImgDirectorys, halted>>
vars     == <<disk, rootVars, phase, cwd, m_TotalDirs, walkVars, m_Exit>>

TypeOK ==
  /\ files \in FileLists /\ barred \subseteq Disk /\ unlisted \subseteq Disk
  /\ todo \in Seq(Sources \X Path)
  /\ m_PriorityDirs \in Seq(Path) /\ m_BaseDirs \in Seq(Path)
  /\ m_IgnoreDirs \subseteq Path /\ m_FirstDirs \in Nat
  /\ phase \in {"roots", "start", "priority", "base", "done"}
  /\ level \in Seq(Path) /\ searchDir \in Seq(Path)
  /\ cwd \in Disk
  /\ m_ScanDirs \in Nat /\ m_TotalDirs \in Nat
  /\ m_ImgDirectorys \in Seq(Path)
  /\ m_Exit \in BOOLEAN /\ halted \in BOOLEAN

Init ==
  /\ files \in FileLists /\ barred \in BarredSets /\ unlisted \in UnlistedSets
  /\ todo \in RootLists
  /\ m_PriorityDirs = <<>> /\ m_BaseDirs = <<>> /\ m_IgnoreDirs = {} /\ m_FirstDirs = 0
  /\ phase = "roots"
  /\ level = <<>> /\ searchDir = <<>>
  /\ cwd = Home
  /\ m_ScanDirs = 0 /\ m_TotalDirs = 0
  /\ m_ImgDirectorys = <<>>
  /\ m_Exit = FALSE /\ halted = FALSE
-----------------------------------------------------------------------------
\* What both the constructor and the walk use.

\* Mutant of PushBackDir: a directory is added whether or not it is there.
PushBackDir_Always(dirs, d) == Append(dirs, d)

\* PushBackDir adds a directory unless it is there.
PushBackDir(dirs, d) == IF Contains(dirs, d) THEN dirs ELSE Append(dirs, d)

Children(d) == {n \in Names : Append(d, n) \in Disk}

\* SetCurrentDirectory fails on a directory that is not there or cannot be
\* entered; the failure is not looked at.
Entered(d) == IF d \in Disk \ barred THEN d ELSE cwd

\* The names in N as entries of d, in any order.
Entries(d, N) ==
  {[i \in DOMAIN names |-> Append(d, names[i])] : names \in SetToSeqs(N)}
-----------------------------------------------------------------------------
\* The constructor.

\* A pass of the loop over what comes from that source, and what it looks at.
From(source) == phase = "roots" /\ todo # <<>> /\ Head(todo)[1] = source
Item == Head(todo)[2]

\* Mutant of Count: a root that is there already is counted again.
Count_Every(dirs) == m_FirstDirs' = m_FirstDirs + 1

\* m_FirstDirs counts the roots that PushBackDir added.
Count(dirs) == m_FirstDirs' = IF Contains(dirs, Item) THEN m_FirstDirs ELSE m_FirstDirs + 1

AddPriority ==
  /\ m_PriorityDirs' = PushBackDir(m_PriorityDirs, Item)
  /\ Count(m_PriorityDirs)

\* A link counts when it leads to a directory of a drive.
AddLink ==
  /\ From("link")
  /\ IF Item \in Disk THEN AddPriority ELSE UNCHANGED <<m_PriorityDirs, m_FirstDirs>>
  /\ todo' = Tail(todo)
  /\ UNCHANGED <<disk, m_BaseDirs, m_IgnoreDirs, phase, cwd, m_TotalDirs, walkVars, m_Exit>>

AddFolder ==
  /\ From("folder")
  /\ AddPriority
  /\ todo' = Tail(todo)
  /\ UNCHANGED <<disk, m_BaseDirs, m_IgnoreDirs, phase, cwd, m_TotalDirs, walkVars, m_Exit>>

AddIgnored ==
  /\ From("ignore")
  /\ m_IgnoreDirs' = m_IgnoreDirs \cup {Item}
  /\ todo' = Tail(todo)
  /\ UNCHANGED <<disk, m_PriorityDirs, m_BaseDirs, m_FirstDirs, phase, cwd, m_TotalDirs,
                 walkVars, m_Exit>>

\* The current directory is listed, named after the drive, whether or not the
\* drive was entered; system directories are left out.
ListDrive ==
  /\ From("drive")
  /\ cwd' = Entered(Item)
  /\ \/ cwd' \in unlisted /\ todo' = Tail(todo)
     \/ /\ cwd' \notin unlisted
        /\ \E tops \in Entries(Item, {n \in Children(cwd') : Append(cwd', n) \notin System}) :
             todo' = [i \in DOMAIN tops |-> <<"top", tops[i]>>] \o Tail(todo)
  /\ UNCHANGED <<disk, m_PriorityDirs, m_BaseDirs, m_IgnoreDirs, m_FirstDirs, phase,
                 m_TotalDirs, walkVars, m_Exit>>

AddTop ==
  /\ From("top")
  /\ m_IgnoreDirs' = m_IgnoreDirs \cup ({Item} \cap Programs)
  /\ m_BaseDirs' = PushBackDir(m_BaseDirs, Item)
  /\ Count(m_BaseDirs)
  /\ todo' = Tail(todo)
  /\ UNCHANGED <<disk, m_PriorityDirs, phase, cwd, m_TotalDirs, walkVars, m_Exit>>

\* The constructor returns: every root is counted as a directory to scan.
Constructed ==
  /\ phase = "roots" /\ todo = <<>>
  /\ phase' = "start"
  /\ m_TotalDirs' = m_FirstDirs
  /\ UNCHANGED <<disk, rootVars, cwd, walkVars, m_Exit>>

CScanner == AddLink \/ AddFolder \/ AddIgnored \/ ListDrive \/ AddTop \/ Constructed
-----------------------------------------------------------------------------
\* Mutant of Skipped: the priority directories are left out of both calls.
Skipped_InBoth(d) == d \in m_IgnoreDirs \/ Contains(m_PriorityDirs, d)

\* An ignored directory is not visited, a priority one not by the second call.
Skipped(d) == d \in m_IgnoreDirs \/ (phase = "base" /\ Contains(m_PriorityDirs, d))

Skip ==
  /\ level # <<>>
  /\ Skipped(Head(level))
  /\ level' = Tail(level)
  /\ m_ScanDirs' = m_ScanDirs + 1
  /\ UNCHANGED <<disk, rootVars, phase, searchDir, cwd, m_TotalDirs, m_ImgDirectorys, m_Exit,
                 halted>>

\* Mutant of Listing: "." is taken for a subdirectory.
Listing_WithDot(d) == {Append(found, Append(d, ".")) : found \in Entries(d, Children(Entered(d)))}

\* The subdirectories that are listed, named after the visited directory.
Listing(d) == Entries(d, Children(Entered(d)))

\* Mutant of Visit: "." and ".." are taken off the total.
Visit_DotsTakenOff ==
  /\ level # <<>>
  /\ LET d == Head(level) IN
       /\ ~Skipped(d)
       /\ cwd' = Entered(d)
       /\ \/ /\ cwd' \in unlisted
             /\ UNCHANGED <<searchDir, m_TotalDirs, m_ImgDirectorys>>
          \/ /\ cwd' \notin unlisted
             /\ \E found \in Listing(d) :
                  /\ searchDir' = searchDir \o found
                  /\ m_TotalDirs' = m_TotalDirs + Len(found) - 2
             /\ m_ImgDirectorys' = IF HoldsPictures(files[cwd'])
                                   THEN PushBackDir(m_ImgDirectorys, d)
                                   ELSE m_ImgDirectorys
  /\ level' = Tail(level)
  /\ m_ScanDirs' = m_ScanDirs + 1
  /\ UNCHANGED <<disk, rootVars, phase, m_Exit, halted>>

\* The directory is reported, entered and listed: its subdirectories are kept
\* for the next level and counted, its files decide whether it is a picture
\* directory.  When it cannot be listed, nothing is known of it.
Visit ==
  /\ level # <<>>
  /\ LET d == Head(level) IN
       /\ ~Skipped(d)
       /\ cwd' = Entered(d)
       /\ \/ /\ cwd' \in unlisted
             /\ UNCHANGED <<searchDir, m_TotalDirs, m_ImgDirectorys>>
          \/ /\ cwd' \notin unlisted
             /\ \E found \in Listing(d) :
                  /\ searchDir' = searchDir \o found
                  /\ m_TotalDirs' = m_TotalDirs + Len(found)
             /\ m_ImgDirectorys' = IF HoldsPictures(files[cwd'])
                                   THEN PushBackDir(m_ImgDirectorys, d)
                                   ELSE m_ImgDirectorys
  /\ level' = Tail(level)
  /\ m_ScanDirs' = m_ScanDirs + 1
  /\ UNCHANGED <<disk, rootVars, phase, m_Exit, halted>>

\* Mutant of Enter: m_Exit is not looked at.
Enter_Always(dirs) ==
  /\ \A i \in DOMAIN dirs : Len(dirs[i]) <= MaxPath
  /\ level' = dirs
  /\ UNCHANGED halted

\* The start of a call; only here is m_Exit looked at.
Enter(dirs) ==
  /\ level' = IF m_Exit THEN <<>> ELSE dirs
  /\ halted' = (halted \/ (m_Exit /\ dirs # <<>>))

\* The call for the next level, within the bound.
Descend ==
  /\ level = <<>>
  /\ searchDir # <<>>
  /\ m_Exit \/ \A i \in DOMAIN searchDir : Len(searchDir[i]) <= MaxPath
  /\ Enter(searchDir)
  /\ searchDir' = <<>>
  /\ UNCHANGED <<disk, rootVars, phase, cwd, m_ScanDirs, m_TotalDirs, m_ImgDirectorys, m_Exit>>

\* Mutant of Call: the two outermost calls are swapped.
Call_BaseFirst ==
  /\ level = <<>>
  /\ searchDir = <<>>
  /\ \/ phase = "start" /\ phase' = "base" /\ Enter(m_BaseDirs)
     \/ phase = "base" /\ phase' = "priority" /\ Enter(m_PriorityDirs)
     \/ phase = "priority" /\ phase' = "done" /\ UNCHANGED <<level, halted>>
  /\ UNCHANGED <<disk, rootVars, searchDir, cwd, m_ScanDirs, m_TotalDirs, m_ImgDirectorys, m_Exit>>

\* The two outermost calls, and the return from the second one.
Call ==
  /\ level = <<>>
  /\ searchDir = <<>>
  /\ \/ phase = "start" /\ phase' = "priority" /\ Enter(m_PriorityDirs)
     \/ phase = "priority" /\ phase' = "base" /\ Enter(m_BaseDirs)
     \/ phase = "base" /\ phase' = "done" /\ UNCHANGED <<level, halted>>
  /\ UNCHANGED <<disk, rootVars, searchDir, cwd, m_ScanDirs, m_TotalDirs, m_ImgDirectorys, m_Exit>>

ScanTargetDir == Skip \/ Visit \/ Descend \/ Call

\* The main thread raises m_Exit at any moment after it has made the scanner.
RaiseExit ==
  /\ ~m_Exit /\ phase # "roots"
  /\ m_Exit' = TRUE
  /\ UNCHANGED <<disk, rootVars, phase, cwd, m_TotalDirs, walkVars>>

\* A request for a fresh scan, from a process that is not ending.
ClearResult ==
  /\ phase = "done"
  /\ ~m_Exit
  /\ phase' = "start"
  /\ m_ScanDirs' = 0
  /\ m_TotalDirs' = m_FirstDirs
  /\ m_ImgDirectorys' = <<>>
  /\ UNCHANGED <<disk, rootVars, level, searchDir, cwd, m_Exit, halted>>

Next == CScanner \/ ScanTargetDir \/ RaiseExit \/ ClearResult

Spec == Init /\ [][Next]_vars

\* The main thread makes the scanner, and the worker keeps running.
FairSpec == Spec /\ WF_vars(CScanner) /\ WF_vars(ScanTargetDir)
-----------------------------------------------------------------------------
\* d is reached from r along directories none of which is in stops.
ReachedFrom(r, d, stops) ==
  /\ IsPrefix(r, d)
  /\ \A e \in Disk : IsPrefix(r, e) /\ IsPrefix(e, d) => e \notin stops

ByPriority(d) ==
  \E r \in ToSet(m_PriorityDirs) : ReachedFrom(r, d, m_IgnoreDirs \cup unlisted)

\* The top directories of the drives, but for those of the system.
IsTop(r) == r \in Disk \ System /\ Len(r) = 2 /\ Front(r) \notin unlisted

ByBase(d) ==
  \E r \in Disk :
    IsTop(r) /\ ReachedFrom(r, d, m_IgnoreDirs \cup unlisted \cup ToSet(m_PriorityDirs))

\* A walk that m_Exit did not cut short finds the directories below its roots
\* that hold more than five targets and no other file, and only them, although
\* it goes level by level, leaves the priority directories out of the second
\* call, and may meet a directory twice (directories that cannot be entered
\* apart: see OwnFiles).
FoundExactly ==
  phase = "done" /\ ~halted /\ barred = {} =>
    ToSet(m_ImgDirectorys) =
      {d \in Disk : OnlyPictures(files[d]) /\ (ByPriority(d) \/ ByBase(d))}

\* No directory is given twice, even one below two priority directories.
NoneTwice == IsInjective(m_ImgDirectorys)

\* What lies below a priority directory is given before anything else.
PriorityFirst ==
  barred = {} =>
    \A i, j \in DOMAIN m_ImgDirectorys :
      i < j /\ ByPriority(m_ImgDirectorys[j]) => ByPriority(m_ImgDirectorys[i])

\* The two numbers a client is shown (disk_scanner.h:26-27): the scanned never
\* exceed the total, and at the end they are equal unless m_Exit cut the walk
\* short, in a repeated walk as in the first one.
Progress ==
  /\ m_ScanDirs <= m_TotalDirs
  /\ phase = "done" => (m_ScanDirs = m_TotalDirs <=> ~halted)

\* The directories that the walk has counted and not yet scanned: those of
\* this level and of the next, and the roots of the calls still to come.
Pending ==
  Len(level) + Len(searchDir)
  + (IF phase = "start" THEN m_FirstDirs
     ELSE IF phase = "priority" THEN Len(m_BaseDirs) ELSE 0)

\* m_FirstDirs counts the roots, and the progress numbers differ by what is
\* pending and by the directories dropped when m_Exit cut the walk short, at
\* least one; then nothing is walked any more.
Account ==
  /\ m_ScanDirs + Pending <= m_TotalDirs
  /\ m_ScanDirs + Pending = m_TotalDirs <=> ~halted
  /\ halted => m_Exit /\ level = <<>> /\ searchDir = <<>>
  /\ phase \in {"roots", "start", "done"} => level = <<>> /\ searchDir = <<>>
  /\ phase = "roots" => m_TotalDirs = 0
  /\ phase \in {"roots", "start"} => m_ImgDirectorys = <<>>
  /\ phase # "roots" => todo = <<>>
  /\ m_FirstDirs = Len(m_PriorityDirs) + Len(m_BaseDirs)

\* The roots are directories of the disk, and every top directory is among them
\* or will be, from its drive or from the listing of its drive.
RootsInv ==
  /\ ToSet(m_PriorityDirs) \subseteq Disk
  /\ \A r \in ToSet(m_BaseDirs) : IsTop(r)
  /\ \A item \in ToSet(todo) :
       /\ item[1] \in {"folder", "drive"} => item[2] \in Disk
       /\ item[1] = "drive" => Len(item[2]) = 1
       /\ item[1] = "top" => IsTop(item[2])
  /\ \A r \in Disk : IsTop(r) =>
       \/ r \in ToSet(m_BaseDirs)
       \/ <<"top", r>> \in ToSet(todo)
       \/ <<"drive", Front(r)>> \in ToSet(todo)

\* What the walk has before it, and where it does not go on.
Ahead == ToSet(level) \cup ToSet(searchDir)
Stops == m_IgnoreDirs \cup unlisted \cup (IF phase = "base" THEN ToSet(m_PriorityDirs) ELSE {})

\* d lies below a root of the call that runs, and nothing stops the walk above d.
Below(d) ==
  \E r \in Disk :
    /\ IF phase = "base" THEN IsTop(r) ELSE r \in ToSet(m_PriorityDirs)
    /\ IsPrefix(r, d)
    /\ \A e \in Disk \ {d} : IsPrefix(r, e) /\ IsPrefix(e, d) => e \notin Stops

\* Nothing else is walked, and nothing else is found: by the first call only
\* what lies below the priority directories.
SoundInv ==
  /\ \A d \in Ahead : d \in Disk /\ Below(d)
  /\ \A d \in ToSet(m_ImgDirectorys) :
       /\ d \in Disk /\ OnlyPictures(files[d])
       /\ ByPriority(d) \/ (phase \in {"base", "done"} /\ ByBase(d))

\* d is found already, or the walk will come to it.
FoundOrAhead(d) ==
  d \in ToSet(m_ImgDirectorys) \/ \E e \in Ahead : ReachedFrom(e, d, Stops)

\* What a call is to find it has found or will find, and what the first call
\* was to find is there when the second one begins.
CompleteInv ==
  \A d \in Disk : OnlyPictures(files[d]) =>
    /\ phase = "priority" /\ ByPriority(d) => FoundOrAhead(d)
    /\ phase = "base" /\ ByBase(d) => FoundOrAhead(d)
    /\ phase = "done" /\ ByBase(d) => d \in ToSet(m_ImgDirectorys)
    /\ phase \in {"base", "done"} /\ ByPriority(d) => d \in ToSet(m_ImgDirectorys)

\* At every moment, in the middle of a walk too: the account balances, and where
\* every directory can be entered the roots are the right ones, the walk strays
\* nowhere, and no directory it is to find is lost between two of its levels.
WalkInv ==
  /\ TypeOK /\ Account
  /\ barred = {} => RootsInv /\ SoundInv /\ (~halted => CompleteInv)

\* The scanner of a disk whose directories can all be entered is made, and
\* every walk of it ends.
WalkEnds == (phase \in {"roots", "start"} /\ barred = {}) ~> phase = "done"

\* Every walk ends once m_Exit is raised, even one that would not end without
\* it (the level under way is walked to its end).
ExitEnds == m_Exit ~> phase = "done"

\* disk_scanner.cpp:256 says that the files are looked at to decide whether
\* "this directory" is a picture directory: its own files.
OwnFiles == \A d \in ToSet(m_ImgDirectorys) : OnlyPictures(files[d])

\* The same line with disk_scanner.h:19, which says which files are pictures: a
\* directory of more than five files, all of a suffix in IMG_SUFFIX, is found.
EverySuffix ==
  phase = "done" /\ ~halted /\ barred = {} =>
    \A d \in Disk :
      AllPictures(files[d]) /\ (ByPriority(d) \/ ByBase(d)) => Contains(m_ImgDirectorys, d)
=============================================================================
