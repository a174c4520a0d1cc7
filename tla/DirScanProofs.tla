--------------------------- MODULE DirScanProofs ---------------------------
(***************************************************************************)
(* What the arithmetic of the picture rule amounts to, for all counts; for *)
(* every disk and all the roots that may be found on it: the progress      *)
(* numbers, the order of the found directories, and that a walk which was  *)
(* not cut short has found exactly what its roots lead to.                 *)
(***************************************************************************)
EXTENDS DirScan, TLAPS, FiniteSetTheorems, SequenceTheorems

-----------------------------------------------------------------------------
\* The rule.

\* The quotient of a number by one that is not smaller than a tenth of it.
LEMMA Quotient ==
  ASSUME NEW t \in Nat, NEW s \in Nat, t > 0, s > t
  PROVE  (t * 10) \div s <= 9
<1> DEFINE q == (t * 10) \div s
<1>1. q \in Nat /\ s * q <= t * 10
  OBVIOUS
<1>2. ASSUME q >= 10 PROVE FALSE
  <2>1. s * q >= s * 10
    BY <1>1, <1>2, Z3
  <2> QED  BY <1>1, <2>1
<1> QED  BY <1>1, <1>2

\* The comparison with nine tenths leaves no room for another file at all.
LEMMA CountsAreExact ==
  ASSUME NEW t \in Nat, NEW o \in Nat
  PROVE  PictureDirectory(t, o) <=> t > 5 /\ o = 0
<1> SUFFICES ASSUME t > 5
             PROVE  (t * 10) \div (t + o) > 9 <=> o = 0
  BY DEF PictureDirectory
<1>1. CASE o = 0
  <2>1. t + o = t
    BY <1>1
  <2>2. (t * 10) \div t = 10
    BY Z3
  <2> QED  BY <1>1, <2>1, <2>2
<1>2. CASE o > 0
  BY <1>2, Quotient
<1> QED  BY <1>1, <1>2

\* A directory is a picture directory exactly if it has more than five targets
\* and no file with another suffix, whatever files it has: the walk may be
\* judged by OnlyPictures, which DirScan does.
THEOREM RuleIsExact ==
  ASSUME NEW S, NEW list \in Seq(S)
  PROVE  HoldsPictures(list) <=> OnlyPictures(list)
<1>1. IsFiniteSet(DOMAIN list)
  BY FS_Interval
<1>2. IsFiniteSet(Targets(list)) /\ IsFiniteSet(Others(list))
  BY <1>1, FS_Subset DEF Targets, Others
<1>3. Cardinality(Targets(list)) \in Nat /\ Cardinality(Others(list)) \in Nat
  BY <1>2, FS_CardinalityType
<1>4. Cardinality(Others(list)) = 0 <=> Others(list) = {}
  BY <1>2, FS_EmptySet
<1> QED  BY <1>3, <1>4, CountsAreExact DEF HoldsPictures, OnlyPictures

-----------------------------------------------------------------------------
\* The walk.

\* What most proofs need of the assumptions on the disk.
LEMMA DiskFacts ==
  /\ IsFiniteSet(Names) /\ Disk \subseteq Path /\ Home \in Disk
  /\ BarredSets \subseteq SUBSET Disk /\ UnlistedSets \subseteq SUBSET Disk
  /\ RootLists \subseteq Seq(Sources \X Path)
<1>1. RootLists \subseteq Seq((Sources \ {"top"}) \X Path)
  BY WalkAssumption
<1>2. ASSUME NEW s \in RootLists PROVE s \in Seq(Sources \X Path)
  <2>1. s \in Seq((Sources \ {"top"}) \X Path)
    BY <1>1
  <2>2. (Sources \ {"top"}) \X Path \subseteq Sources \X Path
    OBVIOUS
  <2> QED  BY <2>1, <2>2, SeqMonotonic
<1> QED  BY <1>2, WalkAssumption

USE DiskFacts

\* Sequences as the sets of their elements.

LEMMA ToSetAppend ==
  ASSUME NEW S, NEW s \in Seq(S), NEW x \in S
  PROVE  ToSet(Append(s, x)) = ToSet(s) \cup {x}
<1>1. /\ DOMAIN s = 1 .. Len(s) /\ Len(s) \in Nat
      /\ DOMAIN Append(s, x) = 1 .. Len(s) + 1
      /\ Append(s, x)[Len(s) + 1] = x
      /\ \A i \in 1 .. Len(s) : Append(s, x)[i] = s[i]
  OBVIOUS
<1>2. \A i \in 1 .. Len(s) + 1 : i \in 1 .. Len(s) \/ i = Len(s) + 1
  BY <1>1
<1>3. ASSUME NEW e \in ToSet(Append(s, x)) PROVE e \in ToSet(s) \cup {x}
  BY <1>1, <1>2 DEF ToSet
<1>4. ASSUME NEW e \in ToSet(s) \cup {x} PROVE e \in ToSet(Append(s, x))
  BY <1>1, <1>2 DEF ToSet
<1> QED  BY <1>3, <1>4

LEMMA ToSetHeadTail ==
  ASSUME NEW S, NEW s \in Seq(S), s # <<>>
  PROVE  ToSet(s) = {Head(s)} \cup ToSet(Tail(s))
<1>1. /\ DOMAIN s = 1 .. Len(s) /\ Len(s) \in Nat \ {0} /\ Head(s) = s[1]
      /\ DOMAIN Tail(s) = 1 .. Len(s) - 1
      /\ \A i \in 1 .. Len(s) - 1 : Tail(s)[i] = s[i + 1]
  OBVIOUS
<1>2. ASSUME NEW e \in ToSet(s) PROVE e \in {Head(s)} \cup ToSet(Tail(s))
  <2>1. PICK i \in 1 .. Len(s) : s[i] = e
    BY <1>1 DEF ToSet
  <2>2. CASE i = 1
    BY <1>1, <2>1, <2>2
  <2>3. CASE i # 1
    <3>1. i - 1 \in 1 .. Len(s) - 1 /\ (i - 1) + 1 = i
      BY <1>1, <2>3
    <3>2. Tail(s)[i - 1] = e /\ i - 1 \in DOMAIN Tail(s)
      BY <1>1, <2>1, <3>1
    <3> QED  BY <3>2 DEF ToSet
  <2> QED  BY <2>2, <2>3
<1>3. ASSUME NEW e \in {Head(s)} \cup ToSet(Tail(s)) PROVE e \in ToSet(s)
  <2>1. Head(s) \in ToSet(s)
    BY <1>1 DEF ToSet
  <2>2. ASSUME NEW i \in DOMAIN Tail(s) PROVE Tail(s)[i] \in ToSet(s)
    <3>1. i + 1 \in DOMAIN s /\ Tail(s)[i] = s[i + 1]
      BY <1>1
    <3> QED  BY <3>1 DEF ToSet
  <2> QED  BY <2>1, <2>2 DEF ToSet
<1> QED  BY <1>2, <1>3

LEMMA ToSetConcat ==
  ASSUME NEW S, NEW s \in Seq(S), NEW t \in Seq(S)
  PROVE  ToSet(s \o t) = ToSet(s) \cup ToSet(t)
<1>1. /\ DOMAIN s = 1 .. Len(s) /\ Len(s) \in Nat
      /\ DOMAIN t = 1 .. Len(t) /\ Len(t) \in Nat
      /\ DOMAIN (s \o t) = 1 .. Len(s) + Len(t)
      /\ \A i \in 1 .. Len(s) + Len(t) : (s \o t)[i] = IF i <= Len(s) THEN s[i] ELSE t[i - Len(s)]
  BY ConcatProperties, LenProperties
<1>2. ASSUME NEW e \in ToSet(s \o t) PROVE e \in ToSet(s) \cup ToSet(t)
  <2>1. PICK i \in 1 .. Len(s) + Len(t) : (s \o t)[i] = e
    BY <1>1 DEF ToSet
  <2>2. CASE i <= Len(s)
    <3>1. i \in DOMAIN s /\ s[i] = e
      BY <1>1, <2>1, <2>2
    <3> QED  BY <3>1 DEF ToSet
  <2>3. CASE i > Len(s)
    <3>1. i - Len(s) \in DOMAIN t /\ t[i - Len(s)] = e
      BY <1>1, <2>1, <2>3
    <3> QED  BY <3>1 DEF ToSet
  <2> QED  BY <1>1, <2>2, <2>3
<1>3. ASSUME NEW i \in DOMAIN s PROVE s[i] \in ToSet(s \o t)
  <2>1. i \in DOMAIN (s \o t) /\ (s \o t)[i] = s[i]
    BY <1>1
  <2> QED  BY <2>1 DEF ToSet
<1>4. ASSUME NEW i \in DOMAIN t PROVE t[i] \in ToSet(s \o t)
  <2>1. i + Len(s) \in DOMAIN (s \o t) /\ (s \o t)[i + Len(s)] = t[i]
    BY <1>1
  <2> QED  BY <2>1 DEF ToSet
<1> QED  BY <1>2, <1>3, <1>4 DEF ToSet

LEMMA ToSetOf ==
  /\ ToSet(<<>>) = {}
  /\ \A S : \A s \in Seq(S) : /\ ToSet(s) \subseteq S
                              /\ \A e : Contains(s, e) <=> e \in ToSet(s)
<1>1. ToSet(<<>>) = {}
  BY DEF ToSet
<1>2. ASSUME NEW S, NEW s \in Seq(S)
      PROVE  ToSet(s) \subseteq S /\ \A e : Contains(s, e) <=> e \in ToSet(s)
  <2>1. DOMAIN s = 1 .. Len(s)
    OBVIOUS
  <2> QED  BY <2>1 DEF ToSet, Contains
<1> QED  BY <1>1, <1>2

LEMMA PushBackSet ==
  ASSUME NEW S, NEW s \in Seq(S), NEW d \in S
  PROVE  ToSet(PushBackDir(s, d)) = ToSet(s) \cup {d}
<1>1. Contains(s, d) <=> d \in ToSet(s)
  BY ToSetOf
<1> QED  BY <1>1, ToSetAppend DEF PushBackDir
-----------------------------------------------------------------------------
\* Paths.

LEMMA PrefixAt ==
  ASSUME NEW s \in Path, NEW t \in Path
  PROVE  IsPrefix(s, t) <=> Len(s) <= Len(t) /\ \A i \in 1 .. Len(s) : s[i] = t[i]
<1>1. Len(s) \in Nat /\ Len(t) \in Nat
  BY DEF Path
<1>2. CASE Len(s) <= Len(t)
  <2>1. /\ SubSeq(s, 1, Len(s)) \in Seq(Names) /\ Len(SubSeq(s, 1, Len(s))) = Len(s)
        /\ \A i \in 1 .. Len(s) : SubSeq(s, 1, Len(s))[i] = s[i]
    BY <1>1 DEF Path
  <2>2. /\ SubSeq(t, 1, Len(s)) \in Seq(Names) /\ Len(SubSeq(t, 1, Len(s))) = Len(s)
        /\ \A i \in 1 .. Len(s) : SubSeq(t, 1, Len(s))[i] = t[i]
    BY <1>1, <1>2 DEF Path
  <2>3. SubSeq(s, 1, Len(s)) = SubSeq(t, 1, Len(s)) <=> \A i \in 1 .. Len(s) : s[i] = t[i]
    <3>1. ASSUME SubSeq(s, 1, Len(s)) = SubSeq(t, 1, Len(s)) PROVE \A i \in 1 .. Len(s) : s[i] = t[i]
      BY <2>1, <2>2, <3>1
    <3>2. ASSUME \A i \in 1 .. Len(s) : s[i] = t[i] PROVE SubSeq(s, 1, Len(s)) = SubSeq(t, 1, Len(s))
      <4>1. \A i \in 1 .. Len(SubSeq(s, 1, Len(s))) : SubSeq(s, 1, Len(s))[i] = SubSeq(t, 1, Len(s))[i]
        BY <2>1, <2>2, <3>2
      <4> QED  BY <2>1, <2>2, <4>1, SeqEqual
    <3> QED  BY <3>1, <3>2
  <2> QED  BY <1>2, <2>3 DEF IsPrefix
<1>3. CASE ~(Len(s) <= Len(t))
  BY <1>3 DEF IsPrefix
<1> QED  BY <1>2, <1>3

LEMMA PrefixOrder ==
  ASSUME NEW r \in Path, NEW s \in Path, NEW t \in Path
  PROVE  /\ IsPrefix(s, s)
         /\ IsPrefix(r, s) /\ IsPrefix(s, t) => IsPrefix(r, t)
         /\ IsPrefix(s, t) /\ IsPrefix(t, s) => s = t
<1>1. Len(r) \in Nat /\ Len(s) \in Nat /\ Len(t) \in Nat
  BY DEF Path
<1>2. IsPrefix(s, s)
  BY <1>1, PrefixAt
<1>3. ASSUME IsPrefix(r, s), IsPrefix(s, t) PROVE IsPrefix(r, t)
  <2>1. /\ Len(r) <= Len(s) /\ \A i \in 1 .. Len(r) : r[i] = s[i]
        /\ Len(s) <= Len(t) /\ \A i \in 1 .. Len(s) : s[i] = t[i]
    BY <1>3, PrefixAt
  <2>2. Len(r) <= Len(t) /\ \A i \in 1 .. Len(r) : r[i] = t[i]
    BY <1>1, <2>1
  <2> QED  BY <2>2, PrefixAt
<1>4. ASSUME IsPrefix(s, t), IsPrefix(t, s) PROVE s = t
  <2>1. Len(s) = Len(t) /\ \A i \in 1 .. Len(s) : s[i] = t[i]
    BY <1>1, <1>4, PrefixAt
  <2> QED  BY <2>1, SeqEqual DEF Path
<1> QED  BY <1>2, <1>3, <1>4

LEMMA EntryPath ==
  ASSUME NEW d \in Path, NEW n \in Names
  PROVE  /\ Append(d, n) \in Path /\ Len(Append(d, n)) = Len(d) + 1
         /\ Append(d, n)[Len(d) + 1] = n
         /\ \A i \in 1 .. Len(d) : Append(d, n)[i] = d[i]
BY DEF Path

\* A prefix of an entry is the entry or a prefix of its directory.
LEMMA PrefixOfEntry ==
  ASSUME NEW e \in Path, NEW d \in Path, NEW n \in Names
  PROVE  /\ Append(d, n) \in Path /\ Append(d, n) # d
         /\ IsPrefix(d, Append(d, n))
         /\ IsPrefix(e, Append(d, n)) => e = Append(d, n) \/ IsPrefix(e, d)
<1> DEFINE a == Append(d, n)
<1>1. /\ a \in Path /\ Len(a) = Len(d) + 1 /\ a[Len(d) + 1] = n
      /\ \A i \in 1 .. Len(d) : a[i] = d[i]
      /\ Len(d) \in Nat /\ Len(e) \in Nat
  BY DEF Path
<1> HIDE DEF a
<1>2. IsPrefix(d, a)
  <2>1. Len(d) <= Len(a) /\ \A i \in 1 .. Len(d) : d[i] = a[i]
    BY <1>1
  <2> QED  BY <1>1, <2>1, PrefixAt
<1>3. ASSUME IsPrefix(e, a) PROVE e = a \/ IsPrefix(e, d)
  <2>1. Len(e) <= Len(a) /\ \A i \in 1 .. Len(e) : e[i] = a[i]
    BY <1>1, <1>3, PrefixAt
  <2>2. CASE Len(e) = Len(a)
    BY <1>1, <2>1, <2>2, SeqEqual DEF Path
  <2>3. CASE Len(e) <= Len(d)
    <3>1. \A i \in 1 .. Len(e) : e[i] = d[i]
      BY <1>1, <2>1, <2>3
    <3> QED  BY <2>3, <3>1, PrefixAt
  <2> QED  BY <1>1, <2>1, <2>2, <2>3
<1> QED  BY <1>1, <1>2, <1>3 DEF a

\* A directory below another one is below one of its entries, or is one.
LEMMA NextEntry ==
  ASSUME NEW e \in Path, NEW d \in Disk, IsPrefix(e, d), e # d
  PROVE  \E n \in Children(e) : IsPrefix(Append(e, n), d)
<1> DEFINE m == Len(e) + 1
           n == d[m]
           a == Append(e, n)
<1>1. d \in Path /\ Len(d) \in Nat /\ Len(e) \in Nat
  BY DEF Path
<1>2. Len(e) <= Len(d) /\ \A i \in 1 .. Len(e) : e[i] = d[i]
  BY <1>1, PrefixAt
<1>3. Len(e) # Len(d)
  <2>1. ASSUME Len(e) = Len(d) PROVE FALSE
    <3>1. e = d
      BY <1>1, <1>2, <2>1, SeqEqual DEF Path
    <3> QED  BY <3>1
  <2> QED  BY <2>1
<1>4. m \in 1 .. Len(d)
  BY <1>1, <1>2, <1>3
<1>5. n \in Names /\ SubSeq(d, 1, m) \in Disk
  BY WalkAssumption, <1>1, <1>4, ElementOfSeq DEF Path
<1>6. /\ a \in Path /\ Len(a) = m /\ a[m] = n
      /\ \A i \in 1 .. Len(e) : a[i] = e[i]
  BY <1>1, <1>5 DEF Path
<1>7. Len(a) <= Len(d) /\ \A i \in 1 .. Len(a) : a[i] = d[i]
  <2>1. \A i \in 1 .. m : i \in 1 .. Len(e) \/ i = m
    BY <1>1
  <2> QED  BY <1>2, <1>4, <1>6, <2>1
<1>8. a = SubSeq(d, 1, m)
  <2>1. /\ SubSeq(d, 1, m) \in Seq(Names) /\ Len(SubSeq(d, 1, m)) = m
        /\ \A i \in 1 .. m : SubSeq(d, 1, m)[i] = d[i]
    BY <1>1, <1>4 DEF Path
  <2>2. \A i \in 1 .. Len(a) : a[i] = SubSeq(d, 1, m)[i]
    BY <1>6, <1>7, <2>1
  <2> QED  BY <1>6, <2>1, <2>2, SeqEqual DEF Path
<1>9. IsPrefix(a, d)
  BY <1>1, <1>6, <1>7, PrefixAt
<1> QED  BY <1>5, <1>8, <1>9 DEF Children

\* A listing has every entry and nothing else.
LEMMA EntriesExact ==
  ASSUME NEW d \in Path, NEW N \in SUBSET Names, NEW found \in Entries(d, N)
  PROVE  ToSet(found) = {Append(d, n) : n \in N}
<1>1. IsFiniteSet(N)
  BY FS_Subset
<1> DEFINE D == 1 .. Cardinality(N)
<1>2. PICK names \in SetToSeqs(N) : found = [i \in DOMAIN names |-> Append(d, names[i])]
  BY DEF Entries
<1>3. names \in [D -> N] /\ \A i, j \in D : i # j => names[i] # names[j]
  BY <1>2 DEF SetToSeqs
<1>4. names \in Injection(D, N)
  BY <1>3 DEF Injection, IsInjective
<1>5. Cardinality(N) \in Nat
  BY <1>1, FS_CardinalityType
<1>6. IsFiniteSet(D) /\ Cardinality(D) = Cardinality(N)
  BY <1>5, FS_Interval
<1>7. names \in Surjection(D, N)
  BY <1>1, <1>4, <1>6, FS_Injection
<1>8. \A n \in N : \E i \in D : names[i] = n
  BY <1>7 DEF Surjection
<1>9. DOMAIN found = D /\ \A i \in D : found[i] = Append(d, names[i]) /\ names[i] \in N
  BY <1>2, <1>3
<1>10. ASSUME NEW x \in ToSet(found) PROVE \E n \in N : x = Append(d, n)
  BY <1>9 DEF ToSet
<1>11. ASSUME NEW n \in N PROVE Append(d, n) \in ToSet(found)
  BY <1>8, <1>9 DEF ToSet
<1> QED  BY <1>10, <1>11

-----------------------------------------------------------------------------
\* Types, and the account of the directories.

\* A sequence without duplicates of the elements of a finite set.
LEMMA SetToSeqsType ==
  ASSUME NEW S, IsFiniteSet(S), NEW s \in SetToSeqs(S)
  PROVE  s \in Seq(S)
<1>1. Cardinality(S) \in Nat
  BY FS_CardinalityType
<1>2. s \in [1 .. Cardinality(S) -> S]
  BY DEF SetToSeqs
<1> QED  BY <1>1, <1>2

\* The entries of a directory, as paths.
LEMMA EntriesType ==
  ASSUME NEW d \in Path, NEW S \in SUBSET Names, NEW found \in Entries(d, S)
  PROVE  found \in Seq(Path)
<1>1. IsFiniteSet(S)
  BY FS_Subset
<1>2. PICK names \in SetToSeqs(S) : found = [i \in DOMAIN names |-> Append(d, names[i])]
  BY DEF Entries
<1>3. names \in Seq(Names)
  BY <1>1, <1>2, SetToSeqsType
<1>4. \A i \in DOMAIN names : Append(d, names[i]) \in Path
  BY <1>3 DEF Path
<1>5. Len(names) \in Nat /\ DOMAIN names = 1 .. Len(names)
  BY <1>3
<1>6. found \in [1 .. Len(names) -> Path]
  BY <1>2, <1>4, <1>5
<1> QED  BY <1>5, <1>6

\* What a listing adds to the next level.
LEMMA ListingType ==
  ASSUME NEW d \in Path, NEW found \in Listing(d)
  PROVE  found \in Seq(Path)
<1>1. Children(Entered(d)) \subseteq Names
  BY DEF Children
<1> QED  BY <1>1, EntriesType DEF Listing

LEMMA PushBackType ==
  ASSUME NEW s \in Seq(Path), NEW d \in Path
  PROVE  /\ PushBackDir(s, d) \in Seq(Path)
         /\ Len(PushBackDir(s, d)) = IF Contains(s, d) THEN Len(s) ELSE Len(s) + 1
BY DEF PushBackDir

LEMMA InitType == Init => TypeOK /\ Account
<1> SUFFICES ASSUME Init PROVE TypeOK /\ Account
  OBVIOUS
<1>1. <<>> \in Seq(Path) /\ Len(<<>>) = 0
  OBVIOUS
<1>2. TypeOK
  <2>1. BarredSets \subseteq SUBSET Disk /\ UnlistedSets \subseteq SUBSET Disk
    OBVIOUS
  <2>2. barred \subseteq Disk /\ unlisted \subseteq Disk /\ todo \in Seq(Sources \X Path)
    BY <2>1 DEF Init
  <2> QED  BY <1>1, <2>2 DEF Init, TypeOK
<1>3. Account
  BY <1>1 DEF Init, Account, Pending
<1> QED  BY <1>2, <1>3

\* What the constructor looks at is a path, and one thing less is left.
LEMMA ItemType ==
  ASSUME TypeOK, NEW source, From(source)
  PROVE  Item \in Path /\ Tail(todo) \in Seq(Sources \X Path)
<1>1. todo \in Seq(Sources \X Path) /\ todo # <<>>
  BY DEF TypeOK, From
<1>2. Head(todo) \in Sources \X Path /\ Tail(todo) \in Seq(Sources \X Path)
  BY <1>1, HeadTailProperties
<1> QED  BY <1>2 DEF Item

\* A root is counted when it is added.
LEMMA CountMatches ==
  ASSUME NEW dirs \in Seq(Path), Item \in Path, m_FirstDirs \in Nat, Count(dirs)
  PROVE  /\ PushBackDir(dirs, Item) \in Seq(Path)
         /\ m_FirstDirs' \in Nat
         /\ m_FirstDirs' - m_FirstDirs = Len(PushBackDir(dirs, Item)) - Len(dirs)
<1>1. /\ PushBackDir(dirs, Item) \in Seq(Path)
      /\ Len(PushBackDir(dirs, Item)) = IF Contains(dirs, Item) THEN Len(dirs) ELSE Len(dirs) + 1
  BY PushBackType
<1>2. Len(dirs) \in Nat
  OBVIOUS
<1> QED  BY <1>1, <1>2 DEF Count

\* The constructor counts what it adds to the roots, from wherever it comes.
LEMMA ConstructorKeeps ==
  ASSUME TypeOK, Account, CScanner
  PROVE  TypeOK' /\ Account'
<1> USE DEF disk, rootVars, walkVars
<1>0. /\ m_PriorityDirs \in Seq(Path) /\ m_BaseDirs \in Seq(Path) /\ m_FirstDirs \in Nat
      /\ Len(m_PriorityDirs) \in Nat /\ Len(m_BaseDirs) \in Nat
  BY DEF TypeOK
<1>1. ASSUME AddPriority, Item \in Path
      PROVE  /\ m_PriorityDirs' \in Seq(Path) /\ m_FirstDirs' \in Nat
             /\ m_FirstDirs' - m_FirstDirs = Len(m_PriorityDirs') - Len(m_PriorityDirs)
  BY <1>0, <1>1, CountMatches DEF AddPriority
<1>2. CASE AddLink \/ AddFolder
  <2>1. Item \in Path /\ Tail(todo) \in Seq(Sources \X Path)
    BY <1>2, ItemType DEF AddLink, AddFolder
  <2>2. AddPriority \/ UNCHANGED <<m_PriorityDirs, m_FirstDirs>>
    BY Zenon, <1>2 DEF AddLink, AddFolder
  <2>3. /\ m_PriorityDirs' \in Seq(Path) /\ m_FirstDirs' \in Nat
        /\ m_FirstDirs' - m_FirstDirs = Len(m_PriorityDirs') - Len(m_PriorityDirs)
    BY <1>0, <1>1, <2>1, <2>2
  <2>4. /\ phase = "roots" /\ todo' = Tail(todo)
        /\ UNCHANGED <<disk, m_BaseDirs, m_IgnoreDirs, phase, cwd, m_TotalDirs, walkVars, m_Exit>>
    BY Zenon, <1>2 DEF AddLink, AddFolder, From
  <2>5. TypeOK'
    BY <2>1, <2>3, <2>4 DEF TypeOK
  <2>6. m_FirstDirs' = Len(m_PriorityDirs') + Len(m_BaseDirs')
    BY <1>0, <2>3, <2>4 DEF Account
  <2>7. Pending' = Pending
    BY <2>4 DEF Pending
  <2> QED  BY <2>4, <2>5, <2>6, <2>7 DEF Account
<1>3. CASE AddTop
  <2>1. Item \in Path /\ Tail(todo) \in Seq(Sources \X Path)
    BY <1>3, ItemType DEF AddTop
  <2>2. /\ m_BaseDirs' \in Seq(Path) /\ m_FirstDirs' \in Nat
        /\ m_FirstDirs' - m_FirstDirs = Len(m_BaseDirs') - Len(m_BaseDirs)
    BY <1>0, <1>3, <2>1, CountMatches DEF AddTop
  <2>3. /\ phase = "roots" /\ todo' = Tail(todo)
        /\ UNCHANGED <<disk, m_PriorityDirs, phase, cwd, m_TotalDirs, walkVars, m_Exit>>
    BY <1>3 DEF AddTop, From
  <2>4. m_IgnoreDirs' \subseteq Path
    BY <1>3, <2>1 DEF AddTop, TypeOK
  <2>5. TypeOK'
    BY <2>1, <2>2, <2>3, <2>4 DEF TypeOK
  <2>6. m_FirstDirs' = Len(m_PriorityDirs') + Len(m_BaseDirs')
    BY <1>0, <2>2, <2>3 DEF Account
  <2>7. Pending' = Pending
    BY <2>3 DEF Pending
  <2> QED  BY <2>3, <2>5, <2>6, <2>7 DEF Account
<1>4. CASE AddIgnored
  <2>1. Item \in Path /\ Tail(todo) \in Seq(Sources \X Path)
    BY <1>4, ItemType DEF AddIgnored
  <2>2. TypeOK'
    BY <1>4, <2>1 DEF AddIgnored, TypeOK
  <2> QED  BY <1>4, <2>2 DEF AddIgnored, From, Account, Pending
<1>5. CASE ListDrive
  <2>1. Item \in Path /\ Tail(todo) \in Seq(Sources \X Path)
    BY <1>5, ItemType DEF ListDrive
  <2>2. cwd' \in Disk
    BY <1>5 DEF ListDrive, Entered, TypeOK
  <2>3. todo' \in Seq(Sources \X Path)
    <3>1. CASE todo' = Tail(todo)
      BY <2>1, <3>1
    <3>2. ASSUME NEW N \in SUBSET Names, NEW tops \in Entries(Item, N),
                 todo' = [i \in DOMAIN tops |-> <<"top", tops[i]>>] \o Tail(todo)
          PROVE  todo' \in Seq(Sources \X Path)
      <4>1. tops \in Seq(Path)
        BY <2>1, EntriesType
      <4>2. [i \in DOMAIN tops |-> <<"top", tops[i]>>] \in Seq(Sources \X Path)
        <5>1. Len(tops) \in Nat /\ DOMAIN tops = 1 .. Len(tops)
          BY <4>1
        <5>2. \A i \in DOMAIN tops : <<"top", tops[i]>> \in Sources \X Path
          BY <4>1 DEF Sources
        <5>3. [i \in DOMAIN tops |-> <<"top", tops[i]>>] \in [1 .. Len(tops) -> Sources \X Path]
          BY <5>1, <5>2
        <5> QED  BY <5>1, <5>3
      <4> QED  BY <2>1, <3>2, <4>2, ConcatProperties
    <3>3. {n \in Children(cwd') : Append(cwd', n) \notin System} \in SUBSET Names
      BY DEF Children
    <3> QED  BY Zenon, <1>5, <3>1, <3>2, <3>3 DEF ListDrive
  <2>4. /\ phase = "roots"
        /\ UNCHANGED <<disk, m_PriorityDirs, m_BaseDirs, m_IgnoreDirs, m_FirstDirs, phase,
                       m_TotalDirs, walkVars, m_Exit>>
    BY Zenon, <1>5 DEF ListDrive, From
  <2>5. TypeOK'
    BY <2>2, <2>3, <2>4 DEF TypeOK
  <2> QED  BY <2>4, <2>5 DEF Account, Pending
<1>6. CASE Constructed
  <2>1. level = <<>> /\ Len(level) = 0 /\ searchDir = <<>> /\ Len(searchDir) = 0
    BY <1>6 DEF Constructed, Account
  <2>2. m_ScanDirs = 0 /\ ~halted
    <3>1. Pending = 0 /\ m_TotalDirs = 0
      BY <1>6, <2>1 DEF Constructed, Pending, Account
    <3> QED  BY <3>1 DEF Account, TypeOK
  <2>3. Pending' = m_FirstDirs /\ m_TotalDirs' = m_FirstDirs
    BY <1>0, <1>6, <2>1 DEF Constructed, Pending
  <2>4. TypeOK'
    BY <1>0, <1>6 DEF Constructed, TypeOK
  <2> QED  BY <1>0, <1>6, <2>1, <2>2, <2>3, <2>4 DEF Constructed, Account
<1> QED  BY <1>2, <1>3, <1>4, <1>5, <1>6 DEF CScanner

\* A step of the walk moves a directory from pending to scanned, or counts
\* what it found as pending.
LEMMA Inductive ==
  ASSUME TypeOK, Account, [Next]_vars
  PROVE  TypeOK' /\ Account'
<1> USE DEF disk, rootVars, walkVars
<1>1. CASE Skip
  <2>1. level # <<>> /\ level \in Seq(Path)
    BY <1>1 DEF Skip, TypeOK
  <2>2. Tail(level) \in Seq(Path) /\ Len(Tail(level)) = Len(level) - 1
    BY <2>1, HeadTailProperties
  <2>3. TypeOK'
    BY <1>1, <2>2 DEF Skip, TypeOK
  <2>4. Account'
    <3>1. phase \notin {"roots", "start", "done"}
      BY <2>1 DEF Account
    <3>2. Len(searchDir) \in Nat /\ Len(m_BaseDirs) \in Nat /\ Len(level) \in Nat
      BY DEF TypeOK
    <3>3. Pending' = Pending - 1 /\ Pending \in Int
      BY <1>1, <2>2, <3>1, <3>2 DEF Skip, Pending, TypeOK
    <3> QED  BY <1>1, <2>2, <3>1, <3>3 DEF Skip, Account, TypeOK
  <2> QED  BY <2>3, <2>4
<1>2. CASE Visit
  <2> DEFINE d == Head(level)
  <2>1. level # <<>> /\ level \in Seq(Path)
    BY <1>2 DEF Visit, TypeOK
  <2>2. /\ Tail(level) \in Seq(Path)
        /\ Len(Tail(level)) = Len(level) - 1
        /\ d \in Path
    BY <2>1, HeadTailProperties
  <2>3. cwd' \in Disk
    BY <1>2 DEF Visit, Entered, TypeOK
  <2>4. m_ImgDirectorys' \in Seq(Path)
    <3>1. m_ImgDirectorys' \in {m_ImgDirectorys, PushBackDir(m_ImgDirectorys, d)}
      BY <1>2 DEF Visit
    <3>2. m_ImgDirectorys \in Seq(Path)
      BY DEF TypeOK
    <3>3. PushBackDir(m_ImgDirectorys, d) \in Seq(Path)
      BY <2>2, <3>2, PushBackType
    <3> QED  BY <3>1, <3>2, <3>3
  <2>5. PICK found \in Seq(Path) : /\ searchDir' = searchDir \o found
                                   /\ m_TotalDirs' = m_TotalDirs + Len(found)
    <3>1. CASE cwd' \in unlisted
      <4>1. searchDir' = searchDir /\ m_TotalDirs' = m_TotalDirs
        BY <1>2, <3>1 DEF Visit
      <4>2. <<>> \in Seq(Path) /\ Len(<<>>) = 0 /\ searchDir \in Seq(Path) /\ m_TotalDirs \in Nat
        BY DEF TypeOK
      <4>3. searchDir \o <<>> = searchDir
        BY <4>2, ConcatEmptySeq
      <4>4. searchDir' = searchDir \o <<>> /\ m_TotalDirs' = m_TotalDirs + Len(<<>>)
        BY <4>1, <4>2, <4>3
      <4> QED  BY <4>2, <4>4
    <3>2. CASE cwd' \notin unlisted
      BY <1>2, <2>2, <3>2, ListingType DEF Visit
    <3> QED  BY <3>1, <3>2
  <2>6. /\ searchDir' \in Seq(Path)
        /\ Len(searchDir') = Len(searchDir) + Len(found)
        /\ Len(found) \in Nat
    BY <2>5, ConcatProperties DEF TypeOK
  <2>7. TypeOK'
    BY <1>2, <2>2, <2>3, <2>4, <2>5, <2>6 DEF Visit, TypeOK
  <2>8. Account'
    <3>1. phase \notin {"roots", "start", "done"}
      BY <2>1 DEF Account
    <3>2. Len(searchDir) \in Nat /\ Len(m_BaseDirs) \in Nat /\ Len(level) \in Nat
      BY DEF TypeOK
    <3>3. Pending' = Pending - 1 + Len(found) /\ Pending \in Int
      <4>1. phase' = phase /\ m_BaseDirs' = m_BaseDirs /\ Len(level') = Len(level) - 1
        BY <1>2, <2>2 DEF Visit
      <4> QED  BY <2>6, <3>1, <3>2, <4>1 DEF Pending
    <3>4. m_ScanDirs' + Pending' = m_ScanDirs + Pending + Len(found)
      BY <1>2, <2>6, <3>3 DEF Visit, TypeOK
    <3>5. m_TotalDirs' = m_TotalDirs + Len(found)
      BY <2>5
    <3>6. UNCHANGED <<phase, todo, m_FirstDirs, m_PriorityDirs, m_BaseDirs, halted>>
      BY <1>2 DEF Visit
    <3>7. ~halted
      BY <2>1 DEF Account
    <3>8. m_ScanDirs + Pending = m_TotalDirs /\ m_ScanDirs \in Nat /\ m_TotalDirs \in Nat
      BY <3>7 DEF Account, TypeOK
    <3> QED  BY <2>6, <3>1, <3>3, <3>4, <3>5, <3>6, <3>7, <3>8 DEF Account
  <2> QED  BY <2>7, <2>8
<1>3. CASE Descend
  <2>1. /\ level = <<>> /\ Len(level) = 0 /\ searchDir \in Seq(Path)
        /\ searchDir # <<>> /\ Len(searchDir) \in Nat \ {0}
    BY <1>3 DEF Descend, TypeOK
  <2>2. TypeOK'
    BY <1>3, <2>1 DEF Descend, Enter, TypeOK
  <2>3. phase \notin {"roots", "start", "done"} /\ Len(m_BaseDirs) \in Nat
    BY <2>1 DEF Account, TypeOK
  <2>4. Account'
    <3>1. CASE m_Exit
      <4>1. Pending' = Pending - Len(searchDir) /\ Pending \in Int /\ halted'
        <5>1. /\ phase' = phase /\ m_BaseDirs' = m_BaseDirs /\ halted'
              /\ Len(level') = 0 /\ Len(searchDir') = 0
          BY <1>3, <2>1, <3>1 DEF Descend, Enter
        <5> QED  BY <2>1, <2>3, <5>1 DEF Pending
      <4> QED  BY <1>3, <2>1, <2>3, <3>1, <4>1 DEF Descend, Enter, Account, TypeOK
    <3>2. CASE ~m_Exit
      <4>1. Pending' = Pending /\ Pending \in Int /\ halted' = halted
        BY <1>3, <2>1, <2>3, <3>2 DEF Descend, Enter, Pending, TypeOK
      <4> QED  BY <1>3, <2>1, <2>3, <3>2, <4>1 DEF Descend, Enter, Account, TypeOK
    <3> QED  BY <3>1, <3>2
  <2> QED  BY <2>2, <2>4
<1>4. CASE Call
  <2>1. level = <<>> /\ Len(level) = 0 /\ searchDir = <<>> /\ Len(searchDir) = 0
    BY <1>4 DEF Call
  <2>2. /\ m_PriorityDirs \in Seq(Path) /\ m_BaseDirs \in Seq(Path)
        /\ Len(m_PriorityDirs) \in Nat /\ Len(m_BaseDirs) \in Nat
        /\ m_BaseDirs # <<>> => Len(m_BaseDirs) > 0
        /\ m_PriorityDirs # <<>> => Len(m_PriorityDirs) > 0
    BY DEF TypeOK
  <2>6. /\ m_FirstDirs = Len(m_PriorityDirs) + Len(m_BaseDirs)
        /\ UNCHANGED <<m_FirstDirs, m_PriorityDirs, m_BaseDirs>>
    BY <1>4 DEF Call, Account
  <2>3. CASE phase = "start" /\ phase' = "priority" /\ Enter(m_PriorityDirs)
    <3>1. TypeOK'
      BY <1>4, <2>2, <2>3 DEF Call, Enter, TypeOK
    <3>2. CASE m_Exit
      <4>1. Pending' = Len(m_BaseDirs) /\ Pending = Len(m_PriorityDirs) + Len(m_BaseDirs)
        BY <1>4, <2>1, <2>2, <2>3, <2>6, <3>2 DEF Call, Enter, Pending
      <4>2. /\ level' = <<>> /\ searchDir' = <<>> /\ phase' = "priority" /\ m_Exit'
            /\ halted' = (halted \/ m_PriorityDirs # <<>>)
            /\ UNCHANGED <<m_ScanDirs, m_TotalDirs, todo>>
        BY <1>4, <2>1, <2>3, <3>2 DEF Call, Enter
      <4>3. m_PriorityDirs = <<>> => Len(m_PriorityDirs) = 0
        OBVIOUS
      <4>4. /\ ~halted' => ~halted /\ m_PriorityDirs = <<>>
            /\ halted' => halted \/ m_PriorityDirs # <<>>
        BY <4>2, Zenon
      <4>5. /\ m_ScanDirs \in Nat /\ m_TotalDirs \in Nat
            /\ m_ScanDirs + Pending <= m_TotalDirs
            /\ m_ScanDirs + Pending = m_TotalDirs <=> ~halted
        BY DEF Account, TypeOK
      <4>6. /\ m_ScanDirs' + Pending' <= m_TotalDirs'
            /\ m_ScanDirs' + Pending' = m_TotalDirs' <=> ~halted'
        BY <2>2, <4>1, <4>2, <4>3, <4>4, <4>5
      <4> QED  BY <2>3, <2>6, <3>1, <4>2, <4>6 DEF Account
    <3>3. CASE ~m_Exit
      <4>1. Pending' = Pending /\ Pending \in Nat
        BY <1>4, <2>1, <2>2, <2>3, <2>6, <3>3 DEF Call, Enter, Pending
      <4> QED  BY <1>4, <2>1, <2>2, <2>3, <3>1, <3>3, <4>1 DEF Call, Enter, Account, TypeOK
    <3> QED  BY <3>2, <3>3
  <2>4. CASE phase = "priority" /\ phase' = "base" /\ Enter(m_BaseDirs)
    <3>1. TypeOK'
      BY <1>4, <2>2, <2>4 DEF Call, Enter, TypeOK
    <3>2. CASE m_Exit
      <4>1. Pending' = 0 /\ Pending = Len(m_BaseDirs)
        BY <1>4, <2>1, <2>2, <2>4, <3>2 DEF Call, Enter, Pending
      <4>2. /\ level' = <<>> /\ searchDir' = <<>> /\ phase' = "base" /\ m_Exit'
            /\ halted' = (halted \/ m_BaseDirs # <<>>)
            /\ UNCHANGED <<m_ScanDirs, m_TotalDirs, todo>>
        BY <1>4, <2>1, <2>4, <3>2 DEF Call, Enter
      <4>3. m_BaseDirs = <<>> => Len(m_BaseDirs) = 0
        OBVIOUS
      <4>4. /\ ~halted' => ~halted /\ m_BaseDirs = <<>>
            /\ halted' => halted \/ m_BaseDirs # <<>>
        BY <4>2, Zenon
      <4>5. /\ m_ScanDirs \in Nat /\ m_TotalDirs \in Nat
            /\ m_ScanDirs + Pending <= m_TotalDirs
            /\ m_ScanDirs + Pending = m_TotalDirs <=> ~halted
        BY DEF Account, TypeOK
      <4>6. /\ m_ScanDirs' + Pending' <= m_TotalDirs'
            /\ m_ScanDirs' + Pending' = m_TotalDirs' <=> ~halted'
        BY <2>2, <4>1, <4>2, <4>3, <4>4, <4>5
      <4> QED  BY <2>4, <2>6, <3>1, <4>2, <4>6 DEF Account
    <3>3. CASE ~m_Exit
      <4>1. Pending' = Pending /\ Pending \in Nat
        BY <1>4, <2>1, <2>2, <2>4, <3>3 DEF Call, Enter, Pending
      <4> QED  BY <1>4, <2>1, <2>2, <2>4, <3>1, <3>3, <4>1 DEF Call, Enter, Account, TypeOK
    <3> QED  BY <3>2, <3>3
  <2>5. CASE phase = "base" /\ phase' = "done" /\ UNCHANGED <<level, halted>>
    <3>1. TypeOK'
      BY <1>4, <2>5 DEF Call, TypeOK
    <3>2. Pending' = Pending
      BY <1>4, <2>5 DEF Call, Pending
    <3> QED  BY <1>4, <2>1, <2>5, <3>1, <3>2 DEF Call, Account
  <2> QED  BY <1>4, <2>3, <2>4, <2>5 DEF Call
<1>5. CASE RaiseExit
  BY <1>5 DEF RaiseExit, TypeOK, Account, Pending
<1>6. CASE ClearResult
  <2>1. m_FirstDirs \in Nat /\ m_FirstDirs' = m_FirstDirs
    BY <1>6 DEF ClearResult, TypeOK
  <2>2. TypeOK'
    BY <1>6, <2>1 DEF ClearResult, TypeOK
  <2>3. level = <<>> /\ Len(level) = 0 /\ searchDir = <<>> /\ Len(searchDir) = 0 /\ ~halted
    BY <1>6 DEF ClearResult, Account
  <2>4. Pending' = m_FirstDirs
    BY <1>6, <2>1, <2>3 DEF ClearResult, Pending
  <2> QED  BY <1>6, <2>1, <2>2, <2>3, <2>4 DEF ClearResult, Account
<1>7. CASE UNCHANGED vars
  BY <1>7 DEF vars, TypeOK, Account, Pending
<1> QED  BY <1>1, <1>2, <1>3, <1>4, <1>5, <1>6, <1>7, ConstructorKeeps DEF Next, ScanTargetDir

\* The variables keep their types and the account balances, on any disk.
THEOREM WalkInvariant == Spec => [](TypeOK /\ Account)
BY InitType, Inductive, PTL DEF Spec

\* The progress numbers shown to the clients are in order, on any disk: the
\* scanned directories never exceed the counted ones and are as many at the
\* end of every walk that m_Exit did not cut short.
THEOREM ProgressHolds == Spec => []Progress
<1>1. TypeOK /\ Account => Progress
  <2> SUFFICES ASSUME TypeOK, Account PROVE Progress
    OBVIOUS
  <2>1. Pending \in Nat
    <3>1. /\ Len(level) \in Nat /\ Len(searchDir) \in Nat
          /\ Len(m_BaseDirs) \in Nat /\ Len(m_PriorityDirs) \in Nat
      BY DEF TypeOK
    <3>2. m_FirstDirs \in Nat
      BY DEF TypeOK
    <3>3. CASE phase = "start"
      BY <3>1, <3>2, <3>3 DEF Pending
    <3>4. CASE phase = "priority"
      BY <3>1, <3>4 DEF Pending
    <3>5. CASE phase \notin {"start", "priority"}
      <4>1. Pending = Len(level) + Len(searchDir) + 0
        BY <3>5 DEF Pending
      <4> QED  BY <3>1, <4>1
    <3> QED  BY <3>3, <3>4, <3>5
  <2>2. phase = "done" => Pending = 0
    BY DEF Account, Pending
  <2> QED  BY <2>1, <2>2 DEF Progress, Account, TypeOK
<1> QED  BY <1>1, WalkInvariant, PTL

\* Every variable of the walk keeps its type.
THEOREM WalkTypes == Spec => []TypeOK
BY WalkInvariant, PTL

\* The list of found directories names none twice.
LEMMA PushBackInjective ==
  ASSUME NEW s \in Seq(Path), NEW d \in Path, IsInjective(s)
  PROVE  IsInjective(PushBackDir(s, d))
<1>1. CASE Contains(s, d)
  BY <1>1 DEF PushBackDir
<1>2. CASE ~Contains(s, d)
  <2> DEFINE t == Append(s, d)
  <2>1. DOMAIN s = 1 .. Len(s) /\ DOMAIN t = 1 .. Len(s) + 1 /\ Len(s) \in Nat
    OBVIOUS
  <2>2. t[Len(s) + 1] = d /\ \A i \in 1 .. Len(s) : t[i] = s[i] /\ s[i] # d
    BY <1>2, <2>1 DEF Contains
  <2>3. \A i, j \in 1 .. Len(s) + 1 : t[i] = t[j] => i = j
    <3> SUFFICES ASSUME NEW i \in 1 .. Len(s) + 1, NEW j \in 1 .. Len(s) + 1, t[i] = t[j]
                 PROVE  i = j
      OBVIOUS
    <3>1. CASE i \in 1 .. Len(s) /\ j \in 1 .. Len(s)
      BY <2>1, <2>2, <3>1 DEF IsInjective
    <3>2. CASE i = Len(s) + 1 \/ j = Len(s) + 1
      BY <2>1, <2>2, <3>2
    <3> QED  BY <2>1, <3>1, <3>2
  <2>4. IsInjective(t)
    BY <2>1, <2>3 DEF IsInjective
  <2> QED  BY <1>2, <2>4 DEF PushBackDir
<1> QED  BY <1>1, <1>2

\* Two walks of the same directory, from two priority directories or from a
\* priority directory and a base directory, give it once.
THEOREM NoneTwiceHolds == Spec => []NoneTwice
<1>1. Init => NoneTwice
  BY DEF Init, NoneTwice, IsInjective
<1>2. ASSUME TypeOK, NoneTwice, [Next]_vars
      PROVE  NoneTwice'
  <2> USE DEF disk, rootVars, walkVars
  <2>1. CASE Visit
    <3>1. level # <<>> /\ level \in Seq(Path) /\ m_ImgDirectorys \in Seq(Path)
      BY <1>2, <2>1 DEF Visit, TypeOK
    <3>2. Head(level) \in Path
      BY <3>1, HeadTailProperties
    <3>3. m_ImgDirectorys' \in {m_ImgDirectorys, PushBackDir(m_ImgDirectorys, Head(level))}
      BY <2>1 DEF Visit
    <3>4. IsInjective(PushBackDir(m_ImgDirectorys, Head(level)))
      BY <1>2, <3>1, <3>2, PushBackInjective DEF NoneTwice
    <3> QED  BY <1>2, <3>3, <3>4 DEF NoneTwice
  <2>2. CASE ClearResult
    BY <2>2 DEF ClearResult, NoneTwice, IsInjective
  <2>3. CASE UNCHANGED m_ImgDirectorys
    BY <1>2, <2>3 DEF NoneTwice
  <2>4. CASE CScanner
    <3>1. UNCHANGED m_ImgDirectorys
      BY Zenon, <2>4 DEF CScanner, AddLink, AddFolder, AddIgnored, ListDrive, AddTop, Constructed
    <3> QED  BY <2>3, <3>1
  <2> QED  BY <1>2, <2>1, <2>2, <2>3, <2>4 DEF Next, ScanTargetDir, Skip, Descend, Call, RaiseExit, vars
<1> QED  BY <1>1, <1>2, WalkTypes, PTL DEF Spec

-----------------------------------------------------------------------------
\* What is found.

\* The state of the walk apart from its level, and what depends on it alone.
LEMMA RootsFrozen ==
  ASSUME UNCHANGED <<disk, rootVars>>
  PROVE  /\ RootsInv => RootsInv'
         /\ \A d : (IsTop(d)' <=> IsTop(d)) /\ (ByPriority(d)' <=> ByPriority(d))
         /\ \A d : (ByBase(d)' <=> ByBase(d))
<1>1. UNCHANGED <<files, barred, unlisted, todo, m_PriorityDirs, m_BaseDirs, m_IgnoreDirs>>
  BY DEF disk, rootVars
<1>2. \A d : IsTop(d)' <=> IsTop(d)
  BY <1>1 DEF IsTop
<1>3. \A d : ByPriority(d)' <=> ByPriority(d)
  BY <1>1 DEF ByPriority
<1>4. \A d : ByBase(d)' <=> ByBase(d)
  BY <1>1, <1>2 DEF ByBase
<1>5. RootsInv => RootsInv'
  BY <1>1, <1>2 DEF RootsInv
<1> QED  BY <1>2, <1>3, <1>4, <1>5

LEMMA CallFrozen ==
  ASSUME UNCHANGED <<disk, rootVars>>, (phase' = "base") <=> (phase = "base")
  PROVE  Stops' = Stops /\ \A d : Below(d)' <=> Below(d)
<1>1. UNCHANGED <<unlisted, m_PriorityDirs, m_IgnoreDirs>>
  BY DEF disk, rootVars
<1>2. Stops' = Stops
  BY <1>1 DEF Stops
<1>3. \A d : IsTop(d)' <=> IsTop(d)
  BY RootsFrozen
<1>4. \A d : Below(d)' <=> Below(d)
  BY <1>1, <1>2, <1>3 DEF Below
<1> QED  BY <1>2, <1>4

\* The directory at the head of the level.
LEMMA HeadOfLevel ==
  ASSUME TypeOK, level # <<>>
  PROVE  /\ level \in Seq(Path) /\ Tail(level) \in Seq(Path)
         /\ ToSet(level) = {Head(level)} \cup ToSet(Tail(level))
         /\ Head(level) \in Ahead
<1>1. level \in Seq(Path)
  BY DEF TypeOK
<1>2. Tail(level) \in Seq(Path)
  BY <1>1, HeadTailProperties
<1>3. ToSet(level) = {Head(level)} \cup ToSet(Tail(level))
  BY <1>1, ToSetHeadTail
<1> QED  BY <1>1, <1>2, <1>3 DEF Ahead

\* Skipped and unlisted directories are those where the walk does not go on.
LEMMA SkippedStops ==
  ASSUME TypeOK, Account, level # <<>>
  PROVE  /\ phase \in {"priority", "base"} /\ ~halted
         /\ Head(level) \in Stops <=> Skipped(Head(level)) \/ Head(level) \in unlisted
<1>1. phase \in {"priority", "base"} /\ ~halted
  BY DEF Account, TypeOK
<1>2. Contains(m_PriorityDirs, Head(level)) <=> Head(level) \in ToSet(m_PriorityDirs)
  BY ToSetOf DEF TypeOK
<1> QED  BY <1>1, <1>2 DEF Stops, Skipped

\* Where the walk goes on, the entries of a directory are below a root too.
LEMMA BelowEntry ==
  ASSUME RootsInv, NEW d \in Disk, Below(d), d \notin Stops, NEW n \in Children(d)
  PROVE  Append(d, n) \in Disk /\ Below(Append(d, n))
<1> DEFINE a == Append(d, n)
<1>1. n \in Names /\ a \in Disk /\ a \in Path /\ d \in Path
  BY DEF Children
<1>2. PICK r \in Disk :
        /\ IF phase = "base" THEN IsTop(r) ELSE r \in ToSet(m_PriorityDirs)
        /\ IsPrefix(r, d)
        /\ \A e \in Disk \ {d} : IsPrefix(r, e) /\ IsPrefix(e, d) => e \notin Stops
  BY DEF Below
<1>3. IsPrefix(d, a)
  BY <1>1, PrefixOfEntry
<1>4. IsPrefix(r, a)
  BY <1>1, <1>2, <1>3, PrefixOrder
<1>5. ASSUME NEW e \in Disk \ {a}, IsPrefix(r, e), IsPrefix(e, a)
      PROVE  e \notin Stops
  <2>1. IsPrefix(e, d)
    BY <1>1, <1>5, PrefixOfEntry
  <2> QED  BY <1>2, <1>5, <2>1
<1> QED  BY <1>1, <1>2, <1>4, <1>5 DEF Below

\* Where the walk goes on, a directory below a root is one the call is to find.
LEMMA BelowFound ==
  ASSUME NEW d \in Disk, Below(d), d \notin Stops
  PROVE  IF phase = "base" THEN ByBase(d) ELSE ByPriority(d)
<1>1. PICK r \in Disk :
        /\ IF phase = "base" THEN IsTop(r) ELSE r \in ToSet(m_PriorityDirs)
        /\ IsPrefix(r, d)
        /\ \A e \in Disk \ {d} : IsPrefix(r, e) /\ IsPrefix(e, d) => e \notin Stops
  BY DEF Below
<1>2. ReachedFrom(r, d, Stops)
  BY <1>1 DEF ReachedFrom
<1>3. CASE phase = "base"
  <2>1. Stops = m_IgnoreDirs \cup unlisted \cup ToSet(m_PriorityDirs)
    BY <1>3 DEF Stops
  <2> QED  BY <1>1, <1>2, <1>3, <2>1 DEF ByBase
<1>4. CASE phase # "base"
  <2>1. Stops = m_IgnoreDirs \cup unlisted
    BY <1>4 DEF Stops
  <2> QED  BY <1>1, <1>2, <1>4, <2>1 DEF ByPriority
<1> QED  BY <1>3, <1>4

\* What is reached from a directory is it or is reached from one of its entries.
LEMMA ReachNext ==
  ASSUME NEW e \in Disk, NEW d \in Disk, NEW T, ReachedFrom(e, d, T)
  PROVE  /\ e \notin T
         /\ e # d => \E n \in Children(e) : ReachedFrom(Append(e, n), d, T)
<1>1. IsPrefix(e, d) /\ \A x \in Disk : IsPrefix(e, x) /\ IsPrefix(x, d) => x \notin T
  BY DEF ReachedFrom
<1>2. e \in Path /\ d \in Path /\ IsPrefix(e, e)
  BY PrefixOrder
<1>3. ASSUME e # d PROVE \E n \in Children(e) : ReachedFrom(Append(e, n), d, T)
  <2>1. PICK n \in Children(e) : IsPrefix(Append(e, n), d)
    BY <1>1, <1>2, <1>3, NextEntry
  <2>2. Append(e, n) \in Path /\ IsPrefix(e, Append(e, n))
    BY <1>2, <2>1, PrefixOfEntry DEF Children
  <2>3. ASSUME NEW x \in Disk, IsPrefix(Append(e, n), x), IsPrefix(x, d) PROVE x \notin T
    <3>1. IsPrefix(e, x)
      BY <1>2, <2>2, <2>3, PrefixOrder
    <3> QED  BY <1>1, <2>3, <3>1
  <2> QED  BY <2>1, <2>3 DEF ReachedFrom
<1> QED  BY <1>1, <1>2, <1>3

\* Between a directory and itself there is no other one.
LEMMA BelowItself ==
  \A r \in Disk : /\ IsPrefix(r, r)
                  /\ \A e \in Disk \ {r} : ~(IsPrefix(r, e) /\ IsPrefix(e, r))
BY PrefixOrder

\* The rule that the walk applies, on the files of a directory.
LEMMA JudgedBy ==
  ASSUME TypeOK, NEW d \in Disk
  PROVE  HoldsPictures(files[d]) <=> OnlyPictures(files[d])
<1>1. files[d] \in Seq(Seq(STRING))
  BY WalkAssumption DEF TypeOK
<1> QED  BY <1>1, RuleIsExact

\* A directory that is dropped, skipped or unlisted, hides nothing.
LEMMA DropKeeps ==
  ASSUME TypeOK, Account, SoundInv, CompleteInv, level # <<>>, Head(level) \in Stops,
         level' = Tail(level),
         UNCHANGED <<disk, rootVars, phase, searchDir, m_ImgDirectorys>>
  PROVE  SoundInv' /\ CompleteInv'
<1> DEFINE h == Head(level)
<1>1. /\ ToSet(level) = {h} \cup ToSet(level') /\ h \in Ahead
      /\ Ahead' \subseteq Ahead /\ Ahead \subseteq Ahead' \cup {h}
  BY HeadOfLevel DEF Ahead
<1>2. /\ Stops' = Stops /\ files' = files
      /\ \A d : /\ Below(d)' <=> Below(d)
                /\ ByPriority(d)' <=> ByPriority(d)
                /\ ByBase(d)' <=> ByBase(d)
  BY RootsFrozen, CallFrozen DEF disk
<1>3. SoundInv'
  BY <1>1, <1>2 DEF SoundInv
<1>4. h \in Disk
  BY <1>1 DEF SoundInv
<1>5. ASSUME NEW d \in Disk, FoundOrAhead(d) PROVE FoundOrAhead(d)'
  <2>1. CASE d \in ToSet(m_ImgDirectorys)
    BY <2>1 DEF FoundOrAhead
  <2>2. ASSUME NEW e \in Ahead, ReachedFrom(e, d, Stops) PROVE FoundOrAhead(d)'
    <3>1. e # h
      BY <1>4, <2>2, ReachNext
    <3>2. e \in Ahead'
      BY <1>1, <3>1
    <3> QED  BY <1>2, <2>2, <3>2 DEF FoundOrAhead
  <2> QED  BY <1>5, <2>1, <2>2 DEF FoundOrAhead
<1>6. CompleteInv'
  BY <1>2, <1>5 DEF CompleteInv
<1> QED  BY <1>3, <1>6

\* A directory that is listed is replaced by its entries, and found if it is
\* one to find.
LEMMA ListedKeeps ==
  ASSUME TypeOK, Account, RootsInv, SoundInv, CompleteInv, barred = {}, Visit, cwd' \notin unlisted
  PROVE  SoundInv' /\ CompleteInv'
<1> DEFINE h == Head(level)
<1>1. /\ level # <<>> /\ ~Skipped(h) /\ level' = Tail(level) /\ cwd' = Entered(h)
      /\ UNCHANGED <<disk, rootVars, phase>>
  BY DEF Visit
<1>2. /\ ToSet(level) = {h} \cup ToSet(level') /\ h \in Ahead
  BY <1>1, HeadOfLevel
<1>3. h \in Disk /\ Below(h) /\ h \in Path
  BY <1>2 DEF SoundInv
<1>4. cwd' = h /\ h \notin unlisted
  BY <1>1, <1>3 DEF Entered
<1>5. phase \in {"priority", "base"} /\ h \notin Stops
  BY <1>1, <1>4, SkippedStops
<1>6. PICK found \in Entries(h, Children(h)) : searchDir' = searchDir \o found
  BY <1>4 DEF Visit, Listing, Entered
<1>7. ToSet(found) = {Append(h, n) : n \in Children(h)} /\ found \in Seq(Path)
  BY <1>3, <1>6, EntriesExact, EntriesType DEF Children
<1>8. ToSet(searchDir') = ToSet(searchDir) \cup ToSet(found)
  BY <1>6, <1>7, ToSetConcat DEF TypeOK
<1>9. /\ Ahead' \subseteq Ahead \cup ToSet(found)
      /\ Ahead \cup ToSet(found) \subseteq Ahead' \cup {h}
      /\ ToSet(found) \subseteq Ahead'
  BY <1>2, <1>8 DEF Ahead
<1>10. ToSet(m_ImgDirectorys') = ToSet(m_ImgDirectorys) \cup (IF OnlyPictures(files[h]) THEN {h} ELSE {})
  <2>1. m_ImgDirectorys' = IF OnlyPictures(files[h])
                           THEN PushBackDir(m_ImgDirectorys, h) ELSE m_ImgDirectorys
    BY <1>3, <1>4, JudgedBy DEF Visit
  <2> QED  BY <1>3, <2>1, PushBackSet DEF TypeOK
<1>11. /\ Stops' = Stops /\ files' = files
       /\ \A d : /\ Below(d)' <=> Below(d)
                 /\ ByPriority(d)' <=> ByPriority(d)
                 /\ ByBase(d)' <=> ByBase(d)
  BY <1>1, RootsFrozen, CallFrozen DEF disk
<1>12. IF phase = "base" THEN ByBase(h) ELSE ByPriority(h)
  BY <1>3, <1>5, BelowFound
<1>13. SoundInv'
  <2>1. ASSUME NEW d \in Ahead' PROVE d \in Disk /\ Below(d)'
    <3>1. CASE d \in Ahead
      BY <1>11, <3>1 DEF SoundInv
    <3>2. CASE d \in ToSet(found)
      <4>1. PICK n \in Children(h) : d = Append(h, n)
        BY <1>7, <3>2
      <4>2. d \in Disk /\ Below(d)
        BY <1>3, <1>5, <4>1, BelowEntry
      <4> QED  BY <1>11, <4>2
    <3> QED  BY <1>9, <2>1, <3>1, <3>2
  <2>2. ASSUME NEW d \in ToSet(m_ImgDirectorys')
        PROVE  /\ d \in Disk /\ OnlyPictures(files'[d])
               /\ ByPriority(d)' \/ (phase' \in {"base", "done"} /\ ByBase(d)')
    <3>1. CASE d \in ToSet(m_ImgDirectorys)
      BY <1>1, <1>11, <3>1 DEF SoundInv
    <3>2. CASE d = h /\ OnlyPictures(files[h])
      BY <1>1, <1>3, <1>5, <1>11, <1>12, <3>2
    <3> QED  BY <1>10, <2>2, <3>1, <3>2
  <2> QED  BY <2>1, <2>2 DEF SoundInv
<1>14. ASSUME NEW d \in Disk, OnlyPictures(files[d]), FoundOrAhead(d) PROVE FoundOrAhead(d)'
  <2>1. CASE d \in ToSet(m_ImgDirectorys)
    BY <1>10, <2>1 DEF FoundOrAhead
  <2>2. ASSUME NEW e \in Ahead, ReachedFrom(e, d, Stops) PROVE FoundOrAhead(d)'
    <3>1. CASE e # h
      BY <1>9, <1>11, <2>2, <3>1 DEF FoundOrAhead
    <3>2. CASE e = h /\ d = h
      BY <1>10, <1>14, <3>2 DEF FoundOrAhead
    <3>3. CASE e = h /\ d # h
      <4>1. PICK n \in Children(h) : ReachedFrom(Append(h, n), d, Stops)
        BY <1>3, <2>2, <3>3, ReachNext
      <4>2. Append(h, n) \in Ahead'
        BY <1>7, <1>9
      <4> QED  BY <1>11, <4>1, <4>2 DEF FoundOrAhead
    <3> QED  BY <3>1, <3>2, <3>3
  <2> QED  BY <1>14, <2>1, <2>2 DEF FoundOrAhead
<1>15. CompleteInv'
  <2>1. phase' = phase
    BY <1>1
  <2>2. ASSUME NEW d \in Disk, OnlyPictures(files'[d])
        PROVE  /\ phase' = "priority" /\ ByPriority(d)' => FoundOrAhead(d)'
               /\ phase' = "base" /\ ByBase(d)' => FoundOrAhead(d)'
               /\ phase' \in {"base", "done"} /\ ByPriority(d)' => d \in ToSet(m_ImgDirectorys')
    BY <1>10, <1>11, <1>14, <2>1, <2>2 DEF CompleteInv
  <2> QED  BY <1>5, <2>1, <2>2 DEF CompleteInv
<1> QED  BY <1>13, <1>15

\* The walk of a level loses nothing and finds nothing else.
LEMMA LevelKeeps ==
  ASSUME TypeOK, Account, RootsInv, SoundInv, CompleteInv, barred = {}, Skip \/ Visit
  PROVE  SoundInv' /\ CompleteInv'
<1>1. level # <<>> /\ UNCHANGED <<disk, rootVars, phase>> /\ level' = Tail(level)
  BY DEF Skip, Visit
<1>2. CASE Skip
  <2>1. Head(level) \in Stops
    BY <1>1, <1>2, SkippedStops DEF Skip
  <2>2. UNCHANGED <<searchDir, m_ImgDirectorys>>
    BY <1>2 DEF Skip
  <2> QED  BY <1>1, <2>1, <2>2, DropKeeps
<1>3. CASE Visit /\ cwd' \in unlisted
  <2>1. Head(level) \in Disk
    BY <1>1, HeadOfLevel DEF SoundInv
  <2>2. Head(level) \in unlisted
    BY <1>3, <2>1 DEF Visit, Entered
  <2>3. Head(level) \in Stops
    BY <2>2 DEF Stops
  <2>4. UNCHANGED <<searchDir, m_ImgDirectorys>>
    BY <1>3 DEF Visit
  <2> QED  BY <1>1, <2>3, <2>4, DropKeeps
<1>4. CASE Visit /\ cwd' \notin unlisted
  BY <1>4, ListedKeeps
<1> QED  BY <1>2, <1>3, <1>4

\* The next level is what was met on this one, unless the walk is cut short.
LEMMA DescendKeeps ==
  ASSUME TypeOK, SoundInv, ~halted => CompleteInv, Descend
  PROVE  SoundInv' /\ (~halted' => CompleteInv')
<1>1. /\ level = <<>> /\ searchDir # <<>> /\ searchDir' = <<>>
      /\ level' = (IF m_Exit THEN <<>> ELSE searchDir)
      /\ halted' = (halted \/ m_Exit)
      /\ UNCHANGED <<disk, rootVars, phase, m_ImgDirectorys>>
  BY DEF Descend, Enter
<1>2. Ahead' \subseteq Ahead /\ (~m_Exit => Ahead' = Ahead)
  BY <1>1, ToSetOf DEF Ahead
<1>3. /\ Stops' = Stops /\ files' = files
      /\ \A d : /\ Below(d)' <=> Below(d)
                /\ ByPriority(d)' <=> ByPriority(d)
                /\ ByBase(d)' <=> ByBase(d)
  BY <1>1, RootsFrozen, CallFrozen DEF disk
<1>4. SoundInv'
  BY <1>1, <1>2, <1>3 DEF SoundInv
<1>5. ASSUME ~halted' PROVE CompleteInv'
  <2>1. CompleteInv /\ Ahead' = Ahead
    BY <1>1, <1>2, <1>5
  <2>2. \A d : FoundOrAhead(d)' <=> FoundOrAhead(d)
    BY <1>1, <1>3, <2>1 DEF FoundOrAhead
  <2> QED  BY <1>1, <1>3, <2>1, <2>2 DEF CompleteInv
<1> QED  BY <1>4, <1>5

\* A call begins with roots, all of them, and ends with nothing ahead: what the
\* first call was to find is found when the second one begins.
LEMMA CallKeeps ==
  ASSUME TypeOK, Account, RootsInv, SoundInv, ~halted => CompleteInv, Call
  PROVE  SoundInv' /\ (~halted' => CompleteInv')
<1>1. /\ level = <<>> /\ searchDir = <<>> /\ searchDir' = <<>>
      /\ UNCHANGED <<disk, rootVars, m_ImgDirectorys>>
      /\ phase \in {"start", "priority", "base"}
  BY DEF Call
<1>2. /\ files' = files
      /\ \A d : /\ IsTop(d)' <=> IsTop(d)
                /\ ByPriority(d)' <=> ByPriority(d)
                /\ ByBase(d)' <=> ByBase(d)
  BY <1>1, RootsFrozen DEF disk
<1>3. Ahead = {} /\ RootsInv'
  BY <1>1, ToSetOf, RootsFrozen DEF Ahead
<1>4. \A d : ~halted /\ FoundOrAhead(d) => d \in ToSet(m_ImgDirectorys)
  BY <1>3 DEF FoundOrAhead
<1>5. CASE phase = "start" /\ phase' = "priority" /\ Enter(m_PriorityDirs)
  <2>1. m_ImgDirectorys' = <<>> /\ ToSet(m_ImgDirectorys') = {}
    BY <1>1, <1>5, ToSetOf DEF Account
  <2>2. /\ level' = (IF m_Exit THEN <<>> ELSE m_PriorityDirs)
        /\ halted' = (halted \/ (m_Exit /\ m_PriorityDirs # <<>>))
    BY <1>5 DEF Enter
  <2>3. /\ Ahead' \subseteq ToSet(m_PriorityDirs')
        /\ ~halted' => Ahead' = ToSet(m_PriorityDirs')
    BY <1>1, <2>2, ToSetOf DEF Ahead, rootVars
  <2>4. SoundInv'
    <3>1. \A d \in Ahead' : d \in Disk /\ Below(d)'
      <4>1. ToSet(m_PriorityDirs') \subseteq Disk
        BY <1>3 DEF RootsInv
      <4>2. \A r \in Disk : r \in ToSet(m_PriorityDirs') => Below(r)'
        BY <1>5, BelowItself DEF Below
      <4> QED  BY <2>3, <4>1, <4>2
    <3> QED  BY <2>1, <3>1 DEF SoundInv
  <2>5. ASSUME ~halted' PROVE CompleteInv'
    <3>1. Stops' = m_IgnoreDirs' \cup unlisted'
      BY <1>5 DEF Stops
    <3>2. \A d \in Disk : ByPriority(d)' => FoundOrAhead(d)'
      BY <2>3, <2>5, <3>1 DEF ByPriority, FoundOrAhead
    <3> QED  BY <1>5, <3>2 DEF CompleteInv
  <2> QED  BY <2>4, <2>5
<1>6. CASE phase = "priority" /\ phase' = "base" /\ Enter(m_BaseDirs)
  <2>1. /\ level' = (IF m_Exit THEN <<>> ELSE m_BaseDirs)
        /\ halted' = (halted \/ (m_Exit /\ m_BaseDirs # <<>>))
    BY <1>6 DEF Enter
  <2>2. /\ Ahead' \subseteq ToSet(m_BaseDirs')
        /\ ~halted' => Ahead' = ToSet(m_BaseDirs')
    BY <1>1, <2>1, ToSetOf DEF Ahead, rootVars
  <2>3. /\ \A r \in ToSet(m_BaseDirs') : IsTop(r)' /\ r \in Disk
        /\ \A r \in Disk : IsTop(r)' => r \in ToSet(m_BaseDirs')
    <3>1. todo' = <<>> /\ ToSet(todo') = {}
      BY <1>1, <1>6, ToSetOf DEF Account, rootVars
    <3> QED  BY <1>3, <3>1 DEF RootsInv, IsTop
  <2>4. SoundInv'
    <3>1. \A d \in Ahead' : d \in Disk /\ Below(d)'
      <4>1. \A r \in Disk : IsTop(r)' => Below(r)'
        BY <1>6, BelowItself DEF Below
      <4> QED  BY <2>2, <2>3, <4>1
    <3> QED  BY <1>1, <1>2, <1>6, <3>1 DEF SoundInv
  <2>5. ASSUME ~halted' PROVE CompleteInv'
    <3>1. Stops' = m_IgnoreDirs' \cup unlisted' \cup ToSet(m_PriorityDirs')
      BY <1>6 DEF Stops
    <3>2. \A d \in Disk : ByBase(d)' => FoundOrAhead(d)'
      BY <2>2, <2>3, <2>5, <3>1 DEF ByBase, FoundOrAhead
    <3>3. ~halted
      BY <2>1, <2>5
    <3>4. \A d \in Disk : OnlyPictures(files'[d]) /\ ByPriority(d)' => d \in ToSet(m_ImgDirectorys')
      BY <1>1, <1>2, <1>4, <1>6, <3>3 DEF CompleteInv
    <3> QED  BY <1>6, <3>2, <3>4 DEF CompleteInv
  <2> QED  BY <2>4, <2>5
<1>7. CASE phase = "base" /\ phase' = "done" /\ UNCHANGED <<level, halted>>
  <2>1. Ahead' = {}
    BY <1>1, <1>7, ToSetOf DEF Ahead
  <2>2. SoundInv'
    BY <1>1, <1>2, <1>7, <2>1 DEF SoundInv
  <2>3. ASSUME ~halted' PROVE CompleteInv'
    BY <1>1, <1>2, <1>4, <1>7, <2>3 DEF CompleteInv
  <2> QED  BY <2>2, <2>3
<1> QED  BY <1>5, <1>6, <1>7 DEF Call

\* A path of two names is the entry of a drive.
LEMMA TopOfDrive ==
  ASSUME NEW r \in Disk, Len(r) = 2
  PROVE  Front(r) \in Disk /\ \E n \in Children(Front(r)) : r = Append(Front(r), n)
<1>1. r \in Path /\ Front(r) = SubSeq(r, 1, 1) /\ Front(r) \in Disk
  BY WalkAssumption DEF Front
<1>2. /\ SubSeq(r, 1, 1) \in Seq(Names) /\ Len(SubSeq(r, 1, 1)) = 1
      /\ SubSeq(r, 1, 1)[1] = r[1] /\ r[2] \in Names
  <2>1. r \in Seq(Names) /\ 1 \in 1 .. Len(r) /\ 2 \in 1 .. Len(r)
    BY <1>1 DEF Path
  <2>2. r[1] \in Names /\ r[2] \in Names
    BY <2>1, ElementOfSeq
  <2>3. \A i \in 1 .. 1 : r[i] \in Names
    BY <2>2
  <2> QED  BY <2>2, <2>3, SubSeqProperties
<1>3. r = Append(Front(r), r[2])
  <2> DEFINE a == Append(SubSeq(r, 1, 1), r[2])
  <2>1. a \in Seq(Names) /\ Len(a) = 2 /\ a[1] = r[1] /\ a[2] = r[2]
    BY <1>2
  <2>2. a = r
    <3>1. \A i \in 1 .. 2 : a[i] = r[i]
      BY <2>1
    <3> HIDE DEF a
    <3> QED  BY <1>1, <2>1, <3>1, SeqEqual DEF Path
  <2> QED  BY <1>1, <2>2
<1> QED  BY <1>1, <1>2, <1>3 DEF Children

LEMMA EntryOfDrive ==
  ASSUME NEW d \in Disk, Len(d) = 1, NEW n \in Children(d)
  PROVE  Append(d, n) \in Disk /\ Len(Append(d, n)) = 2 /\ Front(Append(d, n)) = d
<1> DEFINE a == Append(d, n)
<1>1. d \in Path /\ n \in Names /\ a \in Disk
  BY DEF Children
<1>2. a \in Path /\ Len(a) = 2 /\ a[1] = d[1] /\ a[1] \in Names
  <2>1. a \in Path /\ Len(a) = Len(d) + 1 /\ \A i \in 1 .. Len(d) : a[i] = d[i]
    BY <1>1, EntryPath
  <2> HIDE DEF a
  <2>2. Len(a) = 2 /\ a[1] = d[1]
    BY <2>1
  <2>3. 1 \in 1 .. Len(a)
    BY <2>2
  <2> QED  BY <2>1, <2>2, <2>3, ElementOfSeq DEF Path
<1> HIDE DEF a
<1>3. Front(a) = SubSeq(a, 1, 1)
  BY <1>2 DEF Front
<1>4. /\ SubSeq(a, 1, 1) \in Seq(Names) /\ Len(SubSeq(a, 1, 1)) = 1
      /\ SubSeq(a, 1, 1)[1] = d[1]
  <2>1. \A i \in 1 .. 1 : a[i] \in Names
    BY <1>2
  <2> QED  BY <1>2, <2>1, SubSeqProperties
<1>5. \A i \in 1 .. 1 : SubSeq(a, 1, 1)[i] = d[i]
  BY <1>4
<1>6. SubSeq(a, 1, 1) = d
  BY <1>1, <1>4, <1>5, SeqEqual DEF Path
<1> QED  BY <1>1, <1>2, <1>3, <1>6 DEF a

\* The constructor takes the roots it is to take, however they come.
LEMMA ConstructorRoots ==
  ASSUME TypeOK, RootsInv, barred = {}, CScanner
  PROVE  RootsInv'
<1> USE DEF disk
<1>1. UNCHANGED <<barred, unlisted>>
  BY Zenon DEF CScanner, AddLink, AddFolder, AddIgnored, ListDrive, AddTop, Constructed
<1>2. \A d : IsTop(d)' <=> IsTop(d)
  BY <1>1 DEF IsTop
<1>3. ASSUME NEW source, From(source)
      PROVE  /\ Head(todo) = <<source, Item>> /\ Item \in Path
             /\ ToSet(todo) = {<<source, Item>>} \cup ToSet(Tail(todo))
             /\ Tail(todo) \in Seq(Sources \X Path)
  <2>1. todo \in Seq(Sources \X Path) /\ todo # <<>> /\ Head(todo)[1] = source
    BY <1>3 DEF From, TypeOK
  <2>2. Head(todo) \in Sources \X Path /\ Tail(todo) \in Seq(Sources \X Path)
    BY <2>1, HeadTailProperties
  <2>3. Head(todo) = <<source, Item>> /\ Item \in Path
    BY <2>1, <2>2 DEF Item
  <2>4. ToSet(todo) = {Head(todo)} \cup ToSet(Tail(todo))
    BY <2>1, ToSetHeadTail
  <2> QED  BY <2>2, <2>3, <2>4
<1>4. m_PriorityDirs \in Seq(Path) /\ m_BaseDirs \in Seq(Path)
  BY DEF TypeOK
<1>5. CASE AddLink \/ AddFolder \/ AddIgnored
  <2>1. PICK source \in {"link", "folder", "ignore"} : From(source)
    BY <1>5 DEF AddLink, AddFolder, AddIgnored
  <2>2. /\ ToSet(todo) = {<<source, Item>>} \cup ToSet(Tail(todo)) /\ Item \in Path
    BY <1>3, <2>1
  <2>3. ToSet(m_PriorityDirs') \subseteq Disk
    <3>1. ToSet(PushBackDir(m_PriorityDirs, Item)) = ToSet(m_PriorityDirs) \cup {Item}
      BY <1>4, <2>2, PushBackSet
    <3>2. CASE AddLink
      BY <3>1, <3>2 DEF AddLink, AddPriority, RootsInv
    <3>3. CASE AddFolder
      <4>1. Item \in Disk
        <5>1. From("folder")
          BY <3>3 DEF AddFolder
        <5>2. <<"folder", Item>> \in ToSet(todo)
          BY <1>3, <5>1
        <5> QED  BY <5>2 DEF RootsInv
      <4> QED  BY <3>1, <3>3, <4>1 DEF AddFolder, AddPriority, RootsInv
    <3>4. CASE AddIgnored
      BY <3>4 DEF AddIgnored, RootsInv
    <3> QED  BY <1>5, <3>2, <3>3, <3>4
  <2>4. todo' = Tail(todo) /\ m_BaseDirs' = m_BaseDirs
    BY Zenon, <1>5 DEF AddLink, AddFolder, AddIgnored
  <2>5. \A r : <<"top", r>> # <<source, Item>> /\ <<"drive", r>> # <<source, Item>>
    OBVIOUS
  <2> QED  BY <1>2, <2>2, <2>3, <2>4, <2>5 DEF RootsInv
<1>6. CASE ListDrive
  <2>1. From("drive") /\ m_PriorityDirs' = m_PriorityDirs /\ m_BaseDirs' = m_BaseDirs
    BY <1>6 DEF ListDrive
  <2>2. /\ ToSet(todo) = {<<"drive", Item>>} \cup ToSet(Tail(todo)) /\ Item \in Path
        /\ Tail(todo) \in Seq(Sources \X Path)
    BY <1>3, <2>1
  <2>3. Item \in Disk /\ Len(Item) = 1
    <3>1. <<"drive", Item>> \in ToSet(todo) /\ <<"drive", Item>>[1] = "drive"
      BY <2>2
    <3> QED  BY <3>1 DEF RootsInv
  <2>4. cwd' = Item
    BY <1>6, <2>3 DEF ListDrive, Entered
  <2>5. CASE Item \in unlisted
    <3>1. todo' = Tail(todo)
      BY <1>6, <2>4, <2>5 DEF ListDrive
    <3>2. \A r \in Disk : IsTop(r) => <<"drive", Front(r)>> # <<"drive", Item>>
      BY <2>5 DEF IsTop
    <3>3. \A r : <<"top", r>> # <<"drive", Item>>
      OBVIOUS
    <3> QED  BY <1>2, <2>1, <2>2, <3>1, <3>2, <3>3 DEF RootsInv
  <2>6. CASE Item \notin unlisted
    <3> DEFINE N == {n \in Children(Item) : Append(Item, n) \notin System}
    <3>1. PICK tops \in Entries(Item, N) :
             todo' = [i \in DOMAIN tops |-> <<"top", tops[i]>>] \o Tail(todo)
      BY <1>6, <2>4, <2>6 DEF ListDrive
    <3>2. N \in SUBSET Names
      BY DEF Children
    <3>3. tops \in Seq(Path) /\ ToSet(tops) = {Append(Item, n) : n \in N}
      BY <2>2, <3>1, <3>2, EntriesType, EntriesExact
    <3> DEFINE T == [i \in DOMAIN tops |-> <<"top", tops[i]>>]
    <3>4. T \in Seq(Sources \X Path) /\ ToSet(T) = {<<"top", r>> : r \in ToSet(tops)}
      <4>1. Len(tops) \in Nat /\ DOMAIN tops = 1 .. Len(tops) /\ \A i \in DOMAIN tops : tops[i] \in Path
        BY <3>3
      <4>2. T \in [1 .. Len(tops) -> Sources \X Path]
        BY <4>1 DEF Sources
      <4>3. T \in Seq(Sources \X Path)
        BY <4>1, <4>2
      <4> QED  BY <4>3 DEF ToSet
    <3>5. ToSet(todo') = ToSet(T) \cup ToSet(Tail(todo))
      BY <2>2, <3>1, <3>4, ToSetConcat
    <3>6. \A r \in ToSet(tops) : IsTop(r)
      <4>1. ASSUME NEW n \in N PROVE IsTop(Append(Item, n))
        <5>1. /\ Append(Item, n) \in Disk /\ Len(Append(Item, n)) = 2
              /\ Front(Append(Item, n)) = Item
          BY <2>3, EntryOfDrive
        <5> QED  BY <2>6, <5>1 DEF IsTop
      <4> QED  BY <3>3, <4>1
    <3>7. \A r \in Disk : IsTop(r) /\ Front(r) = Item => r \in ToSet(tops)
      <4>1. ASSUME NEW r \in Disk, IsTop(r), Front(r) = Item PROVE r \in ToSet(tops)
        <5>1. PICK n \in Children(Item) : r = Append(Item, n)
          BY <4>1, TopOfDrive DEF IsTop
        <5>2. n \in N
          BY <4>1, <5>1 DEF IsTop
        <5> QED  BY <3>3, <5>1, <5>2
      <4> QED  BY <4>1
    <3>8. /\ ToSet(m_PriorityDirs') \subseteq Disk
          /\ \A r \in ToSet(m_BaseDirs') : IsTop(r)'
      BY <1>2, <2>1 DEF RootsInv
    <3>9. ASSUME NEW item \in ToSet(todo')
          PROVE  /\ item[1] \in {"folder", "drive"} => item[2] \in Disk
                 /\ item[1] = "drive" => Len(item[2]) = 1
                 /\ item[1] = "top" => IsTop(item[2])'
      <4>1. CASE item \in ToSet(T)
        <5>1. PICK r \in ToSet(tops) : item = <<"top", r>>
          BY <3>4, <4>1
        <5> QED  BY <1>2, <3>6, <5>1
      <4>2. CASE item \in ToSet(Tail(todo))
        BY <1>2, <2>2, <4>2 DEF RootsInv
      <4> QED  BY <3>5, <3>9, <4>1, <4>2
    <3>10. ASSUME NEW r \in Disk, IsTop(r)'
           PROVE  \/ r \in ToSet(m_BaseDirs')
                  \/ <<"top", r>> \in ToSet(todo')
                  \/ <<"drive", Front(r)>> \in ToSet(todo')
      <4>1. CASE Front(r) = Item
        BY <1>2, <3>4, <3>5, <3>7, <3>10, <4>1
      <4>2. CASE Front(r) # Item
        <5>1. <<"top", r>> # <<"drive", Item>> /\ <<"drive", Front(r)>> # <<"drive", Item>>
          BY <4>2
        <5> QED  BY <1>2, <2>1, <2>2, <3>5, <3>10, <5>1 DEF RootsInv
      <4> QED  BY <4>1, <4>2
    <3> QED  BY <3>8, <3>9, <3>10 DEF RootsInv
  <2> QED  BY <2>5, <2>6
<1>7. CASE AddTop
  <2>1. /\ From("top") /\ m_PriorityDirs' = m_PriorityDirs /\ todo' = Tail(todo)
        /\ m_BaseDirs' = PushBackDir(m_BaseDirs, Item)
    BY <1>7 DEF AddTop
  <2>2. /\ ToSet(todo) = {<<"top", Item>>} \cup ToSet(todo') /\ Item \in Path
    BY <1>3, <2>1
  <2>3. ToSet(m_BaseDirs') = ToSet(m_BaseDirs) \cup {Item}
    BY <1>4, <2>1, <2>2, PushBackSet
  <2>4. IsTop(Item)
    <3>1. <<"top", Item>> \in ToSet(todo) /\ <<"top", Item>>[1] = "top"
      BY <2>2
    <3> QED  BY <3>1 DEF RootsInv
  <2>5. \A r : <<"drive", r>> # <<"top", Item>> /\ (r # Item => <<"top", r>> # <<"top", Item>>)
    OBVIOUS
  <2> QED  BY <1>2, <2>1, <2>2, <2>3, <2>4, <2>5 DEF RootsInv
<1>8. CASE Constructed
  BY <1>8, RootsFrozen DEF Constructed
<1> QED  BY <1>5, <1>6, <1>7, <1>8 DEF CScanner

LEMMA FoundInit == Init => WalkInv
<1> SUFFICES ASSUME Init PROVE WalkInv
  OBVIOUS
<1>1. /\ todo \in RootLists /\ phase = "roots"
      /\ ToSet(m_PriorityDirs) = {} /\ ToSet(m_BaseDirs) = {} /\ ToSet(level) = {}
      /\ ToSet(searchDir) = {} /\ ToSet(m_ImgDirectorys) = {}
  BY ToSetOf DEF Init
<1>2. RootsInv
  <2>1. /\ todo \in Seq((Sources \ {"top"}) \X Path)
        /\ \A i \in DOMAIN todo :
             todo[i][1] \in {"folder", "drive"} =>
               todo[i][2] \in Disk /\ (todo[i][1] = "drive" => Len(todo[i][2]) = 1)
        /\ \A d \in Disk : Len(d) = 1 => <<"drive", d>> \in ToSet(todo)
    BY <1>1, WalkAssumption
  <2>2. \A item \in ToSet(todo) : item \in (Sources \ {"top"}) \X Path
    BY <2>1, ToSetOf
  <2>3. \A item \in ToSet(todo) :
          item[1] \in {"folder", "drive"} =>
            item[2] \in Disk /\ (item[1] = "drive" => Len(item[2]) = 1)
    BY <2>1 DEF ToSet
  <2>4. \A r \in Disk : IsTop(r) => <<"drive", Front(r)>> \in ToSet(todo)
    <3>1. ASSUME NEW r \in Disk, IsTop(r) PROVE Front(r) \in Disk /\ Len(Front(r)) = 1
      <4>1. Front(r) \in Disk /\ Len(r) = 2 /\ r \in Seq(Names)
        BY <3>1, TopOfDrive DEF IsTop, Path
      <4>2. Front(r) = SubSeq(r, 1, 1) /\ \A i \in 1 .. 1 : r[i] \in Names
        BY <4>1, ElementOfSeq DEF Front
      <4> QED  BY <4>1, <4>2, SubSeqProperties
    <3> QED  BY <2>1, <3>1
  <2> QED  BY <1>1, <2>2, <2>3, <2>4 DEF RootsInv
<1>3. Ahead = {}
  BY <1>1 DEF Ahead
<1>4. SoundInv /\ CompleteInv
  BY <1>1, <1>3 DEF SoundInv, CompleteInv
<1> QED  BY <1>2, <1>4, InitType DEF WalkInv

LEMMA BarredFixed == [Next]_vars => barred' = barred
BY Zenon DEF Next, CScanner, AddLink, AddFolder, AddIgnored, ListDrive, AddTop, Constructed,
   ScanTargetDir, Skip, Visit, Descend, Call, RaiseExit, ClearResult, disk, vars

LEMMA FoundInductive == WalkInv /\ [Next]_vars => WalkInv'
<1> SUFFICES ASSUME WalkInv, [Next]_vars PROVE WalkInv'
  OBVIOUS
<1>1. TypeOK' /\ Account'
  BY Inductive DEF WalkInv
<1>2. barred' = barred
  BY BarredFixed
<1>3. ASSUME barred = {} PROVE RootsInv' /\ SoundInv' /\ (~halted' => CompleteInv')
  <2>1. TypeOK /\ Account /\ RootsInv /\ SoundInv /\ (~halted => CompleteInv)
    BY <1>3 DEF WalkInv
  <2>2. CASE CScanner
    <3>1. /\ phase' \in {"roots", "start"}
          /\ UNCHANGED <<level, searchDir, m_ImgDirectorys>> /\ phase = "roots"
      BY Zenon, <2>2 DEF CScanner, AddLink, AddFolder, AddIgnored, ListDrive, AddTop, Constructed,
         From, walkVars
    <3>2. level' = <<>> /\ searchDir' = <<>> /\ m_ImgDirectorys' = <<>>
      BY <2>1, <3>1 DEF Account
    <3>3. Ahead' = {} /\ ToSet(m_ImgDirectorys') = {}
      BY <3>2, ToSetOf DEF Ahead
    <3>4. SoundInv' /\ CompleteInv'
      BY <3>1, <3>3 DEF SoundInv, CompleteInv
    <3> QED  BY <1>3, <2>1, <2>2, <3>4, ConstructorRoots
  <2>3. CASE Skip \/ Visit
    <3>1. UNCHANGED <<disk, rootVars>> /\ level # <<>>
      BY <2>3 DEF Skip, Visit
    <3>2. ~halted
      BY <2>1, <3>1 DEF Account
    <3> QED  BY <1>3, <2>1, <2>3, <3>1, <3>2, LevelKeeps, RootsFrozen
  <2>4. CASE Descend
    <3>1. UNCHANGED <<disk, rootVars>>
      BY <2>4 DEF Descend
    <3> QED  BY <2>1, <2>4, <3>1, DescendKeeps, RootsFrozen
  <2>5. CASE Call
    <3>1. UNCHANGED <<disk, rootVars>>
      BY <2>5 DEF Call
    <3> QED  BY <2>1, <2>5, <3>1, CallKeeps, RootsFrozen
  <2>6. CASE ClearResult
    <3>1. /\ UNCHANGED <<disk, rootVars>> /\ phase = "done" /\ phase' = "start"
          /\ UNCHANGED <<level, searchDir>> /\ m_ImgDirectorys' = <<>>
      BY <2>6 DEF ClearResult
    <3>2. Ahead' = {} /\ ToSet(m_ImgDirectorys') = {}
      BY <2>1, <3>1, ToSetOf DEF Ahead, Account
    <3>3. SoundInv' /\ CompleteInv'
      BY <3>1, <3>2 DEF SoundInv, CompleteInv
    <3> QED  BY <2>1, <3>1, <3>3, RootsFrozen
  <2>7. CASE RaiseExit \/ UNCHANGED vars
    <3>1. UNCHANGED <<disk, rootVars, phase, level, searchDir, m_ImgDirectorys, halted>>
      BY Zenon, <2>7 DEF RaiseExit, vars, walkVars
    <3>2. /\ Stops' = Stops /\ files' = files /\ Ahead' = Ahead
          /\ \A d : /\ Below(d)' <=> Below(d)
                    /\ ByPriority(d)' <=> ByPriority(d)
                    /\ ByBase(d)' <=> ByBase(d)
      BY <3>1, RootsFrozen, CallFrozen DEF disk, Ahead
    <3>3. SoundInv'
      BY <2>1, <3>1, <3>2 DEF SoundInv
    <3>4. \A d : FoundOrAhead(d)' <=> FoundOrAhead(d)
      BY <3>1, <3>2 DEF FoundOrAhead
    <3>5. CompleteInv => CompleteInv'
      BY <3>1, <3>2, <3>4 DEF CompleteInv
    <3> QED  BY <2>1, <3>1, <3>3, <3>5, RootsFrozen
  <2> QED  BY <2>2, <2>3, <2>4, <2>5, <2>6, <2>7 DEF Next, ScanTargetDir
<1> QED  BY <1>1, <1>2, <1>3 DEF WalkInv

\* At every moment of every walk of every disk: what is found and what is ahead
\* is what the roots lead to, and nothing that they lead to is lost.
THEOREM WalkInvHolds == Spec => []WalkInv
BY FoundInit, FoundInductive, PTL DEF Spec

\* A walk that was not cut short has found exactly the picture directories that
\* the roots lead to, on any disk, whatever roots it was given.
THEOREM FoundExactlyHolds == Spec => []FoundExactly
<1>1. WalkInv => FoundExactly
  <2> SUFFICES ASSUME WalkInv, phase = "done", ~halted, barred = {}
               PROVE  ToSet(m_ImgDirectorys) =
                        {d \in Disk : OnlyPictures(files[d]) /\ (ByPriority(d) \/ ByBase(d))}
    BY DEF FoundExactly
  <2>1. SoundInv /\ CompleteInv
    BY DEF WalkInv
  <2>2. \A d \in ToSet(m_ImgDirectorys) :
          d \in Disk /\ OnlyPictures(files[d]) /\ (ByPriority(d) \/ ByBase(d))
    BY <2>1 DEF SoundInv
  <2>3. \A d \in Disk : OnlyPictures(files[d]) /\ (ByPriority(d) \/ ByBase(d)) =>
          d \in ToSet(m_ImgDirectorys)
    BY <2>1 DEF CompleteInv
  <2> QED  BY <2>2, <2>3
<1> QED  BY <1>1, WalkInvHolds, PTL

\* What lies below a priority directory is given before anything else, on any
\* disk: the second call meets no such directory that is not there already.
THEOREM PriorityFirstHolds == Spec => []PriorityFirst
<1>1. Init => PriorityFirst
  BY DEF Init, PriorityFirst
<1>2. ASSUME WalkInv, PriorityFirst, [Next]_vars
      PROVE  PriorityFirst'
  <2> USE DEF disk, rootVars, walkVars
  <2>1. barred' = barred
    BY <1>2, BarredFixed
  <2>2. CASE m_ImgDirectorys' = <<>>
    BY <2>2 DEF PriorityFirst
  <2>3. CASE UNCHANGED <<m_PriorityDirs, m_IgnoreDirs, unlisted, m_ImgDirectorys>>
    <3>1. \A d : ByPriority(d)' <=> ByPriority(d)
      BY <2>3 DEF ByPriority
    <3> QED  BY <1>2, <2>1, <2>3, <3>1 DEF PriorityFirst
  <2>4. CASE CScanner
    <3>1. phase = "roots" /\ m_ImgDirectorys' = m_ImgDirectorys
      BY Zenon, <2>4 DEF CScanner, AddLink, AddFolder, AddIgnored, ListDrive, AddTop, Constructed,
         From
    <3>2. m_ImgDirectorys' = <<>>
      BY <1>2, <3>1 DEF WalkInv, Account
    <3> QED  BY <2>2, <3>2
  <2>5. ASSUME Visit, barred = {}, m_ImgDirectorys' # m_ImgDirectorys
        PROVE  PriorityFirst'
    <3> DEFINE h == Head(level)
    <3>1. /\ level # <<>> /\ ~Skipped(h) /\ cwd' = Entered(h) /\ cwd' \notin unlisted
          /\ UNCHANGED <<disk, rootVars, phase>>
          /\ HoldsPictures(files[cwd']) /\ m_ImgDirectorys' = PushBackDir(m_ImgDirectorys, h)
      BY <2>5 DEF Visit
    <3>2. TypeOK /\ Account /\ SoundInv /\ (~halted => CompleteInv)
      BY <1>2, <2>5 DEF WalkInv
    <3>3. h \in Disk /\ h \in Path /\ Below(h)
      BY <3>1, <3>2, HeadOfLevel DEF SoundInv
    <3>4. cwd' = h
      BY <2>5, <3>1, <3>3 DEF Entered
    <3>5. phase \in {"priority", "base"} /\ h \notin Stops /\ ~halted
      BY <3>1, <3>2, <3>4, SkippedStops
    <3>6. OnlyPictures(files[h])
      BY <3>1, <3>2, <3>3, <3>4, JudgedBy
    <3>7. \A d : ByPriority(d)' <=> ByPriority(d)
      BY <3>1, RootsFrozen
    <3>8. /\ ~Contains(m_ImgDirectorys, h)
          /\ m_ImgDirectorys' = Append(m_ImgDirectorys, h)
          /\ m_ImgDirectorys \in Seq(Path)
      BY <2>5, <3>1, <3>2 DEF PushBackDir, TypeOK
    <3>9. h \notin ToSet(m_ImgDirectorys)
      BY <3>8, ToSetOf
    <3>10. ByPriority(h) => phase = "priority"
      BY <3>2, <3>3, <3>5, <3>6, <3>9 DEF CompleteInv
    <3>11. phase = "priority" => \A d \in ToSet(m_ImgDirectorys) : ByPriority(d)
      BY <3>2 DEF SoundInv
    <3>12. ASSUME NEW i \in DOMAIN m_ImgDirectorys', NEW j \in DOMAIN m_ImgDirectorys',
                  i < j, ByPriority(m_ImgDirectorys'[j])
           PROVE  ByPriority(m_ImgDirectorys'[i])
      <4>1. /\ Len(m_ImgDirectorys) \in Nat /\ DOMAIN m_ImgDirectorys = 1 .. Len(m_ImgDirectorys)
            /\ DOMAIN m_ImgDirectorys' = 1 .. Len(m_ImgDirectorys) + 1
            /\ \A k \in 1 .. Len(m_ImgDirectorys) : m_ImgDirectorys'[k] = m_ImgDirectorys[k]
            /\ m_ImgDirectorys'[Len(m_ImgDirectorys) + 1] = h
        BY <3>3, <3>8
      <4>2. i \in 1 .. Len(m_ImgDirectorys) /\ m_ImgDirectorys'[i] = m_ImgDirectorys[i]
        BY <3>12, <4>1
      <4>3. CASE j = Len(m_ImgDirectorys) + 1
        <5>1. ByPriority(h)
          BY <3>12, <4>1, <4>3
        <5>2. m_ImgDirectorys[i] \in ToSet(m_ImgDirectorys)
          BY <4>1, <4>2 DEF ToSet
        <5> QED  BY <3>10, <3>11, <4>2, <5>1, <5>2
      <4>4. CASE j \in 1 .. Len(m_ImgDirectorys)
        BY <1>2, <2>5, <3>12, <4>1, <4>2, <4>4 DEF PriorityFirst
      <4> QED  BY <4>1, <4>3, <4>4
    <3> QED  BY <3>7, <3>12 DEF PriorityFirst
  <2>6. CASE barred # {}
    BY <2>1, <2>6 DEF PriorityFirst
  <2>7. CASE Visit /\ m_ImgDirectorys' = m_ImgDirectorys
    BY <2>3, <2>7 DEF Visit
  <2> QED
    BY <1>2, <2>2, <2>3, <2>4, <2>5, <2>6, <2>7
    DEF Next, ScanTargetDir, Skip, Descend, Call, RaiseExit, ClearResult, vars
<1> QED  BY <1>1, <1>2, WalkInvHolds, PTL DEF Spec
=============================================================================
