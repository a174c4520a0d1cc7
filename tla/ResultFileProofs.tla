-------------------------- MODULE ResultFileProofs --------------------------
(***************************************************************************)
(* What is written to the result file and what is read back from it, for   *)
(* every disk and clock.                                                   *)
(***************************************************************************)
EXTENDS ResultFile, TLAPS, FiniteSetTheorems, SequenceTheorems

-----------------------------------------------------------------------------
\* Sequences.

\* The beginning of a sequence.
LEMMA Beginning ==
  ASSUME NEW S, NEW s \in Seq(S), NEW n \in 0 .. Len(s)
  PROVE  /\ SubSeq(s, 1, n) \in Seq(S) /\ Len(SubSeq(s, 1, n)) = n
         /\ DOMAIN SubSeq(s, 1, n) = 1 .. n
         /\ \A i \in 1 .. n : SubSeq(s, 1, n)[i] = s[i]
         /\ n < Len(s) => SubSeq(s, 1, n + 1) = Append(SubSeq(s, 1, n), s[n + 1])
OBVIOUS

LEMMA ToSetOfAppend ==
  ASSUME NEW S, NEW s \in Seq(S), NEW x \in S
  PROVE  ToSet(Append(s, x)) = ToSet(s) \cup {x}
<1>1. /\ DOMAIN s = 1 .. Len(s) /\ Len(s) \in Nat
      /\ DOMAIN Append(s, x) = 1 .. Len(s) + 1
      /\ Append(s, x)[Len(s) + 1] = x
      /\ \A i \in 1 .. Len(s) : Append(s, x)[i] = s[i]
  OBVIOUS
<1>2. \A i \in 1 .. Len(s) + 1 : i \in 1 .. Len(s) \/ i = Len(s) + 1
  BY <1>1
<1>3. ASSUME NEW e \in ToSet(Append(s, x)) PROVE e \in ToSet(s) \cup {x}
  BY <1>1, <1>2 DEF ToSet
<1>4. ASSUME NEW e \in ToSet(s) \cup {x} PROVE e \in ToSet(Append(s, x))
  BY <1>1, <1>2 DEF ToSet
<1> QED  BY <1>3, <1>4

\* A directory that is not there yet may be added.
LEMMA AppendNew ==
  ASSUME NEW S, NEW s \in Seq(S), NEW x \in S, IsInjective(s), x \notin ToSet(s)
  PROVE  IsInjective(Append(s, x))
<1>1. /\ DOMAIN s = 1 .. Len(s) /\ Len(s) \in Nat
      /\ DOMAIN Append(s, x) = 1 .. Len(s) + 1
      /\ Append(s, x)[Len(s) + 1] = x
      /\ \A i \in 1 .. Len(s) : Append(s, x)[i] = s[i]
  OBVIOUS
<1>2. \A i \in 1 .. Len(s) : s[i] # x
  BY <1>1 DEF ToSet
<1>3. \A i \in 1 .. Len(s) + 1 : i \in 1 .. Len(s) \/ i = Len(s) + 1
  BY <1>1
<1> QED  BY <1>1, <1>2, <1>3 DEF IsInjective

\* A sequence that names no element twice is no longer than the set is large.
LEMMA InjectiveIsShort ==
  ASSUME NEW s \in Seq(Dirs), IsInjective(s)
  PROVE  s \in Findings
<1>1. Len(s) \in Nat /\ s \in [1 .. Len(s) -> Dirs]
  BY LenProperties
<1>2. s \in Injection(1 .. Len(s), Dirs)
  BY <1>1 DEF Injection, IsInjective
<1>3. IsFiniteSet(1 .. Len(s)) /\ Cardinality(1 .. Len(s)) = Len(s)
  BY <1>1, FS_Interval
<1>4. Cardinality(1 .. Len(s)) <= Cardinality(Dirs)
  BY <1>2, FS_Injection, FileAssumption
<1> QED  BY <1>3, <1>4 DEF Findings

\* The order is kept when one more element has been looked at, taken or not.
LEMMA InOrderAppend ==
  ASSUME NEW S, NEW s \in Seq(S), NEW t \in Seq(S), NEW x \in S,
         InOrder(s, t)
  PROVE  InOrder(s, Append(t, x)) /\ InOrder(Append(s, x), Append(t, x))
<1>1. /\ DOMAIN s = 1 .. Len(s) /\ Len(s) \in Nat
      /\ DOMAIN Append(s, x) = 1 .. Len(s) + 1
      /\ Append(s, x)[Len(s) + 1] = x
      /\ \A i \in 1 .. Len(s) : Append(s, x)[i] = s[i]
  OBVIOUS
<1>2. /\ DOMAIN t = 1 .. Len(t) /\ Len(t) \in Nat
      /\ DOMAIN Append(t, x) = 1 .. Len(t) + 1
      /\ Append(t, x)[Len(t) + 1] = x
      /\ \A i \in 1 .. Len(t) : Append(t, x)[i] = t[i]
  OBVIOUS
<1>3. ASSUME NEW i \in 1 .. Len(s), NEW j \in 1 .. Len(s), i < j
      PROVE  \E k, l \in 1 .. Len(t) + 1 :
               k < l /\ Append(t, x)[k] = s[i] /\ Append(t, x)[l] = s[j]
  <2>1. PICK k \in 1 .. Len(t), l \in 1 .. Len(t) : k < l /\ t[k] = s[i] /\ t[l] = s[j]
    BY <1>1, <1>2, <1>3 DEF InOrder
  <2> QED  BY <1>2, <2>1
<1>4. ASSUME NEW i \in 1 .. Len(s)
      PROVE  \E k, l \in 1 .. Len(t) + 1 : k < l /\ Append(t, x)[k] = s[i] /\ Append(t, x)[l] = x
  <2>1. s[i] \in ToSet(t)
    BY <1>1 DEF ToSet, InOrder
  <2>2. PICK k \in 1 .. Len(t) : t[k] = s[i]
    BY <1>2, <2>1 DEF ToSet
  <2>3. /\ k \in 1 .. Len(t) + 1 /\ Len(t) + 1 \in 1 .. Len(t) + 1 /\ k < Len(t) + 1
        /\ Append(t, x)[k] = s[i] /\ Append(t, x)[Len(t) + 1] = x
    BY <1>2, <2>2
  <2> QED  BY Zenon, <2>3
<1> DEFINE T == Append(t, x)
           U == Append(s, x)
           N == 1 .. Len(t) + 1
<1>7. /\ DOMAIN T = N /\ DOMAIN U = 1 .. Len(s) + 1 /\ DOMAIN s = 1 .. Len(s) /\ Len(s) \in Nat
      /\ U[Len(s) + 1] = x /\ \A i \in 1 .. Len(s) : U[i] = s[i]
      /\ \A i, j \in 1 .. Len(s) : i < j => \E k, l \in N : k < l /\ T[k] = s[i] /\ T[l] = s[j]
      /\ \A i \in 1 .. Len(s) : \E k, l \in N : k < l /\ T[k] = s[i] /\ T[l] = x
      /\ ToSet(s) \subseteq ToSet(T) /\ ToSet(U) \subseteq ToSet(T)
  <2>1. ToSet(T) = ToSet(t) \cup {x} /\ ToSet(U) = ToSet(s) \cup {x}
    BY ToSetOfAppend
  <2>2. ToSet(s) \subseteq ToSet(t)
    BY DEF InOrder
  <2> HIDE DEF T, U
  <2>3. ToSet(s) \subseteq ToSet(T) /\ ToSet(U) \subseteq ToSet(T)
    BY <2>1, <2>2
  <2> QED  BY <1>1, <1>2, <1>3, <1>4, <2>3 DEF T, U
<1> HIDE DEF T, U, N
<1>5. InOrder(s, T)
  BY <1>7 DEF InOrder
<1>6. InOrder(U, T)
  <2> SUFFICES ASSUME NEW i \in 1 .. Len(s) + 1, NEW j \in 1 .. Len(s) + 1, i < j
               PROVE  \E k, l \in N : k < l /\ T[k] = U[i] /\ T[l] = U[j]
    BY <1>7 DEF InOrder
  <2>1. i \in 1 .. Len(s) /\ U[i] = s[i]
    BY <1>7
  <2>2. CASE j = Len(s) + 1
    BY <1>7, <2>1, <2>2
  <2>3. CASE j \in 1 .. Len(s)
    BY <1>7, <2>1, <2>3
  <2> QED  BY <1>7, <2>2, <2>3
<1> QED  BY <1>5, <1>6 DEF T, U

\* What is in order in the beginning of a sequence is in order in the whole of it.
LEMMA InOrderOfBeginning ==
  ASSUME NEW S, NEW s \in Seq(S), NEW t \in Seq(S), NEW n \in 0 .. Len(t),
         InOrder(s, SubSeq(t, 1, n))
  PROVE  InOrder(s, t)
<1> DEFINE b == SubSeq(t, 1, n)
<1>1. /\ DOMAIN b = 1 .. n /\ \A i \in 1 .. n : b[i] = t[i]
      /\ DOMAIN t = 1 .. Len(t) /\ Len(t) \in Nat /\ 1 .. n \subseteq DOMAIN t
  BY Beginning
<1> HIDE DEF b
<1>2. InOrder(s, b)
  BY DEF b
<1>3. ToSet(b) \subseteq ToSet(t)
  BY <1>1 DEF ToSet
<1>4. ASSUME NEW i \in DOMAIN s, NEW j \in DOMAIN s, i < j
      PROVE  \E k, l \in DOMAIN t : k < l /\ t[k] = s[i] /\ t[l] = s[j]
  <2>1. PICK k \in DOMAIN b, l \in DOMAIN b : k < l /\ b[k] = s[i] /\ b[l] = s[j]
    BY <1>2, <1>4 DEF InOrder
  <2>2. k \in DOMAIN t /\ l \in DOMAIN t /\ t[k] = s[i] /\ t[l] = s[j]
    BY <1>1, <2>1
  <2> QED  BY <2>1, <2>2
<1> QED  BY <1>2, <1>3, <1>4 DEF InOrder

\* The element at n is looked at, s being what has been taken of those before.
LEMMA OneMore ==
  ASSUME NEW S, NEW s \in Seq(S), NEW t \in Seq(S), NEW n \in 1 .. Len(t),
         IsInjective(s), IsInjective(t), InOrder(s, SubSeq(t, 1, n - 1))
  PROVE  /\ t[n] \in S
         /\ InOrder(s, SubSeq(t, 1, n)) /\ InOrder(Append(s, t[n]), SubSeq(t, 1, n))
         /\ IsInjective(Append(s, t[n])) /\ ToSet(Append(s, t[n])) = ToSet(s) \cup {t[n]}
         /\ ToSet(SubSeq(t, 1, n)) = ToSet(SubSeq(t, 1, n - 1)) \cup {t[n]}
<1> DEFINE done == SubSeq(t, 1, n - 1)
           x == t[n]
<1>1. n - 1 \in 0 .. Len(t) /\ (n - 1) + 1 = n /\ n - 1 < Len(t) /\ DOMAIN t = 1 .. Len(t)
  OBVIOUS
<1>2. x \in S
  BY ElementOfSeq
<1>3. /\ done \in Seq(S) /\ DOMAIN done = 1 .. (n - 1)
      /\ \A i \in 1 .. (n - 1) : done[i] = t[i]
      /\ SubSeq(t, 1, n) = Append(done, x)
  BY <1>1, Beginning
<1>4. x \notin ToSet(done)
  <2>1. ASSUME NEW i \in 1 .. (n - 1) PROVE t[i] # x
    BY <1>1 DEF IsInjective
  <2> QED  BY <1>3, <2>1 DEF ToSet
<1> HIDE DEF done, x
<1>5. InOrder(s, done)
  BY DEF done
<1>6. x \notin ToSet(s)
  BY <1>4, <1>5 DEF InOrder
<1>7. InOrder(s, Append(done, x)) /\ InOrder(Append(s, x), Append(done, x))
  BY <1>2, <1>3, <1>5, InOrderAppend
<1>8. IsInjective(Append(s, x))
  BY <1>2, <1>6, AppendNew
<1>9. /\ ToSet(Append(s, x)) = ToSet(s) \cup {x}
      /\ ToSet(Append(done, x)) = ToSet(done) \cup {x}
  BY <1>2, <1>3, ToSetOfAppend
<1> QED  BY <1>2, <1>3, <1>7, <1>8, <1>9 DEF done, x

\* Nothing is in the order of everything.
LEMMA NothingInOrder ==
  /\ <<>> \in Seq(Dirs) /\ Len(<<>>) = 0 /\ IsInjective(<<>>) /\ <<>> \in Findings
  /\ ToSet(<<>>) = {} /\ \A s \in Seq(Dirs) : InOrder(<<>>, s) /\ SubSeq(s, 1, 0) = <<>>
<1>1. <<>> \in Seq(Dirs) /\ Len(<<>>) = 0 /\ IsInjective(<<>>)
  BY DEF IsInjective
<1>2. ToSet(<<>>) = {}
  BY DEF ToSet
<1>3. \A s \in Seq(Dirs) : InOrder(<<>>, s) /\ SubSeq(s, 1, 0) = <<>>
  BY <1>2 DEF InOrder
<1> QED  BY <1>1, <1>2, <1>3, InjectiveIsShort

-----------------------------------------------------------------------------
\* The file.

LEMMA FileInvInit == Init => FileInv
<1> SUFFICES ASSUME Init PROVE FileInv
  OBVIOUS
<1>1. Cardinality(Dirs) \in Nat
  BY FileAssumption, FS_CardinalityType
<1>2. TypeOK
  BY <1>1, NothingInOrder, FileAssumption DEF Init, TypeOK
<1> QED  BY <1>2, NothingInOrder DEF Init, FileInv

\* A step that touches neither the file nor what is held of it.
LEMMA FileUntouched ==
  ASSUME FileInv, UNCHANGED <<disk, m_ImgDirectorys, next, fileVars, kept>>,
         pc' \in {"off", "stuck", "scan", "save", "reply"},
         now' \in 0 .. MaxTime, curTime' \in 0 .. MaxTime
  PROVE  FileInv'
BY DEF FileInv, TypeOK, fileVars

\* One line is read.
LEMMA ReadKeeps ==
  ASSUME FileInv, ReadLine
  PROVE  FileInv'
<1> USE DEF fileVars
<1> DEFINE m == m_ImgDirectorys
           x == lines[next]
<1>1. /\ pc = "read" /\ next \in 1 .. Len(lines) /\ next' = next + 1
      /\ m' = (IF x \in disk THEN Append(m, x) ELSE m)
      /\ UNCHANGED <<now, disk, pc, curTime, fileVars, kept>>
      /\ lines \in Seq(Dirs) /\ Len(lines) \in Nat /\ Len(lines) <= Cardinality(Dirs)
      /\ m \in Seq(Dirs) /\ m \in Findings
      /\ IsInjective(m) /\ IsInjective(lines) /\ kept \subseteq disk
      /\ InOrder(m, SubSeq(lines, 1, next - 1))
      /\ kept \cap ToSet(SubSeq(lines, 1, next - 1)) \subseteq ToSet(m)
  BY DEF ReadLine, FileInv, TypeOK, Findings
<1>2. /\ x \in Dirs
      /\ InOrder(m, SubSeq(lines, 1, next)) /\ InOrder(Append(m, x), SubSeq(lines, 1, next))
      /\ IsInjective(Append(m, x)) /\ ToSet(Append(m, x)) = ToSet(m) \cup {x}
      /\ ToSet(SubSeq(lines, 1, next)) = ToSet(SubSeq(lines, 1, next - 1)) \cup {x}
  <2>1. /\ m \in Seq(Dirs) /\ lines \in Seq(Dirs) /\ next \in 1 .. Len(lines)
        /\ IsInjective(m) /\ IsInjective(lines) /\ InOrder(m, SubSeq(lines, 1, next - 1))
    BY <1>1
  <2> HIDE DEF m
  <2> QED  BY <2>1, OneMore
<1>3. Append(m, x) \in Findings
  <2>1. Append(m, x) \in Seq(Dirs)
    BY <1>1, <1>2
  <2> QED  BY <1>2, <2>1, InjectiveIsShort
<1> HIDE DEF m, x
<1>4. /\ m' \in Findings /\ IsInjective(m') /\ InOrder(m', SubSeq(lines, 1, next))
      /\ kept \cap ToSet(SubSeq(lines, 1, next)) \subseteq ToSet(m')
  <2>1. CASE x \in disk
    BY <1>1, <1>2, <1>3, <2>1
  <2>2. CASE x \notin disk
    BY <1>1, <1>2, <2>2
  <2> QED  BY <2>1, <2>2
<1>5. /\ next' \in 1 .. Cardinality(Dirs) + 1 /\ next' <= Len(lines) + 1 /\ next' - 1 = next
  <2>1. Cardinality(Dirs) \in Nat
    BY FileAssumption, FS_CardinalityType
  <2> QED  BY <1>1, <2>1
<1>6. TypeOK'
  BY <1>1, <1>4, <1>5 DEF FileInv, TypeOK, m
<1> QED  BY <1>1, <1>4, <1>5, <1>6 DEF FileInv, m

\* One line is written, or left out.
LEMMA WriteKeeps ==
  ASSUME FileInv, pc = "write", next <= Len(m_ImgDirectorys), next' = next + 1,
         \/ lines' = Append(lines, m_ImgDirectorys[next]) /\ stamp' = stamp
         \/ lines' = lines /\ stamp' \in {stamp, NOTIME},
         UNCHANGED <<now, disk, pc, m_ImgDirectorys, curTime, writer, kept>>
  PROVE  FileInv'
<1> DEFINE m == m_ImgDirectorys
           x == m[next]
<1>1. /\ next \in 1 .. Len(m) /\ Len(m) \in Nat /\ Len(m) <= Cardinality(Dirs)
      /\ lines \in Seq(Dirs) /\ lines \in Findings /\ m \in Seq(Dirs) /\ writer.found = m
      /\ IsInjective(lines) /\ IsInjective(m) /\ InOrder(lines, SubSeq(m, 1, next - 1))
  BY DEF FileInv, TypeOK, Findings
<1>2. /\ x \in Dirs
      /\ InOrder(lines, SubSeq(m, 1, next)) /\ InOrder(Append(lines, x), SubSeq(m, 1, next))
      /\ IsInjective(Append(lines, x))
  BY <1>1, OneMore
<1>3. Append(lines, x) \in Findings /\ Append(lines, x) \in Seq(Dirs)
  <2>1. Append(lines, x) \in Seq(Dirs)
    BY <1>1, <1>2
  <2> QED  BY <1>2, <2>1, InjectiveIsShort
<1> HIDE DEF m, x
<1>4. /\ lines' \in Findings /\ lines' \in Seq(Dirs) /\ IsInjective(lines')
      /\ InOrder(lines', SubSeq(m, 1, next))
  <2>1. lines' = Append(lines, x) \/ lines' = lines
    BY DEF m, x
  <2> QED  BY <1>1, <1>2, <1>3, <2>1
<1>5. InOrder(lines', m)
  <2>1. next \in 0 .. Len(m)
    BY <1>1
  <2> QED  BY <1>1, <1>4, <2>1, InOrderOfBeginning
<1>6. next' \in 1 .. Cardinality(Dirs) + 1 /\ next' <= Len(m) + 1 /\ next' - 1 = next
  <2>1. Cardinality(Dirs) \in Nat
    BY FileAssumption, FS_CardinalityType
  <2> QED  BY <1>1, <2>1
<1>7. TypeOK'
  BY <1>4, <1>6 DEF FileInv, TypeOK
<1> QED  BY <1>1, <1>4, <1>5, <1>6, <1>7 DEF FileInv, m

LEMMA FileInvStep == FileInv /\ [Next]_vars => FileInv'
<1> SUFFICES ASSUME FileInv, [Next]_vars PROVE FileInv'
  OBVIOUS
<1> USE DEF fileVars
<1>t. TypeOK /\ MaxTime \in Nat /\ Jumps \subseteq Nat /\ Cardinality(Dirs) \in Nat
  BY FileAssumption, FS_CardinalityType DEF FileInv
<1>1. CASE Start
  <2>1. TypeOK'
    BY <1>1, <1>t, NothingInOrder DEF Start, TypeOK
  <2> QED  BY <1>1, <2>1, NothingInOrder DEF Start, FileInv
<1>2. CASE LoadNothing \/ OpenFails \/ LoadEmpty \/ CreateFails \/ CloseResult \/ End
  BY <1>2, <1>t, FileUntouched
     DEF LoadNothing, OpenFails, LoadEmpty, CreateFails, CloseResult, End, TypeOK
<1>3. CASE LoadImgScanResult
  <2>1. /\ pc = "load" /\ next' = 1 /\ kept' = disk /\ pc' = "read" /\ m_ImgDirectorys = <<>>
        /\ UNCHANGED <<now, disk, m_ImgDirectorys, curTime, fileVars>>
    BY <1>3 DEF LoadImgScanResult, FileInv
  <2>2. TypeOK'
    BY <1>t, <2>1 DEF TypeOK
  <2>3. /\ lines \in Seq(Dirs) /\ Len(lines) \in Nat /\ next' <= Len(lines') + 1
    BY <1>t, <2>1 DEF TypeOK, Findings
  <2>4. SubSeq(lines', 1, next' - 1) = <<>>
    BY <2>1, <2>3
  <2> QED  BY <2>1, <2>2, <2>3, <2>4, NothingInOrder DEF FileInv
<1>4. CASE ReadLine
  BY <1>4, ReadKeeps
<1>5. CASE CloseRead
  <2>1. pc' \in {"reply", "scan"}
    BY <1>5 DEF CloseRead
  <2> QED  BY <1>5, <1>t, <2>1, FileUntouched DEF CloseRead, TypeOK
<1>6. CASE Find
  <2>1. PICK d \in disk \ ToSet(m_ImgDirectorys) : m_ImgDirectorys' = Append(m_ImgDirectorys, d)
    BY <1>6 DEF Find
  <2>2. m_ImgDirectorys \in Seq(Dirs) /\ d \in Dirs /\ IsInjective(m_ImgDirectorys)
    BY <1>t DEF TypeOK, FileInv, Findings
  <2>3. IsInjective(m_ImgDirectorys') /\ m_ImgDirectorys' \in Seq(Dirs)
    BY <2>1, <2>2, AppendNew
  <2>4. m_ImgDirectorys' \in Findings
    BY <2>3, InjectiveIsShort
  <2>5. pc = "scan" /\ UNCHANGED <<now, disk, pc, curTime, next, fileVars, kept>>
    BY <1>6 DEF Find
  <2>6. TypeOK'
    BY <1>t, <2>4, <2>5 DEF TypeOK
  <2> QED  BY <2>3, <2>5, <2>6 DEF FileInv
<1>7. CASE EndScan
  BY <1>7, <1>t, FileUntouched DEF EndScan, TypeOK
<1>8. CASE CreateResult
  <2>1. TypeOK'
    BY <1>8, <1>t, NothingInOrder DEF CreateResult, TypeOK
  <2>2. m_ImgDirectorys \in Seq(Dirs) /\ IsInjective(m_ImgDirectorys)
    BY <1>t DEF FileInv, TypeOK, Findings
  <2> QED  BY <1>8, <2>1, <2>2, NothingInOrder DEF CreateResult, FileInv
<1>9. CASE WriteTime \/ (WriteFails /\ pc = "stamp")
  <2>1. /\ pc = "stamp" /\ pc' = "write" /\ stamp' \in {curTime, stamp} /\ curTime = writer.at
        /\ next = 1 /\ lines = <<>>
        /\ UNCHANGED <<now, disk, m_ImgDirectorys, curTime, next, lines, writer, kept>>
    BY <1>9 DEF WriteTime, WriteFails, FileInv
  <2>2. TypeOK'
    BY <1>t, <2>1 DEF TypeOK
  <2>3. /\ m_ImgDirectorys \in Seq(Dirs) /\ next <= Len(m_ImgDirectorys) + 1
        /\ SubSeq(m_ImgDirectorys, 1, next - 1) = <<>>
    BY <1>t, <2>1, NothingInOrder DEF TypeOK, Findings
  <2>4. InOrder(lines, SubSeq(m_ImgDirectorys, 1, next - 1))
    BY <2>1, <2>3, NothingInOrder
  <2> QED  BY <2>1, <2>2, <2>3, <2>4 DEF FileInv
<1>10. CASE WriteDirectory
  <2>1. /\ pc = "write" /\ next <= Len(m_ImgDirectorys) /\ next' = next + 1
        /\ \/ lines' = Append(lines, m_ImgDirectorys[next]) /\ stamp' = stamp
           \/ lines' = lines /\ stamp' \in {stamp, NOTIME}
        /\ UNCHANGED <<now, disk, pc, m_ImgDirectorys, curTime, writer, kept>>
    BY <1>10 DEF WriteDirectory
  <2> QED  BY <2>1, WriteKeeps
<1>11. CASE WriteFails /\ pc # "stamp"
  <2>1. /\ pc = "write" /\ next <= Len(m_ImgDirectorys) /\ next' = next + 1
        /\ lines' = lines /\ stamp' \in {stamp, NOTIME}
        /\ UNCHANGED <<now, disk, pc, m_ImgDirectorys, curTime, writer, kept>>
    BY <1>11 DEF WriteFails
  <2> QED  BY <2>1, WriteKeeps
<1>12. CASE ClearResult
  <2>1. TypeOK'
    BY <1>12, <1>t, NothingInOrder DEF ClearResult, TypeOK
  <2>2. writer.found \in Seq(Dirs)
    BY <1>t DEF TypeOK, Findings
  <2> QED  BY <1>12, <2>1, <2>2, NothingInOrder DEF ClearResult, FileInv
<1>13. CASE Tick
  <2>1. TypeOK'
    BY <1>13, <1>t DEF Tick, TypeOK
  <2> QED  BY <1>13, <2>1 DEF Tick, FileInv
<1>14. CASE ChangeDisk
  <2>1. /\ disk' \subseteq Dirs /\ kept' \subseteq kept /\ kept' \subseteq disk'
        /\ UNCHANGED <<now, pc, m_ImgDirectorys, curTime, next, fileVars>>
    BY <1>14, <1>t DEF ChangeDisk, TypeOK
  <2>2. TypeOK'
    BY <1>t, <2>1 DEF TypeOK
  <2> QED  BY <2>1, <2>2 DEF FileInv
<1>15. CASE UNCHANGED vars
  BY <1>15 DEF vars, FileInv, TypeOK
<1> QED
  BY <1>1, <1>2, <1>3, <1>4, <1>5, <1>6, <1>7, <1>8, <1>9, <1>10, <1>11, <1>12, <1>13,
     <1>14, <1>15
  DEF Next, Worker, Refused

\* The file is at every moment a part of what one scan found, in its order and
\* under the time at which that scan ended or none, whatever writes were refused
\* and wherever the process ended; and a load has read all that was there of it.
THEOREM FileIsOneScan == Spec => []FileInv
BY FileInvInit, FileInvStep, PTL DEF Spec

\* Every variable keeps its type; what is found and saved is never longer than
\* there are directories.
THEOREM FileTypes == Spec => []TypeOK
<1>1. FileInv => TypeOK
  BY DEF FileInv
<1> QED  BY <1>1, FileIsOneScan, PTL

\* No result that is used is older than the validity period, whatever the
\* steps at which the process ended and however long saving took.
THEOREM RecentHolds == Spec => LoadedIsRecent
<1>1. FileInv /\ [Next]_vars
      => [pc = "load" /\ pc' = "read" => now - writer.at < RESULT_VALIDITY_PERIOD]_vars
  <2> SUFFICES ASSUME FileInv, Next, pc = "load", pc' = "read"
               PROVE  now - writer.at < RESULT_VALIDITY_PERIOD
    BY DEF vars
  <2>1. LoadImgScanResult
    BY DEF Next, Worker, Refused, OpenFails, WriteFails, Start, LoadNothing, LoadEmpty, ReadLine, CloseRead, Find, EndScan,
           CreateResult, CreateFails, WriteTime, WriteDirectory, CloseResult, ClearResult, End,
           Tick, ChangeDisk
  <2> QED  BY <2>1 DEF LoadImgScanResult, Recent, FileInv
<1> QED  BY <1>1, FileIsOneScan, PTL DEF Spec, LoadedIsRecent

\* Results of two scans are never mixed in what is read back, and no directory
\* that stayed where it was is left out.
THEOREM OneScanHolds == Spec => LoadedIsOneScan
<1> DEFINE A == pc = "read" /\ pc' \in {"reply", "scan"} =>
                  /\ InOrder(m_ImgDirectorys', lines) /\ InOrder(lines, writer.found)
                  /\ kept \cap ToSet(lines) \subseteq ToSet(m_ImgDirectorys')
<1>1. FileInv /\ [Next]_vars => [A]_vars
  <2> SUFFICES ASSUME FileInv, Next, pc = "read", pc' \in {"reply", "scan"}
               PROVE  A
    BY DEF vars
  <2>1. CloseRead
    BY DEF Next, Worker, Refused, OpenFails, WriteFails, Start, LoadNothing,
           LoadImgScanResult, LoadEmpty, ReadLine, Find,
           EndScan, CreateResult, CreateFails, WriteTime, WriteDirectory, CloseResult,
           ClearResult, End, Tick, ChangeDisk
  <2>2. lines \in Seq(Dirs) /\ Len(lines) \in Nat /\ next \in Nat
    BY DEF FileInv, TypeOK, Findings
  <2>3. next - 1 = Len(lines) /\ m_ImgDirectorys' = m_ImgDirectorys
    BY <2>1, <2>2 DEF CloseRead, FileInv
  <2>4. SubSeq(lines, 1, next - 1) = lines
    BY <2>2, <2>3, SubSeqFull
  <2> QED  BY <2>3, <2>4 DEF FileInv
<1> QED  BY <1>1, FileIsOneScan, PTL DEF Spec, LoadedIsOneScan
=============================================================================
