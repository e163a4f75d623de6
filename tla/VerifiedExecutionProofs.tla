----------------------- MODULE VerifiedExecutionProofs -----------------------
(***************************************************************************)
(* Proofs about VerifiedExecution, for every set of paths, files and       *)
(* contents and any number of changes by other processes.                  *)
(***************************************************************************)
EXTENDS VerifiedExecution, SequenceTheorems, TLAPS

\* EvalSymlinks yields a path that names a file, or Nothing.
LEMMA EvalSymlinksTyped ==
  ASSUME ExecTypeOK, NEW p \in Names
  PROVE  /\ EvalSymlinks(p) \in Names \cup {Nothing}
         /\ EvalSymlinks(p) # Nothing => dir[EvalSymlinks(p)] \in Inodes
BY NamesAssumption DEF ExecTypeOK, EvalSymlinks

\* A section of a file is a sequence; reading all of a file yields the file.
LEMMA SectionTyped ==
  ASSUME NEW content \in Contents, NEW n \in Nat
  PROVE  /\ Section(content, n) \in Seq(STRING)
         /\ n = Len(content) => Section(content, n) = content
<1>1. content \in Seq(STRING)
  BY ContentsAssumption
<1>2. CASE n < Len(content)
  <2>1. \A k \in 1 .. n : k \in 1 .. Len(content)
    BY <1>1, <1>2
  <2>2. SubSeq(content, 1, n) \in Seq(STRING)
    BY <1>1, <1>2, <2>1, SubSeqProperties
  <2> QED
    BY <1>2, <2>2 DEF Section
<1>3. CASE ~(n < Len(content))
  BY <1>1, <1>3 DEF Section
<1> QED
  BY <1>2, <1>3

\* The content of no file is a sequence.
LEMMA NoBytesTyped == NoBytes \in Seq(STRING)
BY DEF NoBytes

\* Sequences of the same length that agree everywhere are the same.
LEMMA SameBlocks ==
  ASSUME NEW a \in Seq(STRING), NEW b \in Seq(STRING), Len(a) = Len(b),
         \A k \in 1 .. Len(b) : a[k] = b[k]
  PROVE  a = b
<1>1. a = [k \in 1 .. Len(a) |-> a[k]] /\ b = [k \in 1 .. Len(b) |-> b[k]]
  BY DEF Seq
<1> QED
  BY <1>1

\* Appending a block of a file to what was read yields a sequence.
LEMMA ReadTyped ==
  ASSUME ExecTypeOK, fd \in Inodes, Len(read) < Len(data[fd])
  PROVE  /\ data[fd] \in Seq(STRING)
         /\ data[fd][Len(read) + 1] \in STRING
         /\ Append(read, data[fd][Len(read) + 1]) \in Seq(STRING)
<1>1. data[fd] \in Seq(STRING) /\ read \in Seq(STRING)
  BY ContentsAssumption DEF ExecTypeOK
<1>2. Len(read) + 1 \in 1 .. Len(data[fd])
  BY <1>1
<1> QED
  BY <1>1, <1>2

\* Every action keeps the types.
LEMMA TypeStep == ExecIInv /\ [ExecNext]_execVars => ExecTypeOK'
<1> SUFFICES ASSUME ExecIInv, [ExecNext]_execVars PROVE ExecTypeOK'
  OBVIOUS
<1> USE NamesAssumption, ContentsAssumption, MaxChangesAssumption
    DEF ExecIInv, ExecTypeOK, fs, fixed, paths, identity, staging, Fails, Works
<1>1. CASE Done \/ UNCHANGED execVars
  BY <1>1 DEF Done, execVars, PCs, NoBytes
<1>2. ASSUME NEW p \in Names, NEW e \in Inodes \cup Names \cup {Nothing},
             ChangeEntry(p, e)
      PROVE ExecTypeOK'
  BY <1>2 DEF ChangeEntry, PCs, NoBytes
<1>3. ASSUME NEW i \in Inodes, NEW content \in Contents, WriteInPlace(i, content)
      PROVE ExecTypeOK'
  BY <1>3 DEF WriteInPlace, PCs, NoBytes
<1>4. CASE ResolvePath
  BY <1>4, EvalSymlinksTyped DEF ResolvePath, Step, PCs, NoBytes
<1>5. CASE ValidatePath
  BY <1>5, EvalSymlinksTyped DEF ValidatePath, Step, PCs, NoBytes, StageInv
<1>6. CASE VerifyHash
  BY <1>6 DEF VerifyHash, Step, PCs, NoBytes, StageInv
<1>7. CASE Open
  BY <1>7, EvalSymlinksTyped DEF Open, PCs, NoBytes, StageInv
<1>8. CASE Fstat
  <2>1. fault' \in BOOLEAN /\ owned' \in BOOLEAN /\ dup' \in BOOLEAN
    BY <1>8, Zenon DEF Fstat
  <2>2. /\ pc' \in PCs /\ stageDir' \in {"none", "present", "lost"}
        /\ fd' \in Inodes \cup {Nothing} /\ size' \in Nat /\ staged' \in Seq(STRING)
    BY <1>8, NoBytesTyped DEF Fstat, PCs, StageInv, Opened
  <2> QED
    BY <1>8, <2>1, <2>2, Zenon DEF Fstat
<1>9. CASE Pread
  <2>1. fd \in Inodes /\ Len(read) < Len(data[fd])
    BY <1>9 DEF Pread, MoreToRead, StageInv, Opened
  <2>2. Append(read, data[fd][Len(read) + 1]) \in Seq(STRING)
    BY <2>1, ReadTyped
  <2> QED
    BY <1>9, <2>2 DEF Pread, PCs
<1>10. CASE VerifyIdentityContentHash
  BY <1>10 DEF VerifyIdentityContentHash, PCs, NoBytes
<1>11. CASE Refstat
  <2>1. fault' \in BOOLEAN /\ owned' \in BOOLEAN /\ dup' \in BOOLEAN
    BY <1>11, Zenon DEF Refstat
  <2>2. /\ pc' \in PCs /\ stageDir' \in {"none", "present", "lost"}
        /\ fd' \in Inodes \cup {Nothing} /\ size' \in Nat /\ staged' \in Seq(STRING)
    BY <1>11, NoBytesTyped DEF Refstat, PCs
  <2> QED
    BY <1>11, <2>1, <2>2, Zenon DEF Refstat
<1>12. CASE RiskGate
  <2>1. fault' \in BOOLEAN /\ owned' \in BOOLEAN /\ dup' \in BOOLEAN
    BY <1>12, Zenon DEF RiskGate
  <2>2. /\ pc' \in PCs /\ stageDir' \in {"none", "present", "lost"}
        /\ fd' \in Inodes \cup {Nothing} /\ size' \in Nat /\ staged' \in Seq(STRING)
    BY <1>12, NoBytesTyped DEF RiskGate, PCs
  <2> QED
    BY <1>12, <2>1, <2>2, Zenon DEF RiskGate
<1>13. CASE FdExecExtraFile
  <2>1. fault' \in BOOLEAN /\ owned' \in BOOLEAN /\ dup' \in BOOLEAN
    BY <1>13, Zenon DEF FdExecExtraFile
  <2>2. /\ pc' \in PCs /\ stageDir' \in {"none", "present", "lost"}
        /\ fd' \in Inodes \cup {Nothing} /\ size' \in Nat /\ staged' \in Seq(STRING)
    BY <1>13, NoBytesTyped DEF FdExecExtraFile, PCs
  <2> QED
    BY <1>13, <2>1, <2>2, Zenon DEF FdExecExtraFile
<1>14. CASE StageMkdir
  <2>1. fault' \in BOOLEAN /\ owned' \in BOOLEAN /\ dup' \in BOOLEAN
    BY <1>14, Zenon DEF StageMkdir
  <2>2. /\ pc' \in PCs /\ stageDir' \in {"none", "present", "lost"}
        /\ fd' \in Inodes \cup {Nothing} /\ size' \in Nat /\ staged' \in Seq(STRING)
    BY <1>14, NoBytesTyped DEF StageMkdir, RemoveStaging, PCs
  <2> QED
    BY <1>14, <2>1, <2>2, Zenon DEF StageMkdir
<1>15. CASE StageDup
  <2>1. fault' \in BOOLEAN /\ owned' \in BOOLEAN /\ dup' \in BOOLEAN
    BY <1>15, Zenon DEF StageDup
  <2>2. /\ pc' \in PCs /\ stageDir' \in {"none", "present", "lost"}
        /\ fd' \in Inodes \cup {Nothing} /\ size' \in Nat /\ staged' \in Seq(STRING)
    BY <1>15, NoBytesTyped DEF StageDup, RemoveStaging, PCs
  <2> QED
    BY <1>15, <2>1, <2>2, Zenon DEF StageDup
<1>16. CASE StageStat
  <2>1. fault' \in BOOLEAN /\ owned' \in BOOLEAN /\ dup' \in BOOLEAN
    BY <1>16, Zenon DEF StageStat
  <2>2. /\ pc' \in PCs /\ stageDir' \in {"none", "present", "lost"}
        /\ fd' \in Inodes \cup {Nothing} /\ size' \in Nat /\ staged' \in Seq(STRING)
    BY <1>16, NoBytesTyped DEF StageStat, RemoveStaging, PCs, StageInv, Planned
  <2> QED
    BY <1>16, <2>1, <2>2, Zenon DEF StageStat
<1>17. CASE StageCopy
  <2>1. Section(data[fd], size) \in Seq(STRING)
    BY <1>17, SectionTyped DEF StageCopy, StageInv, Planned
  <2>2. fault' \in BOOLEAN /\ dup' \in BOOLEAN
    BY <1>17, Zenon DEF StageCopy
  <2>3. /\ pc' \in PCs /\ stageDir' \in {"none", "present", "lost"}
        /\ staged' \in Seq(STRING)
    BY <1>17, <2>1, NoBytesTyped DEF StageCopy, RemoveStaging, PCs
  <2> QED
    BY <1>17, <2>2, <2>3, Zenon DEF StageCopy
<1>18. CASE Exec
  <2>1. Image \in Seq(STRING)
    BY <1>18 DEF Exec, StageInv, Planned, Image
  <2> QED
    BY <1>18, <2>1 DEF Exec, PCs
<1>19. CASE Cleanup
  <2>1. fault' \in BOOLEAN /\ owned' \in BOOLEAN /\ dup' \in BOOLEAN
    BY <1>19, Zenon DEF Cleanup
  <2>2. /\ pc' \in PCs /\ stageDir' \in {"none", "present", "lost"}
        /\ fd' \in Inodes \cup {Nothing} /\ size' \in Nat /\ staged' \in Seq(STRING)
    BY <1>19, NoBytesTyped DEF Cleanup, RemoveStaging, PCs
  <2> QED
    BY <1>19, <2>1, <2>2, Zenon DEF Cleanup
<1>20. CASE Close
  BY <1>20 DEF Close, PCs, NoBytes
<1> QED
  BY <1>1, <1>2, <1>3, <1>4, <1>5, <1>6, <1>7, <1>8, <1>9, <1>10, <1>11, <1>12, <1>13, <1>14, <1>15, <1>16, <1>17, <1>18, <1>19, <1>20 DEF ExecNext

\* The paths and the descriptor exist when a step needs them.
LEMMA StageStep == ExecIInv /\ [ExecNext]_execVars => StageInv'
<1> SUFFICES ASSUME ExecIInv, [ExecNext]_execVars PROVE StageInv'
  OBVIOUS
<1> USE NamesAssumption, ContentsAssumption, MaxChangesAssumption
    DEF ExecIInv, ExecTypeOK, fs, fixed, paths, identity, staging, Fails, Works
<1>1. CASE Done \/ UNCHANGED execVars
  BY <1>1 DEF Done, execVars, StageInv, Opened, Planned
<1>2. ASSUME NEW p \in Names, NEW e \in Inodes \cup Names \cup {Nothing},
             ChangeEntry(p, e)
      PROVE StageInv'
  BY <1>2 DEF ChangeEntry, StageInv, Opened, Planned
<1>3. ASSUME NEW i \in Inodes, NEW content \in Contents, WriteInPlace(i, content)
      PROVE StageInv'
  BY <1>3 DEF WriteInPlace, StageInv, Opened, Planned
<1>4. CASE ResolvePath
  BY <1>4, EvalSymlinksTyped DEF ResolvePath, Step, StageInv, Opened, Planned
<1>5. CASE ValidatePath
  BY <1>5, EvalSymlinksTyped DEF ValidatePath, Step, StageInv, Opened, Planned
<1>6. CASE VerifyHash
  BY <1>6 DEF VerifyHash, Step, StageInv, Opened, Planned
<1>7. CASE Open
  BY <1>7, EvalSymlinksTyped DEF Open, StageInv, Opened, Planned
<1>8. CASE Fstat
  BY <1>8 DEF Fstat, StageInv, Opened, Planned
<1>9. CASE Pread
  BY <1>9 DEF Pread, StageInv, Opened, Planned
<1>10. CASE VerifyIdentityContentHash
  BY <1>10 DEF VerifyIdentityContentHash, StageInv, Opened, Planned
<1>11. CASE Refstat
  BY <1>11 DEF Refstat, StageInv, Opened, Planned
<1>12. CASE RiskGate
  BY <1>12 DEF RiskGate, StageInv, Opened, Planned
<1>13. CASE FdExecExtraFile
  BY <1>13 DEF FdExecExtraFile, StageInv, Opened, Planned
<1>14. CASE StageMkdir
  BY <1>14 DEF StageMkdir, RemoveStaging, StageInv, Opened, Planned
<1>15. CASE StageDup
  BY <1>15 DEF StageDup, RemoveStaging, StageInv, Opened, Planned
<1>16. CASE StageStat
  BY <1>16 DEF StageStat, RemoveStaging, StageInv, Opened, Planned
<1>17. CASE StageCopy
  BY <1>17 DEF StageCopy, RemoveStaging, StageInv, Opened, Planned
<1>18. CASE Exec
  BY <1>18 DEF Exec, StageInv, Opened, Planned
<1>19. CASE Cleanup
  BY <1>19 DEF Cleanup, RemoveStaging, StageInv, Opened, Planned
<1>20. CASE Close
  BY <1>20 DEF Close, StageInv, Opened, Planned
<1> QED
  BY <1>1, <1>2, <1>3, <1>4, <1>5, <1>6, <1>7, <1>8, <1>9, <1>10, <1>11, <1>12, <1>13, <1>14, <1>15, <1>16, <1>17, <1>18, <1>19, <1>20 DEF ExecNext

\* Whatever is open has the owner that will close it.
LEMMA OwnerStep == ExecIInv /\ [ExecNext]_execVars => OwnerInv'
<1> SUFFICES ASSUME ExecIInv, [ExecNext]_execVars PROVE OwnerInv'
  OBVIOUS
<1> USE NamesAssumption, ContentsAssumption, MaxChangesAssumption
    DEF ExecIInv, ExecTypeOK, fs, fixed, paths, identity, staging, Fails, Works
<1>1. CASE Done \/ UNCHANGED execVars
  BY <1>1 DEF Done, execVars, OwnerInv, Opened, Planned
<1>2. ASSUME NEW p \in Names, NEW e \in Inodes \cup Names \cup {Nothing},
             ChangeEntry(p, e)
      PROVE OwnerInv'
  BY <1>2 DEF ChangeEntry, OwnerInv, Opened, Planned
<1>3. ASSUME NEW i \in Inodes, NEW content \in Contents, WriteInPlace(i, content)
      PROVE OwnerInv'
  BY <1>3 DEF WriteInPlace, OwnerInv, Opened, Planned
<1>4. CASE ResolvePath
  BY <1>4 DEF ResolvePath, Step, OwnerInv, Opened, Planned
<1>5. CASE ValidatePath
  BY <1>5 DEF ValidatePath, Step, OwnerInv, Opened, Planned
<1>6. CASE VerifyHash
  BY <1>6 DEF VerifyHash, Step, OwnerInv, Opened, Planned
<1>7. CASE Open
  BY <1>7 DEF Open, OwnerInv, Opened, Planned
<1>8. CASE Fstat
  BY <1>8 DEF Fstat, OwnerInv, Opened, Planned
<1>9. CASE Pread
  BY <1>9 DEF Pread, OwnerInv, Opened, Planned
<1>10. CASE VerifyIdentityContentHash
  BY <1>10 DEF VerifyIdentityContentHash, OwnerInv, Opened, Planned
<1>11. CASE Refstat
  BY <1>11 DEF Refstat, OwnerInv, Opened, Planned
<1>12. CASE RiskGate
  BY <1>12 DEF RiskGate, OwnerInv, Opened, Planned, StageInv
<1>13. CASE FdExecExtraFile
  BY <1>13 DEF FdExecExtraFile, OwnerInv, Opened, Planned
<1>14. CASE StageMkdir
  BY <1>14 DEF StageMkdir, RemoveStaging, OwnerInv, Opened, Planned
<1>15. CASE StageDup
  BY <1>15 DEF StageDup, RemoveStaging, OwnerInv, Opened, Planned
<1>16. CASE StageStat
  BY <1>16 DEF StageStat, RemoveStaging, OwnerInv, Opened, Planned
<1>17. CASE StageCopy
  BY <1>17 DEF StageCopy, RemoveStaging, OwnerInv, Opened, Planned
<1>18. CASE Exec
  BY <1>18 DEF Exec, OwnerInv, Opened, Planned
<1>19. CASE Cleanup
  BY <1>19 DEF Cleanup, RemoveStaging, OwnerInv, Opened, Planned
<1>20. CASE Close
  BY <1>20 DEF Close, OwnerInv, Opened, Planned
<1> QED
  BY <1>1, <1>2, <1>3, <1>4, <1>5, <1>6, <1>7, <1>8, <1>9, <1>10, <1>11, <1>12, <1>13, <1>14, <1>15, <1>16, <1>17, <1>18, <1>19, <1>20 DEF ExecNext

\* The kept hash stays that of a record.
LEMMA RecordStep == ExecIInv /\ [ExecNext]_execVars => RecordInv'
<1> SUFFICES ASSUME ExecIInv, [ExecNext]_execVars PROVE RecordInv'
  OBVIOUS
<1> USE NamesAssumption, ContentsAssumption, MaxChangesAssumption
    DEF ExecIInv, ExecTypeOK, fs, fixed, paths, identity, staging, Fails, Works
<1>1. CASE Done \/ UNCHANGED execVars
  BY <1>1 DEF Done, execVars, RecordInv, Opened, Planned
<1>2. ASSUME NEW p \in Names, NEW e \in Inodes \cup Names \cup {Nothing},
             ChangeEntry(p, e)
      PROVE RecordInv'
  BY <1>2 DEF ChangeEntry, RecordInv, Opened, Planned
<1>3. ASSUME NEW i \in Inodes, NEW content \in Contents, WriteInPlace(i, content)
      PROVE RecordInv'
  BY <1>3 DEF WriteInPlace, RecordInv, Opened, Planned
<1>4. CASE ResolvePath
  BY <1>4 DEF ResolvePath, Step, RecordInv, Opened, Planned
<1>5. CASE ValidatePath
  BY <1>5 DEF ValidatePath, Step, RecordInv, Opened, Planned
<1>6. CASE VerifyHash
  BY <1>6 DEF VerifyHash, Step, RecordInv, Opened, Planned, StageInv, HashMatches
<1>7. CASE Open
  BY <1>7 DEF Open, RecordInv, Opened, Planned
<1>8. CASE Fstat
  BY <1>8 DEF Fstat, RecordInv, Opened, Planned
<1>9. CASE Pread
  BY <1>9 DEF Pread, RecordInv, Opened, Planned
<1>10. CASE VerifyIdentityContentHash
  BY <1>10 DEF VerifyIdentityContentHash, RecordInv, Opened, Planned
<1>11. CASE Refstat
  BY <1>11 DEF Refstat, RecordInv, Opened, Planned
<1>12. CASE RiskGate
  BY <1>12 DEF RiskGate, RecordInv, Opened, Planned
<1>13. CASE FdExecExtraFile
  BY <1>13 DEF FdExecExtraFile, RecordInv, Opened, Planned
<1>14. CASE StageMkdir
  BY <1>14 DEF StageMkdir, RemoveStaging, RecordInv, Opened, Planned
<1>15. CASE StageDup
  BY <1>15 DEF StageDup, RemoveStaging, RecordInv, Opened, Planned
<1>16. CASE StageStat
  BY <1>16 DEF StageStat, RemoveStaging, RecordInv, Opened, Planned
<1>17. CASE StageCopy
  BY <1>17 DEF StageCopy, RemoveStaging, RecordInv, Opened, Planned
<1>18. CASE Exec
  BY <1>18 DEF Exec, RecordInv, Opened, Planned
<1>19. CASE Cleanup
  BY <1>19 DEF Cleanup, RemoveStaging, RecordInv, Opened, Planned
<1>20. CASE Close
  BY <1>20 DEF Close, RecordInv, Opened, Planned
<1> QED
  BY <1>1, <1>2, <1>3, <1>4, <1>5, <1>6, <1>7, <1>8, <1>9, <1>10, <1>11, <1>12, <1>13, <1>14, <1>15, <1>16, <1>17, <1>18, <1>19, <1>20 DEF ExecNext

\* The binding of the open file to the verified content survives every action.
LEMMA BoundStep == ExecIInv /\ [ExecNext]_execVars => BoundInv'
<1> SUFFICES ASSUME ExecIInv, [ExecNext]_execVars PROVE BoundInv'
  OBVIOUS
<1> USE NamesAssumption, ContentsAssumption, MaxChangesAssumption
    DEF ExecIInv, ExecTypeOK, fs, fixed, paths, identity, staging, Fails, Works
<1>1. CASE Done \/ UNCHANGED execVars
  BY <1>1 DEF Done, execVars, BoundInv, Agrees, StageInv, Opened, Planned
<1>2. ASSUME NEW p \in Names, NEW e \in Inodes \cup Names \cup {Nothing},
             ChangeEntry(p, e)
      PROVE BoundInv'
  BY <1>2 DEF ChangeEntry, BoundInv, Agrees, StageInv, Opened, Planned
<1>3. ASSUME NEW i \in Inodes, NEW content \in Contents, WriteInPlace(i, content)
      PROVE BoundInv'
  <2>1. CASE lateWrite'
    BY <2>1 DEF BoundInv
  <2>2. CASE ~lateWrite'
    <3>1. ~lateWrite /\ ~(fd = i /\ Late(content))
      BY <1>3, <2>2 DEF WriteInPlace
    <3>2. fd # i \/ fd \notin Inodes => data'[fd] = data[fd]
      BY <1>3 DEF WriteInPlace
    <3>3. fd = i => data'[fd] = content
      BY <1>3 DEF WriteInPlace
    <3>4. Agrees(data[fd])' <=> Agrees(data'[fd])
      BY <1>3 DEF WriteInPlace, Agrees
    <3> QED
      BY <1>3, <3>1, <3>2, <3>3, <3>4 DEF WriteInPlace, BoundInv, Late, Opened, Planned, StageInv
  <2> QED
    BY <2>1, <2>2
<1>4. CASE ResolvePath
  BY <1>4 DEF ResolvePath, Step, BoundInv, Agrees, StageInv, Opened, Planned
<1>5. CASE ValidatePath
  BY <1>5 DEF ValidatePath, Step, BoundInv, Agrees, StageInv, Opened, Planned
<1>6. CASE VerifyHash
  BY <1>6 DEF VerifyHash, Step, BoundInv, Agrees, StageInv, Opened, Planned
<1>7. CASE Open
  BY <1>7 DEF Open, BoundInv, Agrees, StageInv, Opened, Planned
<1>8. CASE Fstat
  <2>1. pc' = "rehash" => read' = NoBytes /\ Len(read') = 0
    BY <1>8 DEF Fstat, StageInv, NoBytes
  <2> QED
    BY <1>8, <2>1 DEF Fstat, BoundInv, Agrees, Planned
<1>9. CASE Pread
  <2>1. fd \in Inodes /\ Len(read) < Len(data[fd])
    BY <1>9 DEF Pread, MoreToRead, StageInv, Opened
  <2>2. /\ data[fd] \in Seq(STRING) /\ read \in Seq(STRING)
        /\ data[fd][Len(read) + 1] \in STRING
    BY <2>1, ReadTyped
  <2>3. CASE pc' = "rehash" /\ read' = Append(read, data[fd][Len(read) + 1])
    <3>1. Len(read') = Len(read) + 1 /\ Len(read') <= Len(data[fd])
      BY <2>1, <2>2, <2>3
    <3>2. ASSUME NEW k \in 1 .. Len(read'), Agrees(data[fd])
          PROVE  data[fd][k] = read'[k]
      <4>1. CASE k = Len(read) + 1
        BY <2>2, <2>3, <4>1
      <4>2. CASE k # Len(read) + 1
        <5>1. k \in 1 .. Len(read)
          BY <2>2, <3>1, <4>2
        <5>2. read'[k] = read[k]
          BY <2>2, <2>3, <5>1
        <5> QED
          BY <3>2, <5>1, <5>2 DEF Agrees
      <4> QED
        BY <4>1, <4>2
    <3>3. Agrees(data[fd]) => Agrees(data[fd])'
      BY <1>9, <3>1, <3>2 DEF Agrees, Pread
    <3> QED
      BY <1>9, <2>3, <3>3 DEF Pread, BoundInv, Planned
  <2>4. CASE pc' = "close"
    BY <2>4 DEF BoundInv, Planned
  <2> QED
    BY <1>9, <2>3, <2>4 DEF Pread
<1>10. CASE VerifyIdentityContentHash
  <2>1. data[fd] \in Seq(STRING) /\ read \in Seq(STRING) /\ size \in Nat
    BY <1>10 DEF VerifyIdentityContentHash, StageInv, Opened
  <2>2. Len(data[fd]) = size /\ Agrees(data[fd]) => data[fd] = read
    <3> SUFFICES ASSUME Len(data[fd]) = size, Agrees(data[fd]) PROVE data[fd] = read
      OBVIOUS
    <3>1. Len(read) = Len(data[fd])
      BY <1>10, <2>1 DEF VerifyIdentityContentHash, MoreToRead, Agrees
    <3> QED
      BY <2>1, <3>1, SameBlocks DEF Agrees
  <2> QED
    BY <1>10, <2>2 DEF VerifyIdentityContentHash, BoundInv, Planned
<1>11. CASE Refstat
  BY <1>11 DEF Refstat, BoundInv, Agrees, StageInv, Opened, Planned, SizeKept
<1>12. CASE RiskGate
  BY <1>12 DEF RiskGate, BoundInv, Agrees, StageInv, Opened, Planned
<1>13. CASE FdExecExtraFile
  BY <1>13 DEF FdExecExtraFile, BoundInv, Agrees, StageInv, Opened, Planned, OwnerInv
<1>14. CASE StageMkdir
  BY <1>14 DEF StageMkdir, RemoveStaging, BoundInv, Agrees, StageInv, Opened, Planned
<1>15. CASE StageDup
  BY <1>15 DEF StageDup, RemoveStaging, BoundInv, Agrees, StageInv, Opened, Planned
<1>16. CASE StageStat
  BY <1>16 DEF StageStat, RemoveStaging, BoundInv, Agrees, StageInv, Opened, Planned
<1>17. CASE StageCopy
  <2>1. data[fd] \in Contents /\ size \in Nat
    BY <1>17 DEF StageCopy, StageInv, Planned
  <2>2. Len(data[fd]) = size => Section(data[fd], size) = data[fd]
    BY <2>1, SectionTyped
  <2> QED
    BY <1>17, <2>2 DEF StageCopy, RemoveStaging, BoundInv, Planned
<1>18. CASE Exec
  BY <1>18 DEF Exec, BoundInv, Agrees, StageInv, Opened, Planned
<1>19. CASE Cleanup
  BY <1>19 DEF Cleanup, RemoveStaging, BoundInv, Agrees, StageInv, Opened, Planned
<1>20. CASE Close
  BY <1>20 DEF Close, BoundInv, Agrees, StageInv, Opened, Planned
<1> QED
  BY <1>1, <1>2, <1>3, <1>4, <1>5, <1>6, <1>7, <1>8, <1>9, <1>10, <1>11, <1>12, <1>13, <1>14, <1>15, <1>16, <1>17, <1>18, <1>19, <1>20 DEF ExecNext

\* What is executed is the verified content.
LEMMA ExecutedStep == ExecIInv /\ [ExecNext]_execVars => ExecutedIsVerified'
<1> SUFFICES ASSUME ExecIInv, [ExecNext]_execVars PROVE ExecutedIsVerified'
  OBVIOUS
<1> USE NamesAssumption, ContentsAssumption, MaxChangesAssumption
    DEF ExecIInv, ExecTypeOK, fs, fixed, paths, identity, staging, Fails, Works
<1>1. CASE Done \/ UNCHANGED execVars
  BY <1>1 DEF Done, execVars, ExecutedIsVerified, NoBytes
<1>2. ASSUME NEW p \in Names, NEW e \in Inodes \cup Names \cup {Nothing},
             ChangeEntry(p, e)
      PROVE ExecutedIsVerified'
  BY <1>2 DEF ChangeEntry, ExecutedIsVerified, NoBytes
<1>3. ASSUME NEW i \in Inodes, NEW content \in Contents, WriteInPlace(i, content)
      PROVE ExecutedIsVerified'
  BY <1>3 DEF WriteInPlace, ExecutedIsVerified, NoBytes
<1>4. CASE ResolvePath
  BY <1>4 DEF ResolvePath, Step, ExecutedIsVerified, NoBytes
<1>5. CASE ValidatePath
  BY <1>5 DEF ValidatePath, Step, ExecutedIsVerified, NoBytes
<1>6. CASE VerifyHash
  BY <1>6 DEF VerifyHash, Step, ExecutedIsVerified, NoBytes, StageInv
<1>7. CASE Open
  BY <1>7 DEF Open, ExecutedIsVerified, NoBytes
<1>8. CASE Fstat
  BY <1>8 DEF Fstat, ExecutedIsVerified, NoBytes
<1>9. CASE Pread
  BY <1>9 DEF Pread, ExecutedIsVerified, NoBytes
<1>10. CASE VerifyIdentityContentHash
  BY <1>10 DEF VerifyIdentityContentHash, ExecutedIsVerified, NoBytes
<1>11. CASE Refstat
  BY <1>11 DEF Refstat, ExecutedIsVerified, NoBytes
<1>12. CASE RiskGate
  BY <1>12 DEF RiskGate, ExecutedIsVerified, NoBytes
<1>13. CASE FdExecExtraFile
  BY <1>13 DEF FdExecExtraFile, ExecutedIsVerified, NoBytes
<1>14. CASE StageMkdir
  BY <1>14 DEF StageMkdir, RemoveStaging, ExecutedIsVerified, NoBytes
<1>15. CASE StageDup
  BY <1>15 DEF StageDup, RemoveStaging, ExecutedIsVerified, NoBytes
<1>16. CASE StageStat
  BY <1>16 DEF StageStat, RemoveStaging, ExecutedIsVerified, NoBytes
<1>17. CASE StageCopy
  BY <1>17 DEF StageCopy, RemoveStaging, ExecutedIsVerified, NoBytes
<1>18. CASE Exec
  <2>1. lateWrite \/ Image = contentHash
    BY <1>18 DEF Exec, BoundInv, Planned, Image
  <2>2. \E r \in Names : contentHash = Recorded[r]
    BY <1>18 DEF Exec, RecordInv, Planned
  <2>3. executed = NoBytes
    BY <1>18 DEF Exec, StageInv
  <2> QED
    BY <1>18, <2>1, <2>2, <2>3 DEF Exec, ExecutedIsVerified
<1>19. CASE Cleanup
  BY <1>19 DEF Cleanup, RemoveStaging, ExecutedIsVerified, NoBytes
<1>20. CASE Close
  BY <1>20 DEF Close, ExecutedIsVerified, NoBytes
<1> QED
  BY <1>1, <1>2, <1>3, <1>4, <1>5, <1>6, <1>7, <1>8, <1>9, <1>10, <1>11, <1>12, <1>13, <1>14, <1>15, <1>16, <1>17, <1>18, <1>19, <1>20 DEF ExecNext

\* The inductive invariant holds in every reachable state.
LEMMA Inductive == ExecSpec => []ExecIInv
<1>1. ExecInit => ExecIInv
  <2> SUFFICES ASSUME ExecInit PROVE ExecIInv
    OBVIOUS
  <2>1. ExecTypeOK
    <3>1. NoBytes \in Seq(STRING)
      BY DEF NoBytes
    <3>2. changes \in 0 .. MaxChanges /\ size \in Nat
      BY MaxChangesAssumption DEF ExecInit
    <3>3. staged \in Seq(STRING) /\ executed \in Seq(STRING) /\ read \in Seq(STRING)
      BY <3>1 DEF ExecInit
    <3>4. contentHash \in Contents \cup {NoBytes}
      BY DEF ExecInit
    <3> QED
      BY <3>2, <3>3, <3>4, Zenon DEF ExecInit, ExecTypeOK, PCs
  <2>2. StageInv /\ OwnerInv /\ RecordInv /\ BoundInv
    BY DEF ExecInit, StageInv, OwnerInv, RecordInv, BoundInv, Opened, Planned
  <2>3. ExecutedIsVerified
    BY DEF ExecInit, ExecutedIsVerified
  <2> QED
    BY <2>1, <2>2, <2>3 DEF ExecIInv
<1>2. ExecIInv /\ [ExecNext]_execVars => ExecIInv'
  BY TypeStep, StageStep, OwnerStep, RecordStep, BoundStep, ExecutedStep DEF ExecIInv
<1> QED
  BY <1>1, <1>2, PTL DEF ExecSpec

\* Type correctness of the path from the configured name to execve.
THEOREM TypeCorrect == ExecSpec => []ExecTypeOK
<1>1. ExecIInv => ExecTypeOK
  BY DEF ExecIInv
<1> QED
  BY <1>1, Inductive, PTL

\* What is executed is content that the verification of the group matched with
\* a record, for every file system and every interleaving with the processes
\* that change it, unless the open file was written behind its check.
THEOREM ExecutedTheorem == ExecSpec => []ExecutedIsVerified
<1>1. ExecIInv => ExecutedIsVerified
  BY DEF ExecIInv
<1> QED
  BY <1>1, Inductive, PTL

\* On every way out, whichever call failed, the descriptor and its duplicate
\* are closed and the staging directory was removed, or could not be: each of
\* them has one owner at every step, and no owner leaves without closing it.
THEOREM HeldTheorem == ExecSpec => []NothingHeld
<1>1. ExecIInv => NothingHeld
  BY DEF ExecIInv, OwnerInv, NothingHeld, Opened, Planned
<1> QED
  BY <1>1, Inductive, PTL

-----------------------------------------------------------------------------
(* Without a change by another process no check refuses a recorded file. *)

\* Nobody has changed anything, no call failed, and the command names the
\* file at p, which holds what its record was made from.
Undisturbed(p) ==
    /\ changes = 0 /\ ~fault /\ EvalSymlinks(expandedCmd) = p
    /\ data[dir[p]] = Recorded[p]

\* Then every step so far found that file and that content.
AgreesAt(p) ==
    /\ pc # "resolve" => resolved = p
    /\ pc \in {"hash", "open"} \cup Opened \cup Planned => target = p
    /\ pc \in {"open"} \cup Opened \cup Planned => contentHash = Recorded[p]
    /\ pc \in Opened \cup Planned => fd = dir[p]
    /\ pc \in {"rehash", "refstat", "copy"} => size = Len(Recorded[p])
    /\ pc = "rehash" => Agrees(Recorded[p])
    /\ pc = "exec" /\ ~useFd => staged = Recorded[p]
    /\ pc \in {"cleanup", "close", "done"} => executed = Recorded[p]

UndisturbedInv == \A p \in Names : Undisturbed(p) => AgreesAt(p)

\* A path that EvalSymlinks yields is its own resolution.
LEMMA EvalSymlinksTwice ==
  ASSUME ExecTypeOK, NEW p \in Names, EvalSymlinks(expandedCmd) = p
  PROVE  EvalSymlinks(p) = p /\ dir[p] \in Inodes
BY NamesAssumption DEF ExecTypeOK, EvalSymlinks

\* No step of the runner departs from the undisturbed file.
LEMMA UndisturbedStep == ExecIInv /\ UndisturbedInv /\ [ExecNext]_execVars => UndisturbedInv'
<1> SUFFICES ASSUME ExecIInv, UndisturbedInv, [ExecNext]_execVars, NEW p \in Names, Undisturbed(p)'
             PROVE  AgreesAt(p)'
  BY DEF UndisturbedInv
<1>1. ASSUME UNCHANGED <<changes, dir, data, expandedCmd>>, fault => fault'
      PROVE  /\ Undisturbed(p) /\ AgreesAt(p)
             /\ EvalSymlinks(expandedCmd) = p /\ EvalSymlinks(p) = p
             /\ dir[p] \in Inodes /\ data[dir[p]] = Recorded[p]
             /\ Recorded[p] \in Contents /\ Len(Recorded[p]) \in Nat
             /\ Section(Recorded[p], Len(Recorded[p])) = Recorded[p]
             /\ p # Nothing
  <2>1. Undisturbed(p)
    BY <1>1 DEF Undisturbed, EvalSymlinks
  <2>2. Recorded[p] \in Contents /\ Recorded[p] \in Seq(STRING) /\ p # Nothing
    BY ContentsAssumption, NamesAssumption
  <2>3. Len(Recorded[p]) \in Nat
    BY <2>2
  <2>4. Section(Recorded[p], Len(Recorded[p])) = Recorded[p]
    BY <2>2, <2>3, SectionTyped
  <2> QED
    BY <2>1, <2>2, <2>3, <2>4, EvalSymlinksTwice DEF Undisturbed, UndisturbedInv, ExecIInv
<1>2. CASE \/ \E q \in Names : \E e \in Inodes \cup Names \cup {Nothing} : ChangeEntry(q, e)
           \/ \E i \in Inodes, content \in Contents : WriteInPlace(i, content)
  <2>1. changes' = changes + 1 /\ changes \in Nat
    BY <1>2, MaxChangesAssumption DEF ChangeEntry, WriteInPlace, ExecIInv, ExecTypeOK
  <2> QED
    BY <2>1 DEF Undisturbed
<1>3. CASE Done \/ UNCHANGED execVars
  BY <1>1, <1>3 DEF Done, execVars, AgreesAt, Agrees, Opened, Planned
<1> USE DEF AgreesAt, Step, fs, fixed, paths, identity, staging, Fails, Works, Opened, Planned
<1>4. CASE ResolvePath
  BY <1>1, <1>4 DEF ResolvePath, Undisturbed
<1>5. CASE ValidatePath
  BY <1>1, <1>5 DEF ValidatePath, Undisturbed
<1>6. CASE VerifyHash
  BY <1>1, <1>6 DEF VerifyHash, HashMatches, Undisturbed
<1>7. CASE Open
  BY <1>1, <1>7 DEF Open, Undisturbed
<1>8. CASE Fstat
  <2>1. read = NoBytes /\ Len(read) = 0
    BY <1>8 DEF Fstat, ExecIInv, StageInv, NoBytes
  <2> QED
    BY <1>1, <1>8, <2>1 DEF Fstat, Agrees, Undisturbed
<1>9. CASE Pread
  <2>1. read' = Append(read, data[fd][Len(read) + 1]) /\ UNCHANGED <<fd, pc>>
    BY <1>9 DEF Pread, Undisturbed
  <2>2. fd = dir[p] /\ data[fd] = Recorded[p] /\ Agrees(Recorded[p]) /\ fd \in Inodes
    BY <1>1, <1>9 DEF Pread
  <2>3. Len(read) < Len(Recorded[p])
    BY <1>9, <2>2 DEF Pread, MoreToRead
  <2>4. /\ Recorded[p] \in Seq(STRING) /\ read \in Seq(STRING)
        /\ Recorded[p][Len(read) + 1] \in STRING
    BY <2>2, <2>3, ReadTyped DEF ExecIInv, ExecTypeOK
  <2>5. Len(read') = Len(read) + 1 /\ Len(read') <= Len(Recorded[p])
    BY <2>1, <2>2, <2>3, <2>4
  <2>6. ASSUME NEW k \in 1 .. Len(read')
        PROVE  Recorded[p][k] = read'[k]
    <3>1. CASE k = Len(read) + 1
      BY <2>1, <2>2, <2>4, <3>1
    <3>2. CASE k # Len(read) + 1
      <4>1. k \in 1 .. Len(read)
        BY <2>4, <2>5, <3>2
      <4>2. read'[k] = read[k]
        BY <2>1, <2>2, <2>4, <4>1
      <4> QED
        BY <2>2, <4>1, <4>2 DEF Agrees
    <3> QED
      BY <3>1, <3>2
  <2>7. Agrees(Recorded[p])'
    BY <2>5, <2>6 DEF Agrees
  <2> QED
    BY <1>1, <1>9, <2>1, <2>7 DEF Pread
<1>10. CASE VerifyIdentityContentHash
  <2>1. fd = dir[p] /\ data[fd] = Recorded[p] /\ Agrees(Recorded[p]) /\ size = Len(Recorded[p])
    BY <1>1, <1>10 DEF VerifyIdentityContentHash
  <2>2. Recorded[p] \in Seq(STRING) /\ read \in Seq(STRING)
    BY ContentsAssumption DEF ExecIInv, ExecTypeOK
  <2>3. Len(read) = Len(Recorded[p])
    BY <1>10, <2>1, <2>2 DEF VerifyIdentityContentHash, MoreToRead, Agrees
  <2>4. read = Recorded[p]
    BY <2>1, <2>2, <2>3, SameBlocks DEF Agrees
  <2> QED
    BY <1>1, <1>10, <2>1, <2>4 DEF VerifyIdentityContentHash
<1>11. CASE Refstat
  BY <1>1, <1>11 DEF Refstat, SizeKept, ExecIInv, ExecTypeOK, Undisturbed
<1>12. CASE RiskGate
  BY <1>1, <1>12 DEF RiskGate, Undisturbed
<1>13. CASE FdExecExtraFile
  BY <1>1, <1>13 DEF FdExecExtraFile, ExecIInv, OwnerInv, Undisturbed
<1>14. CASE StageMkdir
  BY <1>1, <1>14 DEF StageMkdir, RemoveStaging, Undisturbed
<1>15. CASE StageDup
  BY <1>1, <1>15 DEF StageDup, RemoveStaging, Undisturbed
<1>16. CASE StageStat
  BY <1>1, <1>16 DEF StageStat, RemoveStaging, Undisturbed
<1>17. CASE StageCopy
  BY <1>1, <1>17 DEF StageCopy, RemoveStaging, Undisturbed
<1>18. CASE Exec
  BY <1>1, <1>18 DEF Exec, Image, Undisturbed
<1>19. CASE Cleanup
  BY <1>1, <1>19 DEF Cleanup, RemoveStaging, Undisturbed
<1>20. CASE Close
  BY <1>1, <1>20 DEF Close, Undisturbed
<1> QED
  BY <1>2, <1>3, <1>4, <1>5, <1>6, <1>7, <1>8, <1>9, <1>10, <1>11, <1>12, <1>13, <1>14, <1>15, <1>16, <1>17, <1>18, <1>19, <1>20 DEF ExecNext

\* The repeated resolutions, openings, hashes and sizes never contradict each
\* other: a recorded file that nobody changes is executed, whichever way of
\* executing it is available.
THEOREM RefusalTheorem == ExecSpec => []NoFalseRefusal
<1>1. ExecInit => UndisturbedInv
  BY DEF ExecInit, UndisturbedInv, AgreesAt, Opened, Planned
<1>2. ExecIInv /\ UndisturbedInv => NoFalseRefusal
  <2> SUFFICES ASSUME ExecIInv, UndisturbedInv, changes = 0, ~fault, pc = "done",
                      EvalSymlinks(expandedCmd) # Nothing,
                      data[dir[EvalSymlinks(expandedCmd)]] = Recorded[EvalSymlinks(expandedCmd)]
               PROVE  executed = Recorded[EvalSymlinks(expandedCmd)]
    BY DEF NoFalseRefusal
  <2>1. EvalSymlinks(expandedCmd) \in Names
    BY EvalSymlinksTyped DEF ExecIInv, ExecTypeOK
  <2> QED
    BY <2>1 DEF UndisturbedInv, Undisturbed, AgreesAt
<1> QED
  BY <1>1, <1>2, UndisturbedStep, Inductive, PTL DEF ExecSpec
=============================================================================
