--------------------------- MODULE RecordStoreProofs ---------------------------
(***************************************************************************)
(* Proofs about RecordStore, for every set of recorders and versions and   *)
(* any number of replacements by other processes.                          *)
(***************************************************************************)
EXTENDS RecordStore, SequenceTheorems, TLAPS

\* The analyses in record x are those of the files whose hashes it holds.
Bound(x) ==
    /\ x.analysis = x.hash /\ x.libAnalysis = x.lib
    /\ x.libcAnalysis = x.libc \/ libcRaced

\* The blocks are the first ones of record x.
PrefixOf(blocks, x) ==
    Len(blocks) <= Size(x) /\ \A i \in 1 .. Len(blocks) : blocks[i] = <<x, i>>

\* An entry is the analysis of the file with the hash of its key.
StoreInv ==
    /\ libStore.hash = libStore.analysis
    /\ libcCache.hash = libcCache.analysis \/ libcRaced

\* What the record that recorder r builds holds at each step.
RecorderOK(r) ==
    /\ pc[r] \in RecorderPCs
    /\ pc[r] \notin {"open", "failed", "crashed"} =>
          rec[r] \in Record /\ rec[r].analysis = rec[r].hash
    /\ pc[r] = "libcput" => fd[r] = rec[r].libcAnalysis
    /\ pc[r] \in {"libcput", "lib", "libput", "truncate", "write", "done"} =>
          rec[r].libcAnalysis = rec[r].libc \/ libcRaced
    /\ pc[r] \in {"libput", "truncate", "write", "done"} => rec[r].libAnalysis = rec[r].lib
    /\ pc[r] = "libput" => fd[r] = rec[r].lib

RecorderInv == \A r \in Recorders : RecorderOK(r)

\* Unless two recorders wrote at once, the file holds the first blocks of one
\* bound record, and nothing while a recorder is about to write.
FileInv ==
    ~savesOverlap =>
        /\ \E x \in Record : Bound(x) /\ PrefixOf(recordFile, x)
        /\ \A r \in Recorders : pc[r] = "write" => recordFile = <<>>

\* Between its two reads a Load holds the first block of the file, unless the
\* file has changed.
LoadInv ==
    \A a \in Actors :
        pc[a] \in {"rest", "rest1", "rest2", "rest3"} /\ ~stale[a] =>
            buf[a] = IF recordFile = <<>> THEN <<>> ELSE <<Head(recordFile)>>

\* A recorder that has looked at a complete record may replace it.
LookedInv ==
    \A r \in Recorders :
        pc[r] \in {"deps", "libc", "libcput", "lib", "libput", "truncate"} /\ ~stale[r] =>
            \A x \in Record : recordFile = Blocks(x) => MayUpdate(r, x)

IInv ==
    /\ TypeOK /\ pc[Runner] \in RunnerPCs
    /\ StoreInv /\ RecorderInv /\ FileInv /\ LoadInv /\ LookedInv
    /\ SuccessMeansRecorded /\ ClassifiedByBoundAnalysis

-----------------------------------------------------------------------------
(* Blocks, records and what Load makes of them. *)

\* The blocks of a record.
LEMMA BlocksOfRecord ==
  ASSUME NEW x \in Record
  PROVE  /\ Size(x) \in Nat /\ Size(x) >= 2 /\ Blocks(x) \in Seq(Record \X Nat)
         /\ Len(Blocks(x)) = Size(x) /\ \A i \in 1 .. Size(x) : Blocks(x)[i] = <<x, i>>
         /\ Blocks(x) # <<>> /\ Head(Blocks(x)) = <<x, 1>>
<1>1. x.hash \in Nat \ {0}
  BY VersionsAssumption DEF Record
<1>2. Size(x) \in Nat /\ Size(x) >= 2
  BY <1>1 DEF Size
<1>3. Blocks(x) \in Seq(Record \X Nat) /\ Len(Blocks(x)) = Size(x)
      /\ \A i \in 1 .. Size(x) : Blocks(x)[i] = <<x, i>>
  BY <1>2 DEF Blocks
<1>4. Blocks(x) # <<>> /\ Blocks(x)[1] = <<x, 1>>
  BY <1>2, <1>3
<1>5. Head(Blocks(x)) = Blocks(x)[1]
  BY <1>3, <1>4
<1> QED
  BY <1>2, <1>3, <1>4, <1>5

\* The records of the first version are records.
LEMMA InitialRecord ==
  ASSUME NEW kind \in Kinds
  PROVE  Initial(kind) \in Record
BY VersionsAssumption DEF Initial, Record

\* The ends of a file that is not empty.
LEMMA EndsOfBlocks ==
  ASSUME NEW blocks \in Seq(Record \X Nat), blocks # <<>>
  PROVE  /\ Len(blocks) \in Nat \ {0} /\ Head(blocks) = blocks[1]
         /\ blocks[1] \in Record \X Nat /\ blocks[Len(blocks)] \in Record \X Nat
         /\ Head(blocks)[1] \in Record /\ blocks[Len(blocks)][1] \in Record
<1>1. Len(blocks) \in Nat \ {0}
  BY EmptySeq
<1>2. blocks[1] \in Record \X Nat /\ blocks[Len(blocks)] \in Record \X Nat
  BY <1>1, ElementOfSeq
<1>3. Head(blocks) = blocks[1]
  BY <1>1
<1> QED
  BY <1>1, <1>2, <1>3

\* Load yields a record, no record or a corrupt one.
LEMMA ParseTyped ==
  ASSUME NEW blocks \in Seq(Record \X Nat), NEW y \in Parse(blocks)
  PROVE  y \in Record \cup {NoRecord, Corrupt}
<1>1. CASE blocks = <<>>
  BY <1>1 DEF Parse
<1>2. CASE blocks # <<>>
  <2> DEFINE a == Head(blocks)[1]
             b == blocks[Len(blocks)][1]
  <2>1. a \in Record /\ b \in Record
    BY <1>2, EndsOfBlocks
  <2>2. y = a \/ y = Corrupt \/ y = [b EXCEPT !.kind = a.kind, !.hash = a.hash]
    BY <1>2 DEF Parse
  <2>3. [b EXCEPT !.kind = a.kind, !.hash = a.hash] \in Record
    BY <2>1 DEF Record
  <2> HIDE DEF a, b
  <2> QED
    BY <2>1, <2>2, <2>3
<1> QED
  BY <1>1, <1>2

\* The first blocks of one record yield that record or none.
LEMMA ParsePrefix ==
  ASSUME NEW blocks \in Seq(Record \X Nat), NEW x \in Record, PrefixOf(blocks, x),
         NEW y \in Parse(blocks), y \notin {NoRecord, Corrupt}
  PROVE  y = x
<1>1. blocks # <<>>
  BY DEF Parse
<1>2. Len(blocks) \in Nat \ {0} /\ Head(blocks) = blocks[1]
  BY <1>1, EndsOfBlocks
<1>3. Head(blocks)[1] = x /\ blocks[Len(blocks)][1] = x
  BY <1>2 DEF PrefixOf
<1> QED
  BY <1>1, <1>3 DEF Parse

\* A complete record yields itself.
LEMMA ParseBlocks ==
  ASSUME NEW x \in Record, NEW y \in Parse(Blocks(x))
  PROVE  y = x
BY BlocksOfRecord DEF Parse

\* A Load during which the file did not change reads the file.
LEMMA LoadedUnchanged ==
  ASSUME TypeOK, NEW a \in Actors,
         buf[a] = IF recordFile = <<>> THEN <<>> ELSE <<Head(recordFile)>>
  PROVE  Loaded(a) = Parse(recordFile)
<1>1. recordFile \in Seq(Record \X Nat)
  BY DEF TypeOK
<1>2. CASE recordFile = <<>>
  <2>1. buf[a] = <<>> /\ Len(buf[a]) = 0 /\ Len(recordFile) = 0
    BY <1>2
  <2>2. SubSeq(recordFile, 1, 0) = <<>>
    BY SubSeqEmpty
  <2>3. buf[a] \o SubSeq(recordFile, Len(buf[a]) + 1, Len(recordFile)) = <<>> \o <<>>
    BY <2>1, <2>2
  <2>4. <<>> \o <<>> = <<>>
    BY <1>1, <1>2, ConcatEmptySeq
  <2> QED
    BY <1>2, <2>3, <2>4 DEF Loaded
<1>3. CASE recordFile # <<>>
  <2>1. Len(recordFile) \in Nat \ {0} /\ Head(recordFile) = recordFile[1]
    BY <1>1, <1>3, EndsOfBlocks
  <2>2. buf[a] = <<recordFile[1]>> /\ Len(buf[a]) = 1
    BY <1>3, <2>1
  <2>3. SubSeq(recordFile, 1, Len(recordFile))
          = <<recordFile[1]>> \o SubSeq(recordFile, 1 + 1, Len(recordFile))
    <3>1. 1 \in 1 .. Len(recordFile) /\ Len(recordFile) \in 1 .. Len(recordFile)
      BY <2>1
    <3> QED
      BY <1>1, <3>1, SubSeqRecursiveFirst
  <2>4. SubSeq(recordFile, 1, Len(recordFile)) = recordFile
    BY <1>1, SubSeqFull
  <2> QED
    BY <2>2, <2>3, <2>4 DEF Loaded
<1> QED
  BY <1>2, <1>3

\* Whatever a Load reads is made of blocks of records.
LEMMA LoadedTyped ==
  ASSUME TypeOK, NEW a \in Actors, NEW y \in Loaded(a)
  PROVE  y \in Record \cup {NoRecord, Corrupt}
<1>1. recordFile \in Seq(Record \X Nat) /\ buf[a] \in Seq(Record \X Nat)
  BY DEF TypeOK
<1>2. Len(recordFile) \in Nat /\ Len(buf[a]) \in Nat
  BY <1>1
<1>3. \A i \in Len(buf[a]) + 1 .. Len(recordFile) : recordFile[i] \in Record \X Nat
  BY <1>1, <1>2, ElementOfSeq
<1>4. SubSeq(recordFile, Len(buf[a]) + 1, Len(recordFile)) \in Seq(Record \X Nat)
  BY <1>2, <1>3, SubSeqProperties
<1>5. buf[a] \o SubSeq(recordFile, Len(buf[a]) + 1, Len(recordFile)) \in Seq(Record \X Nat)
  BY <1>1, <1>4, ConcatProperties
<1> QED
  BY <1>5, ParseTyped DEF Loaded

\* The file after a write is made of blocks of records.
LEMMA WrittenTyped ==
  ASSUME TypeOK, NEW r \in Recorders, rec[r] \in Record, NEW n \in 0 .. Size(rec[r])
  PROVE  RecordWritten(r, n) \in Seq(Record \X Nat)
<1>1. recordFile \in Seq(Record \X Nat) /\ Len(recordFile) \in Nat
  BY DEF TypeOK
<1>2. /\ Size(rec[r]) \in Nat /\ Len(Blocks(rec[r])) = Size(rec[r])
      /\ Blocks(rec[r]) \in Seq(Record \X Nat)
  BY BlocksOfRecord
<1>3. SubSeq(Blocks(rec[r]), 1, n) \in Seq(Record \X Nat)
  <2>1. \A i \in 1 .. n : Blocks(rec[r])[i] \in Record \X Nat
    BY <1>2, ElementOfSeq
  <2> QED
    BY <1>2, <2>1, SubSeqProperties
<1>4. SubSeq(recordFile, n + 1, Len(recordFile)) \in Seq(Record \X Nat)
  <2>1. \A i \in n + 1 .. Len(recordFile) : recordFile[i] \in Record \X Nat
    BY <1>1, <1>2, ElementOfSeq
  <2> QED
    BY <1>1, <1>2, <2>1, SubSeqProperties
<1> QED
  BY <1>3, <1>4, ConcatProperties DEF RecordWritten

\* A write into the empty file leaves the first blocks of the record.
LEMMA WrittenEmpty ==
  ASSUME NEW r \in Recorders, rec[r] \in Record, recordFile = <<>>,
         NEW n \in 0 .. Size(rec[r])
  PROVE  /\ PrefixOf(RecordWritten(r, n), rec[r])
         /\ n = Size(rec[r]) => RecordWritten(r, n) = Blocks(rec[r])
<1>1. /\ Size(rec[r]) \in Nat /\ Len(Blocks(rec[r])) = Size(rec[r])
      /\ Blocks(rec[r]) \in Seq(Record \X Nat)
      /\ \A i \in 1 .. Size(rec[r]) : Blocks(rec[r])[i] = <<rec[r], i>>
  BY BlocksOfRecord
<1> DEFINE part == SubSeq(Blocks(rec[r]), 1, n)
<1>2. part \in Seq(Record \X Nat) /\ Len(part) = n
      /\ \A i \in 1 .. n : part[i] = Blocks(rec[r])[i]
  <2>1. \A i \in 1 .. n : Blocks(rec[r])[i] \in Record \X Nat
    BY <1>1, ElementOfSeq
  <2>2. /\ part \in Seq(Record \X Nat) /\ Len(part) = IF 1 <= n THEN n - 1 + 1 ELSE 0
        /\ \A i \in 1 .. n - 1 + 1 : part[i] = Blocks(rec[r])[1 + i - 1]
    BY <1>1, <2>1, SubSeqProperties
  <2> QED
    BY <1>1, <2>2
<1>3. RecordWritten(r, n) = part
  <2>1. Len(recordFile) = 0 /\ n + 1 \in Int
    BY <1>1
  <2>2. SubSeq(recordFile, n + 1, Len(recordFile)) = <<>>
    BY <1>1, <2>1, SubSeqEmpty
  <2>3. part \o <<>> = part
    BY <1>2, ConcatEmptySeq
  <2> QED
    BY <2>2, <2>3 DEF RecordWritten
<1>4. n = Size(rec[r]) => part = Blocks(rec[r])
  BY <1>1, SubSeqFull
<1> HIDE DEF part
<1>5. PrefixOf(part, rec[r])
  <2>1. Len(part) <= Size(rec[r])
    BY <1>1, <1>2
  <2>2. ASSUME NEW i \in 1 .. Len(part) PROVE part[i] = <<rec[r], i>>
    <3>1. i \in 1 .. n /\ i \in 1 .. Size(rec[r])
      BY <1>1, <1>2
    <3> QED
      BY <1>1, <1>2, <3>1
  <2> QED
    BY <2>1, <2>2 DEF PrefixOf
<1> QED
  BY <1>3, <1>4, <1>5

-----------------------------------------------------------------------------
(* Every action preserves the invariant. *)

\* The first reads of the Loads: of a recorder, and three of the runner.
ReadHeads(a) ==
    IF a = Runner THEN {<<"head1", "rest1">>, <<"head2", "rest2">>, <<"head3", "rest3">>}
                  ELSE {<<"head", "rest">>}

\* Where the runner goes after a Load.
RunnerNexts == {"head2", "head3", "refused", "uncertain", "classified"}

\* The runner loads y and goes on at next.
RunnerLoads(y, next) ==
    /\ pc[Runner] \in {"rest1", "rest2", "rest3"} /\ Goto(Runner, next)
    /\ next = "classified" => HashOK(y)
    /\ rec' = [rec EXCEPT ![Runner] = y]
    /\ buf' = [buf EXCEPT ![Runner] = <<>>]
    /\ tornRead' = (tornRead \/ stale[Runner])
    /\ UNCHANGED <<ver, replacements, disk, force, fd, contentHash, stale, savesOverlap, libcRaced>>

\* The three uses the runner makes of a record are such Loads.
LEMMA RunnerLoadCases ==
  ASSUME VerifyHash \/ VerifyDynLibDeps \/ Classify
  PROVE  \E y \in Loaded(Runner), next \in RunnerNexts : RunnerLoads(y, next)
<1>1. CASE VerifyHash
  BY <1>1 DEF VerifyHash, RunnerLoad, RunnerLoads, RunnerNexts
<1>2. CASE VerifyDynLibDeps
  BY <1>2 DEF VerifyDynLibDeps, RunnerLoad, RunnerLoads, RunnerNexts
<1>3. CASE Classify
  BY <1>3 DEF Classify, RunnerLoad, RunnerLoads, RunnerNexts
<1> QED
  BY <1>1, <1>2, <1>3

\* The actions, the reads of both programs taken together.
LEMMA NextCases ==
  ASSUME [StoreNext]_storeVars
  PROVE  \/ Finished \/ UNCHANGED storeVars
         \/ \E f \in StoreFiles, v \in Versions : Replace(f, v)
         \/ \E a \in Actors : \E label, next :
               <<label, next>> \in ReadHeads(a) /\ ReadHead(a, label, next)
         \/ \E r \in Recorders :
               \/ Open(r) \/ Load(r) \/ AnalyzeDynLibDeps(r)
               \/ GetOrCreate(r) \/ PutLibc(r) \/ LoadOrAnalyze(r) \/ PutLib(r)
               \/ Truncate(r) \/ Write(r) \/ Crash(r)
         \/ CalculateHash
         \/ \E y \in Loaded(Runner), next \in RunnerNexts : RunnerLoads(y, next)
<1>1. ASSUME NEW r \in Recorders, ReadHead(r, "head", "rest")
      PROVE  \E a \in Actors : \E label, next :
                <<label, next>> \in ReadHeads(a) /\ ReadHead(a, label, next)
  <2>1. <<"head", "rest">> \in ReadHeads(r) /\ r \in Actors
    BY ActorsAssumption DEF ReadHeads, Actors
  <2> QED
    BY <1>1, <2>1
<1>2. ASSUME NEW i \in 1 .. 3, ReadHead(Runner, <<"head1", "head2", "head3">>[i],
                                                <<"rest1", "rest2", "rest3">>[i])
      PROVE  \E a \in Actors : \E label, next :
                <<label, next>> \in ReadHeads(a) /\ ReadHead(a, label, next)
  <2> DEFINE label == <<"head1", "head2", "head3">>[i]
             next == <<"rest1", "rest2", "rest3">>[i]
  <2>1. <<label, next>> \in ReadHeads(Runner) /\ Runner \in Actors
    <3>1. i = 1 \/ i = 2 \/ i = 3
      OBVIOUS
    <3> QED
      BY <3>1 DEF ReadHeads, Actors
  <2>2. ReadHead(Runner, label, next)
    BY <1>2
  <2> HIDE DEF label, next
  <2> QED
    BY <2>1, <2>2
<1> QED
  BY <1>1, <1>2, RunnerLoadCases DEF StoreNext

\* Records with some of their fields replaced.
LEMMA RecordHash ==
  ASSUME NEW x \in Record, NEW v \in Versions
  PROVE  LET y == [x EXCEPT !.hash = v, !.analysis = v]
         IN  y \in Record /\ y.hash = v /\ y.analysis = v
BY DEF Record

\* ... the hashes of the libraries.
LEMMA RecordLibraries ==
  ASSUME NEW x \in Record, NEW v \in Versions, NEW w \in Versions
  PROVE  LET y == [x EXCEPT !.lib = v, !.libc = w]
         IN  y \in Record /\ y.hash = x.hash /\ y.analysis = x.analysis
BY DEF Record

\* ... the analysis of libc.
LEMMA RecordLibcAnalysis ==
  ASSUME NEW x \in Record, NEW v \in Versions
  PROVE  LET y == [x EXCEPT !.libcAnalysis = v]
         IN  /\ y \in Record /\ y.hash = x.hash /\ y.analysis = x.analysis
             /\ y.libc = x.libc /\ y.libcAnalysis = v
BY DEF Record

\* ... the analysis of the library.
LEMMA RecordLibAnalysis ==
  ASSUME NEW x \in Record, NEW v \in Versions
  PROVE  LET y == [x EXCEPT !.libAnalysis = v]
         IN  /\ y \in Record /\ y.hash = x.hash /\ y.analysis = x.analysis
             /\ y.libc = x.libc /\ y.libcAnalysis = x.libcAnalysis
             /\ y.lib = x.lib /\ y.libAnalysis = v
BY DEF Record

\* One block is a sequence of blocks.
LEMMA SingleBlock ==
  ASSUME NEW S, NEW e \in S
  PROVE  <<e>> \in Seq(S)
OBVIOUS

\* What a recorder decides after its Load.
LEMMA LoadCases ==
  ASSUME NEW r \in Recorders, Load(r)
  PROVE  \E y \in Loaded(r) : \/ MayUpdate(r, y) /\ Goto(r, "deps")
                              \/ ~MayUpdate(r, y) /\ Goto(r, "failed")
BY DEF Load

\* A recorder's record replaced by another one.
LEMMA RecordReplaced ==
  ASSUME TypeOK, NEW r \in Recorders, NEW y \in Record
  PROVE  /\ [rec EXCEPT ![r] = y] \in [Actors -> Record \cup {NoRecord, Corrupt}]
         /\ [rec EXCEPT ![r] = y][r] = y
         /\ \A a \in Actors \ {r} : [rec EXCEPT ![r] = y][a] = rec[a]
<1>1. rec \in [Actors -> Record \cup {NoRecord, Corrupt}] /\ r \in Actors
  BY DEF TypeOK, Actors
<1> QED
  BY <1>1

\* pc moves along the steps of its actor.
LEMMA PcStep == IInv /\ [StoreNext]_storeVars => (pc \in [Actors -> RecorderPCs \cup RunnerPCs])'
<1> SUFFICES ASSUME IInv, [StoreNext]_storeVars
             PROVE  pc' \in [Actors -> RecorderPCs \cup RunnerPCs]
  OBVIOUS
<1>1. pc \in [Actors -> RecorderPCs \cup RunnerPCs]
  BY DEF IInv, TypeOK
<1>2. CASE UNCHANGED pc
  BY <1>1, <1>2
<1>3. ASSUME NEW a \in Actors, NEW label \in RecorderPCs \cup RunnerPCs, Goto(a, label)
      PROVE  pc' \in [Actors -> RecorderPCs \cup RunnerPCs]
  BY <1>1, <1>3 DEF Goto
<1>4. ASSUME NEW a \in Actors, NEW label, NEW next,
             <<label, next>> \in ReadHeads(a), ReadHead(a, label, next)
      PROVE  pc' \in [Actors -> RecorderPCs \cup RunnerPCs]
  BY <1>3, <1>4 DEF ReadHead, ReadHeads, RecorderPCs, RunnerPCs
<1>5. ASSUME NEW r \in Recorders,
             \/ Open(r) \/ Load(r) \/ AnalyzeDynLibDeps(r)
             \/ GetOrCreate(r) \/ PutLibc(r) \/ LoadOrAnalyze(r) \/ PutLib(r)
             \/ Truncate(r) \/ Write(r) \/ Crash(r)
      PROVE  pc' \in [Actors -> RecorderPCs \cup RunnerPCs]
  <2>1. r \in Actors
    BY DEF Actors
  <2>2. \E label \in {"head", "deps", "libc", "libcput", "lib", "libput", "truncate", "write",
                      "done", "failed", "crashed"} : Goto(r, label)
    BY <1>5 DEF Open, Load, AnalyzeDynLibDeps, GetOrCreate, PutLibc, LoadOrAnalyze, PutLib,
                Truncate, Write, Crash
  <2> QED
    BY <1>3, <2>1, <2>2 DEF RecorderPCs
<1>6. ASSUME NEW y \in Loaded(Runner), NEW next \in RunnerNexts, RunnerLoads(y, next)
      PROVE  pc' \in [Actors -> RecorderPCs \cup RunnerPCs]
  BY <1>3, <1>6 DEF RunnerLoads, RunnerNexts, Actors, RunnerPCs
<1>7. CASE CalculateHash
  BY <1>3, <1>7 DEF CalculateHash, Actors, RunnerPCs
<1> QED
  BY <1>2, <1>4, <1>5, <1>6, <1>7, NextCases DEF Finished, Replace, storeVars

\* A truncation makes what the others have read stale.
LEMMA TruncateCases ==
  ASSUME TypeOK, NEW r \in Recorders, Truncate(r)
  PROVE  /\ pc'[r] \in {"failed", "write"} /\ \A a \in Actors \ {r} : pc'[a] = pc[a]
         /\ \/ /\ pc' = [pc EXCEPT ![r] = "failed"]
               /\ UNCHANGED <<recordFile, stale, savesOverlap>>
            \/ /\ pc' = [pc EXCEPT ![r] = "write"] /\ recordFile' = <<>>
               /\ \A a \in Actors \ {r} : stale'[a]
               /\ stale' \in [Actors -> BOOLEAN]
               /\ savesOverlap' = (savesOverlap \/ Saving(r))
<1>1. pc \in [Actors -> RecorderPCs \cup RunnerPCs] /\ r \in Actors
  BY DEF TypeOK, Actors
<1>2. CASE Goto(r, "failed") /\ UNCHANGED <<recordFile, stale, savesOverlap>>
  BY <1>1, <1>2 DEF Goto
<1>3. CASE /\ recordFile' = <<>> /\ Goto(r, "write") /\ Changed(r)
           /\ savesOverlap' = (savesOverlap \/ Saving(r))
  <2>1. stale' \in [Actors -> BOOLEAN] /\ \A a \in Actors \ {r} : stale'[a]
    BY <1>3 DEF Changed, TypeOK
  <2> QED
    BY <1>1, <1>3, <2>1 DEF Goto
<1> QED
  BY <1>2, <1>3 DEF Truncate, Truncated

\* So does a write, which ends the recorder's work.
LEMMA WriteCases ==
  ASSUME TypeOK, NEW r \in Recorders, Write(r)
  PROVE  /\ \E n \in 0 .. Size(rec[r]), label \in {"done", "failed", "crashed"} :
               /\ recordFile' = RecordWritten(r, n) /\ pc' = [pc EXCEPT ![r] = label]
               /\ label = "done" <=> n = Size(rec[r])
         /\ \A a \in Actors \ {r} : stale'[a]
         /\ stale' \in [Actors -> BOOLEAN]
         /\ savesOverlap' = (savesOverlap \/ Saving(r))
<1>1. /\ \A a \in Actors \ {r} : stale'[a]
      /\ stale' \in [Actors -> BOOLEAN]
  BY DEF Write, Changed, TypeOK
<1>2. PICK n \in 0 .. Size(rec[r]) :
         /\ recordFile' = RecordWritten(r, n)
         /\ IF n = Size(rec[r]) THEN Goto(r, "done") ELSE Goto(r, "failed") \/ Goto(r, "crashed")
  BY DEF Write
<1>3. savesOverlap' = (savesOverlap \/ Saving(r))
  BY DEF Write
<1> QED
  BY <1>1, <1>2, <1>3 DEF Goto

\* What Open leaves in the record of r.
LEMMA OpenCases ==
  ASSUME TypeOK, NEW r \in Recorders, Open(r)
  PROVE  \/ rec' = rec /\ pc' = [pc EXCEPT ![r] = "failed"]
         \/ \E y \in Record : /\ rec' = [rec EXCEPT ![r] = y] /\ y.analysis = y.hash
                              /\ pc' = [pc EXCEPT ![r] = "head"]
<1>1. ver["target"] \in Versions
  BY DEF TypeOK, StoreFiles
<1>2. Initial("current") \in Record
  BY InitialRecord DEF Kinds
<1> DEFINE y == [Initial("current") EXCEPT !.hash = ver["target"], !.analysis = ver["target"]]
<1>3. y \in Record /\ y.hash = ver["target"] /\ y.analysis = ver["target"]
  BY <1>1, <1>2, RecordHash
<1>4. \/ rec' = rec /\ pc' = [pc EXCEPT ![r] = "failed"]
      \/ rec' = [rec EXCEPT ![r] = y] /\ pc' = [pc EXCEPT ![r] = "head"]
  BY DEF Open, Goto
<1> HIDE DEF y
<1> QED
  BY <1>3, <1>4

\* The hashes of the libraries in the record of r.
LEMMA DepsCases ==
  ASSUME TypeOK, NEW r \in Recorders, RecorderOK(r), AnalyzeDynLibDeps(r)
  PROVE  \/ rec' = rec /\ pc' = [pc EXCEPT ![r] = "failed"]
         \/ \E y \in Record : /\ rec' = [rec EXCEPT ![r] = y] /\ y.analysis = y.hash
                              /\ pc' = [pc EXCEPT ![r] = "libc"]
<1>1. ver["lib"] \in Versions /\ ver["libc"] \in Versions /\ r \in DOMAIN rec
  BY DEF TypeOK, StoreFiles, Actors
<1>2. rec[r] \in Record /\ rec[r].analysis = rec[r].hash
  BY DEF RecorderOK, AnalyzeDynLibDeps
<1> DEFINE y == [rec[r] EXCEPT !.lib = ver["lib"], !.libc = ver["libc"]]
<1>3. y \in Record /\ y.hash = rec[r].hash /\ y.analysis = rec[r].analysis
  BY ZenonT(40), <1>1, <1>2, RecordLibraries
<1>4. \/ rec' = rec /\ pc' = [pc EXCEPT ![r] = "failed"]
      \/ rec' = [rec EXCEPT ![r] = y] /\ pc' = [pc EXCEPT ![r] = "libc"]
  BY <1>1 DEF AnalyzeDynLibDeps, Goto, TypeOK
<1> HIDE DEF y
<1> QED
  BY <1>2, <1>3, <1>4

\* The analysis of libc in the record of r, found in the cache or made.
LEMMA LibcCases ==
  ASSUME TypeOK, StoreInv, NEW r \in Recorders, RecorderOK(r), GetOrCreate(r)
  PROVE  \/ /\ UNCHANGED <<rec, fd, libcRaced>> /\ pc' = [pc EXCEPT ![r] = "failed"]
         \/ \E y \in Record :
               /\ rec' = [rec EXCEPT ![r] = y] /\ y.analysis = y.hash
               /\ \/ /\ pc' = [pc EXCEPT ![r] = "lib"] /\ UNCHANGED <<fd, libcRaced>>
                     /\ y.libcAnalysis = y.libc \/ libcRaced
                  \/ /\ pc' = [pc EXCEPT ![r] = "libcput"]
                     /\ fd' = [fd EXCEPT ![r] = y.libcAnalysis] /\ y.libcAnalysis \in Versions
                     /\ libcRaced' = (libcRaced \/ y.libcAnalysis # y.libc)
<1>1. ver["libc"] \in Versions /\ r \in DOMAIN rec
  BY DEF TypeOK, StoreFiles, Actors
<1>2. rec[r] \in Record /\ rec[r].analysis = rec[r].hash
  BY DEF RecorderOK, GetOrCreate
<1>3. CASE UNCHANGED <<rec, fd, libcRaced>> /\ Goto(r, "failed")
  BY <1>3 DEF Goto
<1>4. CASE /\ libcCache.hash = rec[r].libc
           /\ rec' = [rec EXCEPT ![r].libcAnalysis = libcCache.analysis]
           /\ Goto(r, "lib") /\ UNCHANGED <<fd, libcRaced>>
  <2> DEFINE y == [rec[r] EXCEPT !.libcAnalysis = libcCache.analysis]
  <2>1. libcCache.analysis \in Versions
    <3>1. rec[r].libc \in Versions /\ rec[r].libc # 0
      BY <1>2, VersionsAssumption DEF Record
    <3> QED
      BY <1>4, <3>1 DEF TypeOK, Entry, NoLibEntry
  <2>2. /\ y \in Record /\ y.hash = rec[r].hash /\ y.analysis = rec[r].analysis
        /\ y.libc = rec[r].libc /\ y.libcAnalysis = libcCache.analysis
    BY <1>2, <2>1, RecordLibcAnalysis
  <2>3. rec' = [rec EXCEPT ![r] = y]
    BY <1>1, <1>4 DEF TypeOK
  <2> HIDE DEF y
  <2>4. y.libcAnalysis = y.libc \/ libcRaced
    BY <1>4, <2>2 DEF StoreInv
  <2> QED
    BY <1>2, <1>4, <2>2, <2>3, <2>4 DEF Goto
<1>5. CASE /\ fd' = [fd EXCEPT ![r] = ver["libc"]]
           /\ rec' = [rec EXCEPT ![r].libcAnalysis = ver["libc"]]
           /\ libcRaced' = (libcRaced \/ ver["libc"] # rec[r].libc)
           /\ Goto(r, "libcput")
  <2> DEFINE y == [rec[r] EXCEPT !.libcAnalysis = ver["libc"]]
  <2>1. /\ y \in Record /\ y.hash = rec[r].hash /\ y.analysis = rec[r].analysis
        /\ y.libc = rec[r].libc /\ y.libcAnalysis = ver["libc"]
    BY <1>1, <1>2, RecordLibcAnalysis
  <2>2. rec' = [rec EXCEPT ![r] = y]
    BY <1>1, <1>5 DEF TypeOK
  <2> HIDE DEF y
  <2> QED
    BY <1>1, <1>2, <1>5, <2>1, <2>2 DEF Goto
<1> QED
  BY <1>3, <1>4, <1>5 DEF GetOrCreate

\* The analysis of the library in the record of r, found in the store or made
\* from the file that has the recorded hash.
LEMMA LibCases ==
  ASSUME TypeOK, StoreInv, NEW r \in Recorders, RecorderOK(r), LoadOrAnalyze(r)
  PROVE  \/ /\ UNCHANGED <<rec, fd>> /\ pc' = [pc EXCEPT ![r] = "failed"]
         \/ \E y \in Record :
               /\ rec' = [rec EXCEPT ![r] = y] /\ y.analysis = y.hash
               /\ y.libcAnalysis = y.libc \/ libcRaced
               /\ y.libAnalysis = y.lib /\ y.lib \in Versions
               /\ \/ pc' = [pc EXCEPT ![r] = "truncate"] /\ UNCHANGED fd
                  \/ pc' = [pc EXCEPT ![r] = "libput"] /\ fd' = [fd EXCEPT ![r] = y.lib]
<1>1. ver["lib"] \in Versions /\ r \in DOMAIN rec
  BY DEF TypeOK, StoreFiles, Actors
<1>2. /\ rec[r] \in Record /\ rec[r].analysis = rec[r].hash
      /\ rec[r].libcAnalysis = rec[r].libc \/ libcRaced
  BY DEF RecorderOK, LoadOrAnalyze
<1>3. rec[r].lib \in Versions /\ rec[r].lib # 0
  BY <1>2, VersionsAssumption DEF Record
<1>4. CASE UNCHANGED <<rec, fd>> /\ Goto(r, "failed")
  BY <1>4 DEF Goto
<1>5. CASE /\ libStore.hash = rec[r].lib
           /\ rec' = [rec EXCEPT ![r].libAnalysis = libStore.analysis]
           /\ Goto(r, "truncate") /\ UNCHANGED fd
  <2> DEFINE y == [rec[r] EXCEPT !.libAnalysis = libStore.analysis]
  <2>1. libStore.analysis = rec[r].lib
    BY <1>5 DEF StoreInv
  <2>2. /\ y \in Record /\ y.hash = rec[r].hash /\ y.analysis = rec[r].analysis
        /\ y.libc = rec[r].libc /\ y.libcAnalysis = rec[r].libcAnalysis
        /\ y.lib = rec[r].lib /\ y.libAnalysis = libStore.analysis
    BY <1>2, <1>3, <2>1, RecordLibAnalysis
  <2>3. rec' = [rec EXCEPT ![r] = y]
    BY <1>1, <1>5 DEF TypeOK
  <2> HIDE DEF y
  <2> QED
    BY <1>2, <1>3, <1>5, <2>1, <2>2, <2>3 DEF Goto
<1>6. CASE /\ KeyMatches(r)
           /\ fd' = [fd EXCEPT ![r] = ver["lib"]]
           /\ rec' = [rec EXCEPT ![r].libAnalysis = ver["lib"]]
           /\ Goto(r, "libput")
  <2> DEFINE y == [rec[r] EXCEPT !.libAnalysis = ver["lib"]]
  <2>1. /\ y \in Record /\ y.hash = rec[r].hash /\ y.analysis = rec[r].analysis
        /\ y.libc = rec[r].libc /\ y.libcAnalysis = rec[r].libcAnalysis
        /\ y.lib = rec[r].lib /\ y.libAnalysis = ver["lib"]
    BY <1>1, <1>2, RecordLibAnalysis
  <2>2. rec' = [rec EXCEPT ![r] = y]
    BY <1>1, <1>6 DEF TypeOK
  <2> HIDE DEF y
  <2> QED
    BY <1>2, <1>3, <1>6, <2>1, <2>2 DEF Goto, KeyMatches
<1> QED
  BY <1>4, <1>5, <1>6 DEF LoadOrAnalyze

\* The runner goes through its own steps.
LEMMA RunnerStep == IInv /\ [StoreNext]_storeVars => (pc[Runner] \in RunnerPCs)'
<1> SUFFICES ASSUME IInv, [StoreNext]_storeVars PROVE (pc[Runner] \in RunnerPCs)'
  OBVIOUS
<1> USE ActorsAssumption, VersionsAssumption, MaxReplacementsAssumption
    DEF IInv, disk, history, Actors, Goto, TypeOK, RunnerPCs, RunnerNexts, ReadHeads
<1>1. CASE Finished \/ UNCHANGED storeVars
  BY <1>1 DEF Finished, storeVars
<1>2. ASSUME NEW f \in StoreFiles, NEW v \in Versions, Replace(f, v)
      PROVE (pc[Runner] \in RunnerPCs)'
  BY <1>2 DEF Replace
<1>3. ASSUME NEW r \in Recorders, Open(r)
      PROVE (pc[Runner] \in RunnerPCs)'
  BY <1>3 DEF Open, Initial
<1>4. ASSUME NEW a \in Actors, NEW label, NEW next,
             <<label, next>> \in ReadHeads(a), ReadHead(a, label, next)
      PROVE (pc[Runner] \in RunnerPCs)'
  BY <1>4 DEF ReadHead
<1>5. ASSUME NEW r \in Recorders, Load(r)
      PROVE (pc[Runner] \in RunnerPCs)'
  BY <1>5 DEF Load
<1>6. ASSUME NEW r \in Recorders, AnalyzeDynLibDeps(r)
      PROVE (pc[Runner] \in RunnerPCs)'
  BY <1>6 DEF AnalyzeDynLibDeps
<1>7. ASSUME NEW r \in Recorders, GetOrCreate(r)
      PROVE (pc[Runner] \in RunnerPCs)'
  BY <1>7 DEF GetOrCreate
<1>8. ASSUME NEW r \in Recorders, PutLibc(r)
      PROVE (pc[Runner] \in RunnerPCs)'
  BY <1>8 DEF PutLibc
<1>9. ASSUME NEW r \in Recorders, LoadOrAnalyze(r)
      PROVE (pc[Runner] \in RunnerPCs)'
  BY <1>9 DEF LoadOrAnalyze, KeyMatches
<1>10. ASSUME NEW r \in Recorders, PutLib(r)
      PROVE (pc[Runner] \in RunnerPCs)'
  BY <1>10 DEF PutLib
<1>11. ASSUME NEW r \in Recorders, Truncate(r)
      PROVE (pc[Runner] \in RunnerPCs)'
  BY <1>11 DEF Truncate, Truncated, Changed
<1>12. ASSUME NEW r \in Recorders, Write(r)
      PROVE (pc[Runner] \in RunnerPCs)'
  BY <1>12 DEF Write, Changed
<1>13. ASSUME NEW r \in Recorders, Crash(r)
      PROVE (pc[Runner] \in RunnerPCs)'
  BY <1>13 DEF Crash
<1>14. CASE CalculateHash
  BY <1>14 DEF CalculateHash
<1>15. ASSUME NEW y \in Loaded(Runner), NEW next \in RunnerNexts, RunnerLoads(y, next)
      PROVE (pc[Runner] \in RunnerPCs)'
  BY <1>15 DEF RunnerLoads
<1> HIDE DEF IInv, disk, history, Actors, Goto, TypeOK, RunnerPCs, RunnerNexts, ReadHeads
<1> QED
  BY <1>1, <1>2, <1>3, <1>4, <1>5, <1>6, <1>7, <1>8, <1>9, <1>10, <1>11, <1>12, <1>13,
     <1>14, <1>15, NextCases

\* Every variable keeps its type.
LEMMA TypeStep == IInv /\ [StoreNext]_storeVars => TypeOK'
<1> SUFFICES ASSUME IInv, [StoreNext]_storeVars PROVE TypeOK'
  OBVIOUS
<1> USE ActorsAssumption, VersionsAssumption, MaxReplacementsAssumption
    DEF IInv, disk, history, Actors, Goto, RunnerNexts
<1>1. CASE Finished \/ UNCHANGED storeVars
  BY <1>1 DEF Finished, storeVars, TypeOK
<1>2. ASSUME NEW f \in StoreFiles, NEW v \in Versions, Replace(f, v)
      PROVE TypeOK'
  BY <1>2 DEF Replace, TypeOK
<1>3. ASSUME NEW r \in Recorders, Open(r)
      PROVE TypeOK'
  <2>1. UNCHANGED <<ver, replacements, disk, force, buf, fd, contentHash, stale, history>>
    BY <1>3 DEF Open
  <2>2. pc' \in [Actors -> RecorderPCs \cup RunnerPCs]
    BY PcStep
  <2>3. rec' \in [Actors -> Record \cup {NoRecord, Corrupt}]
    <3>1. rec \in [Actors -> Record \cup {NoRecord, Corrupt}]
      BY DEF TypeOK
    <3> QED
      BY <1>3, <3>1, OpenCases, RecordReplaced
  <2> QED
    BY <1>3, <2>1, <2>2, <2>3 DEF TypeOK
<1>4. ASSUME NEW a \in Actors, NEW label, NEW next,
             <<label, next>> \in ReadHeads(a), ReadHead(a, label, next)
      PROVE TypeOK'
  <2>1. UNCHANGED <<ver, replacements, disk, force, rec, fd, contentHash, history>>
    BY <1>4 DEF ReadHead
  <2>2. pc' \in [Actors -> RecorderPCs \cup RunnerPCs]
    BY PcStep
  <2>3. (IF recordFile = <<>> THEN <<>> ELSE <<Head(recordFile)>>) \in Seq(Record \X Nat)
    <3>1. <<>> \in Seq(Record \X Nat)
      BY EmptySeq
    <3>2. recordFile # <<>> => Head(recordFile) \in Record \X Nat
      BY EndsOfBlocks DEF TypeOK
    <3>3. recordFile # <<>> => <<Head(recordFile)>> \in Seq(Record \X Nat)
      BY <3>2, SingleBlock
    <3> QED
      BY <3>1, <3>3
  <2>4. buf' \in [Actors -> Seq(Record \X Nat)]
    BY <1>4, <2>3 DEF ReadHead, TypeOK
  <2>5. stale' \in [Actors -> BOOLEAN]
    BY <1>4 DEF ReadHead, TypeOK
  <2> QED
    BY <1>4, <2>1, <2>2, <2>3, <2>4, <2>5 DEF TypeOK
<1>5. ASSUME NEW r \in Recorders, Load(r)
      PROVE TypeOK'
  <2>1. UNCHANGED <<ver, replacements, disk, force, rec, fd, contentHash, stale, history>>
    BY <1>5 DEF Load
  <2>2. pc' \in [Actors -> RecorderPCs \cup RunnerPCs]
    BY PcStep
  <2>3. <<>> \in Seq(Record \X Nat)
    BY EmptySeq
  <2>4. buf' \in [Actors -> Seq(Record \X Nat)]
    BY <1>5, <2>3 DEF Load, TypeOK
  <2> QED
    BY <1>5, <2>1, <2>2, <2>3, <2>4 DEF TypeOK
<1>6. ASSUME NEW r \in Recorders, AnalyzeDynLibDeps(r)
      PROVE TypeOK'
  <2>1. UNCHANGED <<ver, replacements, disk, force, buf, fd, contentHash, stale, history>>
    BY <1>6 DEF AnalyzeDynLibDeps
  <2>2. pc' \in [Actors -> RecorderPCs \cup RunnerPCs]
    BY PcStep
  <2>3. rec' \in [Actors -> Record \cup {NoRecord, Corrupt}]
    <3>1. rec \in [Actors -> Record \cup {NoRecord, Corrupt}]
      BY DEF TypeOK
    <3> QED
      BY <1>6, <3>1, DepsCases, RecordReplaced DEF RecorderInv
  <2> QED
    BY <1>6, <2>1, <2>2, <2>3 DEF TypeOK
<1>7. ASSUME NEW r \in Recorders, GetOrCreate(r)
      PROVE TypeOK'
  <2>1. UNCHANGED <<ver, replacements, disk, force, buf, contentHash, stale, tornRead, savesOverlap>>
    BY <1>7 DEF GetOrCreate
  <2>2. pc' \in [Actors -> RecorderPCs \cup RunnerPCs]
    BY PcStep
  <2>3. rec' \in [Actors -> Record \cup {NoRecord, Corrupt}]
    <3>1. rec \in [Actors -> Record \cup {NoRecord, Corrupt}]
      BY DEF TypeOK
    <3> QED
      BY <1>7, <3>1, LibcCases, RecordReplaced DEF RecorderInv
  <2>4. fd' \in [Recorders -> Versions \cup {0}] /\ libcRaced' \in BOOLEAN
    BY <1>7, LibcCases DEF TypeOK, RecorderInv
  <2> QED
    BY <1>7, <2>1, <2>2, <2>3, <2>4 DEF TypeOK
<1>8. ASSUME NEW r \in Recorders, PutLibc(r)
      PROVE TypeOK'
  <2>1. UNCHANGED <<ver, replacements, recordFile, libStore, force, buf, rec, fd, contentHash, stale, history>>
    BY <1>8 DEF PutLibc
  <2>2. pc' \in [Actors -> RecorderPCs \cup RunnerPCs]
    BY PcStep
  <2>3. rec[r].libc \in Versions /\ fd[r] \in Versions
    BY <1>8 DEF PutLibc, Record, RecorderInv, RecorderOK
  <2>4. libcCache' \in Entry \cup {NoLibEntry}
    BY <1>8, <2>3 DEF PutLibc, Entry, TypeOK
  <2> QED
    BY <1>8, <2>1, <2>2, <2>3, <2>4 DEF TypeOK
<1>9. ASSUME NEW r \in Recorders, LoadOrAnalyze(r)
      PROVE TypeOK'
  <2>1. UNCHANGED <<ver, replacements, disk, force, buf, contentHash, stale, history>>
    BY <1>9 DEF LoadOrAnalyze
  <2>2. pc' \in [Actors -> RecorderPCs \cup RunnerPCs]
    BY PcStep
  <2>3. rec' \in [Actors -> Record \cup {NoRecord, Corrupt}]
    <3>1. rec \in [Actors -> Record \cup {NoRecord, Corrupt}]
      BY DEF TypeOK
    <3> QED
      BY <1>9, <3>1, LibCases, RecordReplaced DEF RecorderInv
  <2>4. fd' \in [Recorders -> Versions \cup {0}]
    BY <1>9, LibCases DEF TypeOK, RecorderInv
  <2> QED
    BY <1>9, <2>1, <2>2, <2>3, <2>4 DEF TypeOK
<1>10. ASSUME NEW r \in Recorders, PutLib(r)
      PROVE TypeOK'
  <2>1. UNCHANGED <<ver, replacements, recordFile, libcCache, force, buf, rec, fd, contentHash, stale, history>>
    BY <1>10 DEF PutLib
  <2>2. pc' \in [Actors -> RecorderPCs \cup RunnerPCs]
    BY PcStep
  <2>3. rec[r].lib \in Versions /\ fd[r] \in Versions
    BY <1>10 DEF PutLib, Record, RecorderInv, RecorderOK
  <2>4. libStore' \in Entry \cup {NoLibEntry}
    BY <1>10, <2>3 DEF PutLib, Entry, TypeOK
  <2> QED
    BY <1>10, <2>1, <2>2, <2>3, <2>4 DEF TypeOK
<1>11. ASSUME NEW r \in Recorders, Truncate(r)
      PROVE TypeOK'
  <2>1. UNCHANGED <<ver, replacements, libStore, libcCache, force, buf, rec, fd, contentHash, tornRead, libcRaced>>
    BY <1>11 DEF Truncate
  <2>2. pc' \in [Actors -> RecorderPCs \cup RunnerPCs]
    BY PcStep
  <2>3. <<>> \in Seq(Record \X Nat)
    BY EmptySeq
  <2>4. recordFile' \in Seq(Record \X Nat)
    BY <1>11, <2>3, TruncateCases DEF TypeOK
  <2>5. stale' \in [Actors -> BOOLEAN]
    BY <1>11, TruncateCases DEF TypeOK
  <2>6. savesOverlap' \in BOOLEAN
    BY <1>11 DEF Truncate, TypeOK
  <2> QED
    BY <1>11, <2>1, <2>2, <2>3, <2>4, <2>5, <2>6 DEF TypeOK
<1>12. ASSUME NEW r \in Recorders, Write(r)
      PROVE TypeOK'
  <2>1. UNCHANGED <<ver, replacements, libStore, libcCache, force, buf, rec, fd, contentHash, tornRead, libcRaced>>
    BY <1>12 DEF Write
  <2>2. pc' \in [Actors -> RecorderPCs \cup RunnerPCs]
    BY PcStep
  <2>3. recordFile' \in Seq(Record \X Nat)
    <3>1. rec[r] \in Record
      BY <1>12 DEF Write, RecorderInv, RecorderOK
    <3> QED
      BY <1>12, <3>1, WriteCases, WrittenTyped
  <2>4. stale' \in [Actors -> BOOLEAN] /\ savesOverlap' \in BOOLEAN
    BY <1>12, WriteCases DEF Write
  <2> QED
    BY <1>12, <2>1, <2>2, <2>3, <2>4 DEF TypeOK
<1>13. ASSUME NEW r \in Recorders, Crash(r)
      PROVE TypeOK'
  <2>1. UNCHANGED <<ver, replacements, disk, force, buf, rec, fd, contentHash, stale, history>>
    BY <1>13 DEF Crash
  <2>2. pc' \in [Actors -> RecorderPCs \cup RunnerPCs]
    BY PcStep
  <2> QED
    BY <1>13, <2>1, <2>2 DEF TypeOK
<1>14. CASE CalculateHash
  <2>1. UNCHANGED <<ver, replacements, disk, force, buf, rec, fd, stale, history>>
    BY <1>14 DEF CalculateHash
  <2>2. pc' \in [Actors -> RecorderPCs \cup RunnerPCs]
    BY PcStep
  <2>3. contentHash' \in Versions
    BY <1>14 DEF CalculateHash, StoreFiles, TypeOK
  <2> QED
    BY <1>14, <2>1, <2>2, <2>3 DEF TypeOK
<1>15. ASSUME NEW y \in Loaded(Runner), NEW next \in RunnerNexts, RunnerLoads(y, next)
      PROVE TypeOK'
  <2>1. UNCHANGED <<ver, replacements, disk, force, fd, contentHash, stale, savesOverlap, libcRaced>>
    BY <1>15 DEF RunnerLoads
  <2>2. pc' \in [Actors -> RecorderPCs \cup RunnerPCs]
    BY PcStep
  <2>3. y \in Record \cup {NoRecord, Corrupt}
    BY <1>15, LoadedTyped
  <2>4. rec' \in [Actors -> Record \cup {NoRecord, Corrupt}]
    BY <1>15, <2>3 DEF RunnerLoads, TypeOK
  <2>5. <<>> \in Seq(Record \X Nat)
    BY EmptySeq
  <2>6. buf' \in [Actors -> Seq(Record \X Nat)]
    BY <1>15, <2>5 DEF RunnerLoads, TypeOK
  <2>7. tornRead' \in BOOLEAN
    BY <1>15 DEF RunnerLoads, TypeOK
  <2> QED
    BY <1>15, <2>1, <2>2, <2>3, <2>4, <2>5, <2>6, <2>7 DEF TypeOK
<1> HIDE DEF IInv, disk, history, Actors, Goto, RunnerNexts
<1> QED
  BY <1>1, <1>2, <1>3, <1>4, <1>5, <1>6, <1>7, <1>8, <1>9, <1>10, <1>11, <1>12, <1>13,
     <1>14, <1>15, NextCases

\* An entry stays the analysis of its key.
LEMMA StoreStep == IInv /\ [StoreNext]_storeVars => StoreInv'
<1> SUFFICES ASSUME IInv, [StoreNext]_storeVars PROVE StoreInv'
  OBVIOUS
<1> USE ActorsAssumption, VersionsAssumption, MaxReplacementsAssumption
    DEF IInv, disk, history, Actors, Goto, TypeOK, StoreInv, RecorderInv, RecorderOK
<1>1. CASE Finished \/ UNCHANGED storeVars
  BY <1>1 DEF Finished, storeVars
<1>2. ASSUME NEW f \in StoreFiles, NEW v \in Versions, Replace(f, v)
      PROVE StoreInv'
  BY <1>2 DEF Replace
<1>3. ASSUME NEW r \in Recorders, Open(r)
      PROVE StoreInv'
  BY <1>3 DEF Open, Initial
<1>4. ASSUME NEW a \in Actors, NEW label, NEW next,
             <<label, next>> \in ReadHeads(a), ReadHead(a, label, next)
      PROVE StoreInv'
  BY <1>4 DEF ReadHead
<1>5. ASSUME NEW r \in Recorders, Load(r)
      PROVE StoreInv'
  BY <1>5 DEF Load
<1>6. ASSUME NEW r \in Recorders, AnalyzeDynLibDeps(r)
      PROVE StoreInv'
  BY <1>6 DEF AnalyzeDynLibDeps
<1>7. ASSUME NEW r \in Recorders, GetOrCreate(r)
      PROVE StoreInv'
  BY <1>7 DEF GetOrCreate
<1>8. ASSUME NEW r \in Recorders, PutLibc(r)
      PROVE StoreInv'
  <2>1. \/ libcCache' = libcCache
        \/ libcCache'.hash = rec[r].libc /\ libcCache'.analysis = fd[r]
    BY <1>8 DEF PutLibc
  <2>2. fd[r] = rec[r].libc \/ libcRaced
    BY <1>8 DEF PutLibc
  <2>3. UNCHANGED <<libStore, libcRaced>>
    BY <1>8 DEF PutLibc
  <2> QED
    BY <1>8, <2>1, <2>2, <2>3
<1>9. ASSUME NEW r \in Recorders, LoadOrAnalyze(r)
      PROVE StoreInv'
  BY <1>9 DEF LoadOrAnalyze, KeyMatches
<1>10. ASSUME NEW r \in Recorders, PutLib(r)
      PROVE StoreInv'
  BY <1>10 DEF PutLib
<1>11. ASSUME NEW r \in Recorders, Truncate(r)
      PROVE StoreInv'
  BY <1>11 DEF Truncate, Truncated, Changed
<1>12. ASSUME NEW r \in Recorders, Write(r)
      PROVE StoreInv'
  BY <1>12 DEF Write, Changed
<1>13. ASSUME NEW r \in Recorders, Crash(r)
      PROVE StoreInv'
  BY <1>13 DEF Crash
<1>14. CASE CalculateHash
  BY <1>14 DEF CalculateHash
<1>15. ASSUME NEW y \in Loaded(Runner), NEW next \in RunnerNexts, RunnerLoads(y, next)
      PROVE StoreInv'
  BY <1>15 DEF RunnerLoads
<1> HIDE DEF IInv, disk, history, Actors, Goto, TypeOK, StoreInv, RecorderInv, RecorderOK
<1> QED
  BY <1>1, <1>2, <1>3, <1>4, <1>5, <1>6, <1>7, <1>8, <1>9, <1>10, <1>11, <1>12, <1>13,
     <1>14, <1>15, NextCases

\* The record a recorder builds.
LEMMA RecorderStep == IInv /\ [StoreNext]_storeVars => RecorderInv'
<1> SUFFICES ASSUME IInv, [StoreNext]_storeVars PROVE RecorderInv'
  OBVIOUS
<1> USE ActorsAssumption, VersionsAssumption, MaxReplacementsAssumption
    DEF IInv, disk, history, Actors, Goto, TypeOK, StoreInv, RecorderInv, RecorderOK,
        RecorderPCs, ReadHeads, RunnerNexts
<1>1. CASE Finished \/ UNCHANGED storeVars
  BY <1>1 DEF Finished, storeVars
<1>2. ASSUME NEW f \in StoreFiles, NEW v \in Versions, Replace(f, v)
      PROVE RecorderInv'
  BY <1>2 DEF Replace
<1>3. ASSUME NEW r \in Recorders, Open(r)
      PROVE RecorderInv'
  <2> SUFFICES ASSUME NEW q \in Recorders PROVE RecorderOK(q)'
    OBVIOUS
  <2>1. CASE q = r
    BY ZenonT(40), <1>3, <2>1, OpenCases DEF Open
  <2>2. CASE q # r
    BY <1>3, <2>2, OpenCases DEF Open
  <2> QED
    BY <2>1, <2>2
<1>4. ASSUME NEW a \in Actors, NEW label, NEW next,
             <<label, next>> \in ReadHeads(a), ReadHead(a, label, next)
      PROVE RecorderInv'
  BY <1>4 DEF ReadHead
<1>5. ASSUME NEW r \in Recorders, Load(r)
      PROVE RecorderInv'
  BY <1>5 DEF Load
<1>6. ASSUME NEW r \in Recorders, AnalyzeDynLibDeps(r)
      PROVE RecorderInv'
  <2> SUFFICES ASSUME NEW q \in Recorders PROVE RecorderOK(q)'
    OBVIOUS
  <2>1. CASE q = r
    BY ZenonT(40), <1>6, <2>1, DepsCases DEF AnalyzeDynLibDeps
  <2>2. CASE q # r
    BY <1>6, <2>2, DepsCases DEF AnalyzeDynLibDeps
  <2> QED
    BY <2>1, <2>2
<1>7. ASSUME NEW r \in Recorders, GetOrCreate(r)
      PROVE RecorderInv'
  <2> SUFFICES ASSUME NEW q \in Recorders PROVE RecorderOK(q)'
    OBVIOUS
  <2>1. CASE q = r
    <3>1. CASE rec' = rec /\ pc'[r] = "failed"
      BY <2>1, <3>1
    <3>2. CASE \E y \in Record :
         /\ rec' = [rec EXCEPT ![r] = y] /\ y.analysis = y.hash
         /\ \/ pc'[r] = "lib" /\ (y.libcAnalysis = y.libc \/ libcRaced')
            \/ /\ pc'[r] = "libcput" /\ fd'[r] = y.libcAnalysis
               /\ y.libcAnalysis = y.libc \/ libcRaced'
      <4>1. PICK y \in Record :
         /\ rec' = [rec EXCEPT ![r] = y] /\ y.analysis = y.hash
         /\ \/ pc'[r] = "lib" /\ (y.libcAnalysis = y.libc \/ libcRaced')
            \/ /\ pc'[r] = "libcput" /\ fd'[r] = y.libcAnalysis
               /\ y.libcAnalysis = y.libc \/ libcRaced'
        BY <3>2
      <4>2. rec'[r] = y
        BY <4>1
      <4> HIDE DEF RecorderInv
      <4> QED
        BY <2>1, <4>1, <4>2
    <3> QED
      BY ZenonT(40), <1>7, <3>1, <3>2, LibcCases
  <2>2. CASE q # r
    BY <1>7, <2>2, LibcCases DEF GetOrCreate
  <2> QED
    BY <2>1, <2>2
<1>8. ASSUME NEW r \in Recorders, PutLibc(r)
      PROVE RecorderInv'
  BY <1>8 DEF PutLibc
<1>9. ASSUME NEW r \in Recorders, LoadOrAnalyze(r)
      PROVE RecorderInv'
  <2> SUFFICES ASSUME NEW q \in Recorders PROVE RecorderOK(q)'
    OBVIOUS
  <2>1. CASE q = r
    <3>1. CASE /\ UNCHANGED <<rec, fd>> /\ pc' = [pc EXCEPT ![r] = "failed"]
      BY <2>1, <3>1
    <3>2. ASSUME NEW y \in Record,
                 rec' = [rec EXCEPT ![r] = y], y.analysis = y.hash,
                 y.libcAnalysis = y.libc \/ libcRaced, y.libAnalysis = y.lib,
                 \/ pc' = [pc EXCEPT ![r] = "truncate"] /\ UNCHANGED fd
                 \/ pc' = [pc EXCEPT ![r] = "libput"] /\ fd' = [fd EXCEPT ![r] = y.lib]
          PROVE  RecorderOK(q)'
      <4>1. rec'[r] = y /\ (pc'[r] = "truncate" \/ (pc'[r] = "libput" /\ fd'[r] = y.lib))
        BY <3>2
      <4>2. UNCHANGED libcRaced
        BY <1>9 DEF LoadOrAnalyze
      <4> HIDE DEF RecorderInv
      <4> QED
        BY <2>1, <3>2, <4>1, <4>2
    <3>3. TypeOK /\ StoreInv /\ RecorderOK(r)
      OBVIOUS
    <3> HIDE DEF IInv, TypeOK, StoreInv, RecorderInv, RecorderOK
    <3> QED
      BY <1>9, <3>1, <3>2, <3>3, LibCases
  <2>2. CASE q # r
    BY <1>9, <2>2, LibCases DEF LoadOrAnalyze
  <2> QED
    BY <2>1, <2>2
<1>10. ASSUME NEW r \in Recorders, PutLib(r)
      PROVE RecorderInv'
  BY <1>10 DEF PutLib
<1>11. ASSUME NEW r \in Recorders, Truncate(r)
      PROVE RecorderInv'
  BY <1>11 DEF Truncate, Truncated, Changed
<1>12. ASSUME NEW r \in Recorders, Write(r)
      PROVE RecorderInv'
  BY <1>12 DEF Write, Changed
<1>13. ASSUME NEW r \in Recorders, Crash(r)
      PROVE RecorderInv'
  BY <1>13 DEF Crash
<1>14. CASE CalculateHash
  BY <1>14 DEF CalculateHash
<1>15. ASSUME NEW y \in Loaded(Runner), NEW next \in RunnerNexts, RunnerLoads(y, next)
      PROVE RecorderInv'
  BY <1>15 DEF RunnerLoads
<1> HIDE DEF IInv, disk, history, Actors, Goto, TypeOK, StoreInv, RecorderInv, RecorderOK,
    RecorderPCs, ReadHeads, RunnerNexts
<1> QED
  BY <1>1, <1>2, <1>3, <1>4, <1>5, <1>6, <1>7, <1>8, <1>9, <1>10, <1>11, <1>12, <1>13,
     <1>14, <1>15, NextCases

\* The file holds blocks of one record.
LEMMA FileStep == IInv /\ [StoreNext]_storeVars => FileInv'
<1> SUFFICES ASSUME IInv, [StoreNext]_storeVars PROVE FileInv'
  OBVIOUS
<1> USE ActorsAssumption, VersionsAssumption, MaxReplacementsAssumption
    DEF IInv, disk, history, Actors, Goto, TypeOK, FileInv, RecorderInv, RecorderOK, Bound,
        ReadHeads, Saving
<1>1. CASE Finished \/ UNCHANGED storeVars
  BY <1>1 DEF Finished, storeVars
<1>2. ASSUME NEW f \in StoreFiles, NEW v \in Versions, Replace(f, v)
      PROVE FileInv'
  BY <1>2 DEF Replace
<1>3. ASSUME NEW r \in Recorders, Open(r)
      PROVE FileInv'
  BY <1>3 DEF Open, Initial
<1>4. ASSUME NEW a \in Actors, NEW label, NEW next,
             <<label, next>> \in ReadHeads(a), ReadHead(a, label, next)
      PROVE FileInv'
  BY <1>4 DEF ReadHead
<1>5. ASSUME NEW r \in Recorders, Load(r)
      PROVE FileInv'
  BY <1>5 DEF Load
<1>6. ASSUME NEW r \in Recorders, AnalyzeDynLibDeps(r)
      PROVE FileInv'
  BY <1>6 DEF AnalyzeDynLibDeps
<1>7. ASSUME NEW r \in Recorders, GetOrCreate(r)
      PROVE FileInv'
  BY <1>7 DEF GetOrCreate
<1>8. ASSUME NEW r \in Recorders, PutLibc(r)
      PROVE FileInv'
  BY <1>8 DEF PutLibc
<1>9. ASSUME NEW r \in Recorders, LoadOrAnalyze(r)
      PROVE FileInv'
  BY <1>9 DEF LoadOrAnalyze, KeyMatches
<1>10. ASSUME NEW r \in Recorders, PutLib(r)
      PROVE FileInv'
  BY <1>10 DEF PutLib
<1>11. ASSUME NEW r \in Recorders, Truncate(r)
      PROVE FileInv'
  <2>1. CASE UNCHANGED <<recordFile, savesOverlap>> /\ Goto(r, "failed")
    BY <1>11, <2>1 DEF Truncate
  <2>2. CASE recordFile' = <<>> /\ (savesOverlap => savesOverlap')
    <3>1. \A x \in Record : PrefixOf(<<>>, x)
      BY BlocksOfRecord DEF PrefixOf
    <3> QED
      BY <1>11, <2>2, <3>1 DEF Truncate
  <2> QED
    BY <1>11, <2>1, <2>2 DEF Truncate, Truncated
<1>12. ASSUME NEW r \in Recorders, Write(r)
      PROVE FileInv'
  <2> SUFFICES ASSUME ~savesOverlap' PROVE FileInv'
    OBVIOUS
  <2>1. recordFile = <<>> /\ ~Saving(r) /\ rec[r] \in Record
    BY <1>12 DEF Write
  <2>2. PICK n \in 0 .. Size(rec[r]) : recordFile' = RecordWritten(r, n)
    BY <1>12 DEF Write
  <2>3. PrefixOf(recordFile', rec[r])
    BY <2>1, <2>2, WrittenEmpty
  <2>4. Bound(rec[r])'
    BY <1>12 DEF Write
  <2>5. \A q \in Recorders : pc'[q] # "write"
    BY <1>12, <2>1 DEF Write
  <2> QED
    BY <1>12, <2>1, <2>3, <2>4, <2>5 DEF Write
<1>13. ASSUME NEW r \in Recorders, Crash(r)
      PROVE FileInv'
  BY <1>13 DEF Crash
<1>14. CASE CalculateHash
  BY <1>14 DEF CalculateHash
<1>15. ASSUME NEW y \in Loaded(Runner), NEW next \in RunnerNexts, RunnerLoads(y, next)
      PROVE FileInv'
  BY <1>15 DEF RunnerLoads
<1> HIDE DEF IInv, disk, history, Actors, Goto, TypeOK, FileInv, RecorderInv, RecorderOK,
    Bound, ReadHeads, Saving
<1> QED
  BY <1>1, <1>2, <1>3, <1>4, <1>5, <1>6, <1>7, <1>8, <1>9, <1>10, <1>11, <1>12, <1>13,
     <1>14, <1>15, NextCases

\* A Load between its reads.
LEMMA LoadStep == IInv /\ [StoreNext]_storeVars => LoadInv'
<1> SUFFICES ASSUME IInv, [StoreNext]_storeVars PROVE LoadInv'
  OBVIOUS
<1> USE ActorsAssumption, VersionsAssumption, MaxReplacementsAssumption
    DEF IInv, disk, history, Actors, Goto, TypeOK, LoadInv, RunnerNexts, ReadHeads,
        RecorderInv, RecorderOK, RecorderPCs
<1>1. CASE Finished \/ UNCHANGED storeVars
  BY <1>1 DEF Finished, storeVars
<1>2. ASSUME NEW f \in StoreFiles, NEW v \in Versions, Replace(f, v)
      PROVE LoadInv'
  BY <1>2 DEF Replace
<1>3. ASSUME NEW r \in Recorders, Open(r)
      PROVE LoadInv'
  BY ZenonT(40), <1>3 DEF Open, Initial
<1>4. ASSUME NEW a \in Actors, NEW label, NEW next,
             <<label, next>> \in ReadHeads(a), ReadHead(a, label, next)
      PROVE LoadInv'
  BY <1>4 DEF ReadHead
<1>5. ASSUME NEW r \in Recorders, Load(r)
      PROVE LoadInv'
  BY <1>5 DEF Load
<1>6. ASSUME NEW r \in Recorders, AnalyzeDynLibDeps(r)
      PROVE LoadInv'
  BY ZenonT(40), <1>6 DEF AnalyzeDynLibDeps
<1>7. ASSUME NEW r \in Recorders, GetOrCreate(r)
      PROVE LoadInv'
  BY ZenonT(40), <1>7 DEF GetOrCreate
<1>8. ASSUME NEW r \in Recorders, PutLibc(r)
      PROVE LoadInv'
  BY ZenonT(40), <1>8 DEF PutLibc
<1>9. ASSUME NEW r \in Recorders, LoadOrAnalyze(r)
      PROVE LoadInv'
  BY ZenonT(40), <1>9 DEF LoadOrAnalyze, KeyMatches
<1>10. ASSUME NEW r \in Recorders, PutLib(r)
      PROVE LoadInv'
  BY <1>10 DEF PutLib
<1>11. ASSUME NEW r \in Recorders, Truncate(r)
      PROVE LoadInv'
  <2> SUFFICES ASSUME NEW a \in Actors, pc'[a] \in {"rest", "rest1", "rest2", "rest3"}, ~stale'[a]
               PROVE  buf'[a] = IF recordFile' = <<>> THEN <<>> ELSE <<Head(recordFile')>>
    OBVIOUS
  <2>1. a # r /\ pc'[a] = pc[a]
    BY <1>11, TruncateCases
  <2>2. UNCHANGED <<recordFile, stale, buf>>
    BY <1>11, <2>1, TruncateCases DEF Truncate
  <2> QED
    BY <2>1, <2>2
<1>12. ASSUME NEW r \in Recorders, Write(r)
      PROVE LoadInv'
  BY ZenonT(40), <1>12 DEF Write, Changed
<1>13. ASSUME NEW r \in Recorders, Crash(r)
      PROVE LoadInv'
  BY <1>13 DEF Crash
<1>14. CASE CalculateHash
  BY <1>14 DEF CalculateHash
<1>15. ASSUME NEW y \in Loaded(Runner), NEW next \in RunnerNexts, RunnerLoads(y, next)
      PROVE LoadInv'
  BY <1>15 DEF RunnerLoads
<1> HIDE DEF IInv, disk, history, Actors, Goto, TypeOK, LoadInv, RunnerNexts, ReadHeads,
    RecorderInv, RecorderOK, RecorderPCs
<1> QED
  BY <1>1, <1>2, <1>3, <1>4, <1>5, <1>6, <1>7, <1>8, <1>9, <1>10, <1>11, <1>12, <1>13,
     <1>14, <1>15, NextCases

\* A recorder that has looked.
LEMMA LookedStep == IInv /\ [StoreNext]_storeVars => LookedInv'
<1> SUFFICES ASSUME IInv, [StoreNext]_storeVars PROVE LookedInv'
  OBVIOUS
<1> USE ActorsAssumption, VersionsAssumption, MaxReplacementsAssumption
    DEF IInv, disk, history, Actors, Goto, TypeOK, LookedInv, MayUpdate, ReadHeads
<1>1. CASE Finished \/ UNCHANGED storeVars
  BY <1>1 DEF Finished, storeVars
<1>2. ASSUME NEW f \in StoreFiles, NEW v \in Versions, Replace(f, v)
      PROVE LookedInv'
  BY <1>2 DEF Replace
<1>3. ASSUME NEW r \in Recorders, Open(r)
      PROVE LookedInv'
  BY <1>3 DEF Open, Initial
<1>4. ASSUME NEW a \in Actors, NEW label, NEW next,
             <<label, next>> \in ReadHeads(a), ReadHead(a, label, next)
      PROVE LookedInv'
  BY <1>4 DEF ReadHead
<1>5. ASSUME NEW r \in Recorders, Load(r)
      PROVE LookedInv'
  <2> HIDE DEF IInv, TypeOK, LookedInv, MayUpdate, Goto
  <2>1. PICK y \in Loaded(r) : \/ MayUpdate(r, y) /\ Goto(r, "deps")
                               \/ ~MayUpdate(r, y) /\ Goto(r, "failed")
    BY <1>5, LoadCases
  <2>2. ASSUME ~stale[r], NEW x \in Record, recordFile = Blocks(x) PROVE y = x
    <3>1. Loaded(r) = Parse(recordFile)
      BY <1>5, <2>2, LoadedUnchanged DEF IInv, Load, LoadInv
    <3> QED
      BY <2>2, <3>1, ParseBlocks
  <2>3. UNCHANGED <<recordFile, stale, force>>
    BY <1>5 DEF Load
  <2> QED
    BY ZenonT(40), <1>5, <2>1, <2>2, <2>3 DEF IInv, TypeOK, LookedInv, MayUpdate, Goto
<1>6. ASSUME NEW r \in Recorders, AnalyzeDynLibDeps(r)
      PROVE LookedInv'
  BY <1>6 DEF AnalyzeDynLibDeps
<1>7. ASSUME NEW r \in Recorders, GetOrCreate(r)
      PROVE LookedInv'
  BY <1>7 DEF GetOrCreate
<1>8. ASSUME NEW r \in Recorders, PutLibc(r)
      PROVE LookedInv'
  BY <1>8 DEF PutLibc
<1>9. ASSUME NEW r \in Recorders, LoadOrAnalyze(r)
      PROVE LookedInv'
  BY <1>9 DEF LoadOrAnalyze, KeyMatches
<1>10. ASSUME NEW r \in Recorders, PutLib(r)
      PROVE LookedInv'
  BY <1>10 DEF PutLib
<1>11. ASSUME NEW r \in Recorders, Truncate(r)
      PROVE LookedInv'
  <2> SUFFICES ASSUME NEW q \in Recorders, ~stale'[q], NEW x \in Record, recordFile' = Blocks(x),
                      pc'[q] \in {"deps", "libc", "libcput", "lib", "libput", "truncate"}
               PROVE  MayUpdate(q, x)'
    OBVIOUS
  <2>1. q # r /\ pc'[q] = pc[q]
    BY <1>11, TruncateCases
  <2>2. UNCHANGED <<recordFile, stale, force>>
    BY <1>11, <2>1, TruncateCases DEF Truncate
  <2> QED
    BY <2>1, <2>2
<1>12. ASSUME NEW r \in Recorders, Write(r)
      PROVE LookedInv'
  <2>1. pc'[r] \in {"done", "failed", "crashed"} /\ \A a \in Actors \ {r} : stale'[a]
    BY <1>12 DEF Write, Changed
  <2>2. \A q \in Recorders \ {r} : pc'[q] = pc[q]
    BY <1>12 DEF Write
  <2> QED
    BY <2>1, <2>2
<1>13. ASSUME NEW r \in Recorders, Crash(r)
      PROVE LookedInv'
  BY <1>13 DEF Crash
<1>14. CASE CalculateHash
  BY <1>14 DEF CalculateHash
<1>15. ASSUME NEW y \in Loaded(Runner), NEW next \in RunnerNexts, RunnerLoads(y, next)
      PROVE LookedInv'
  BY <1>15 DEF RunnerLoads
<1> HIDE DEF IInv, disk, history, Actors, Goto, TypeOK, LookedInv, MayUpdate, ReadHeads
<1> QED
  BY <1>1, <1>2, <1>3, <1>4, <1>5, <1>6, <1>7, <1>8, <1>9, <1>10, <1>11, <1>12, <1>13,
     <1>14, <1>15, NextCases

\* A recorder that succeeded.
LEMMA SuccessStep == IInv /\ [StoreNext]_storeVars => SuccessMeansRecorded'
<1> SUFFICES ASSUME IInv, [StoreNext]_storeVars PROVE SuccessMeansRecorded'
  OBVIOUS
<1> USE ActorsAssumption, VersionsAssumption, MaxReplacementsAssumption
    DEF IInv, disk, history, Actors, Goto, TypeOK, SuccessMeansRecorded, FileInv,
        RecorderInv, RecorderOK, ReadHeads
<1>1. CASE Finished \/ UNCHANGED storeVars
  BY <1>1 DEF Finished, storeVars
<1>2. ASSUME NEW f \in StoreFiles, NEW v \in Versions, Replace(f, v)
      PROVE SuccessMeansRecorded'
  BY <1>2 DEF Replace
<1>3. ASSUME NEW r \in Recorders, Open(r)
      PROVE SuccessMeansRecorded'
  <2> SUFFICES ASSUME NEW q \in Recorders, pc'[q] = "done", ~stale'[q], ~savesOverlap'
               PROVE  recordFile' = Blocks(rec'[q])
    OBVIOUS
  <2>1. q # r /\ pc'[q] = pc[q] /\ rec'[q] = rec[q]
    BY <1>3, OpenCases
  <2>2. UNCHANGED <<recordFile, stale, savesOverlap>>
    BY <1>3 DEF Open
  <2> QED
    BY <2>1, <2>2
<1>4. ASSUME NEW a \in Actors, NEW label, NEW next,
             <<label, next>> \in ReadHeads(a), ReadHead(a, label, next)
      PROVE SuccessMeansRecorded'
  BY <1>4 DEF ReadHead
<1>5. ASSUME NEW r \in Recorders, Load(r)
      PROVE SuccessMeansRecorded'
  BY <1>5 DEF Load
<1>6. ASSUME NEW r \in Recorders, AnalyzeDynLibDeps(r)
      PROVE SuccessMeansRecorded'
  BY <1>6 DEF AnalyzeDynLibDeps
<1>7. ASSUME NEW r \in Recorders, GetOrCreate(r)
      PROVE SuccessMeansRecorded'
  BY <1>7 DEF GetOrCreate
<1>8. ASSUME NEW r \in Recorders, PutLibc(r)
      PROVE SuccessMeansRecorded'
  BY <1>8 DEF PutLibc
<1>9. ASSUME NEW r \in Recorders, LoadOrAnalyze(r)
      PROVE SuccessMeansRecorded'
  BY <1>9 DEF LoadOrAnalyze, KeyMatches
<1>10. ASSUME NEW r \in Recorders, PutLib(r)
      PROVE SuccessMeansRecorded'
  BY <1>10 DEF PutLib
<1>11. ASSUME NEW r \in Recorders, Truncate(r)
      PROVE SuccessMeansRecorded'
  BY <1>11 DEF Truncate, Truncated, Changed
<1>12. ASSUME NEW r \in Recorders, Write(r)
      PROVE SuccessMeansRecorded'
  <2> SUFFICES ASSUME NEW q \in Recorders, pc'[q] = "done", ~stale'[q], ~savesOverlap'
               PROVE  recordFile' = Blocks(rec'[q])
    OBVIOUS
  <2>1. q = r
    BY <1>12 DEF Write, Changed
  <2>2. recordFile = <<>> /\ rec[r] \in Record /\ rec' = rec
    BY <1>12 DEF Write
  <2>3. recordFile' = RecordWritten(r, Size(rec[r]))
    BY <1>12, <2>1 DEF Write
  <2>4. Size(rec[r]) \in 0 .. Size(rec[r])
    BY <2>2, BlocksOfRecord
  <2> QED
    BY <2>1, <2>2, <2>3, <2>4, WrittenEmpty
<1>13. ASSUME NEW r \in Recorders, Crash(r)
      PROVE SuccessMeansRecorded'
  BY <1>13 DEF Crash
<1>14. CASE CalculateHash
  BY <1>14 DEF CalculateHash
<1>15. ASSUME NEW y \in Loaded(Runner), NEW next \in RunnerNexts, RunnerLoads(y, next)
      PROVE SuccessMeansRecorded'
  BY <1>15 DEF RunnerLoads
<1> HIDE DEF IInv, disk, history, Actors, Goto, TypeOK, SuccessMeansRecorded, FileInv,
    RecorderInv, RecorderOK, ReadHeads
<1> QED
  BY <1>1, <1>2, <1>3, <1>4, <1>5, <1>6, <1>7, <1>8, <1>9, <1>10, <1>11, <1>12, <1>13,
     <1>14, <1>15, NextCases

\* A command is classified by bound analyses.
LEMMA ClassifiedStep == IInv /\ [StoreNext]_storeVars => ClassifiedByBoundAnalysis'
<1> SUFFICES ASSUME IInv, [StoreNext]_storeVars PROVE ClassifiedByBoundAnalysis'
  OBVIOUS
<1> USE ActorsAssumption, VersionsAssumption, MaxReplacementsAssumption
    DEF IInv, disk, history, Actors, Goto, TypeOK, ClassifiedByBoundAnalysis, ReadHeads
<1>1. CASE Finished \/ UNCHANGED storeVars
  BY <1>1 DEF Finished, storeVars
<1>2. ASSUME NEW f \in StoreFiles, NEW v \in Versions, Replace(f, v)
      PROVE ClassifiedByBoundAnalysis'
  BY <1>2 DEF Replace
<1>3. ASSUME NEW r \in Recorders, Open(r)
      PROVE ClassifiedByBoundAnalysis'
  BY <1>3 DEF Open, Initial
<1>4. ASSUME NEW a \in Actors, NEW label, NEW next,
             <<label, next>> \in ReadHeads(a), ReadHead(a, label, next)
      PROVE ClassifiedByBoundAnalysis'
  BY <1>4 DEF ReadHead
<1>5. ASSUME NEW r \in Recorders, Load(r)
      PROVE ClassifiedByBoundAnalysis'
  BY <1>5 DEF Load
<1>6. ASSUME NEW r \in Recorders, AnalyzeDynLibDeps(r)
      PROVE ClassifiedByBoundAnalysis'
  BY <1>6 DEF AnalyzeDynLibDeps
<1>7. ASSUME NEW r \in Recorders, GetOrCreate(r)
      PROVE ClassifiedByBoundAnalysis'
  BY <1>7 DEF GetOrCreate
<1>8. ASSUME NEW r \in Recorders, PutLibc(r)
      PROVE ClassifiedByBoundAnalysis'
  BY <1>8 DEF PutLibc
<1>9. ASSUME NEW r \in Recorders, LoadOrAnalyze(r)
      PROVE ClassifiedByBoundAnalysis'
  BY <1>9 DEF LoadOrAnalyze, KeyMatches
<1>10. ASSUME NEW r \in Recorders, PutLib(r)
      PROVE ClassifiedByBoundAnalysis'
  BY <1>10 DEF PutLib
<1>11. ASSUME NEW r \in Recorders, Truncate(r)
      PROVE ClassifiedByBoundAnalysis'
  BY <1>11 DEF Truncate, Truncated, Changed
<1>12. ASSUME NEW r \in Recorders, Write(r)
      PROVE ClassifiedByBoundAnalysis'
  BY <1>12 DEF Write, Changed
<1>13. ASSUME NEW r \in Recorders, Crash(r)
      PROVE ClassifiedByBoundAnalysis'
  BY <1>13 DEF Crash
<1>14. CASE CalculateHash
  BY <1>14 DEF CalculateHash
<1>15. ASSUME NEW y \in Loaded(Runner), NEW next \in RunnerNexts, RunnerLoads(y, next)
      PROVE ClassifiedByBoundAnalysis'
  <2> SUFFICES ASSUME next = "classified", ~tornRead', ~savesOverlap'
               PROVE  ClassifiedByBoundAnalysis'
    BY <1>15 DEF RunnerLoads
  <2>1. Loaded(Runner) = Parse(recordFile)
    BY <1>15, LoadedUnchanged DEF RunnerLoads, LoadInv
  <2>2. PICK x \in Record : Bound(x) /\ PrefixOf(recordFile, x)
    BY <1>15 DEF RunnerLoads, FileInv
  <2>3. y.kind = "current" /\ y.hash = contentHash
    BY <1>15 DEF RunnerLoads, HashOK
  <2>4. y \notin {NoRecord, Corrupt}
    BY <2>3 DEF NoRecord, Corrupt
  <2>5. y = x
    BY <2>1, <2>2, <2>4, ParsePrefix
  <2>6. rec'[Runner] = y /\ UNCHANGED <<contentHash, libcRaced>>
    BY <1>15 DEF RunnerLoads
  <2> QED
    BY <2>2, <2>3, <2>5, <2>6 DEF Bound
<1> HIDE DEF IInv, disk, history, Actors, Goto, TypeOK, ClassifiedByBoundAnalysis, ReadHeads
<1> QED
  BY <1>1, <1>2, <1>3, <1>4, <1>5, <1>6, <1>7, <1>8, <1>9, <1>10, <1>11, <1>12, <1>13,
     <1>14, <1>15, NextCases

\* The inductive invariant holds in every reachable state.
LEMMA Inductive == StoreSpec => []IInv
<1>1. StoreInit => IInv
  <2> SUFFICES ASSUME StoreInit PROVE IInv
    OBVIOUS
  <2>1. \/ recordFile = <<>>
        \/ \E kind \in Kinds : recordFile = Blocks(Initial(kind))
    BY DEF StoreInit
  <2>2. \A kind \in Kinds :
           /\ Blocks(Initial(kind)) \in Seq(Record \X Nat)
           /\ PrefixOf(Blocks(Initial(kind)), Initial(kind))
           /\ Initial(kind) \in Record /\ Bound(Initial(kind))
    <3>1. \A kind \in Kinds : Initial(kind) \in Record
      BY InitialRecord
    <3>2. \A kind \in Kinds : Bound(Initial(kind))
      BY DEF Bound, Initial
    <3>3. \A kind \in Kinds : /\ Blocks(Initial(kind)) \in Seq(Record \X Nat)
                              /\ PrefixOf(Blocks(Initial(kind)), Initial(kind))
      <4> SUFFICES ASSUME NEW kind \in Kinds
                   PROVE  /\ Blocks(Initial(kind)) \in Seq(Record \X Nat)
                          /\ PrefixOf(Blocks(Initial(kind)), Initial(kind))
        OBVIOUS
      <4> DEFINE x == Initial(kind)
      <4>1. x \in Record
        BY <3>1
      <4> HIDE DEF x
      <4>2. x \in Record => Blocks(x) \in Seq(Record \X Nat) /\ PrefixOf(Blocks(x), x)
        BY SMTT(30), BlocksOfRecord DEF PrefixOf
      <4> QED
        BY <4>1, <4>2 DEF x
    <3> QED
      BY <3>1, <3>2, <3>3
  <2>3. recordFile \in Seq(Record \X Nat)
    <3>1. <<>> \in Seq(Record \X Nat)
      BY EmptySeq
    <3> QED
      BY <2>1, <2>2, <3>1
  <2>4. \E x \in Record : Bound(x) /\ PrefixOf(recordFile, x)
    <3>1. CASE recordFile = <<>>
      <4>1. "older" \in Kinds
        BY DEF Kinds
      <4>2. Len(recordFile) = 0
        BY <3>1
      <4>3. PrefixOf(recordFile, Initial("older"))
        BY <2>2, <4>1, <4>2, BlocksOfRecord DEF PrefixOf
      <4> QED
        BY <2>2, <4>1, <4>3
    <3>2. CASE recordFile # <<>>
      BY <2>1, <2>2, <3>2
    <3> QED
      BY <3>1, <3>2
  <2>5. TypeOK
    <3>1. <<>> \in Seq(Record \X Nat)
      BY EmptySeq
    <3>2. buf \in [Actors -> Seq(Record \X Nat)]
      BY <3>1 DEF StoreInit
    <3>3. rec \in [Actors -> Record \cup {NoRecord, Corrupt}]
      BY DEF StoreInit
    <3>4. replacements \in 0 .. MaxReplacements /\ ver \in [StoreFiles -> Versions]
      BY VersionsAssumption, MaxReplacementsAssumption DEF StoreInit
    <3>5. pc \in [Actors -> RecorderPCs \cup RunnerPCs]
      BY DEF StoreInit, RecorderPCs, RunnerPCs
    <3>6. fd \in [Recorders -> Versions \cup {0}] /\ contentHash \in Versions \cup {0}
      BY DEF StoreInit
    <3>7. stale \in [Actors -> BOOLEAN]
      BY DEF StoreInit
    <3> QED
      BY <2>3, <3>2, <3>3, <3>4, <3>5, <3>6, <3>7, Zenon DEF StoreInit, TypeOK
  <2>6. pc[Runner] = "hash" /\ \A r \in Recorders : pc[r] = "open"
    BY ActorsAssumption DEF StoreInit, Actors
  <2>7. StoreInv
    BY DEF StoreInit, StoreInv, NoLibEntry
  <2>8. \A a \in Actors : pc[a] \in {"hash", "open"}
    BY DEF StoreInit
  <2>9. RecorderInv /\ LookedInv /\ SuccessMeansRecorded
    BY <2>6 DEF RecorderInv, RecorderOK, RecorderPCs, LookedInv, SuccessMeansRecorded
  <2>10. FileInv
    BY <2>4, <2>6 DEF FileInv
  <2>11. LoadInv
    BY <2>8 DEF LoadInv
  <2>12. ClassifiedByBoundAnalysis /\ pc[Runner] \in RunnerPCs
    BY <2>6 DEF ClassifiedByBoundAnalysis, RunnerPCs
  <2> QED
    BY <2>5, <2>7, <2>9, <2>10, <2>11, <2>12 DEF IInv
<1>2. IInv /\ [StoreNext]_storeVars => IInv'
  BY RunnerStep, TypeStep, StoreStep, RecorderStep, FileStep, LoadStep, LookedStep,
     SuccessStep, ClassifiedStep
  DEF IInv
<1> QED
  BY <1>1, <1>2, PTL DEF StoreSpec

\* Every variable keeps its type: whatever blocks two recorders leave in the
\* file, a Load makes a record, none or a corrupt one of them.
THEOREM TypeCorrect == StoreSpec => []TypeOK
<1>1. IInv => TypeOK
  BY DEF IInv
<1> QED
  BY <1>1, Inductive, PTL

\* The analyses that classify a command are those of the verified content and
\* of the recorded libraries, for any number of recorders that crash anywhere,
\* unless the record was written by two of them at once or during the read.
THEOREM ClassifiedTheorem == StoreSpec => []ClassifiedByBoundAnalysis
<1>1. IInv => ClassifiedByBoundAnalysis
  BY DEF IInv
<1> QED
  BY <1>1, Inductive, PTL

\* A record command that reports success has left its record in place.
THEOREM RecordedTheorem == StoreSpec => []SuccessMeansRecorded
<1>1. IInv => SuccessMeansRecorded
  BY DEF IInv
<1> QED
  BY <1>1, Inductive, PTL

\* No record command destroys a complete record that it may not replace,
\* unless it was completed after the command had looked: an action property,
\* from LookedInv before the step that empties the file.
THEOREM ProtectedTheorem == StoreSpec => ProtectedRecordsKept
<1> DEFINE Kept == \A r \in Recorders :
              (pc[r] = "truncate" /\ pc'[r] = "write" /\ recordFile # <<>>) =>
                  LET x == Head(recordFile)[1]
                  IN  recordFile = Blocks(x) => Replaceable(r, x)
<1>1. IInv /\ [StoreNext]_storeVars => [Kept]_storeVars
  <2> SUFFICES ASSUME IInv, NEW r \in Recorders, pc[r] = "truncate", recordFile # <<>>,
                      recordFile = Blocks(Head(recordFile)[1])
               PROVE  Replaceable(r, Head(recordFile)[1])
    OBVIOUS
  <2> DEFINE x == Head(recordFile)[1]
  <2>1. x \in Record
    BY EndsOfBlocks DEF IInv, TypeOK
  <2>2. stale[r] \/ MayUpdate(r, x)
    BY <2>1 DEF IInv, LookedInv
  <2>3. x.kind \in Kinds
    BY <2>1 DEF Record
  <2> QED
    BY <2>2, <2>3 DEF MayUpdate, Replaceable, Kinds
<1>2. StoreSpec => [][Kept]_storeVars
  BY <1>1, Inductive, PTL DEF StoreSpec
<1> QED
  BY <1>2 DEF ProtectedRecordsKept
=============================================================================
