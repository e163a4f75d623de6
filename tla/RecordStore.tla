------------------------------ MODULE RecordStore ------------------------------
(***************************************************************************)
(* The hash directory shared by processes that know nothing of each other: *)
(* record commands (cmd/record, Validator.SaveRecord of                    *)
(* internal/filevalidator, Store.Update of internal/fileanalysis, the      *)
(* library analysis store of internal/dynamicanalysis and the libc cache   *)
(* of internal/libccache) and a runner that verifies the recorded command   *)
(* and classifies it by its recorded analysis (internal/verification and   *)
(* NetworkAnalyzer of internal/runner/base/security).                      *)
(*                                                                         *)
(* A file is known by the version of its content, which is also its hash   *)
(* and what an analysis of it yields.  The command depends on libc and on  *)
(* one more library.  Other processes replace files as package managers do, *)
(* by renaming: an open descriptor keeps its version.  A record is written *)
(* in place, as blocks that a crash or an error may cut short.             *)
(***************************************************************************)
EXTENDS Integers, Sequences

CONSTANTS
    Recorders,       \* record commands for the same file
    Runner,          \* the runner
    Versions,        \* versions of a file's content; files start with 1
    MaxReplacements  \* bound on the replacements by other processes

ASSUME ActorsAssumption == Runner \notin Recorders
ASSUME VersionsAssumption == Versions \subseteq Nat \ {0} /\ 1 \in Versions
ASSUME MaxReplacementsAssumption == MaxReplacements \in Nat

VARIABLES
    ver,           \* version each file has now
    replacements,  \* replacements so far
    recordFile,    \* blocks of the record of the command; <<>> when there is none
    libStore,      \* entry of the library in the analysis store
    libcCache,     \* entry of libc in the libc cache
    force,         \* per recorder: the flag -force
    pc,            \* per actor: next step
    buf,           \* per actor: blocks read so far by Load
    rec,           \* per actor: the record built, or the record loaded
    fd,            \* per recorder: version of the library file opened last
    contentHash,   \* of the runner: the verified hash, 0 before
    stale,         \* history, per actor: recordFile changed since it was read
    tornRead,      \* history: it changed between two reads of one Load of the runner
    savesOverlap,  \* history: two recorders wrote at the same time
    libcRaced      \* history: libc was replaced between its hash and its analysis

storeVars == <<ver, replacements, recordFile, libStore, libcCache, force, pc, buf, rec,
               fd, contentHash, stale, tornRead, savesOverlap, libcRaced>>

disk    == <<recordFile, libStore, libcCache>>
history == <<tornRead, savesOverlap, libcRaced>>

StoreFiles == {"target", "lib", "libc"}
Actors     == Recorders \cup {Runner}

\* Records by what Load makes of them: of this schema and path, of an older or
\* a newer schema, or of another path with the same record name.
Kinds  == {"current", "older", "newer", "other"}
Record == [kind : Kinds, hash : Versions, analysis : Versions,
           lib : Versions, libAnalysis : Versions,
           libc : Versions, libcAnalysis : Versions]

Entry   == [hash : Versions, analysis : Versions]
NoLibEntry == [hash |-> 0, analysis |-> 0]
NoRecord == [kind |-> "none"]
Corrupt  == [kind |-> "corrupt"]

RecorderPCs == {"open", "head", "rest", "deps", "libc", "libcput", "lib", "libput",
                "truncate", "write", "done", "failed", "crashed"}
RunnerPCs   == {"hash", "head1", "rest1", "head2", "rest2", "head3", "rest3",
                "refused", "uncertain", "classified"}

\* A record of a version with more dependencies is longer.
Size(r) == r.hash + 1
Blocks(r) == [i \in 1 .. Size(r) |-> <<r, i>>]

\* What json.Unmarshal may make of blocks: a whole record, nothing, or, when
\* the blocks of two records happen to fit together, the hash of the first
\* with the analyses of the second.
Parse(blocks) ==
    IF blocks = <<>> THEN {NoRecord, Corrupt}
    ELSE LET a == Head(blocks)[1]
             b == blocks[Len(blocks)][1]
         IN  IF blocks = Blocks(a) THEN {a}
             ELSE IF Head(blocks)[2] = 1 /\ a # b /\ blocks[Len(blocks)][2] = Size(b)
                  THEN {Corrupt, [b EXCEPT !.kind = a.kind, !.hash = a.hash]}
                  ELSE {Corrupt}

Initial(kind) == [kind |-> kind, hash |-> 1, analysis |-> 1, lib |-> 1,
                  libAnalysis |-> 1, libc |-> 1, libcAnalysis |-> 1]

StoreInit ==
    /\ ver = [f \in StoreFiles |-> 1] /\ replacements = 0
    /\ recordFile \in {<<>>} \cup {Blocks(Initial(kind)) : kind \in Kinds}
    /\ libStore = NoLibEntry /\ libcCache = NoLibEntry
    /\ force \in [Recorders -> BOOLEAN]
    /\ pc = [a \in Actors |-> IF a = Runner THEN "hash" ELSE "open"]
    /\ buf = [a \in Actors |-> <<>>]
    /\ rec = [a \in Actors |-> NoRecord]
    /\ fd = [a \in Recorders |-> 0] /\ contentHash = 0
    /\ stale = [a \in Actors |-> FALSE]
    /\ tornRead = FALSE /\ savesOverlap = FALSE /\ libcRaced = FALSE

\* Another process installs another version of a file.
Replace(f, v) ==
    /\ replacements < MaxReplacements /\ ver[f] # v
    /\ ver' = [ver EXCEPT ![f] = v] /\ replacements' = replacements + 1
    /\ UNCHANGED <<disk, force, pc, buf, rec, fd, contentHash, stale, history>>

-----------------------------------------------------------------------------

Goto(a, label) == pc' = [pc EXCEPT ![a] = label]

\* Store.Load reads the file with several read calls: the first one ...
ReadHead(a, label, next) ==
    /\ pc[a] = label /\ Goto(a, next)
    /\ buf' = [buf EXCEPT ![a] = IF recordFile = <<>> THEN <<>> ELSE <<Head(recordFile)>>]
    /\ stale' = [stale EXCEPT ![a] = FALSE]
    /\ UNCHANGED <<ver, replacements, disk, force, rec, fd, contentHash, history>>

\* ... and the others, which go on where the first one ended.
Loaded(a) ==
    Parse(buf[a] \o SubSeq(recordFile, Len(buf[a]) + 1, Len(recordFile)))

-----------------------------------------------------------------------------
(* Validator.SaveRecord. *)

\* validatePath, SafeOpenFile and the check of the shebang line; the hash and
\* every analysis of the command read this descriptor.
Open(r) ==
    /\ pc[r] = "open"
    /\ \/ /\ Goto(r, "head")
          /\ rec' = [rec EXCEPT ![r] = [Initial("current") EXCEPT
                        !.hash = ver["target"], !.analysis = ver["target"]]]
       \/ Goto(r, "failed") /\ UNCHANGED rec
    /\ UNCHANGED <<ver, replacements, disk, force, buf, fd, contentHash, stale, history>>

\* Mutant: a record of a newer program is treated like one of an older.
BugMayUpdate(r, loaded) ==
    loaded.kind \in {"none", "corrupt", "older", "newer"} \/ (loaded.kind = "current" /\ force[r])
\* Store.Update and the callback of updateAnalysisRecord: a newer schema, the
\* record of another path, and without -force a record of this path refuse.
MayUpdate(r, loaded) ==
    loaded.kind \in {"none", "corrupt", "older"} \/ (loaded.kind = "current" /\ force[r])

Load(r) ==
    /\ pc[r] = "rest"
    /\ \E loaded \in Loaded(r) :
          \/ MayUpdate(r, loaded) /\ Goto(r, "deps")
          \/ ~MayUpdate(r, loaded) /\ Goto(r, "failed")
    /\ buf' = [buf EXCEPT ![r] = <<>>]
    /\ UNCHANGED <<ver, replacements, disk, force, rec, fd, contentHash, stale, history>>

\* analyzeDynLibDeps: the hashes of the libraries; any analysis may fail.
AnalyzeDynLibDeps(r) ==
    /\ pc[r] = "deps"
    /\ \/ /\ Goto(r, "libc")
          /\ rec' = [rec EXCEPT ![r].lib = ver["lib"], ![r].libc = ver["libc"]]
       \/ Goto(r, "failed") /\ UNCHANGED rec
    /\ UNCHANGED <<ver, replacements, disk, force, buf, fd, contentHash, stale, history>>

\* Mutant: the entry is stored before libc is analyzed.
BugGetOrCreate(r) ==
    /\ pc[r] = "libc" /\ Goto(r, "libcput")
    /\ UNCHANGED <<ver, replacements, disk, force, buf, rec, fd, contentHash, stale, history>>

\* LibcCacheManager.GetOrCreate: a hit, or libc is opened and analyzed; its
\* hash is not compared with the key.
GetOrCreate(r) ==
    /\ pc[r] = "libc"
    /\ \/ /\ libcCache.hash = rec[r].libc
          /\ rec' = [rec EXCEPT ![r].libcAnalysis = libcCache.analysis]
          /\ Goto(r, "lib") /\ UNCHANGED <<fd, libcRaced>>
       \/ /\ libcCache.hash # rec[r].libc
          /\ fd' = [fd EXCEPT ![r] = ver["libc"]]
          /\ rec' = [rec EXCEPT ![r].libcAnalysis = ver["libc"]]
          /\ libcRaced' = (libcRaced \/ ver["libc"] # rec[r].libc)
          /\ Goto(r, "libcput")
       \/ Goto(r, "failed") /\ UNCHANGED <<rec, fd, libcRaced>>
    /\ UNCHANGED <<ver, replacements, disk, force, buf, contentHash, stale, tornRead, savesOverlap>>

\* writeFileAtomic of the cache; its failure fails the record.
PutLibc(r) ==
    /\ pc[r] = "libcput"
    /\ \/ /\ libcCache' = [hash |-> rec[r].libc, analysis |-> fd[r]]
          /\ Goto(r, "lib")
       \/ Goto(r, "failed") /\ UNCHANGED libcCache
    /\ UNCHANGED <<ver, replacements, recordFile, libStore, force, buf, rec, fd, contentHash,
                   stale, history>>

\* Mutant: the opened library is not compared with the key.
BugKeyMatches(r) == TRUE
\* LoadOrAnalyzeAndStore: the hash of the opened library is that of the key.
KeyMatches(r) == ver["lib"] = rec[r].lib

\* loadOrAnalyzeLibrary: a hit, or one descriptor for the hash and the analysis.
LoadOrAnalyze(r) ==
    /\ pc[r] = "lib"
    /\ \/ /\ libStore.hash = rec[r].lib
          /\ rec' = [rec EXCEPT ![r].libAnalysis = libStore.analysis]
          /\ Goto(r, "truncate") /\ UNCHANGED fd
       \/ /\ libStore.hash # rec[r].lib /\ KeyMatches(r)
          /\ fd' = [fd EXCEPT ![r] = ver["lib"]]
          /\ rec' = [rec EXCEPT ![r].libAnalysis = ver["lib"]]
          /\ Goto(r, "libput")
       \/ Goto(r, "failed") /\ UNCHANGED <<rec, fd>>
    /\ UNCHANGED <<ver, replacements, disk, force, buf, contentHash, stale, history>>

\* saveResult; its failure is a warning.
PutLib(r) ==
    /\ pc[r] = "libput" /\ Goto(r, "truncate")
    /\ \/ libStore' = [hash |-> rec[r].lib, analysis |-> fd[r]]
       \/ UNCHANGED libStore
    /\ UNCHANGED <<ver, replacements, recordFile, libcCache, force, buf, rec, fd, contentHash,
                   stale, history>>

Saving(r) == \E s \in Recorders \ {r} : pc[s] = "write"

Changed(r) == stale' = [a \in Actors |-> a # r \/ stale[a]]

\* Mutant: the file is opened without being truncated.
BugTruncated == recordFile
\* SafeWriteFileOverwrite empties the file after its permission checks ...
Truncated == <<>>

Truncate(r) ==
    /\ pc[r] = "truncate"
    /\ \/ /\ recordFile' = Truncated /\ Goto(r, "write")
          /\ Changed(r)
          /\ savesOverlap' = (savesOverlap \/ Saving(r))
       \/ Goto(r, "failed") /\ UNCHANGED <<recordFile, stale, savesOverlap>>
    /\ UNCHANGED <<ver, replacements, libStore, libcCache, force, buf, rec, fd, contentHash,
                   tornRead, libcRaced>>

\* The file after the first n blocks of r's record were written at its start.
RecordWritten(r, n) ==
    SubSeq(Blocks(rec[r]), 1, n) \o SubSeq(recordFile, n + 1, Len(recordFile))

\* ... and writes; an error or a crash may leave a part.
Write(r) ==
    /\ pc[r] = "write"
    /\ \E n \in 0 .. Size(rec[r]) :
          /\ recordFile' = RecordWritten(r, n)
          /\ IF n = Size(rec[r]) THEN Goto(r, "done")
                                 ELSE Goto(r, "failed") \/ Goto(r, "crashed")
    /\ Changed(r)
    /\ savesOverlap' = (savesOverlap \/ Saving(r))
    /\ UNCHANGED <<ver, replacements, libStore, libcCache, force, buf, rec, fd, contentHash,
                   tornRead, libcRaced>>

\* The record command is killed.
Crash(r) ==
    /\ pc[r] \notin {"done", "failed", "crashed"}
    /\ Goto(r, "crashed")
    /\ UNCHANGED <<ver, replacements, disk, force, buf, rec, fd, contentHash, stale, history>>

-----------------------------------------------------------------------------
(* The runner: VerifyGroupFiles, VerifyCommandDynLibDeps, then the risk      *)
(* evaluation of the command.  Each loads the record anew.                  *)

\* VerifyWithHash: calculateHash.
CalculateHash ==
    /\ pc[Runner] = "hash" /\ Goto(Runner, "head1")
    /\ contentHash' = ver["target"]
    /\ UNCHANGED <<ver, replacements, disk, force, buf, rec, fd, stale, history>>

\* The runner's Load ends at label and the loaded record decides.
RunnerLoad(label, Decide(_)) ==
    /\ pc[Runner] = label
    /\ \E loaded \in Loaded(Runner) :
          /\ Goto(Runner, Decide(loaded))
          /\ rec' = [rec EXCEPT ![Runner] = loaded]
    /\ buf' = [buf EXCEPT ![Runner] = <<>>]
    /\ tornRead' = (tornRead \/ stale[Runner])
    /\ UNCHANGED <<ver, replacements, disk, force, fd, contentHash, stale, savesOverlap, libcRaced>>

\* verifyHash, and the comparison of the risk evaluation.
HashOK(loaded) == loaded.kind = "current" /\ loaded.hash = contentHash

VerifyHash ==
    RunnerLoad("rest1", LAMBDA loaded : IF HashOK(loaded) THEN "head2" ELSE "refused")

\* verifyDynLibDeps: the libraries still have the recorded hashes.  No record,
\* and one of an older schema, have nothing to compare.
LibrariesOK(loaded) ==
    \/ loaded.kind \in {"none", "older"}
    \/ loaded.kind = "current" /\ ver["lib"] = loaded.lib /\ ver["libc"] = loaded.libc

VerifyDynLibDeps ==
    RunnerLoad("rest2", LAMBDA loaded : IF LibrariesOK(loaded) THEN "head3" ELSE "refused")

\* NetworkAnalyzer: a record that is missing, has another schema or another
\* hash is uncertain, one that cannot be read an error.
Classify ==
    RunnerLoad("rest3", LAMBDA loaded :
        IF HashOK(loaded) THEN "classified"
        ELSE IF loaded.kind = "corrupt" THEN "refused" ELSE "uncertain")

-----------------------------------------------------------------------------

Finished ==
    /\ \A a \in Actors :
          pc[a] \in {"done", "failed", "crashed", "refused", "uncertain", "classified"}
    /\ UNCHANGED storeVars

StoreNext ==
    \/ \E f \in StoreFiles, v \in Versions : Replace(f, v)
    \/ \E r \in Recorders :
          \/ Open(r) \/ ReadHead(r, "head", "rest") \/ Load(r) \/ AnalyzeDynLibDeps(r)
          \/ GetOrCreate(r) \/ PutLibc(r) \/ LoadOrAnalyze(r) \/ PutLib(r)
          \/ Truncate(r) \/ Write(r) \/ Crash(r)
    \/ CalculateHash \/ VerifyHash \/ VerifyDynLibDeps \/ Classify
    \/ \E i \in 1 .. 3 : ReadHead(Runner, <<"head1", "head2", "head3">>[i],
                                          <<"rest1", "rest2", "rest3">>[i])
    \/ Finished

StoreSpec == StoreInit /\ [][StoreNext]_storeVars

-----------------------------------------------------------------------------
(* Properties. *)

\* Every variable has its type.
TypeOK ==
    /\ ver \in [StoreFiles -> Versions] /\ replacements \in 0 .. MaxReplacements
    /\ recordFile \in Seq(Record \X Nat)
    /\ libStore \in Entry \cup {NoLibEntry} /\ libcCache \in Entry \cup {NoLibEntry}
    /\ force \in [Recorders -> BOOLEAN]
    /\ pc \in [Actors -> RecorderPCs \cup RunnerPCs]
    /\ buf \in [Actors -> Seq(Record \X Nat)]
    /\ rec \in [Actors -> Record \cup {NoRecord, Corrupt}]
    /\ fd \in [Recorders -> Versions \cup {0}] /\ contentHash \in Versions \cup {0}
    /\ stale \in [Actors -> BOOLEAN]
    /\ tornRead \in BOOLEAN /\ savesOverlap \in BOOLEAN /\ libcRaced \in BOOLEAN

\* The analysis that classifies a command is that of the content whose hash was
\* verified, and its library part that of the recorded library, whatever was
\* replaced or recorded meanwhile and wherever a recorder crashed; only a record
\* written in place by two recorders at once, or during the read, escapes.  The
\* libc part is bound as well unless libc was replaced between its hash and its
\* analysis, which GetOrCreate does not notice.
ClassifiedByBoundAnalysis ==
    pc[Runner] = "classified" /\ ~tornRead /\ ~savesOverlap =>
        /\ rec[Runner].hash = contentHash /\ rec[Runner].analysis = contentHash
        /\ rec[Runner].libAnalysis = rec[Runner].lib
        /\ rec[Runner].libcAnalysis = rec[Runner].libc \/ libcRaced

\* Recorder r may replace record x.
Replaceable(r, x) == x.kind = "older" \/ (x.kind = "current" /\ force[r]) \/ stale[r]

\* A complete record is destroyed only by a recorder that may replace it: never
\* one of another path or of a newer schema, and one of the same path only with
\* -force, unless it was completed after the recorder had looked.
ProtectedRecordsKept ==
    [][\A r \in Recorders :
          (pc[r] = "truncate" /\ pc'[r] = "write" /\ recordFile # <<>>) =>
              LET x == Head(recordFile)[1]
              IN  recordFile = Blocks(x) => Replaceable(r, x)]_storeVars

\* A recorder that reports success has left its record, complete, in place
\* until another recorder touches it, unless two of them wrote at once.
SuccessMeansRecorded ==
    \A r \in Recorders :
        pc[r] = "done" /\ ~stale[r] /\ ~savesOverlap => recordFile = Blocks(rec[r])
=============================================================================
