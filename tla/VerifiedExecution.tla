--------------------------- MODULE VerifiedExecution ---------------------------
(***************************************************************************)
(* From the configured path of a command to the bytes that are executed,   *)
(* while other processes change the file system: PathResolver.ResolvePath  *)
(* and Manager.VerifyGroupFiles (internal/verification),                    *)
(* Validator.VerifyWithHash (internal/filevalidator), openVerifiedIdentity *)
(* (internal/runner/base/risk), the plan of NormalResourceManager          *)
(* (internal/runner/resource) and prepareExecCommand with stageFromFD      *)
(* (internal/runner/base/executor).                                        *)
(*                                                                         *)
(* A path names an inode, is a symbolic link to a path, or names nothing.  *)
(* The content of a file is a sequence of blocks, what one pread yields,   *)
(* and is its own hash.  The records of the hash directory do not change   *)
(* during a run.  Every system call may fail; what is open is then closed  *)
(* where the code closes it.  Why the gate refuses a command is in         *)
(* RiskEvaluation.                                                         *)
(***************************************************************************)
EXTENDS Integers, Sequences

CONSTANTS
    Names,       \* absolute paths
    Inodes,      \* regular executable files
    Nothing,     \* neither a path nor an inode
    Contents,    \* what files may hold
    Recorded,    \* Recorded[p]: the content the record of p was made from
    MaxChanges   \* bound on the changes other processes make

ASSUME NamesAssumption ==
    Nothing \notin Names \cup Inodes /\ Names \cap Inodes = {}
ASSUME ContentsAssumption ==
    /\ Contents \subseteq Seq(STRING)
    /\ Recorded \in [Names -> Contents]
ASSUME MaxChangesAssumption == MaxChanges \in Nat

VARIABLES
    dir,          \* per path: an inode, the target of a symlink, or Nothing
    data,         \* per inode: its content
    changes,      \* changes made by other processes
    useFd,        \* fd-bound execution is available, else the file is staged
    expandedCmd,  \* the command's path in the configuration
    pc,
    resolved,     \* the path ResolvePath cached and ExpandedCmd is pinned to
    target,       \* the path validatePath resolved it to
    contentHash,  \* ExpandedCmdContentHash
    fd,           \* inode of the open descriptor, Nothing when it is closed
    size,         \* stat.Size of the last fstat
    read,         \* the blocks hashed so far
    owned,        \* the plan's Identity holds the descriptor
    dup,          \* a duplicate of the descriptor is open
    stageDir,     \* staging directory: "none", "present" or "lost", which
                  \* RemoveAll could not remove
    staged,       \* content of the staged copy
    executed,     \* the content that was executed
    fault,        \* history: a system call failed or the gate denied
    lateWrite     \* history: the open file was changed after it was checked

execVars == <<dir, data, changes, useFd, expandedCmd, pc, resolved, target, contentHash,
              fd, size, read, owned, dup, stageDir, staged, executed, fault, lateWrite>>

fs       == <<dir, data, changes, lateWrite>>
fixed    == <<useFd, expandedCmd>>
paths    == <<resolved, target, contentHash>>
identity == <<fd, size, read, owned>>
staging  == <<dup, stageDir, staged>>
NoBytes  == <<>>

PCs == {"resolve", "validate", "hash", "open", "fstat", "rehash", "refstat", "gate",
        "dup", "mkdir", "stagedup", "stat", "copy", "exec", "cleanup", "close", "done"}

ExecInit ==
    /\ dir \in [Names -> Inodes \cup Names \cup {Nothing}]
    /\ data \in [Inodes -> Contents]
    /\ changes = 0 /\ lateWrite = FALSE /\ fault = FALSE
    /\ useFd \in BOOLEAN /\ expandedCmd \in Names
    /\ pc = "resolve" /\ resolved = Nothing /\ target = Nothing
    /\ contentHash = NoBytes /\ fd = Nothing /\ size = 0 /\ read = NoBytes
    /\ owned = FALSE /\ dup = FALSE /\ stageDir = "none"
    /\ staged = NoBytes /\ executed = NoBytes

\* Mutant: what the path names, not the path of the file.
BugEvalSymlinks(p) == dir[p]
\* EvalSymlinks: the path of a file; links to links are not modelled.
EvalSymlinks(p) ==
    IF dir[p] \in Inodes THEN p
    ELSE IF dir[p] \in Names /\ dir[dir[p]] \in Inodes THEN dir[p]
    ELSE Nothing

-----------------------------------------------------------------------------
(* Other processes. *)

\* Creating, removing and renaming change what a path names.
ChangeEntry(p, e) ==
    /\ changes < MaxChanges /\ changes' = changes + 1
    /\ dir' = [dir EXCEPT ![p] = e]
    /\ UNCHANGED <<data, lateWrite, fixed, pc, paths, identity, staging, executed, fault>>

\* The bytes read before are the beginning of the content.
Agrees(content) ==
    Len(read) <= Len(content) /\ \A k \in 1 .. Len(read) : content[k] = read[k]

\* A write changes the file itself.  It is late when no later check of the
\* runner can see it: it leaves the size and changes what was hashed before,
\* or it comes after the second fstat.
Late(content) ==
    \/ pc = "rehash" /\ Len(content) = size /\ ~Agrees(content)
    \/ pc = "refstat" /\ Len(content) = size /\ content # read
    \/ pc \in {"gate", "dup", "mkdir", "stagedup", "stat", "copy", "exec"}

WriteInPlace(i, content) ==
    /\ changes < MaxChanges /\ changes' = changes + 1
    /\ data' = [data EXCEPT ![i] = content]
    /\ lateWrite' = (lateWrite \/ (fd = i /\ Late(content)))
    /\ UNCHANGED <<dir, fixed, pc, paths, identity, staging, executed, fault>>

-----------------------------------------------------------------------------
(* Verification of the group: what it opens it closes before it returns. *)

\* Continue at ok when the condition holds; otherwise the group is refused.
Step(label, condition, ok) ==
    /\ pc = label
    /\ pc' = IF condition THEN ok ELSE "done"
    /\ UNCHANGED <<fs, fixed, identity, staging, executed, fault>>

\* collectVerificationFiles: ResolvePath, whose result is cached for the run.
ResolvePath ==
    /\ Step("resolve", EvalSymlinks(expandedCmd) # Nothing, "validate")
    /\ resolved' = EvalSymlinks(expandedCmd)
    /\ UNCHANGED <<target, contentHash>>

\* VerifyWithHash: validatePath resolves the path once more.
ValidatePath ==
    /\ Step("validate", EvalSymlinks(resolved) # Nothing, "hash")
    /\ target' = EvalSymlinks(resolved)
    /\ UNCHANGED <<resolved, contentHash>>

\* verifyHash: the content agrees with the record of the path.
HashMatches(content) == content = Recorded[target]

\* calculateHash opens the path without following links; verifyHash.  Whatever
\* was read while the file was written, the hash kept is that of the record.
VerifyHash ==
    /\ Step("hash", dir[target] \in Inodes /\ HashMatches(data[dir[target]]), "open")
    /\ contentHash' = IF pc' = "open" THEN data[dir[target]] ELSE contentHash
    /\ UNCHANGED <<resolved, target>>

-----------------------------------------------------------------------------
(* openVerifiedIdentity: the path is opened once more, for execution.  On    *)
(* an error it returns no identity, and the plan it then goes into is        *)
(* blocking and owns nothing.                                                *)

Fails == fault' = TRUE
Works == UNCHANGED fault

Open ==
    /\ pc = "open"
    /\ \/ /\ EvalSymlinks(resolved) # Nothing
          /\ fd' = dir[EvalSymlinks(resolved)] /\ pc' = "fstat" /\ Works
       \/ EvalSymlinks(resolved) = Nothing /\ pc' = "close" /\ Works /\ UNCHANGED fd
       \/ pc' = "close" /\ Fails /\ UNCHANGED fd
    /\ UNCHANGED <<fs, fixed, paths, size, read, owned, staging, executed>>

\* Fstat, the check for a regular file and SetNonblock.
Fstat ==
    /\ pc = "fstat"
    /\ \/ size' = Len(data[fd]) /\ pc' = "rehash" /\ Works /\ UNCHANGED fd
       \/ fd' = Nothing /\ pc' = "close" /\ Fails /\ UNCHANGED size
    /\ UNCHANGED <<fs, fixed, paths, read, owned, staging, executed>>

\* Mutant: the last block is not read.
BugMoreToRead == Len(read) + 1 < size /\ Len(read) < Len(data[fd])
\* The SectionReader ends after size bytes or at the end of the file.
MoreToRead == Len(read) < size /\ Len(read) < Len(data[fd])

\* verifyIdentityContentHash: fdReaderAt.ReadAt, one pread after the other.
Pread ==
    /\ pc = "rehash" /\ MoreToRead
    /\ \/ read' = Append(read, data[fd][Len(read) + 1]) /\ Works /\ UNCHANGED <<fd, pc>>
       \/ fd' = Nothing /\ pc' = "close" /\ Fails /\ UNCHANGED read
    /\ UNCHANGED <<fs, fixed, paths, size, owned, staging, executed>>

\* The hash of what was read is the kept one.
VerifyIdentityContentHash ==
    /\ pc = "rehash" /\ ~MoreToRead
    /\ \/ read = contentHash /\ pc' = "refstat" /\ UNCHANGED fd
       \/ read # contentHash /\ fd' = Nothing /\ pc' = "close"
    /\ UNCHANGED <<fs, fixed, paths, size, read, owned, staging, executed, fault>>

\* Mutant: the size is not checked again.
BugSizeKept == TRUE
SizeKept == Len(data[fd]) = size

\* The second fstat; the descriptor passes to the plan.
Refstat ==
    /\ pc = "refstat"
    /\ \/ SizeKept /\ owned' = TRUE /\ pc' = "gate" /\ Works /\ UNCHANGED fd
       \/ ~SizeKept /\ fd' = Nothing /\ pc' = "close" /\ Works /\ UNCHANGED owned
       \/ fd' = Nothing /\ pc' = "close" /\ Fails /\ UNCHANGED owned
    /\ UNCHANGED <<fs, fixed, paths, size, read, staging, executed>>

-----------------------------------------------------------------------------
(* ExecuteCommand with a plan that owns the descriptor, prepareExecCommand   *)
(* and the kernel's execve.                                                  *)

\* The gate, then the checks of the executor up to prepareExecCommand.
RiskGate ==
    /\ pc = "gate"
    /\ \/ pc' = (IF useFd THEN "dup" ELSE "mkdir") /\ Works
       \/ pc' = "close" /\ Fails
    /\ UNCHANGED <<fs, fixed, paths, identity, staging, executed>>

\* fdExecExtraFile.
FdExecExtraFile ==
    /\ pc = "dup"
    /\ \/ dup' = TRUE /\ pc' = "exec" /\ Works
       \/ pc' = "close" /\ Fails /\ UNCHANGED dup
    /\ UNCHANGED <<fs, fixed, paths, identity, stageDir, staged, executed>>

\* RemoveAll of the staging directory; its failure is a warning.
RemoveStaging == stageDir' \in {"none", "lost"} /\ staged' = NoBytes

\* stageFromFD: the directory, ...
StageMkdir ==
    /\ pc = "mkdir"
    /\ \/ stageDir' = "present" /\ pc' = "stagedup" /\ Works /\ UNCHANGED staged
       \/ RemoveStaging /\ pc' = "close" /\ Fails   \* created, and chown or chmod fail
       \/ pc' = "close" /\ Fails /\ UNCHANGED <<stageDir, staged>>
    /\ UNCHANGED <<fs, fixed, paths, identity, dup, executed>>

\* ... a duplicate of the descriptor, ...
StageDup ==
    /\ pc = "stagedup"
    /\ \/ dup' = TRUE /\ pc' = "stat" /\ Works /\ UNCHANGED <<stageDir, staged>>
       \/ RemoveStaging /\ pc' = "close" /\ Fails /\ UNCHANGED dup
    /\ UNCHANGED <<fs, fixed, paths, identity, executed>>

\* ... its size, ...
StageStat ==
    /\ pc = "stat"
    /\ \/ /\ size' = Len(data[fd]) /\ pc' = "copy" /\ Works
          /\ UNCHANGED <<dup, stageDir, staged>>
       \/ dup' = FALSE /\ RemoveStaging /\ pc' = "close" /\ Fails /\ UNCHANGED size
    /\ UNCHANGED <<fs, fixed, paths, fd, read, owned, executed>>

\* What a SectionReader of n blocks yields of a file.
Section(content, n) == IF n < Len(content) THEN SubSeq(content, 1, n) ELSE content

\* Mutant: the deferred function looks at an err that the failure shadows.
BugStageCopy ==
    /\ pc = "copy" /\ dup' = FALSE
    /\ \/ staged' = Section(data[fd], size) /\ pc' = "exec" /\ Works
       \/ pc' = "close" /\ Fails /\ UNCHANGED staged
    /\ UNCHANGED <<fs, fixed, paths, identity, stageDir, executed>>

\* ... and the copy, of the descriptor and not of the path.  Creating, copying,
\* closing, chmod and chown may fail; the duplicate is closed in any case.
StageCopy ==
    /\ pc = "copy" /\ dup' = FALSE
    /\ \/ staged' = Section(data[fd], size) /\ pc' = "exec" /\ Works /\ UNCHANGED stageDir
       \/ RemoveStaging /\ pc' = "close" /\ Fails
    /\ UNCHANGED <<fs, fixed, paths, identity, executed>>

\* What execve loads: the file of the descriptor, or the private copy.
Image == IF useFd THEN data[fd] ELSE staged

\* The command runs, or cannot be started.
Exec ==
    /\ pc = "exec" /\ pc' = "cleanup"
    /\ \/ executed' = Image /\ Works
       \/ Fails /\ UNCHANGED executed
    /\ UNCHANGED <<fs, fixed, paths, identity, staging>>

\* The deferred cleanup prepareExecCommand returned.
Cleanup ==
    /\ pc = "cleanup" /\ pc' = "close"
    /\ \/ useFd /\ dup' = FALSE /\ UNCHANGED <<stageDir, staged>>
       \/ ~useFd /\ RemoveStaging /\ UNCHANGED dup
    /\ UNCHANGED <<fs, fixed, paths, identity, executed, fault>>

\* The deferred plan.Close: it closes what the plan's Identity holds.
Close ==
    /\ pc = "close" /\ pc' = "done"
    /\ fd' = IF owned THEN Nothing ELSE fd
    /\ owned' = FALSE
    /\ UNCHANGED <<fs, fixed, paths, size, read, staging, executed, fault>>

Done == pc = "done" /\ UNCHANGED execVars

ExecNext ==
    \/ \E p \in Names : \E e \in Inodes \cup Names \cup {Nothing} : ChangeEntry(p, e)
    \/ \E i \in Inodes, content \in Contents : WriteInPlace(i, content)
    \/ ResolvePath \/ ValidatePath \/ VerifyHash
    \/ Open \/ Fstat \/ Pread \/ VerifyIdentityContentHash \/ Refstat
    \/ RiskGate \/ FdExecExtraFile \/ StageMkdir \/ StageDup \/ StageStat \/ StageCopy
    \/ Exec \/ Cleanup \/ Close
    \/ Done

ExecSpec == ExecInit /\ [][ExecNext]_execVars

-----------------------------------------------------------------------------
(* Properties. *)

\* Every variable has its type.
ExecTypeOK ==
    /\ dir \in [Names -> Inodes \cup Names \cup {Nothing}]
    /\ data \in [Inodes -> Contents]
    /\ changes \in 0 .. MaxChanges /\ lateWrite \in BOOLEAN /\ fault \in BOOLEAN
    /\ useFd \in BOOLEAN /\ expandedCmd \in Names /\ pc \in PCs
    /\ resolved \in Names \cup {Nothing} /\ target \in Names \cup {Nothing}
    /\ contentHash \in Contents \cup {NoBytes}
    /\ fd \in Inodes \cup {Nothing} /\ size \in Nat /\ read \in Seq(STRING)
    /\ owned \in BOOLEAN /\ dup \in BOOLEAN /\ stageDir \in {"none", "present", "lost"}
    /\ staged \in Seq(STRING) /\ executed \in Seq(STRING)

\* What is executed is, byte for byte, content that verification of the group
\* matched with a record, whatever happened to the paths in between and
\* whenever the file was written before it was checked; only a write into the
\* open file that keeps its size and changes blocks already hashed, or comes
\* after the last check, escapes.
ExecutedIsVerified ==
    executed # NoBytes =>
        \/ lateWrite
        \/ executed = contentHash /\ \E p \in Names : executed = Recorded[p]

\* A command whose file agrees with its record is not refused when nobody
\* changes anything, the gate allows it and no system call fails: the repeated
\* checks do not contradict each other.
NoFalseRefusal ==
    LET p == EvalSymlinks(expandedCmd)
    IN  changes = 0 /\ ~fault /\ pc = "done" /\ p # Nothing /\ data[dir[p]] = Recorded[p]
            => executed = Recorded[p]

\* Whichever step fails, on every way out of openVerifiedIdentity, the gate,
\* fdExecExtraFile, stageFromFD and the executor: neither the descriptor nor
\* its duplicate stays open, and no staging directory is left that could be
\* removed.
NothingHeld == pc = "done" => fd = Nothing /\ ~dup /\ stageDir # "present"

-----------------------------------------------------------------------------
(* The inductive invariant behind ExecutedIsVerified and NothingHeld. *)

Opened == {"fstat", "rehash", "refstat"}
Planned == {"gate", "dup", "mkdir", "stagedup", "stat", "copy", "exec", "cleanup"}

\* The paths and the descriptor each step works with exist, and nothing was
\* executed before.
StageInv ==
    /\ pc \in {"validate", "hash", "open"} => resolved \in Names
    /\ pc = "hash" => target \in Names
    /\ pc \in Opened \cup Planned => fd \in Inodes
    /\ pc \notin {"cleanup", "close", "done"} => executed = NoBytes
    /\ pc \in {"resolve", "validate", "hash", "open", "fstat"} => read = NoBytes

\* Who is to close what: the descriptor belongs to openVerifiedIdentity until
\* the plan owns it, a duplicate to stageFromFD or to the cleanup of a command
\* that is executed by descriptor, the directory to the cleanup of a staged one.
OwnerInv ==
    /\ owned => pc \in Planned \cup {"close"}
    /\ pc \in Planned => owned
    /\ fd # Nothing => pc \in Opened \/ owned
    /\ dup => pc \in {"stat", "copy"} \/ (pc \in {"exec", "cleanup"} /\ useFd)
    /\ stageDir = "present" =>
          pc \in {"stagedup", "stat", "copy"} \/ (pc \in {"exec", "cleanup"} /\ ~useFd)
    /\ pc = "dup" => useFd
    /\ pc \in {"mkdir", "stagedup", "stat", "copy"} => ~useFd

\* From the verification of the group on, the kept hash is that of a record.
RecordInv ==
    pc \in {"open"} \cup Opened \cup Planned =>
        \E r \in Names : contentHash = Recorded[r]

\* Unless a late write changed it, the open file begins with the blocks hashed
\* so far while it has the size of the first fstat, holds the verified content
\* at the second fstat if it has that size and from then on in any case; and
\* so does the staged copy.
BoundInv ==
    lateWrite \/
        /\ pc = "rehash" /\ Len(data[fd]) = size => Agrees(data[fd])
        /\ pc = "refstat" => read = contentHash
        /\ pc = "refstat" /\ Len(data[fd]) = size => data[fd] = contentHash
        /\ pc \in Planned \ {"cleanup"} => data[fd] = contentHash
        /\ pc = "copy" => size = Len(data[fd])
        /\ pc = "exec" /\ ~useFd => staged = contentHash

ExecIInv ==
    ExecTypeOK /\ StageInv /\ OwnerInv /\ RecordInv /\ BoundInv /\ ExecutedIsVerified
=============================================================================
