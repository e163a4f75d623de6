# A TLA+ development of go-safe-cmd-runner

The program runs groups of commands that a TOML file describes, with file
verification before, a risk evaluation for each, and, for commands that name a
user or a group, a change of identity. It is installed setuid root, so what it
promises is mostly about what must *not* happen: no command that was not
verified, no identity that outlives its use, no record taken for another.
The modules here model the code of `src/` that keeps these promises, TLC checks
them on small instances and TLAPS proves the central ones for all instances.

## 1. Inventory

The program proper is three binaries (`cmd/runner`, `cmd/record`,
`cmd/verify`) over packages in `internal/`. The runner is one goroutine; the
concurrency is between it, the goroutines of `os/exec` that copy a child's
pipes, the children, and other processes that share the file system.

| part | state | operations | what is hard | what makes it correct |
|---|---|---|---|---|
| startup (`cmd/runner/main.go`) | real, effective, saved ids | drop group, drop user | either may fail; setgid, nosuid | never the user with the owner's group |
| privilege manager (`base/privilege`) | lock, effective ids, captured saved ids, metrics | `WithPrivileges` | panics, failing restore, callers that wait | raised exactly in the callback; restored or dead |
| executor (`base/executor`) | child, pipes, staging copy | `Execute`, staging, identity check | timeout, descendants that hold pipes, start failures | runs the verified image; releases what it took |
| output capture (`base/output`, `safefileio`) | temporary file, size, buffers | prepare, write, finalize, clean up | two writers, limit, partial failures | the output file is old or complete |
| runner and group executor (`runner.go`, `group_executor.go`) | context, group and command position, errors, temporary directory | execute groups, group steps, notification | signals, deadlines, skipped groups, clean-up on every path | order, gates, honest report and exit code |
| resource manager, normal (`resource/normal_manager.go`) | plan, audit log | `ExecuteCommand` | each refusal has its own path | one audit entry per decision, before the start |
| verification (`internal/verification`) | path cache, recorded hashes | resolve, verify files, libraries, shebang | time between check and use | nothing but recorded content passes |
| verified identity (`base/risk/evaluator.go`, `risktypes`) | descriptor, size, hash | open, hash, close | growth and rewriting under the hash | what is hashed is what runs |
| records (`fileanalysis`, `filevalidator`, `dynamicanalysis`, `libccache`) | record files, library analyses, libc cache | save, load, update, look up | no lock, writing in place, crashes, replaced libraries | a classification rests on the analysis of the verified content |
| risk evaluation (`base/risk`, `base/security`) | none | `EvaluateRisk` | many dimensions that raise or block | never lower than a dimension says; uncertain blocks |
| configuration (`runner/config`, `base/variable`, `base/environment`) | scopes of variables, template table | load, merge, expand | cycles, depth, order of levels | terminating, deterministic, no escape from the allowlist |
| safe file access (`safefileio`, `groupmembership`, `security/toctou`) | membership cache | open without links, permission checks | a path changed between steps, stale membership | only files that no stranger can write |
| dry run (`resource/dryrun_manager.go`) | list of analyses | as the normal manager | must agree with the normal run | no effect, same decision |
| logging (`logging`, `redaction`, `base/audit`) | handlers, retry state | handle, send | retries, failing sinks, panics in a value | nothing unredacted leaves |
| binary analysis (`security/elfanalyzer`, `security/machoanalyzer`, `dynlib`) | none | scan code, resolve libraries | backward scans, unknown values | unknown never counts as harmless |

Interactions: `run` builds the context and calls `Runner.Execute`; it calls the
group executor for each group, which calls verification and then the resource
manager for each command; that evaluates the risk (opening the descriptor that
will be executed), writes the audit entry, prepares the output and calls the
executor; the executor goes through the privilege manager when a user or group
is named. Verification and the risk evaluation read the records that
`cmd/record` writes in another process.

## 2. Modules

**PrivilegeManager** (`base/privilege`, `main.go`, `Execute`). The kernel's ids
are variables (`ruid`, `rgid`, `cred`), `Execve` gives every start the file mode
and the mount allow, and each syscall, lock, check and counter of
`WithPrivileges` is a step of a caller. A callback may return, fail, panic or
(a bug in it) leave other ids behind: `FnEnds`. The exit through
`emergencyShutdown` ends the process with a reason. `mu` is the manager's lock.

**OutputCapture** (`base/output`, `outputWrapper`, `executeCommandWithOutput`,
`atomicMoveFileCore`). One command with an output file. Bytes are numbered per
stream, so that the file's content can be compared with what was written. The
two copiers take a chunk (`ReadPipe`), take the capture's lock (`CheckSize`) and
write (`WriteFile`); the child, a descendant that inherits the pipes, the
timeout and every file operation that may fail are actions of their own.

**CommandRunner** (`runner.go`, `group_executor.go`, `normal_manager.go`,
`executeRunner`). `NGroups` groups of `NCommands` commands; `pc` follows the code
from group to group. The checks that other components perform (expansion,
directory check, verification, risk) are choices of their results, since
CommandRunner is about what happens after each result. When a child has ended or was killed,
`Wait` returns at once or is held until the last process that inherited the pipes closes them
(`PipesClosed`), which may never happen: no `WaitDelay` is set. **GroupSequence** is its abstract
specification: groups begin in order and end completed, unverified or failed,
some may never begin, and the exit code says which. The refinement maps a
group's history to its outcome.

**VerifiedExecution** (`path_resolver.go`, `validator.go`, `evaluator.go`,
`stageFromFD`, `fdexec_linux.go`). Directory entries point to inodes or are
links, inodes have a content of blocks; other processes change either at any moment, at
most `MaxChanges` times. A hash is the content itself (no collisions), and the one of the
open descriptor is made of one pread after the other. Every call from `open` to the start may
fail, and each failure goes the code's own way out: `openVerifiedIdentity` closes the
descriptor until the plan owns it, `plan.Close` closes what the plan owns, the duplicate
belongs to `stageFromFD` or to the clean-up of `prepareExecCommand`, and the staging
directory is removed by a deferred function or that clean-up, unless the removal fails.

**RecordStore** (`fileanalysis`, `filevalidator`, `dynamicanalysis`, `libccache`,
`NetworkAnalyzer.Classify`). Recorders and a runner share record, library store
and libc cache. A file is its version; a record is a sequence of blocks, so that
a write cut short, two writes at once and a read during a write have the
outcomes they have in the file. Saving goes through the real file operations:
truncation and writing in place for records, a rename for the two caches.

**RiskEvaluation** (`evaluator.go`, `normal_manager.go`, `dryrun_manager.go`)
takes one command from its path to an assessment, then to the gate of the normal
run, or a sequence of commands through the dry run to an exit code. It is built
from modules that each read the command line in one way:

* **CommandLine** (`indirect_execution.go`, `command_analysis.go`): tokens, the
  scan of a cluster of option letters, the names a command is reached by.
* **CommandProfiles** (`command_risk_profile.go`, `command_analysis.go`,
  `arbitrary_code.go`, `coreutils.go`): what a name and its arguments say.
* **IndirectExecution** (`indirect_execution.go`): the walk down a chain of
  wrappers, one action per handler. **IndirectReference** is its reference: what
  each wrapper runs, by the tool's own grammar rather than by the scans.
* **DestinationZoning** (`destination_zoning*.go`, `flag_spec.go`, `getopt.go`,
  `operand_path_resolver.go`): the files an operation reads and writes, where
  they really are, and how far that place is trusted. Its reference is the
  kernel's own walk over a path (`KernelPath` in RiskEvaluation).
* **BinarySignals** (`network_analyzer.go`) and **BinaryScan**
  (`syscall_analyzer.go`, `x86_decoder.go`): the record of a binary, how it is
  made from machine code, and the class it gives. The reference `Runs` executes
  the instructions.

**Startup** (`main.go`, `loader.go`, `toctou.go`, `dir_permissions_unix.go`) reads
the configuration and its includes, collects the directories on the way to every
file named and to the hash directory (`CollectTOCTOUCheckDirs`, one step per path), checks
them one after the other, and expands a group and its commands. It composes:

* **ConfigText** (`template_expansion.go`, `scope.go`): a text is a sequence of pieces
  (letters, escapes, references, placeholders), so that removing an escape leaves a piece
  that a second pass reads differently; the names a level may define; the placeholders of a template.
* **VariableExpansion** (`expansion.go`): the expansion of `%{...}` with its memory of
  values found and its marks against cycles. The recursion of the code over names is a
  sequence of functions, one for each number of levels left before the limit.
* **ConfigExpansion** (`loader.go`, `validation.go`, `expansion.go`,
  `template_inheritance.go`): one action per function, from the parsed file to
  the fields and the environment of a command; the variables of a level are taken
  in any order, as Go walks a map. **ConfigReference** says what the
  same texts mean without order, memory or marks.
* **FileAccess** (`groupmembership`, `dir_permissions_unix.go`): the permission rules
  and the cached membership they rest on. A decision about a group is a query of
  several steps, between which the clock ticks and the user database changes.

**Reporting** (`bootstrap`, `logging`, `base/audit`) sets up the handlers in two
phases, lets every record pass through **Redaction** (`internal/redaction`) to each
handler, and sends notifications with retries. A value is a small tree (groups, slices,
pointers, values that resolve or panic); a secret is a piece of text with an identity,
so that one can ask whether it arrived. What goes to stderr by Go's default logger or by
`HandleErrorCommon` is not part of what is asked.

`MC*.tla` give the constants that a cfg cannot write. Three of them put two specifications with no
variable in common side by side: **MCGate** (RiskEvaluation and VerifiedExecution), **MCDisk** (Startup
and RecordStore) and **MCOutputs** (OutputCapture and Reporting). A behaviour is one of the first or one of
the second while the other is at rest, so nothing is claimed about an interaction between the two; a
product of their states would add none. The specifications are named apart where they meet (`ExecSpec`,
`StoreSpec`, `ReportSpec`).

## 3. Runs

| run | instance | distinct states | shows |
|---|---|---|---|
| `privilege` | 2 callers, ids {0,1}, 2 calls each | 104 thousand | elevation confined, restored or dead; waiting callers are served |
| `runner` | 2 groups of 2 commands | 93 thousand | gates, order, signals, clean-up, reports in both directions, termination, refinement |
| `gate`, evaluation | every command line of 31 wrappers, scripts and links and 24 file tools over an alphabet each, several thousand programs, dry runs of 3 | 694 thousand | nothing escalates through a wrapper; writes judged where they land; binaries judged by the calls they make; the dry run's exit code |
| `gate`, execution | 2 paths, 2 inodes, 4 contents, 3 changes, every call failing | (same run) | executed content is verified content; no false refusal; nothing held on any way out |
| `disk`, start | families of configurations, users, files and directories | 1.8 million | what is expanded is what is defined; the environment confined; no other user can replace what is read, the hash directory included; trust rests on a recent membership |
| `disk`, records | 2 recorders, 2 versions, 1 replacement | (same run) | bound classification; protected records kept |
| `outputs`, capture | 3 bytes, chunks of 2, limits {0,1,2,4} | 256 thousand | old or complete output; the error names its cause; timeouts end the command |
| `outputs`, reports | 3 reports, values nested to one past the depth limit | (same run) | no secret that redaction looks at reaches a handler; every notification is delivered or told lost |
| `output_temp_leak` | capture part of `outputs` | violation | finding 1 |
| `output_unlimited` | capture part of `outputs` | violation | finding 2 |
| `config_order` | start part of `disk` | violation | finding 3 |
| `group_env_allowlist` | imports at each level | violation | finding 4 |
| `operand_links` | evaluation part of `gate` | violation | finding 5 |
| `unknown_syscalls` | evaluation part of `gate` | violation | finding 6 |
| `redaction_bypass` | reports part of `outputs` | violation | finding 7 |

Exceptions. A property of a passing run that does not hold everywhere says so, and where a doc or a comment
promises the excepted case a violation run shows it:

| property | excepted | shown by |
|---|---|---|
| `WrappedRunsDenied` | a tar option that takes `--` as its value (`EndMarkAsValue`) | |
| `WritesJudged` | an operand with a `..` behind another component (`ClimbsBack`) | `operand_links` |
| | letters in clusters or attached values of `install` and `tar`, second values of a repeated option (`BlindSpot`), which the comments of the code leave out too | |
| `BinaryJudged` | a number resolved in a register that is written again behind its copy (`SourceOverwritten`); one told only by a window that starts inside an instruction (`Misaligned`) | |
| | a call whose number was not told | `unknown_syscalls` |
| `EnvConfined` | variables that the global list names and the group's does not are let through | `group_env_allowlist` |
| `NothingSecretLogged` | strings behind a pointer and strings of a named type (`PassedOn`) | `redaction_bypass` |
| `ExpandedAsDefined` | `Overridden`, `Reread`, `AtDepthLimit` | `config_order` for the first |
| `ChildrenUnprivileged` | a command started while another caller is raised; the runner has one caller (`SingleCallerTheorem`) | |
| `ClassifiedByBoundAnalysis`, `SuccessMeansRecorded`, `ProtectedRecordsKept` | a torn read, two recorders writing at once, a record completed after the look | |
| `RunEnds`, `TimeoutEndsCommand` | a process left behind that holds a pipe for ever | |

No document says which number the scan gives for an overwritten register (`resolveX86RegAcrossPreds`
"resolves targetReg at syscall point", which is what it does), so `SourceOverwritten` has no violation run.

Bounds. Two callers are the least for a lock to matter, and two calls of each let
a second call meet what the first left behind. Three bytes in chunks of up to two
let both streams hit every limit of {0,1,2,4} from below, exactly and from above.
Two groups of two commands have a first and a last of each, and an error in one
with a later success. Three changes by other processes cover a swap of the file
and its return, which is what a check and use race needs; contents of one and two blocks let a file grow,
shrink and be rewritten between two preads. One replacement
separates any hash from any analysis (two replacements were also run: 8.9 million
states, no violation); two recorders are the least that can overwrite each other.
`disk` uses the symmetry of the recorders, `gate` that of the inodes; both check
safety only.

The evaluation part of `gate` enumerates all argument sequences of up to three or two tokens per tool; its alphabets hold one
option of each class the scans tell apart (no value, value, optional value, attached,
in a cluster, long, unknown), and inner commands that are harmless, escalating or
reached by a link. Three arguments reach an option, its value and the inner
command; a chain of wrappers is cut at `IndirectExecMaxDepth`, 3 instead of 16, so
that the limit itself is met. The file system has links that leave the
working directory, loop and dangle. Programs have up to four instructions before a
syscall, a window of three steps of at most two bytes, so that a scan can begin
inside an instruction, there find bytes that decode to nothing or to another load, and end before it has
an answer. The reference for `taskset` lets `-c` take the list as its value, as `analyzeTaskset` documents;
util-linux reads the list as the first operand, which is the same unless an option stands between.

The start part of `disk` takes every assignment of a few texts to up to three variables of a command,
a chain that passes the depth limit (3 instead of 100) or not by where it is
entered, imports at each level under a group list that is absent, empty, the same or
different, templates used directly and from an include, and owners, groups and modes of
the files read and of the directories that hold them. A time of 3 with an expiry of 2 lets an entry be fresh, just
expired and replaced. The reports part of `outputs` has two failed attempts and two retries: a
notification can succeed at the first, at the last or not at all.

Fairness. `privilege`: weak fairness of each caller's own steps, the Go scheduler;
the callback's end is included, since `WaitersServed` is about callers that do
return. `outputs`, capture: of the copiers, of `os/exec`'s kill after the deadline and of the
runner; *not* of the child nor of a descendant, which may run forever:
`TimeoutEndsCommand` therefore says that after the deadline the command ends or a
descendant holds a pipe (the code sets no `WaitDelay`). `runner`: of the runner's
steps, of the deadline when timeouts are configured and of the kill; not of a child's end nor of the
processes that hold its pipes: `RunEnds` is conditioned on their letting go again and again.
`outputs`, reports: of the one goroutine that logs; a request ends by the HTTP client's
own timeout and a pause by its timer, so both are steps of that goroutine, while
the server promises nothing. The other runs check safety only.

## 4. Findings

1. *Temporary output file kept after an error* (`output_temp_leak`).
   `executeCommandWithOutput` closes the capture before `CleanupOutput`, which
   returns early when the handle is nil, although the comment in
   `base/output/manager.go:218` says the file still has to be removed then.
2. *Limit 0 is not unlimited* (`output_unlimited`). `normal_manager.go:248` passes 0
   as "0 means unlimited in output manager"; `Capture.WriteOutput`, which the
   executor calls, has no such case.
3. *The order of a map decides a value* (`config_order`). `expansion.go:698` walks a
   Go map and stores each expanded variable over the inherited one; a variable of
   the same level that refers to it finds the old or the new value by chance. The
   comment at line 697 calls the loop order-independent.
4. *A group's list does not filter the environment* (`group_env_allowlist`). `BuildProcessEnvironment`
   asks the global list only (`environment.go:55`); the user guide says that with `env_allowed = []`
   "all environment variables are rejected" (`05_group_level.md:962`) and that of an explicit list
   "Only PATH, CUSTOM_VAR are available" (line 1032).
5. *A `..` behind a link* (`operand_links`). `filepath.Clean` removes it with the link's name before
   links are followed (`operand_path_resolver.go:97`), so `link/../f` is judged beside the link and
   written beside its target; the comment at line 82 says every existing element has been followed.
6. *An unknown number is no risk* (`unknown_syscalls`). `network_analyzer.go:249` counts only
   `direct_svc_0x80`; `x86_64_instruction_decode.md:235` says "number unknown → High Risk".
7. *Strings that redaction passes on* (`redaction_bypass`). A `*string` and a value of a named string type
   end in the last case of `processKindAny` (`redactor.go:598`), which passes primitives through;
   `security-risk-assessment.md:257` says "ensuring no path bypasses masking".

Further observations, each visible in a model, with no run of its own.

*Records and runs.* A running command killed at its deadline gives an `ExitError`, while
`executeSingleCommand` logs a timeout for `DeadlineExceeded` only (`group_executor.go:655`), which a start
after the deadline gives: in CommandRunner these are the outcomes of `Kill` and of `Start`. The record of another recorder may be overwritten without
`-force` when it was completed after the check (`stale` in `ProtectedRecordsKept`);
`GetOrCreate` does not compare the libc it opened with its key (`libcRaced` in
`ClassifiedByBoundAnalysis`); a deadline that passes before the start stops all
remaining groups (`runner.go:398`).

*Command lines.* `env PATH=/x -S "ls"` forgets that PATH was set, although
`indirect_execution.go:805-807` says a bare inner name is then rejected. Where an operation
writes is misjudged for letters in an attached value of tar
(`destination_zoning_spec.go:374`), for the second of two `-C`, and for letters in a
cluster (`BlindSpot`).

*Binaries.* A copied register that is overwritten between the copy and the syscall
is resolved at the syscall (`syscall_analyzer.go:930`; `SourceOverwritten`): after
`xor edx,edx; jmp next; mov eax,edx; mov edx,10` the number found is 10 and the one passed
is 0. Where the flow analysis finds two numbers, the later and shorter windows may still
settle on one of them (`syscall_analyzer.go:856-903`).

*Configuration.* A chain as deep as `MaxRecursionDepth` passes or fails by the order of
expansion (`AtDepthLimit`). Expanded values are expanded once more by the level that uses
them, though `docs/user/toml_config/08_variable_expansion.md:772-817` says an escape
stays literal (`Reread`). `\$` of `07_command_templates.md:721-726` is always refused.
Included templates skip `ValidateTemplates` and `ValidateTimeouts`.

*Files.* The comparison with `MaxAllowedReadPerms` never sees setuid, setgid or sticky.
`ValidateLogDir` creates `.write_test` with `O_EXCL`: one left by a crash, or a second start
at the same time, makes the directory unusable.

*Logs.* A pointer to a group is walked as a slice of structs, whose keys are lost (`AttrStructs`). What the audit log masks as `password=[REDACTED]` is then
replaced as a whole by the handler, against the comment at `redactor.go:104-106`.
No case of the Slack handler is named `user_group_command_failure`, so it is sent as a generic
message. Notifications use a background context: a signal does not shorten the
retries. A group that fails after 100 logged commands does not list the one that failed.
Errors before the second phase of the logger notify nobody.

## 5. Proofs

Every theorem holds for all values of the constants that the named assumptions
of its module admit; TLC evaluates these assumptions in every run. None of the invariants is
inductive alone: each proof strengthens it to an `IInv` (`AccessInv`, `StartInv` and `EnvInv` in
the last two modules, which hold several), shows that every action preserves it, part by
part, and that it implies the property.

| module | theorems | for any |
|---|---|---|
| `PrivilegeManagerProofs` | `TypeOK`, `NeverUserInPrivilegedGroup`, `RestoredWhenUnlocked`, `ElevationExactlyInCallback`, `ChildrenUnprivileged`, `MetricsAccountForCalls`, `ShutdownJustified`; with a single caller no exit without a failure or a changed id, and no command with other ids | callers, ids, number of calls |
| `VerifiedExecutionProofs` | `ExecTypeOK`, `ExecutedIsVerified`, `NoFalseRefusal`, `NothingHeld` | directory, inodes, contents, number of changes |
| `CommandRunnerProofs` | `TypeOK`, `StartsGated`, `CommandsInOrder`, `SignalStopsRun`, `NothingLeaks`, `ReportsTellOutcome`, `ImplementsGroupSequence` | number of groups and of commands |
| `OutputCaptureProofs` | `TypeOK`, `FinalAllOrNothing`, `SuccessMeansInstalled`, `ErrorNamesCause`, `BufferBounded` | amount of output, chunk size, limits |
| `RecordStoreProofs` | `TypeOK`, `ClassifiedByBoundAnalysis`, `SuccessMeansRecorded`, `ProtectedRecordsKept` | recorders, versions, number of replacements |
| `RiskEvaluationProofs` | `ExitTellsPreview`; what an admitted command has passed; its limit covers every dimension, the places it writes and the commands it hands on; no verdict of the walk is weakened | command lines, links, scripts, file system, records, dry runs |
| `StartupProofs` | `AccessByRecentMembership`, of any callers and of a start; a start implements `AccessSpec`; `NobodyElseReplaces` | users, groups, callers, changes of the database, lifetime of the cache, directories, configuration |
| `ConfigExpansionProofs` | `EnvConfined`; an expansion carries nothing that was not written, passed or defined | configuration, templates, parameters, lists, variables, order of a map, depth limit |

**PrivilegeManager.** `IInv` adds: the lock is held exactly by the caller inside
(`LockInv`); what the ids are during startup (`StartupInv`); what a caller's context
holds at each step (`ContextInv`); which identity the process has at each step of
the caller inside, the core of the argument since the checks are
skipped where nothing was escalated (`IdentityInv`); how the counters relate
to calls under way (`MetricsInv`). `NeverUserInPrivilegedGroup` needs besides that the
effective uid is that of execve until the startup drop reaches it (`GroupInv`).

**VerifiedExecution.** The strengthening says what is
known of the open descriptor after each step: unless a late write came, it begins with the blocks
hashed so far while it keeps its size, and holds the verified content from the second fstat on, as a
staged copy does (`BoundInv`); the kept hash is that of a record (`RecordInv`); and the paths and
the descriptor that a step uses exist (`StageInv`). `NothingHeld` rests on `OwnerInv`, who is to close
what at each place: the descriptor belongs to `openVerifiedIdentity` or to the plan, the duplicate to `stageFromFD`
or to the clean-up, the directory to the deferred removal or to the clean-up; a way out on which one of them forgets
breaks a step of that proof. `NoFalseRefusal` rests on `UndisturbedInv`: as long as nothing has changed,
each value the command has read is the one the record was made from, so no repeated check
can differ. It uses that resolving links twice gives what resolving once gives.

**CommandRunner.** `FlowInv` says which errors, context, plan and child go with
each place in the code; `AuditInv` that the log knows nothing of commands to come;
`StartedInv` and `SucceededInv` that what was started lies before the current position and
was gated, and what lies before it in the group succeeded; `SignalInv` that after the
signal no context is active; `TempInv` that only the current group has a temporary
directory; `ReportInv` and `ErrorInv` what the groups dealt with have contributed to the
reports and the result. From them also follows the refinement: under the mapping of a
group's history to its outcome, every step of the runner is a step of **GroupSequence** or changes
nothing there, and the exit code is the one GroupSequence allows. GroupSequence promises
safety only, so nothing about fairness is needed.

**OutputCapture.** The heart is `DataInv`: until the deferred cleanup `CurrentSize` counts
the bytes accepted from both streams and the temporary file holds exactly those, in their
order, for each stream that met no error. `CopierInv` relates each copier's
step, chunk, lock and error, `FlowInv` the files that are open, `ErrInv` each error to its
cause, and `FinalInv` says that the final path changes only after both streams were read
to the end. What a file holds is stated byte by byte (`HoldsFirst`).

**RecordStore.** Entries of the stores are analyses of the file with the hash of their key, for
libc unless it raced (`StoreInv`); a recorder's partial record is bound in the parts it has filled
(`RecorderInv`); unless two recorders wrote at once the file holds the first blocks of one bound
record (`FileInv`); a load between its two reads holds the first block of what is still there
(`LoadInv`); and a recorder on its way to writing may replace the complete record it has looked at
(`LookedInv`), from which the action property `ProtectedRecordsKept` follows. The
assumption that 1 is a version states that every file has a first one.

**RiskEvaluation.** The walk over wrappers needs its types (`WalkTypeOK`): that each handler takes
out of a command line only tokens of it, at positions it has, so that every level below is again a
command line, and that every verdict has a level. For the scans of arguments this is an induction over
the positions left (`ScanResult`, `JoinResult`, from `SetInduction` as below). `Walked` says what a
handler's step does: `worst` becomes no less severe, in kind and in level (`VerdictTheorem`), and an inner
command is not dropped: it stays on the walk, or `worst` is a denial or a floor of High (`Inside`,
`Severe`). Carried to the gate by `Owing` this gives `WrapperTheorem`, and `DenialTheorem` likewise: a
denial met anywhere is final. `GateInv` follows a command through the stages: what the gate sees blocks,
is critical, or has passed every check (`AdmissionTheorem`, which includes that the program at the end
of the links is not `sudo`) and comes to a level that the plan has (`Covers`). From it `LimitTheorem`
takes each dimension apart, and `PlacesTheorem` each operand: where it resolves to, not how it is
written, decides. These are statements about what the code's own scans see; that the scans see what
the tools do is the part TLC checks (`WrappedRunsDenied`, `WritesJudged`, `BinaryJudged`). `PreviewInv` says that the
flags of the dry run are exactly the outcomes so far, from which the exit code follows. Assumed is
that a command has the fields the evaluation reads, and that what stands inside a token, or on
a script's first line, is made of tokens.

**Startup.** An entry of the membership cache counts at most the lifetime and one enumeration from
when its members were read (`EntryInv`), because the ticks during an enumeration are counted
(`QueryInv`); this is proved for FileAccess by itself (`AccessSpec`), with any callers. Every step of
a start is a step of `AccessNext` or leaves the cache alone (`StartRefinesAccess`), so it holds of a start
too. For `NobodyElseReplaces` the strengthening `StartInv` follows the start: where the code is decides which
lists are filled (`PhaseInv`) and what a query under way is about (`AskInv`); with a directory its parent
is collected or is next, and every file's directory is collected or still to be (`CollectInv`); during the check a
directory in use is waiting, being checked or found safe, unless the run will be refused (`CheckInv`);
after it all of them are safe (`SafeInv`). Assumed is that
the lifetime is positive, that the tree of directories is a tree, and that a scenario names files of it.

**ConfigExpansion.** Each level has a bound, the system variables that its allowlist, or the lists it
inherits from, admit. `EnvInv` says of everything a step can read that it carries no system variable beyond
the bound of its level: the texts of the level under expansion (`SpecInv`), the variables it inherits
and defines (`RtInv`), the environments built (`EnvsInv`), the fields (`FieldsInv`) and the commands
completed (`ResultsInv`). The step that matters is an expansion: `ExpansionTheorem` shows that its value,
the memory it leaves and the elements of a list carry only what the text, the memory and the
variables carried before, however deep references go and whatever marks stop them; the same
is shown of template parameters. Recursive functions are reasoned about in two steps: that one
exists, and what its values are, each an induction over a set of numbers (`SetInduction`, from the
well-foundedness of `<`). Assumed is that texts, names and templates of the configuration are well formed
and that the depth limit is a number.

Only model-checked:

* liveness (`WaitersServed`, `TimeoutEndsCommand`, `RunEnds`, `NotificationsSettle`), which is out of
  this prover's reach;
* `WrappedRunsDenied`, `WritesJudged` and `BinaryJudged`, which compare the scans of a command
  line, a path or a program with a reference written from another grammar. Each would need an
  induction per scan that relates it to the reference's own recursion, under assumptions on the
  tokens that make the two grammars agree; `gate` enumerates them instead;
* `ExpandedAsDefined` and `NothingSecretLogged`: ConfigReference, Redaction and Reporting define the meaning
  of a text and the redaction of a value by recursive operators over trees, which the prover does not
  accept.

## 6. Plan

1. The retries of Reporting: how many attempts a notification gets, apart from the redaction.
2. `ExpandedAsDefined`, with the reference rewritten as functions by number of levels, as
   VariableExpansion is.

## 7. Not modelled

Layout of messages, terminal colours and flag parsing: no property depends on them.
Parsing of ELF, Mach-O, TOML and JSON, and machine code other than x86-64
system calls (arm64, Mach-O, the pass over Go's own wrappers, the matching of
libc wrappers): pure functions of large inputs, abstracted to what they yield.
Instructions that write a register they do not name, other than `mul`, (`xchg`, `rdtsc`) are not in the programs
of `gate`. That the preview of a dry run decides as the gate does: RiskEvaluation previews outcomes.
The interpreter of a script while it is *recorded* (`validator.go:539`), and in-place
modification of a file while it is recorded (RecordStore replaces files by
rename). The walk of `safefileio` without `openat2`. The lists that the dry run prints. macOS
specifics, except that the saved ids cannot be read there.
