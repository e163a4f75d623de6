--------------------------- MODULE PrivilegeManager ---------------------------
(***************************************************************************)
(* The process identity of the runner: the startup privilege drop of       *)
(* cmd/runner/main.go, UnixPrivilegeManager.WithPrivileges                 *)
(* (internal/runner/base/privilege/unix.go) and the identity check that    *)
(* DefaultExecutor.Execute makes after every command                       *)
(* (internal/runner/base/executor/executor.go).                            *)
(*                                                                         *)
(* User and group ids are numbers, 0 is root.  seteuid(2) acts on the whole *)
(* process, so cred is one variable that all callers share; the mutex mu   *)
(* of the manager serialises the calls that change it.  The callback fn is *)
(* arbitrary code: it may fail, panic, or leave the ids changed.           *)
(***************************************************************************)
EXTENDS Integers, FiniteSets

CONSTANTS
    Callers,        \* goroutines that use the executor or the manager
    NoCaller,       \* the value of mu while it is unlocked
    Ids,            \* user and group ids, 0 among them
    savedReadable,  \* the platform implements readSavedIDs (Linux does)
    MaxCalls        \* bound on the calls the callers make in all

ASSUME CallersAssumption == NoCaller \notin Callers
ASSUME IdsAssumption == Ids \subseteq Nat /\ 0 \in Ids
ASSUME MaxCallsAssumption == MaxCalls \in Nat
ASSUME SavedReadableAssumption == savedReadable \in BOOLEAN

VARIABLES
    ruid, rgid,      \* real ids, fixed at execve
    cred,            \* effective and saved-set ids of the process
    boot,            \* cred as execve left it
    rootSetuidFile,  \* the executable is owned by root and has the setuid bit
    proc,            \* "setegid", "seteuid", "running", "exited"
    exitBy,          \* what terminated the process
    mu,              \* UnixPrivilegeManager.mu
    pc, op,          \* per caller: next step, kind of call
    execCtx,         \* per caller: saved-set ids read by prepareExecution
    panicking,       \* per caller: fn panicked
    metrics,         \* Metrics
    calls,           \* calls begun so far
    ended,           \* history: how the calls of WithPrivileges returned
    tampered,        \* history: some fn left the ids changed
    fault            \* history: some system call failed

vars == <<ruid, rgid, cred, boot, rootSetuidFile, proc, exitBy, mu,
          pc, op, execCtx, panicking, metrics, calls, ended, tampered, fault>>

host    == <<ruid, rgid, boot, rootSetuidFile>>
history == <<ended, tampered>>

\* "normal" and "usergroup" are commands run by DefaultExecutor.Execute;
\* "validation" and "other" are calls of WithPrivileges by other code, "other"
\* with an operation the manager does not know.
Ops == {"normal", "usergroup", "validation", "other"}

PCs == {"idle", "lock", "prepare", "escalate", "fn", "restore", "verify",
        "child", "check", "unwinding"}

ExitReasons == {"none", "startup", "restore", "identity", "saved", "executor", "panic"}

Creds    == [euid : Ids, egid : Ids, suid : Ids, sgid : Ids]
\* -1 is the sentinel for a platform that cannot read the saved-set ids.
Captured == [suid : Ids \cup {-1}, sgid : Ids \cup {-1}]

\* Mutant: the error of readSavedIDs is stored as if it were an id.
BugNotCaptured == [suid |-> -2, sgid |-> -2]
NotCaptured == [suid |-> -1, sgid |-> -1]

-----------------------------------------------------------------------------
(* The kernel. *)

\* execve: a setuid (setgid) file gives the process the file's owner (group)
\* as effective and saved-set id, unless its mount says nosuid.
Execve(owner, group, setuid, setgid, nosuid) ==
    LET euid == IF setuid /\ ~nosuid THEN owner ELSE ruid
        egid == IF setgid /\ ~nosuid THEN group ELSE rgid
    IN  [euid |-> euid, egid |-> egid, suid |-> euid, sgid |-> egid]

MaySeteuid(id) == cred.euid = 0 \/ id \in {ruid, cred.euid, cred.suid}
MaySetegid(id) == cred.euid = 0 \/ id \in {rgid, cred.egid, cred.sgid}

-----------------------------------------------------------------------------
(* State of the manager and of the process. *)

Init ==
    /\ ruid \in Ids /\ rgid \in Ids
    /\ \E owner, group \in Ids, setuid, setgid, nosuid \in BOOLEAN :
          /\ boot = Execve(owner, group, setuid, setgid, nosuid)
          /\ rootSetuidFile = (setuid /\ owner = 0)
    /\ cred = boot
    /\ proc = "setegid" /\ exitBy = "none"
    /\ mu = NoCaller
    /\ pc = [c \in Callers |-> "idle"]
    /\ op = [c \in Callers |-> "normal"]
    /\ execCtx = [c \in Callers |-> NotCaptured]
    /\ panicking = [c \in Callers |-> FALSE]
    /\ metrics = [attempts |-> 0, successes |-> 0, failures |-> 0]
    /\ calls = 0
    /\ ended = [failed |-> 0, completed |-> 0, panicked |-> 0]
    /\ tampered = FALSE /\ fault = FALSE

\* isPrivilegeExecutionSupported, evaluated when the manager is created: after
\* the startup drop, so native root means real and effective uid 0.
privilegeSupported == ruid = 0 \/ (rootSetuidFile /\ ruid # 0)

\* Mutant: compares with the ids the process was started with.
BugIdentityOK == cred.euid = boot.euid /\ cred.egid = boot.egid
\* Mutant: the identity is never verified.
BugIdentityUnchecked == TRUE
IdentityOK == cred.euid = ruid /\ cred.egid = rgid

Exit(reason) == proc' = "exited" /\ exitBy' = reason

\* Mutant: a failing setegid is ignored.
BugDropEgid ==
    /\ proc = "setegid"
    /\ cred' \in {cred, [cred EXCEPT !.egid = rgid]}
    /\ proc' = "seteuid"
    /\ UNCHANGED <<host, history, exitBy, fault, mu, pc, op, execCtx, panicking, metrics, calls>>

\* The steps before main's body: dropStartupPrivileges, group first.
DropEgid ==
    /\ proc = "setegid"
    /\ \/ /\ MaySetegid(rgid)
          /\ cred' = [cred EXCEPT !.egid = rgid]
          /\ proc' = "seteuid"
          /\ UNCHANGED <<exitBy, fault>>
       \/ /\ Exit("startup") /\ fault' = TRUE
          /\ UNCHANGED cred
    /\ UNCHANGED <<host, history, mu, pc, op, execCtx, panicking, metrics, calls>>

DropEuid ==
    /\ proc = "seteuid"
    /\ \/ /\ MaySeteuid(ruid)
          /\ cred' = [cred EXCEPT !.euid = ruid]
          /\ proc' = "running"
          /\ UNCHANGED <<exitBy, fault>>
       \/ /\ Exit("startup") /\ fault' = TRUE
          /\ UNCHANGED cred
    /\ UNCHANGED <<host, history, mu, pc, op, execCtx, panicking, metrics, calls>>

-----------------------------------------------------------------------------
(* DefaultExecutor.Execute and the other callers. *)

\* A call begins.  Execute ends early in its identity check when a validation
\* fails, or when a run-as command meets a manager without support.
Begin(c, o) ==
    /\ proc = "running" /\ pc[c] = "idle" /\ calls < MaxCalls
    /\ calls' = calls + 1
    /\ \/ o = "normal" /\ pc' = [pc EXCEPT ![c] = "child"] /\ UNCHANGED op
       \/ o \in {"normal", "usergroup"} /\ pc' = [pc EXCEPT ![c] = "check"] /\ UNCHANGED op
       \/ /\ o = "usergroup" => privilegeSupported
          /\ o # "normal"
          /\ pc' = [pc EXCEPT ![c] = "lock"] /\ op' = [op EXCEPT ![c] = o]
    /\ UNCHANGED <<host, history, cred, proc, exitBy, mu, execCtx, panicking, metrics, fault>>

\* executeNormal's child process ends.
ChildExits(c) ==
    /\ proc = "running" /\ pc[c] = "child"
    /\ pc' = [pc EXCEPT ![c] = "check"]
    /\ UNCHANGED <<host, history, cred, proc, exitBy, mu, op, execCtx, panicking, metrics,
                   calls, fault>>

\* The identity check at the end of Execute; it does not hold mu.
CheckIdentity(c) ==
    /\ proc = "running" /\ pc[c] = "check"
    /\ \/ IdentityOK /\ pc' = [pc EXCEPT ![c] = "idle"] /\ UNCHANGED <<proc, exitBy>>
       \/ ~IdentityOK /\ Exit("executor") /\ UNCHANGED pc
    /\ UNCHANGED <<host, history, cred, mu, op, execCtx, panicking, metrics, calls, fault>>

-----------------------------------------------------------------------------
(* UnixPrivilegeManager.WithPrivileges. *)

\* Where a caller goes when WithPrivileges returns to it.
AfterReturn(c) == IF op[c] = "usergroup" THEN "check" ELSE "idle"

Lock(c) ==
    /\ proc = "running" /\ pc[c] = "lock" /\ mu = NoCaller
    /\ mu' = c
    /\ pc' = [pc EXCEPT ![c] = "prepare"]
    /\ UNCHANGED <<host, history, cred, proc, exitBy, op, execCtx, panicking, metrics,
                   calls, fault>>

\* Metrics after one more attempt.
Counted(successes, failures) ==
    [attempts |-> metrics.attempts + 1, successes |-> successes, failures |-> failures]

\* Mutant: no unlock when the elevation fails.
BugReturn(c, next) ==
    /\ mu' = IF pc[c] = "escalate" THEN mu ELSE NoCaller
    /\ pc' = [pc EXCEPT ![c] = next]
    /\ op' = [op EXCEPT ![c] = "normal"]
    /\ execCtx' = [execCtx EXCEPT ![c] = NotCaptured]
    /\ panicking' = [panicking EXCEPT ![c] = FALSE]

\* WithPrivileges returns and caller c goes on at next: the deferred Unlock
\* releases mu and the call's locals are gone.
Return(c, next) ==
    /\ mu' = NoCaller
    /\ pc' = [pc EXCEPT ![c] = next]
    /\ op' = [op EXCEPT ![c] = "normal"]
    /\ execCtx' = [execCtx EXCEPT ![c] = NotCaptured]
    /\ panicking' = [panicking EXCEPT ![c] = FALSE]

\* An error before the callback is recorded as a failure and returned.
ReturnFailure(c) ==
    /\ metrics' = Counted(metrics.successes, metrics.failures + 1)
    /\ ended' = [ended EXCEPT !.failed = @ + 1]
    /\ Return(c, AfterReturn(c))

\* prepareExecution: capture the saved-set ids, accept the operation.
PrepareExecution(c) ==
    /\ proc = "running" /\ pc[c] = "prepare"
    /\ \/ /\ op[c] # "other"
          /\ execCtx' = [execCtx EXCEPT ![c] =
                IF savedReadable THEN [suid |-> cred.suid, sgid |-> cred.sgid]
                                 ELSE NotCaptured]
          /\ pc' = [pc EXCEPT ![c] = "escalate"]
          /\ UNCHANGED <<metrics, ended, mu, op, panicking, fault>>
       \/ op[c] = "other" /\ ReturnFailure(c) /\ UNCHANGED fault
       \/ savedReadable /\ ReturnFailure(c) /\ fault' = TRUE
    /\ UNCHANGED <<host, cred, proc, exitBy, calls, tampered>>

\* performElevation: native root keeps its ids, otherwise seteuid(0).
EscalatePrivileges(c) ==
    /\ proc = "running" /\ pc[c] = "escalate"
    /\ \/ /\ privilegeSupported
          /\ ruid = 0 \/ MaySeteuid(0)
          /\ cred' = IF ruid = 0 THEN cred ELSE [cred EXCEPT !.euid = 0]
          /\ pc' = [pc EXCEPT ![c] = "fn"]
          /\ UNCHANGED <<metrics, ended, mu, op, execCtx, panicking, fault>>
       \/ ~privilegeSupported /\ ReturnFailure(c) /\ UNCHANGED <<cred, fault>>
       \/ /\ privilegeSupported /\ ruid # 0
          /\ ReturnFailure(c) /\ fault' = TRUE
          /\ UNCHANGED cred
    /\ UNCHANGED <<host, proc, exitBy, calls, tampered>>

\* Mutant: a panic skips the restoration.
BugFnEnds(c, panics, ids) ==
    /\ proc = "running" /\ pc[c] = "fn"
    /\ cred' = cred /\ ids = cred
    /\ panicking' = [panicking EXCEPT ![c] = panics]
    /\ pc' = [pc EXCEPT ![c] = IF panics THEN "verify" ELSE "restore"]
    /\ UNCHANGED <<host, history, proc, exitBy, mu, op, execCtx, metrics, calls, fault>>

\* The callback returns, with or without an error, or panics.  It runs as root,
\* so the ids it leaves behind may be any.
FnEnds(c, panics, ids) ==
    /\ proc = "running" /\ pc[c] = "fn"
    /\ ids = cred \/ cred.euid = 0
    /\ cred' = ids
    /\ tampered' = (tampered \/ ids # cred)
    /\ panicking' = [panicking EXCEPT ![c] = panics]
    /\ pc' = [pc EXCEPT ![c] = "restore"]
    /\ UNCHANGED <<host, proc, exitBy, mu, op, execCtx, metrics, calls, ended, fault>>

\* Mutant: a panicking call counts as a success.
BugRecordSuccess(c) == Counted(metrics.successes + 1, metrics.failures)

\* RecordElevationSuccess, unless fn panicked.
RecordSuccess(c) ==
    IF panicking[c] THEN metrics
    ELSE Counted(metrics.successes + 1, metrics.failures)

\* handleCleanupAndMetrics: restorePrivileges or emergencyShutdown, then the
\* success is recorded unless fn panicked.
RestorePrivileges(c) ==
    /\ proc = "running" /\ pc[c] = "restore"
    /\ \/ /\ ruid = 0 \/ MaySeteuid(ruid)
          /\ cred' = IF ruid = 0 THEN cred ELSE [cred EXCEPT !.euid = ruid]
          /\ metrics' = RecordSuccess(c)
          /\ pc' = [pc EXCEPT ![c] = "verify"]
          /\ UNCHANGED <<proc, exitBy, fault>>
       \/ /\ ruid # 0
          /\ Exit("restore") /\ fault' = TRUE
          /\ UNCHANGED <<cred, metrics, pc>>
    /\ UNCHANGED <<host, history, mu, op, execCtx, panicking, calls>>

\* Mutant: the saved-set gid is not compared.
BugSavedOK(c) == execCtx[c] = NotCaptured \/ cred.suid = execCtx[c].suid

\* The saved-set ids are those prepareExecution captured, if it could.
SavedOK(c) ==
    \/ execCtx[c] = NotCaptured
    \/ cred.suid = execCtx[c].suid /\ cred.sgid = execCtx[c].sgid

\* identityVerifier and the saved-set check, each with its emergencyShutdown;
\* then WithPrivileges returns, or the panic goes on, with mu released.
VerifyIdentity(c) ==
    /\ proc = "running" /\ pc[c] = "verify"
    /\ \/ /\ IdentityOK /\ SavedOK(c)
          /\ Return(c, IF panicking[c] THEN "unwinding" ELSE AfterReturn(c))
          /\ ended' = IF panicking[c] THEN [ended EXCEPT !.panicked = @ + 1]
                                      ELSE [ended EXCEPT !.completed = @ + 1]
          /\ UNCHANGED <<proc, exitBy, fault>>
       \/ /\ ~IdentityOK
          /\ Exit("identity")
          /\ UNCHANGED <<mu, pc, op, execCtx, panicking, ended, fault>>
       \/ /\ IdentityOK /\ ~SavedOK(c)
          /\ Exit("saved")
          /\ UNCHANGED <<mu, pc, op, execCtx, panicking, ended, fault>>
       \/ /\ IdentityOK /\ execCtx[c] # NotCaptured      \* reading the saved-set ids fails
          /\ Exit("saved") /\ fault' = TRUE
          /\ UNCHANGED <<mu, pc, op, execCtx, panicking, ended>>
    /\ UNCHANGED <<host, cred, metrics, calls, tampered>>

\* Nobody recovers the re-panic of handleCleanupAndMetrics: the deferred
\* functions of the callers run, then the process dies.
PanicReachesTop(c) ==
    /\ proc = "running" /\ pc[c] = "unwinding"
    /\ Exit("panic")
    /\ UNCHANGED <<host, history, cred, mu, pc, op, execCtx, panicking, metrics, calls, fault>>

-----------------------------------------------------------------------------

\* The process has exited, or its callers have nothing left to do.
Stopped ==
    /\ \/ proc = "exited"
       \/ proc = "running" /\ calls = MaxCalls /\ \A c \in Callers : pc[c] = "idle"
    /\ UNCHANGED vars

\* The steps of caller c that run to their end by themselves.
OwnStep(c) ==
    \/ CheckIdentity(c) \/ PrepareExecution(c) \/ EscalatePrivileges(c)
    \/ RestorePrivileges(c) \/ VerifyIdentity(c) \/ PanicReachesTop(c)

Next ==
    \/ DropEgid \/ DropEuid \/ Stopped
    \/ \E c \in Callers :
          \/ \E o \in Ops : Begin(c, o)
          \/ ChildExits(c) \/ Lock(c)
          \/ \E panics \in BOOLEAN, ids \in Creds : FnEnds(c, panics, ids)
          \/ OwnStep(c)

\* Goroutines are scheduled, and sync.Mutex hands the lock to a waiter that has
\* waited long enough (starvation mode).  Nothing makes a child or a callback end.
Fairness ==
    \A c \in Callers : WF_vars(OwnStep(c)) /\ SF_vars(Lock(c))

Spec == Init /\ [][Next]_vars /\ Fairness

-----------------------------------------------------------------------------
(* Properties. *)

\* Every variable has its type.
TypeOK ==
    /\ ruid \in Ids /\ rgid \in Ids
    /\ cred \in Creds /\ boot \in Creds
    /\ rootSetuidFile \in BOOLEAN
    /\ proc \in {"setegid", "seteuid", "running", "exited"}
    /\ exitBy \in ExitReasons
    /\ mu \in Callers \cup {NoCaller}
    /\ pc \in [Callers -> PCs] /\ op \in [Callers -> Ops]
    /\ execCtx \in [Callers -> Captured]
    /\ panicking \in [Callers -> BOOLEAN]
    /\ metrics \in [attempts : Nat, successes : Nat, failures : Nat]
    /\ calls \in Nat
    /\ ended \in [failed : Nat, completed : Nat, panicked : Nat]
    /\ tampered \in BOOLEAN /\ fault \in BOOLEAN

\* The ids a process that holds no privilege has: effective equal to real, and
\* saved-set as at execve where the platform can read them.
Restored ==
    /\ cred.euid = ruid /\ cred.egid = rgid
    /\ savedReadable => cred.suid = boot.suid /\ cred.sgid = boot.sgid

\* The effective uid is dropped only after the effective gid: a process started
\* as root never runs as an ordinary user who keeps the file's group
\* (dropStartupPrivileges, main.go:118-120).
NeverUserInPrivilegedGroup ==
    boot.euid = 0 /\ cred.euid # 0 /\ ~tampered => cred.egid = rgid

\* Whatever fn did to the ids, and whether it returned or panicked, once mu is
\* free again in a process that still runs the ids are back: WithPrivileges
\* restores them or ends the process (unix.go:203-248).
RestoredWhenUnlocked ==
    proc = "running" /\ mu = NoCaller => Restored

\* Unless a callback sets the ids itself, the effective uid differs from the
\* real one only while the holder of mu is in its callback or about to restore,
\* and a callback always has effective uid 0 (unix.go:102-109).
ElevationExactlyInCallback ==
    proc = "running" /\ ~tampered =>
        /\ cred.euid # ruid => \E c \in Callers : mu = c /\ pc[c] \in {"fn", "restore"}
        /\ \A c \in Callers : pc[c] = "fn" => cred.euid = 0

\* Caller c is between the lock and the return of WithPrivileges.
InWithPrivileges(c) ==
    pc[c] \in {"prepare", "escalate", "fn", "restore", "verify"}

\* The emergency exits are not spurious: without a failed system call and
\* without a callback that changes ids, only the unlocked check at the end of
\* Execute can end the process, and only while another caller holds mu.
ShutdownJustified ==
    exitBy \in {"restore", "identity", "saved", "executor"} /\ ~fault /\ ~tampered =>
        /\ exitBy = "executor"
        /\ \E c, d \in Callers : c # d /\ mu = d /\ pc[d] \in {"fn", "restore"} /\ pc[c] = "check"

\* A command of executeNormal inherits an effective uid other than the real one
\* only if another caller is inside WithPrivileges: the mutex does not cover
\* executeNormal, so the sequential runner is safe and two goroutines are not.
ChildrenUnprivileged ==
    \A c \in Callers : proc = "running" /\ pc[c] = "child" /\ cred.euid # ruid =>
        \E d \in Callers \ {c} : mu = d /\ InWithPrivileges(d)

\* Between calls the metrics account for every call of WithPrivileges once: the
\* refused ones as failures, the completed ones as successes even if fn returned
\* an error, the panicking ones not at all.
MetricsAccountForCalls ==
    proc = "running" /\ mu = NoCaller =>
        /\ metrics.failures = ended.failed
        /\ metrics.successes = ended.completed
        /\ metrics.attempts = ended.failed + ended.completed

\* As long as callbacks end, a caller that waits for mu gets it or the process
\* exits: every path out of WithPrivileges, panics included, unlocks.
WaitersServed ==
    (\A d \in Callers : pc[d] = "fn" ~> (pc[d] # "fn" \/ proc = "exited")) =>
        \A c \in Callers : pc[c] = "lock" ~> (pc[c] # "lock" \/ proc = "exited")

-----------------------------------------------------------------------------
(* The inductive invariant behind the theorems of PrivilegeManagerProofs. *)

\* mu is held by exactly the caller that is inside WithPrivileges.
LockInv == \A c \in Callers : InWithPrivileges(c) <=> mu = c

\* During the startup drop nothing else has happened.
StartupInv ==
    /\ proc \in {"setegid", "seteuid"} =>
          /\ \A c \in Callers : pc[c] = "idle"
          /\ cred.suid = boot.suid /\ cred.sgid = boot.sgid /\ ~tampered
          /\ metrics = [attempts |-> 0, successes |-> 0, failures |-> 0]
          /\ ended = [failed |-> 0, completed |-> 0, panicked |-> 0]
    /\ proc = "seteuid" => cred.egid = rgid
    /\ proc # "exited" => exitBy = "none"

\* The ids captured at the start of the call are those of execve.
ContextInv ==
    \A c \in Callers : pc[c] \in {"escalate", "fn", "restore", "verify"} =>
        execCtx[c] = IF savedReadable THEN [suid |-> boot.suid, sgid |-> boot.sgid]
                                      ELSE NotCaptured

\* The ids at each stage of a call.
IdentityInv ==
    proc = "running" =>
        /\ mu = NoCaller => Restored
        /\ \A c \in Callers : pc[c] \in {"prepare", "escalate"} => Restored
        /\ \A c \in Callers : pc[c] = "fn" => cred.euid = 0
        /\ ~tampered =>
              /\ cred.egid = rgid /\ cred.suid = boot.suid /\ cred.sgid = boot.sgid
              /\ \A c \in Callers : pc[c] = "restore" => cred.euid = 0
              /\ \A c \in Callers : pc[c] = "verify" => cred.euid = ruid

\* The metrics at each stage of a call.
MetricsInv ==
    proc = "running" =>
        /\ metrics.failures = ended.failed
        /\ metrics.attempts = metrics.failures + metrics.successes
        /\ metrics.successes = ended.completed +
              IF \E c \in Callers : pc[c] = "verify" /\ ~panicking[c] THEN 1 ELSE 0

IInv == TypeOK /\ LockInv /\ StartupInv /\ ContextInv /\ IdentityInv /\ MetricsInv

=============================================================================
