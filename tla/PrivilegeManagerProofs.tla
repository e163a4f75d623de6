------------------------ MODULE PrivilegeManagerProofs ------------------------
(***************************************************************************)
(* Proofs about PrivilegeManager, for every set of callers, every set of   *)
(* ids and every bound on the calls.                                       *)
(***************************************************************************)
EXTENDS PrivilegeManager, TLAPS

\* What the return of WithPrivileges leaves in the manager is well typed.
LEMMA ReturnTyped ==
  ASSUME TypeOK, NEW c \in Callers, NEW next \in PCs, Return(c, next)
  PROVE  /\ mu' \in Callers \cup {NoCaller}
         /\ pc' \in [Callers -> PCs] /\ op' \in [Callers -> Ops]
         /\ execCtx' \in [Callers -> Captured]
         /\ panicking' \in [Callers -> BOOLEAN]
<1>1. NotCaptured \in Captured
  BY DEF NotCaptured, Captured
<1>2. "normal" \in Ops
  BY DEF Ops
<1> QED
  BY <1>1, <1>2 DEF TypeOK, Return

\* So is a failed call, its metrics included.
LEMMA ReturnFailureTyped ==
  ASSUME TypeOK, NEW c \in Callers, ReturnFailure(c)
  PROVE  /\ mu' \in Callers \cup {NoCaller}
         /\ pc' \in [Callers -> PCs] /\ op' \in [Callers -> Ops]
         /\ execCtx' \in [Callers -> Captured]
         /\ panicking' \in [Callers -> BOOLEAN]
         /\ metrics' \in [attempts : Nat, successes : Nat, failures : Nat]
         /\ ended' \in [failed : Nat, completed : Nat, panicked : Nat]
<1>1. AfterReturn(c) \in PCs
  BY DEF AfterReturn, PCs
<1>2. metrics' \in [attempts : Nat, successes : Nat, failures : Nat]
  <2>1. metrics \in [attempts : Nat, successes : Nat, failures : Nat]
    BY DEF TypeOK
  <2>2. metrics' = Counted(metrics.successes, metrics.failures + 1)
    BY DEF ReturnFailure
  <2> QED
    BY <2>1, <2>2 DEF Counted
<1>3. ended' \in [failed : Nat, completed : Nat, panicked : Nat]
  BY DEF TypeOK, ReturnFailure
<1> QED
  BY <1>1, <1>2, <1>3, ReturnTyped DEF ReturnFailure

\* The initial states are well typed.
LEMMA TypeInit == Init => TypeOK
<1> SUFFICES ASSUME Init PROVE TypeOK
  OBVIOUS
<1>1. boot \in Creds /\ rootSetuidFile \in BOOLEAN
  <2>1. PICK owner, group \in Ids, setuid, setgid, nosuid \in BOOLEAN :
           /\ boot = Execve(owner, group, setuid, setgid, nosuid)
           /\ rootSetuidFile = (setuid /\ owner = 0)
    BY DEF Init
  <2>2. ruid \in Ids /\ rgid \in Ids
    BY DEF Init
  <2>3. boot \in Creds
    BY <2>1, <2>2 DEF Execve, Creds
  <2>4. rootSetuidFile \in BOOLEAN
    BY <2>1
  <2> QED
    BY <2>3, <2>4
<1>2. NotCaptured \in Captured
  BY DEF NotCaptured, Captured
<1> QED
  BY <1>1, <1>2 DEF Init, TypeOK, PCs, Ops, ExitReasons

\* TypeOK is inductive by itself: one step per action.
LEMMA TypeStep == TypeOK /\ [Next]_vars => TypeOK'
<1> SUFFICES ASSUME TypeOK, [Next]_vars PROVE TypeOK'
  OBVIOUS
<1>1. CASE DropEgid
  BY <1>1 DEF TypeOK, host, history, Creds, PCs, Ops, ExitReasons, DropEgid, Exit
<1>2. CASE DropEuid
  BY <1>2 DEF TypeOK, host, history, Creds, PCs, Ops, ExitReasons, DropEuid, Exit
<1>3. CASE Stopped \/ UNCHANGED vars
  BY <1>3 DEF Stopped, vars, TypeOK
<1>4. ASSUME NEW c \in Callers, NEW o \in Ops, Begin(c, o) PROVE TypeOK'
  BY <1>4 DEF TypeOK, host, history, Creds, PCs, Ops, ExitReasons, Begin
<1>5. ASSUME NEW c \in Callers, ChildExits(c) PROVE TypeOK'
  BY <1>5 DEF TypeOK, host, history, Creds, PCs, Ops, ExitReasons, ChildExits
<1>6. ASSUME NEW c \in Callers, Lock(c) PROVE TypeOK'
  BY <1>6 DEF TypeOK, host, history, Creds, PCs, Ops, ExitReasons, Lock
<1>7. ASSUME NEW c \in Callers, NEW panics \in BOOLEAN, NEW ids \in Creds,
             FnEnds(c, panics, ids)
      PROVE TypeOK'
  BY <1>7 DEF TypeOK, host, history, Creds, PCs, Ops, ExitReasons, FnEnds
<1>8. ASSUME NEW c \in Callers, CheckIdentity(c) PROVE TypeOK'
  BY <1>8 DEF TypeOK, host, history, Creds, PCs, Ops, ExitReasons, CheckIdentity, Exit
<1>9. ASSUME NEW c \in Callers, PrepareExecution(c) PROVE TypeOK'
  <2> USE DEF TypeOK, host
  <2>1. CASE ReturnFailure(c) /\ fault' \in BOOLEAN
    BY <1>9, <2>1, ReturnFailureTyped DEF PrepareExecution
  <2>2. CASE UNCHANGED <<metrics, ended, mu, op, panicking, fault>>
    <3>1. [suid |-> cred.suid, sgid |-> cred.sgid] \in Captured /\ NotCaptured \in Captured
      BY DEF Captured, NotCaptured, Creds
    <3>2. pc' \in [Callers -> PCs]
      BY <1>9, <2>2 DEF PrepareExecution, ReturnFailure, Return, AfterReturn, PCs
    <3>3. execCtx' \in [Callers -> Captured]
      BY <1>9, <2>2, <3>1 DEF PrepareExecution, ReturnFailure, Return
    <3> QED
      BY <1>9, <2>2, <3>2, <3>3 DEF PrepareExecution
  <2> QED
    BY <1>9, <2>1, <2>2 DEF PrepareExecution
<1>10. ASSUME NEW c \in Callers, EscalatePrivileges(c) PROVE TypeOK'
  <2> USE DEF TypeOK, host
  <2>1. CASE ReturnFailure(c) /\ fault' \in BOOLEAN /\ UNCHANGED cred
    BY <1>10, <2>1, ReturnFailureTyped DEF EscalatePrivileges
  <2>2. CASE /\ cred' = IF ruid = 0 THEN cred ELSE [cred EXCEPT !.euid = 0]
             /\ pc' = [pc EXCEPT ![c] = "fn"]
             /\ UNCHANGED <<metrics, ended, mu, op, execCtx, panicking, fault>>
    <3>1. cred' \in Creds
      BY <2>2, IdsAssumption DEF Creds
    <3>2. pc' \in [Callers -> PCs]
      BY <2>2 DEF PCs
    <3> QED
      BY <1>10, <2>2, <3>1, <3>2 DEF EscalatePrivileges
  <2> QED
    BY <1>10, <2>1, <2>2 DEF EscalatePrivileges
<1>11. ASSUME NEW c \in Callers, RestorePrivileges(c) PROVE TypeOK'
  <2> USE DEF TypeOK, host, history
  <2>1. cred' \in Creds
    BY <1>11 DEF RestorePrivileges, Creds
  <2>2. metrics' \in [attempts : Nat, successes : Nat, failures : Nat]
    <3>1. metrics \in [attempts : Nat, successes : Nat, failures : Nat]
      OBVIOUS
    <3>2. \/ metrics' = metrics
          \/ metrics' = Counted(metrics.successes + 1, metrics.failures)
      BY <1>11 DEF RestorePrivileges, RecordSuccess
    <3> HIDE DEF TypeOK
    <3> QED
      BY <3>1, <3>2 DEF Counted
  <2>3. pc' \in [Callers -> PCs]
    BY <1>11 DEF RestorePrivileges, PCs
  <2>4. exitBy' \in ExitReasons /\ proc' \in {"setegid", "seteuid", "running", "exited"}
    BY <1>11 DEF RestorePrivileges, Exit, ExitReasons
  <2> QED
    BY <1>11, <2>1, <2>2, <2>3, <2>4 DEF RestorePrivileges
<1>12. ASSUME NEW c \in Callers, VerifyIdentity(c) PROVE TypeOK'
  <2> USE DEF TypeOK, host
  <2>1. CASE /\ Return(c, IF panicking[c] THEN "unwinding" ELSE AfterReturn(c))
             /\ ended' = IF panicking[c] THEN [ended EXCEPT !.panicked = @ + 1]
                                         ELSE [ended EXCEPT !.completed = @ + 1]
             /\ UNCHANGED <<proc, exitBy, fault>>
    <3>1. (IF panicking[c] THEN "unwinding" ELSE AfterReturn(c)) \in PCs
      BY DEF AfterReturn, PCs
    <3>2. ended' \in [failed : Nat, completed : Nat, panicked : Nat]
      BY <2>1
    <3> QED
      BY <1>12, <2>1, <3>1, <3>2, ReturnTyped DEF VerifyIdentity
  <2>2. CASE UNCHANGED <<mu, pc, op, execCtx, panicking, ended>>
    BY <1>12, <2>2 DEF VerifyIdentity, Exit, ExitReasons
  <2> QED
    BY <1>12, <2>1, <2>2 DEF VerifyIdentity
<1>13. ASSUME NEW c \in Callers, PanicReachesTop(c) PROVE TypeOK'
  BY <1>13 DEF TypeOK, host, history, Creds, PCs, Ops, ExitReasons, PanicReachesTop, Exit
<1> QED
  BY <1>1, <1>2, <1>3, <1>4, <1>5, <1>6, <1>7, <1>8, <1>9, <1>10, <1>11, <1>12, <1>13
  DEF Next, OwnStep

\* Every variable keeps its type, the counters of Metrics and the recorded
\* saved-set ids included.
THEOREM TypeCorrect == Spec => []TypeOK
<1> QED
  BY TypeInit, TypeStep, PTL DEF Spec

\* Only the holder of mu is inside WithPrivileges, after every action.
LEMMA LockStep == IInv /\ [Next]_vars => LockInv'
<1> SUFFICES ASSUME IInv, [Next]_vars PROVE LockInv'
  OBVIOUS
<1> USE DEF IInv, TypeOK, host, history
<1>1. CASE Stopped \/ UNCHANGED vars
  BY <1>1 DEF Stopped, vars, LockInv, InWithPrivileges, PCs
<1>2. CASE DropEgid
  BY <1>2, CallersAssumption DEF DropEgid, Exit, MaySetegid, LockInv, InWithPrivileges, PCs
<1>3. CASE DropEuid
  BY <1>3, CallersAssumption DEF DropEuid, Exit, MaySeteuid, LockInv, InWithPrivileges, PCs
<1>4. ASSUME NEW c \in Callers, NEW o \in Ops, Begin(c, o)
      PROVE LockInv'
  BY <1>4, CallersAssumption DEF Begin, LockInv, InWithPrivileges, PCs
<1>5. ASSUME NEW c \in Callers, ChildExits(c)
      PROVE LockInv'
  BY <1>5, CallersAssumption DEF ChildExits, LockInv, InWithPrivileges, PCs
<1>6. ASSUME NEW c \in Callers, Lock(c)
      PROVE LockInv'
  BY <1>6, CallersAssumption DEF Lock, LockInv, InWithPrivileges, PCs
<1>7. ASSUME NEW c \in Callers, NEW panics \in BOOLEAN, NEW ids \in Creds,
             FnEnds(c, panics, ids)
      PROVE LockInv'
  BY <1>7, CallersAssumption DEF FnEnds, LockInv, InWithPrivileges, PCs
<1>8. ASSUME NEW c \in Callers, CheckIdentity(c)
      PROVE LockInv'
  BY <1>8, CallersAssumption DEF CheckIdentity, Exit, IdentityOK, LockInv, InWithPrivileges, PCs
<1>9. ASSUME NEW c \in Callers, PrepareExecution(c)
      PROVE LockInv'
  BY <1>9, CallersAssumption DEF PrepareExecution, ReturnFailure, Return, AfterReturn, LockInv, InWithPrivileges, PCs
<1>10. ASSUME NEW c \in Callers, EscalatePrivileges(c)
      PROVE LockInv'
  BY <1>10, CallersAssumption DEF EscalatePrivileges, ReturnFailure, Return, AfterReturn, LockInv, InWithPrivileges, PCs
<1>11. ASSUME NEW c \in Callers, RestorePrivileges(c)
      PROVE LockInv'
  BY <1>11, CallersAssumption DEF RestorePrivileges, Exit, LockInv, InWithPrivileges, PCs
<1>12. ASSUME NEW c \in Callers, VerifyIdentity(c)
      PROVE LockInv'
  BY <1>12, CallersAssumption DEF VerifyIdentity, Return, AfterReturn, Exit, LockInv, InWithPrivileges, PCs
<1>13. ASSUME NEW c \in Callers, PanicReachesTop(c)
      PROVE LockInv'
  BY <1>13, CallersAssumption DEF PanicReachesTop, Exit, LockInv, InWithPrivileges, PCs
<1> QED
  BY <1>1, <1>2, <1>3, <1>4, <1>5, <1>6, <1>7, <1>8, <1>9, <1>10, <1>11, <1>12, <1>13 DEF Next, OwnStep

\* The startup drop precedes everything else.
LEMMA StartupStep == IInv /\ [Next]_vars => StartupInv'
<1> SUFFICES ASSUME IInv, [Next]_vars PROVE StartupInv'
  OBVIOUS
<1> USE DEF IInv, TypeOK, host, history
<1>1. CASE Stopped \/ UNCHANGED vars
  BY <1>1 DEF Stopped, vars, StartupInv
<1>2. CASE DropEgid
  BY <1>2 DEF DropEgid, Exit, MaySetegid, StartupInv, Creds
<1>3. CASE DropEuid
  BY <1>3 DEF DropEuid, Exit, MaySeteuid, StartupInv, Creds
<1>4. ASSUME NEW c \in Callers, NEW o \in Ops, Begin(c, o)
      PROVE StartupInv'
  BY <1>4 DEF Begin, StartupInv
<1>5. ASSUME NEW c \in Callers, ChildExits(c)
      PROVE StartupInv'
  BY <1>5 DEF ChildExits, StartupInv
<1>6. ASSUME NEW c \in Callers, Lock(c)
      PROVE StartupInv'
  BY <1>6 DEF Lock, StartupInv
<1>7. ASSUME NEW c \in Callers, NEW panics \in BOOLEAN, NEW ids \in Creds,
             FnEnds(c, panics, ids)
      PROVE StartupInv'
  BY <1>7 DEF FnEnds, StartupInv
<1>8. ASSUME NEW c \in Callers, CheckIdentity(c)
      PROVE StartupInv'
  BY <1>8 DEF CheckIdentity, Exit, IdentityOK, StartupInv
<1>9. ASSUME NEW c \in Callers, PrepareExecution(c)
      PROVE StartupInv'
  BY <1>9 DEF PrepareExecution, ReturnFailure, Return, AfterReturn, StartupInv
<1>10. ASSUME NEW c \in Callers, EscalatePrivileges(c)
      PROVE StartupInv'
  BY <1>10 DEF EscalatePrivileges, ReturnFailure, Return, AfterReturn, StartupInv
<1>11. ASSUME NEW c \in Callers, RestorePrivileges(c)
      PROVE StartupInv'
  BY <1>11 DEF RestorePrivileges, Exit, StartupInv
<1>12. ASSUME NEW c \in Callers, VerifyIdentity(c)
      PROVE StartupInv'
  BY <1>12 DEF VerifyIdentity, Return, AfterReturn, Exit, StartupInv
<1>13. ASSUME NEW c \in Callers, PanicReachesTop(c)
      PROVE StartupInv'
  BY <1>13 DEF PanicReachesTop, Exit, StartupInv
<1> QED
  BY <1>1, <1>2, <1>3, <1>4, <1>5, <1>6, <1>7, <1>8, <1>9, <1>10, <1>11, <1>12, <1>13 DEF Next, OwnStep

\* The captured ids are compared with those of execve.
LEMMA ContextStep == IInv /\ [Next]_vars => ContextInv'
<1> SUFFICES ASSUME IInv, [Next]_vars PROVE ContextInv'
  OBVIOUS
<1> USE DEF IInv, TypeOK, host, history
<1>1. CASE Stopped \/ UNCHANGED vars
  BY <1>1 DEF Stopped, vars, ContextInv, NotCaptured, IdentityInv, Restored
<1>2. CASE DropEgid
  BY <1>2 DEF DropEgid, Exit, MaySetegid, ContextInv, NotCaptured, IdentityInv, Restored
<1>3. CASE DropEuid
  BY <1>3 DEF DropEuid, Exit, MaySeteuid, ContextInv, NotCaptured, IdentityInv, Restored
<1>4. ASSUME NEW c \in Callers, NEW o \in Ops, Begin(c, o)
      PROVE ContextInv'
  BY <1>4 DEF Begin, ContextInv, NotCaptured, IdentityInv, Restored
<1>5. ASSUME NEW c \in Callers, ChildExits(c)
      PROVE ContextInv'
  BY <1>5 DEF ChildExits, ContextInv, NotCaptured, IdentityInv, Restored
<1>6. ASSUME NEW c \in Callers, Lock(c)
      PROVE ContextInv'
  BY <1>6 DEF Lock, ContextInv, NotCaptured, IdentityInv, Restored
<1>7. ASSUME NEW c \in Callers, NEW panics \in BOOLEAN, NEW ids \in Creds,
             FnEnds(c, panics, ids)
      PROVE ContextInv'
  BY <1>7 DEF FnEnds, ContextInv, NotCaptured, IdentityInv, Restored
<1>8. ASSUME NEW c \in Callers, CheckIdentity(c)
      PROVE ContextInv'
  BY <1>8 DEF CheckIdentity, Exit, IdentityOK, ContextInv, NotCaptured, IdentityInv, Restored
<1>9. ASSUME NEW c \in Callers, PrepareExecution(c)
      PROVE ContextInv'
  BY <1>9 DEF PrepareExecution, ReturnFailure, Return, AfterReturn, ContextInv, NotCaptured, IdentityInv, Restored
<1>10. ASSUME NEW c \in Callers, EscalatePrivileges(c)
      PROVE ContextInv'
  BY <1>10 DEF EscalatePrivileges, ReturnFailure, Return, AfterReturn, ContextInv, NotCaptured, IdentityInv, Restored
<1>11. ASSUME NEW c \in Callers, RestorePrivileges(c)
      PROVE ContextInv'
  BY <1>11 DEF RestorePrivileges, Exit, ContextInv, NotCaptured, IdentityInv, Restored
<1>12. ASSUME NEW c \in Callers, VerifyIdentity(c)
      PROVE ContextInv'
  BY <1>12 DEF VerifyIdentity, Return, AfterReturn, Exit, ContextInv, NotCaptured, IdentityInv, Restored
<1>13. ASSUME NEW c \in Callers, PanicReachesTop(c)
      PROVE ContextInv'
  BY <1>13 DEF PanicReachesTop, Exit, ContextInv, NotCaptured, IdentityInv, Restored
<1> QED
  BY <1>1, <1>2, <1>3, <1>4, <1>5, <1>6, <1>7, <1>8, <1>9, <1>10, <1>11, <1>12, <1>13 DEF Next, OwnStep

\* The ids at each stage of a call.
LEMMA IdentityStep == IInv /\ [Next]_vars => IdentityInv'
<1> SUFFICES ASSUME IInv, [Next]_vars PROVE IdentityInv'
  OBVIOUS
<1> USE DEF IInv, TypeOK, host, history
<1>1. CASE Stopped \/ UNCHANGED vars
  BY <1>1 DEF Stopped, vars, IdentityInv, LockInv, InWithPrivileges, Restored
<1>2. CASE DropEgid
  BY <1>2, CallersAssumption, IdsAssumption DEF DropEgid, Exit, MaySetegid, IdentityInv, LockInv, InWithPrivileges, Restored
<1>3. CASE DropEuid
  BY <1>3, CallersAssumption, IdsAssumption DEF DropEuid, Exit, MaySeteuid, IdentityInv, LockInv, InWithPrivileges, Restored, StartupInv, Creds
<1>4. ASSUME NEW c \in Callers, NEW o \in Ops, Begin(c, o)
      PROVE IdentityInv'
  BY <1>4, CallersAssumption, IdsAssumption DEF Begin, IdentityInv, LockInv, InWithPrivileges, Restored
<1>5. ASSUME NEW c \in Callers, ChildExits(c)
      PROVE IdentityInv'
  BY <1>5, CallersAssumption, IdsAssumption DEF ChildExits, IdentityInv, LockInv, InWithPrivileges, Restored
<1>6. ASSUME NEW c \in Callers, Lock(c)
      PROVE IdentityInv'
  BY <1>6, CallersAssumption, IdsAssumption DEF Lock, IdentityInv, LockInv, InWithPrivileges, Restored
<1>7. ASSUME NEW c \in Callers, NEW panics \in BOOLEAN, NEW ids \in Creds,
             FnEnds(c, panics, ids)
      PROVE IdentityInv'
  BY <1>7, CallersAssumption, IdsAssumption DEF FnEnds, IdentityInv, LockInv, InWithPrivileges, Restored
<1>8. ASSUME NEW c \in Callers, CheckIdentity(c)
      PROVE IdentityInv'
  BY <1>8, CallersAssumption, IdsAssumption DEF CheckIdentity, Exit, IdentityOK, IdentityInv, LockInv, InWithPrivileges, Restored
<1>9. ASSUME NEW c \in Callers, PrepareExecution(c)
      PROVE IdentityInv'
  BY <1>9, CallersAssumption, IdsAssumption DEF PrepareExecution, ReturnFailure, Return, AfterReturn, IdentityInv, LockInv, InWithPrivileges, Restored
<1>10. ASSUME NEW c \in Callers, EscalatePrivileges(c)
      PROVE IdentityInv'
  BY <1>10, CallersAssumption, IdsAssumption DEF EscalatePrivileges, ReturnFailure, Return, AfterReturn, IdentityInv, LockInv, InWithPrivileges, Restored, Creds
<1>11. ASSUME NEW c \in Callers, RestorePrivileges(c)
      PROVE IdentityInv'
  BY <1>11, CallersAssumption, IdsAssumption DEF RestorePrivileges, Exit, IdentityInv, LockInv, InWithPrivileges, Restored, Creds
<1>12. ASSUME NEW c \in Callers, VerifyIdentity(c)
      PROVE IdentityInv'
  <2>1. IdentityOK /\ SavedOK(c) => Restored
    <3>1. boot.suid # -1
      BY IdsAssumption DEF Creds
    <3>2. savedReadable => execCtx[c] # NotCaptured
      BY <1>12, <3>1 DEF VerifyIdentity, ContextInv, NotCaptured
    <3>3. savedReadable => execCtx[c] = [suid |-> boot.suid, sgid |-> boot.sgid]
      BY <1>12 DEF VerifyIdentity, ContextInv
    <3> QED
      BY <3>2, <3>3 DEF IdentityOK, SavedOK, Restored
  <2>2. CASE proc' = "exited"
    BY <2>2 DEF IdentityInv
  <2>3. CASE proc' # "exited"
    BY <1>12, <2>1, <2>3, CallersAssumption
    DEF VerifyIdentity, Return, AfterReturn, Exit, IdentityInv, LockInv, InWithPrivileges, Restored
  <2> QED
    BY <2>2, <2>3
<1>13. ASSUME NEW c \in Callers, PanicReachesTop(c)
      PROVE IdentityInv'
  BY <1>13, CallersAssumption, IdsAssumption DEF PanicReachesTop, Exit, IdentityInv, LockInv, InWithPrivileges, Restored
<1> QED
  BY <1>1, <1>2, <1>3, <1>4, <1>5, <1>6, <1>7, <1>8, <1>9, <1>10, <1>11, <1>12, <1>13 DEF Next, OwnStep

\* The metrics at each stage of a call.
LEMMA MetricsStep == IInv /\ [Next]_vars => MetricsInv'
<1> SUFFICES ASSUME IInv, [Next]_vars PROVE MetricsInv'
  OBVIOUS
<1> USE DEF IInv, TypeOK, host, history
<1>1. CASE Stopped \/ UNCHANGED vars
  BY <1>1 DEF Stopped, vars, MetricsInv, LockInv, InWithPrivileges
<1>2. CASE DropEgid
  BY <1>2, CallersAssumption DEF DropEgid, Exit, MaySetegid, MetricsInv, LockInv, InWithPrivileges
<1>3. CASE DropEuid
  BY <1>3, CallersAssumption DEF DropEuid, Exit, MaySeteuid, MetricsInv, LockInv, InWithPrivileges, StartupInv
<1>4. ASSUME NEW c \in Callers, NEW o \in Ops, Begin(c, o)
      PROVE MetricsInv'
  BY <1>4, CallersAssumption DEF Begin, MetricsInv, LockInv, InWithPrivileges
<1>5. ASSUME NEW c \in Callers, ChildExits(c)
      PROVE MetricsInv'
  BY <1>5, CallersAssumption DEF ChildExits, MetricsInv, LockInv, InWithPrivileges
<1>6. ASSUME NEW c \in Callers, Lock(c)
      PROVE MetricsInv'
  BY <1>6, CallersAssumption DEF Lock, MetricsInv, LockInv, InWithPrivileges
<1>7. ASSUME NEW c \in Callers, NEW panics \in BOOLEAN, NEW ids \in Creds,
             FnEnds(c, panics, ids)
      PROVE MetricsInv'
  BY <1>7, CallersAssumption DEF FnEnds, MetricsInv, LockInv, InWithPrivileges
<1>8. ASSUME NEW c \in Callers, CheckIdentity(c)
      PROVE MetricsInv'
  BY <1>8, CallersAssumption DEF CheckIdentity, Exit, IdentityOK, MetricsInv, LockInv, InWithPrivileges
<1>9. ASSUME NEW c \in Callers, PrepareExecution(c)
      PROVE MetricsInv'
  BY <1>9, CallersAssumption DEF PrepareExecution, ReturnFailure, Return, AfterReturn, MetricsInv, LockInv, InWithPrivileges, Counted
<1>10. ASSUME NEW c \in Callers, EscalatePrivileges(c)
      PROVE MetricsInv'
  BY <1>10, CallersAssumption DEF EscalatePrivileges, ReturnFailure, Return, AfterReturn, MetricsInv, LockInv, InWithPrivileges, Counted
<1>11. ASSUME NEW c \in Callers, RestorePrivileges(c)
      PROVE MetricsInv'
  BY <1>11, CallersAssumption DEF RestorePrivileges, Exit, MetricsInv, LockInv, InWithPrivileges, RecordSuccess, Counted
<1>12. ASSUME NEW c \in Callers, VerifyIdentity(c)
      PROVE MetricsInv'
  BY <1>12, CallersAssumption DEF VerifyIdentity, Return, AfterReturn, Exit, MetricsInv, LockInv, InWithPrivileges
<1>13. ASSUME NEW c \in Callers, PanicReachesTop(c)
      PROVE MetricsInv'
  BY <1>13, CallersAssumption DEF PanicReachesTop, Exit, MetricsInv, LockInv, InWithPrivileges
<1> QED
  BY <1>1, <1>2, <1>3, <1>4, <1>5, <1>6, <1>7, <1>8, <1>9, <1>10, <1>11, <1>12, <1>13 DEF Next, OwnStep

\* The inductive invariant holds in every reachable state.
LEMMA Inductive == Spec => []IInv
<1>1. Init => IInv
  <2> SUFFICES ASSUME Init PROVE IInv
    OBVIOUS
  <2>1. TypeOK
    BY TypeInit
  <2>2. LockInv
    BY CallersAssumption DEF Init, LockInv, InWithPrivileges
  <2>3. StartupInv
    BY DEF Init, StartupInv
  <2>4. ContextInv /\ IdentityInv /\ MetricsInv
    BY DEF Init, ContextInv, IdentityInv, MetricsInv
  <2> QED
    BY <2>1, <2>2, <2>3, <2>4 DEF IInv
<1>2. IInv /\ [Next]_vars => IInv'
  BY TypeStep, LockStep, StartupStep, ContextStep, IdentityStep, MetricsStep DEF IInv
<1> QED
  BY <1>1, <1>2, PTL DEF Spec

\* WithPrivileges gives the ids back or ends the process: whatever the callback
\* did, while mu is free a running process has its own ids.
THEOREM RestoredTheorem == Spec => []RestoredWhenUnlocked
<1>1. IInv => RestoredWhenUnlocked
  BY DEF IInv, IdentityInv, RestoredWhenUnlocked
<1> QED
  BY <1>1, Inductive, PTL

\* During the startup drop the effective uid is still the one of execve.
GroupInv ==
    /\ NeverUserInPrivilegedGroup
    /\ proc \in {"setegid", "seteuid"} => cred.euid = boot.euid

\* No action leaves an ordinary user with the group of the file: the uid is
\* dropped when the gid is already the user's, and later steps find it so.
LEMMA GroupStep == IInv /\ GroupInv /\ [Next]_vars => GroupInv'
<1> SUFFICES ASSUME IInv, GroupInv, [Next]_vars PROVE GroupInv'
  OBVIOUS
<1> USE DEF IInv, TypeOK, host, history, GroupInv, NeverUserInPrivilegedGroup, Creds
<1>1. CASE UNCHANGED <<boot, rgid, cred, tampered>> /\ proc' \in {proc, "exited"}
  BY <1>1
<1>2. CASE DropEgid
  BY <1>2 DEF DropEgid, Exit
<1>3. CASE DropEuid
  BY <1>3 DEF DropEuid, Exit, StartupInv
<1>4. ASSUME NEW c \in Callers, NEW panics \in BOOLEAN, NEW ids \in Creds,
             FnEnds(c, panics, ids)
      PROVE GroupInv'
  BY <1>4 DEF FnEnds, IdentityInv
<1>5. ASSUME NEW c \in Callers, EscalatePrivileges(c) PROVE GroupInv'
  BY <1>5 DEF EscalatePrivileges, IdentityInv
<1>6. ASSUME NEW c \in Callers, RestorePrivileges(c) PROVE GroupInv'
  BY <1>6 DEF RestorePrivileges, Exit, IdentityInv
<1>7. ASSUME NEW c \in Callers, NEW o \in Ops,
             Begin(c, o) \/ ChildExits(c) \/ Lock(c) \/ CheckIdentity(c)
                \/ PrepareExecution(c) \/ VerifyIdentity(c) \/ PanicReachesTop(c)
      PROVE GroupInv'
  BY <1>7, <1>1
  DEF Begin, ChildExits, Lock, CheckIdentity, PrepareExecution, VerifyIdentity,
      PanicReachesTop, Exit
<1>8. CASE Stopped \/ UNCHANGED vars
  BY <1>8, <1>1 DEF Stopped, vars
<1>9. "normal" \in Ops
  BY DEF Ops
<1> QED
  BY <1>2, <1>3, <1>4, <1>5, <1>6, <1>7, <1>8, <1>9 DEF Next, OwnStep

\* A process started as root never runs as an ordinary user who keeps the
\* group of the executable: dropStartupPrivileges drops the group first, and
\* nothing after it but the callback brings the group back.
THEOREM GroupTheorem == Spec => []NeverUserInPrivilegedGroup
<1>1. Init => GroupInv
  BY DEF Init, GroupInv, NeverUserInPrivilegedGroup
<1>2. GroupInv => NeverUserInPrivilegedGroup
  BY DEF GroupInv
<1> QED
  BY <1>1, <1>2, GroupStep, Inductive, PTL DEF Spec

\* Root is held exactly in the callbacks of the holder of mu.
THEOREM ElevationTheorem == Spec => []ElevationExactlyInCallback
<1>1. IInv => ElevationExactlyInCallback
  <2> SUFFICES ASSUME IInv, proc = "running", ~tampered
               PROVE  /\ cred.euid # ruid =>
                            \E c \in Callers : mu = c /\ pc[c] \in {"fn", "restore"}
                      /\ \A c \in Callers : pc[c] = "fn" => cred.euid = 0
    BY DEF ElevationExactlyInCallback
  <2>1. ASSUME cred.euid # ruid
        PROVE  \E c \in Callers : mu = c /\ pc[c] \in {"fn", "restore"}
    <3>1. mu \in Callers
      BY <2>1 DEF IInv, IdentityInv, Restored, TypeOK
    <3>2. pc[mu] \in {"fn", "restore"}
      BY <2>1, <3>1 DEF IInv, IdentityInv, Restored, LockInv, InWithPrivileges
    <3> QED
      BY <3>1, <3>2
  <2> QED
    BY <2>1 DEF IInv, IdentityInv
<1> QED
  BY <1>1, Inductive, PTL

\* A command of executeNormal is started with an effective uid other than the real
\* one only while another goroutine is inside WithPrivileges, whose mutex
\* executeNormal does not take: that case is allowed here. SingleCallerTheorem
\* excludes it for one caller.
THEOREM ChildrenTheorem == Spec => []ChildrenUnprivileged
<1>1. IInv => ChildrenUnprivileged
  BY DEF IInv, IdentityInv, Restored, TypeOK, LockInv, InWithPrivileges, ChildrenUnprivileged
<1> QED
  BY <1>1, Inductive, PTL

\* The metrics account for every call.
THEOREM MetricsTheorem == Spec => []MetricsAccountForCalls
<1>1. IInv => MetricsAccountForCalls
  <2> SUFFICES ASSUME IInv, proc = "running", mu = NoCaller
               PROVE  /\ metrics.failures = ended.failed
                      /\ metrics.successes = ended.completed
                      /\ metrics.attempts = ended.failed + ended.completed
    BY DEF MetricsAccountForCalls
  <2>1. ~ \E c \in Callers : pc[c] = "verify" /\ ~panicking[c]
    BY CallersAssumption DEF IInv, LockInv, InWithPrivileges
  <2>2. metrics.failures \in Nat /\ ended.completed \in Nat
    BY DEF IInv, TypeOK
  <2> QED
    BY <2>1, <2>2 DEF IInv, MetricsInv
<1> QED
  BY <1>1, Inductive, PTL

\* The emergency exits are never spurious; it needs IInv before the step that
\* exits, and nothing happens after it.
THEOREM ShutdownTheorem == Spec => []ShutdownJustified
<1>1. Init => ShutdownJustified
  BY DEF Init, ShutdownJustified
<1>2. IInv /\ ShutdownJustified /\ [Next]_vars => ShutdownJustified'
  <2> SUFFICES ASSUME IInv, ShutdownJustified, [Next]_vars PROVE ShutdownJustified'
    OBVIOUS
  <2> USE DEF ShutdownJustified
  <2>1. CASE Stopped \/ UNCHANGED vars
    BY <2>1 DEF Stopped, vars
  <2>2. CASE DropEgid \/ DropEuid
    BY <2>2 DEF DropEgid, DropEuid, Exit, IInv, StartupInv
  <2>3. ASSUME proc = "running", proc' = "running", UNCHANGED exitBy PROVE ShutdownJustified'
    BY <2>3 DEF IInv, StartupInv
  <2>4. ASSUME NEW c \in Callers, RestorePrivileges(c) PROVE ShutdownJustified'
    BY <2>3, <2>4 DEF RestorePrivileges, Exit, IInv, StartupInv
  <2>5. ASSUME NEW c \in Callers, VerifyIdentity(c) PROVE ShutdownJustified'
    <3>1. ~tampered => IdentityOK /\ SavedOK(c)
      BY <2>5 DEF VerifyIdentity, IInv, IdentityInv, ContextInv, IdentityOK, SavedOK
    <3> QED
      BY <2>3, <2>5, <3>1 DEF VerifyIdentity, Exit, IInv, StartupInv, host
  <2>6. ASSUME NEW c \in Callers, CheckIdentity(c) PROVE ShutdownJustified'
    <3>1. CASE IdentityOK
      BY <2>3, <2>6, <3>1 DEF CheckIdentity
    <3>2. CASE ~IdentityOK /\ ~tampered
      <4>1. mu \in Callers
        BY <2>6, <3>2 DEF CheckIdentity, IInv, IdentityInv, Restored, IdentityOK, TypeOK
      <4>2. pc[mu] \in {"fn", "restore"}
        BY <2>6, <3>2, <4>1
        DEF CheckIdentity, IInv, IdentityInv, Restored, IdentityOK, LockInv, InWithPrivileges
      <4> QED
        BY <2>6, <3>2, <4>1, <4>2 DEF CheckIdentity, Exit, history
    <3>3. CASE tampered
      BY <2>6, <3>3 DEF CheckIdentity, history
    <3> QED
      BY <3>1, <3>2, <3>3
  <2>7. ASSUME NEW c \in Callers, PanicReachesTop(c) PROVE ShutdownJustified'
    BY <2>7 DEF PanicReachesTop, Exit
  <2>8. ASSUME NEW c \in Callers, NEW o \in Ops, Begin(c, o) PROVE ShutdownJustified'
    BY <2>3, <2>8 DEF Begin
  <2>9. ASSUME NEW c \in Callers,
               \/ ChildExits(c) \/ Lock(c) \/ PrepareExecution(c) \/ EscalatePrivileges(c)
        PROVE ShutdownJustified'
    BY <2>3, <2>9 DEF ChildExits, Lock, PrepareExecution, EscalatePrivileges
  <2>10. ASSUME NEW c \in Callers, NEW panics \in BOOLEAN, NEW ids \in Creds,
                FnEnds(c, panics, ids)
         PROVE ShutdownJustified'
    BY <2>3, <2>10 DEF FnEnds
  <2> QED
    BY <2>1, <2>2, <2>4, <2>5, <2>6, <2>7, <2>8, <2>9, <2>10 DEF Next, OwnStep
<1> QED
  BY <1>1, <1>2, Inductive, PTL DEF Spec

\* The runner calls the executor from one goroutine.  With one caller, an emergency
\* exit means that a system call failed or a callback changed ids, so the identity
\* check of Execute never fires by mistake, and every command of executeNormal is
\* started with the effective uid of the user.
THEOREM SingleCallerTheorem ==
  ASSUME NEW a, Callers = {a}
  PROVE  Spec => []( /\ exitBy \in {"restore", "identity", "saved", "executor"} => fault \/ tampered
                     /\ proc = "running" /\ pc[a] = "child" => cred.euid = ruid )
<1>1. ShutdownJustified /\ ChildrenUnprivileged =>
         /\ exitBy \in {"restore", "identity", "saved", "executor"} => fault \/ tampered
         /\ proc = "running" /\ pc[a] = "child" => cred.euid = ruid
  BY DEF ShutdownJustified, ChildrenUnprivileged
<1> QED
  BY <1>1, ShutdownTheorem, ChildrenTheorem, PTL
=============================================================================
