----------------------------- MODULE BinaryScan -----------------------------
(***************************************************************************)
(* How recording a binary finds its system calls (x86-64): each syscall    *)
(* instruction, and the number in rax by a scan backwards over a window of *)
(* bytes, through copies between registers and, where a copy meets a       *)
(* branch, by a flow analysis over the window.                             *)
(*                                                                         *)
(* Code is a sequence over byte positions: code[p] is what decoding at p   *)
(* gives, an instruction [op, dst, src, val, len, at] or one with op "bad" *)
(* where nothing decodes. Instructions are told apart by how they treat    *)
(* registers: "imm" and "zero" load a constant, "copy" another register,   *)
(* "part" and "alu" write one in part or by computation, "mul" writes rax  *)
(* and rdx, "cpuid" four, "read" and "other" none; "jmp" and "jcc" go to   *)
(* val (0: not known).                                                     *)
(***************************************************************************)
EXTENDS BinarySignals, Sequences, FiniteSets

CONSTANTS MaxBackwardScan,        \* instructions scanned before a syscall
          MaxInstructionLength,   \* bytes of the longest instruction
          TailProbeBytes,         \* bytes before a syscall from which windows are tried
          MaxValidSyscallNumber,
          MprotectSyscall         \* number of mprotect

Regs == {"rax", "rdx", "rcx"}

Greater(a, b) == IF a > b THEN a ELSE b
Smaller(a, b) == IF a < b THEN a ELSE b

----------------------------------------------------------------------------
(* Instructions.                                                           *)

\* Mutant: what is written without being named is missed.
WritesNamedOnly(i, r) == i.op \in {"imm", "zero", "copy", "part", "alu"} /\ i.dst = r

WritesRegisterFamily(i, r) ==
  \/ i.op = "mul" /\ r \in {"rax", "rdx"}
  \/ i.op = "cpuid"
  \/ i.op \in {"imm", "zero", "copy", "part", "alu"} /\ i.dst = r
IsImmToRegisterFamily(i, r) == i.op \in {"imm", "zero"} /\ i.dst = r
CopySourceForRegFamily(i, r) == i.op = "copy" /\ i.dst = r
IsControlFlowInstruction(i) == i.op \in {"jmp", "jcc", "call", "ret"}
IsX86Terminator(i) == i.op \in {"call", "ret"}

\* Decoding from start; a byte where it fails is skipped.
DecodeWindow(code, start, end) ==
  LET from[p \in Nat] ==
        IF p >= end THEN <<>>
        ELSE IF code[p].op = "bad" \/ p + code[p].len > end THEN from[p + 1]
        ELSE <<code[p]>> \o from[p + code[p].len]
  IN from[start]

DecodeFailed(code, start, end) ==
  LET insts == DecodeWindow(code, start, end)
      bytes == UNION {insts[i].at..(insts[i].at + insts[i].len - 1) : i \in DOMAIN insts}
  IN bytes # start..(end - 1)

FindSyscallInstructions(code) ==
  LET insts == DecodeWindow(code, 1, Len(code) + 1)
  IN {insts[i].at : i \in {j \in DOMAIN insts : insts[j].op = "syscall"}}

----------------------------------------------------------------------------
(* The scan over the last block. It ends at a constant, at a write it      *)
(* cannot follow, at a branch, or at the limit.                            *)
ScanX86SyscallRegInBlock(insts) ==
  LET scan[i \in Nat, reg \in Regs, copyAt \in Nat, count \in Nat] ==
        LET inst == insts[i]
            Found(kind, value) == [kind |-> kind, reg |-> reg, copyAt |-> copyAt, value |-> value]
        IN IF i = 0 \/ count = MaxBackwardScan THEN Found("end", 0)
           ELSE IF IsControlFlowInstruction(inst) THEN Found("boundary", 0)
           ELSE IF ~WritesRegisterFamily(inst, reg) THEN scan[i - 1, reg, copyAt, count + 1]
           ELSE IF IsImmToRegisterFamily(inst, reg) THEN Found("imm", inst.val)
           ELSE IF CopySourceForRegFamily(inst, reg) THEN scan[i - 1, inst.src, inst.at, count + 1]
           ELSE Found("indirect", 0)
  IN scan[Len(insts), "rax", 0, 0]

----------------------------------------------------------------------------
(* The flow analysis: the registers known to hold one value where a node   *)
(* is entered, as pairs. The node after the last is the syscall.           *)
AddX86SuccessorEdge(insts, target, syscallAt) ==
  LET inside == {j \in DOMAIN insts : insts[j].at = target}
  IN IF inside # {} THEN inside ELSE IF target = syscallAt /\ target # 0 THEN {Len(insts) + 1} ELSE {}

BuildX86Successors(insts, i, syscallAt) ==
  (IF insts[i].op \in {"jmp", "jcc"} THEN AddX86SuccessorEdge(insts, insts[i].val, syscallAt) ELSE {})
  \cup (IF insts[i].op = "jmp" \/ IsX86Terminator(insts[i]) THEN {} ELSE {i + 1})

TransferX86State(known, i) ==
  {k \in known : ~WritesRegisterFamily(i, k[1])}
  \cup (IF i.op \in {"imm", "zero"} THEN {<<i.dst, i.val>>} ELSE {})
  \cup (IF i.op = "copy" THEN {<<i.dst, k[2]>> : k \in {j \in known : j[1] = i.src}} ELSE {})

\* What every predecessor that has input agrees on.
MergeX86State(states) == {k \in UNION states : \A s \in states : k \in s}

\* The states where nothing changes any more, which do not depend on the order
\* in which the nodes are visited.
X86States(insts, syscallAt) ==
  LET n == Len(insts)
      Flowed(in) ==
        <<>> \o [s \in 1..(n + 1) |->
          LET states == {TransferX86State(in[p].known, insts[p]) :
                           p \in {q \in 1..n : in[q].has /\ s \in BuildX86Successors(insts, q, syscallAt)}}
          IN IF s = 1 THEN [has |-> TRUE, known |-> {}]
             ELSE [has |-> states # {}, known |-> MergeX86State(states)]]
      settle[in \in Seq([has : BOOLEAN, known : SUBSET (Regs \X Int)])] ==
        LET next == Flowed(in) IN IF next = in THEN in ELSE settle[next]
  IN settle[<<>> \o [s \in 1..(n + 1) |-> [has |-> s = 1, known |-> {}]]]

ValuesAt(states, node, reg) == {k[2] : k \in {j \in states[node].known : j[1] = reg}}

ResolveX86RegAcrossPreds(insts, reg, syscallAt) == ValuesAt(X86States(insts, syscallAt), Len(insts) + 1, reg)

ResolveX86RegAtInstructionEntry(insts, reg, at) ==
  LET states == X86States(insts, 0)
  IN UNION {ValuesAt(states, j, reg) : j \in {i \in DOMAIN insts : insts[i].at = at}}

----------------------------------------------------------------------------
(* The number of a system call; -1 when it cannot be told, and whether it  *)
(* was a chain of copies that could not be followed.                       *)
Undetermined(chain) == [number |-> -1, chain |-> chain]
Immediate(number) == [number |-> number, chain |-> FALSE]
IsValidNumber(n) == n \in 0..MaxValidSyscallNumber
FromFlow(values) == IF \E v \in values : IsValidNumber(v) THEN Immediate(CHOOSE v \in values : TRUE) ELSE Undetermined(TRUE)

ResolveX86ImmediateScanResult(scan, insts) ==
  IF ~IsValidNumber(scan.value) THEN Undetermined(FALSE)
  ELSE IF scan.copyAt = 0 THEN Immediate(scan.value)
  ELSE FromFlow(ResolveX86RegAtInstructionEntry(insts, scan.reg, scan.copyAt))

BackwardScanX86WithWindow(code, start, at) ==
  LET insts == DecodeWindow(code, start, at)
      scan == ScanX86SyscallRegInBlock(insts)
      copied == scan.copyAt # 0
  IN IF insts = <<>> \/ scan.kind = "indirect" THEN Undetermined(FALSE)
     ELSE IF scan.kind = "imm" THEN ResolveX86ImmediateScanResult(scan, insts)
     ELSE IF scan.kind = "boundary" /\ copied THEN FromFlow(ResolveX86RegAcrossPreds(insts, scan.reg, at))
     ELSE Undetermined(copied)

Candidates(code, starts, at) == {BackwardScanX86WithWindow(code, s, at).number : s \in starts} \ {-1}

\* Every window of the tail that gives a number gives the same one.
ResolveX86CopyChainTailConsensus(code, start, at) ==
  LET numbers == Candidates(code, Greater(start, at - TailProbeBytes)..(at - 1), at)
  IN IF Cardinality(numbers) = 1 THEN numbers ELSE {}

BackwardScanX86WithRegCopy(code, at) ==
  LET start == Greater(1, at - MaxBackwardScan * MaxInstructionLength)
      first == BackwardScanX86WithWindow(code, start, at)
      tail == ResolveX86CopyChainTailConsensus(code, start, at)
      probes == {s \in (start + 1)..Smaller(start + MaxInstructionLength, at) : Candidates(code, {s}, at) # {}}
  IN IF ~first.chain THEN first.number
     ELSE IF tail # {} THEN CHOOSE n \in tail : TRUE
     ELSE IF DecodeFailed(code, start, at) /\ probes # {}
     THEN BackwardScanX86WithWindow(code, CHOOSE s \in probes : \A t \in probes : s <= t, at).number
     ELSE -1

----------------------------------------------------------------------------
(* The record.                                                             *)

\* The scan for the protection of mprotect, in rdx, follows no copies.
BackwardScanForRegister(code, at) ==
  LET insts == DecodeWindow(code, Greater(1, at - MaxBackwardScan * MaxInstructionLength), at)
      scanned == Greater(1, Len(insts) - MaxBackwardScan + 1)..Len(insts)
      stops == {i \in scanned : IsControlFlowInstruction(insts[i]) \/ WritesRegisterFamily(insts[i], "rdx")}
      last == insts[CHOOSE i \in stops : \A j \in stops : j <= i]
  IN IF stops # {} /\ IsImmToRegisterFamily(last, "rdx") THEN {last.val} ELSE {}

HasExec(prot) == (prot \div 4) % 2 = 1

EvalSingleMprotect(code, at) ==
  LET values == BackwardScanForRegister(code, at)
  IN CASE values = {} -> "exec_unknown"
       [] \E v \in values : HasExec(v) -> "exec_confirmed"
       [] OTHER -> "exec_not_set"

\* The gravest of all the calls is kept.
EvalMprotectFamilyArgs(code, locations) ==
  LET Gravest(all) == CASE "exec_confirmed" \in all -> {"exec_confirmed"}
                        [] "exec_confirmed" \notin all /\ "exec_unknown" \in all -> {"exec_unknown"}
                        [] OTHER -> all
  IN Gravest({EvalSingleMprotect(code, at) :
                at \in {l \in locations : BackwardScanX86WithRegCopy(code, l) = MprotectSyscall}})

AnalyzeSyscallsInCode(code) ==
  LET locations == FindSyscallInstructions(code)
  IN BinaryRecord({}, FALSE,
       {[number |-> BackwardScanX86WithRegCopy(code, at), method |-> "backward_scan"] : at \in locations},
       EvalMprotectFamilyArgs(code, locations))

----------------------------------------------------------------------------
(* What the processor does. A register holds a value, Foreign when it is   *)
(* that of other code, or Computed.                                        *)
Foreign == -1
Computed == 7

Executes(code, s) ==
  LET i == code[s.at]
      next == s.at + i.len
      With(r, v) == [s EXCEPT !.at = next, !.regs[r] = v]
  IN CASE i.op \in {"imm", "zero"} -> {With(i.dst, i.val)}
       [] i.op = "copy" -> {With(i.dst, s.regs[i.src])}
       [] i.op \in {"part", "alu"} -> {With(i.dst, Computed)}
       [] i.op = "mul" -> {[at |-> next, regs |-> [r \in Regs |-> IF r = "rcx" THEN s.regs[r] ELSE Computed]]}
       [] i.op = "cpuid" -> {[at |-> next, regs |-> [r \in Regs |-> Computed]]}
       [] i.op = "call" -> {[at |-> next, regs |-> [r \in Regs |-> Foreign]]}
       [] i.op = "syscall" -> {[s EXCEPT !.at = next, !.regs["rax"] = Foreign, !.regs["rcx"] = Foreign]}
       [] i.op = "jmp" -> {[s EXCEPT !.at = i.val]}
       [] i.op = "jcc" -> {[s EXCEPT !.at = i.val], [s EXCEPT !.at = next]}
       [] i.op = "ret" -> {}
       [] OTHER -> {[s EXCEPT !.at = next]}

\* All runs from the start, and from what only other code can reach.
Runs(code) ==
  LET Entered(p) == [at |-> p, regs |-> [r \in Regs |-> Foreign]]
      grow[S \in SUBSET [at : Int, regs : [Regs -> Int]]] ==
        LET T == S \cup {t \in UNION {Executes(code, s) : s \in S} : t.at \in DOMAIN code}
        IN IF T = S THEN S ELSE grow[T]
      insts == DecodeWindow(code, 1, Len(code) + 1)
      own == grow[{Entered(1)}]
      dead == {insts[i].at : i \in DOMAIN insts} \ {s.at : s \in own}
  IN own \cup grow[{Entered(p) : p \in dead}]

\* The number was looked for behind a branch, in a register that is written again
\* between the copy and the syscall: the flow analysis asks what the register holds
\* where the syscall is, not where the copy is.
SourceOverwritten(code, at) ==
  LET insts == DecodeWindow(code, 1, at)
      scan == ScanX86SyscallRegInBlock(insts)
  IN /\ scan.kind = "boundary" /\ scan.copyAt # 0
     /\ \E i \in DOMAIN insts : insts[i].at > scan.copyAt /\ WritesRegisterFamily(insts[i], scan.reg)

\* The number was only told by windows that start inside an instruction.
Misaligned(code, at) ==
  LET insts == DecodeWindow(code, 1, at)
  IN BackwardScanX86WithRegCopy(code, at) \notin Candidates(code, {insts[i].at : i \in DOMAIN insts}, at)
=============================================================================
