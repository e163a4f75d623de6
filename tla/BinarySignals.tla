---------------------------- MODULE BinarySignals ----------------------------
(***************************************************************************)
(* How the analysis record of a binary becomes a risk class at run time. A *)
(* record holds the symbols that matter, the system calls found with their *)
(* numbers (-1: the number could not be determined) and how each was found,*)
(* and what is known of the protection argument of the mprotect family.    *)
(***************************************************************************)
EXTENDS Integers

CONSTANTS NetworkSyscalls, ExecSyscalls    \* numbers of the architecture's table

BinaryRecord(symbols, dynamicLoad, syscalls, mprotect) ==
  [symbols |-> symbols, dynamicLoad |-> dynamicLoad, syscalls |-> syscalls, mprotect |-> mprotect]

NoSignals == BinaryRecord({}, FALSE, {}, {})

\* Symbols: any dynamic load symbol is high risk, a network symbol is network.
HandleAnalysisOutput(record) ==
  [high |-> record.dynamicLoad, network |-> "network" \in record.symbols]

SyscallAnalysisHasSVCSignal(record) ==
  \E s \in record.syscalls : s.number = -1 /\ s.method = "direct_svc_0x80"

SyscallAnalysisHasNetworkSignal(record) == \E s \in record.syscalls : s.number \in NetworkSyscalls

SyscallAnalysisHasExecSignal(record) == \E s \in record.syscalls : s.number \in ExecSyscalls

\* Anything but a known absence of PROT_EXEC.
SyscallAnalysisHasMprotectExecSignal(record) == record.mprotect \ {"exec_not_set"} # {}

ClassifyRecordSignals(record) ==
  LET symbols == HandleAnalysisOutput(record)
  IN CASE \/ symbols.high
          \/ SyscallAnalysisHasSVCSignal(record)
          \/ SyscallAnalysisHasExecSignal(record)
          \/ SyscallAnalysisHasMprotectExecSignal(record) -> "high"
       [] symbols.network \/ SyscallAnalysisHasNetworkSignal(record) -> "network"
       [] OTHER -> "clean"

\* load: what reading the record of a verified file gave.
Classify(load, record) ==
  CASE load \in {"not found", "old schema", "other hash"} -> "uncertain"
    [] load = "io error" -> "error"
    [] OTHER -> ClassifyRecordSignals(record)
=============================================================================
