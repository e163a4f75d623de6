----------------------------- MODULE OutputCapture -----------------------------
(***************************************************************************)
(* One command run with output capture:                                    *)
(* NormalResourceManager.executeCommandWithOutput                          *)
(* (internal/runner/resource/normal_manager.go), the Capture and its       *)
(* manager (internal/runner/base/output) and the part of                   *)
(* DefaultExecutor.executeCommandWithPath that feeds the capture           *)
(* (internal/runner/base/executor/executor.go).                            *)
(*                                                                         *)
(* os/exec copies stdout and stderr in one goroutine each, so the two      *)
(* outputWrappers write to the shared Capture concurrently.  A byte of the  *)
(* output is the pair of its stream and its index in that stream.  The     *)
(* final path holds the file of an earlier run at the start.               *)
(***************************************************************************)
EXTENDS Integers, Sequences

CONSTANTS
    Stdout,     \* StdoutStream
    Stderr,     \* StderrStream
    NoStream,   \* the value of mutex while it is unlocked
    Limits,     \* effective output_size_limit values, 0 is unlimited
    MaxBytes,   \* bound on the bytes the command writes to one stream
    MaxChunk    \* bound on the bytes one read of a pipe returns

ASSUME StreamsAssumption == Stdout # Stderr /\ NoStream \notin {Stdout, Stderr}
ASSUME LimitsAssumption == Limits \subseteq Nat
ASSUME BoundsAssumption == MaxBytes \in Nat /\ MaxChunk \in Nat \ {0}

VARIABLES
    maxSize,      \* Capture.MaxSize; 0 when the limit is unlimited
    timeout,      \* the command has a timeout
    pc,           \* next step of executeCommandWithOutput
    err,          \* the named result err of executeCommandWithOutput
    child,        \* "none", "running", or how the child ended: "late" is with
                  \* exit status 0 after the context was done
    background,   \* a descendant holding the pipes: "none", "holding", "gone"
    emitted,      \* per stream: bytes written into the pipe
    buffer,       \* per stream: bytes in outputWrapper.buffer
    copier,       \* per stream: next step of the goroutine copying the pipe
    chunk,        \* per stream: length of the slice given to Write
    writeErr,     \* per stream: outputWrapper.writeErr
    mutex,        \* Capture.mutex, held across a check and its write
    handle,       \* Capture.FileHandle: "nil" or "open"
    currentSize,  \* Capture.CurrentSize
    temp,         \* the temporary file exists
    tempData,     \* its content
    final         \* content of the final path: Old or a sequence of bytes

vars == <<maxSize, timeout, pc, err, child, background, emitted, buffer,
          copier, chunk, writeErr, mutex, handle, currentSize, temp, tempData, final>>

config == <<maxSize, timeout>>
pipes  == <<emitted, buffer, copier, chunk, writeErr>>
store  == <<handle, currentSize, temp, tempData>>

Streams == {Stdout, Stderr}

\* What the final path holds before this run: bytes of no stream.
Old == << <<NoStream, 0>> >>

PCs      == {"prepare", "exec", "wait", "close", "move", "defer", "returned"}
Errs     == {"none", "prepare", "start", "exit", "context", "limit", "io", "finalize", "close"}
Endings  == {"success", "failure", "killed", "late"}
CopierPC == {"read", "lock", "write", "failed", "eof"}

Byte == Streams \X (1 .. MaxBytes)

Total(f) == f[Stdout] + f[Stderr]

-----------------------------------------------------------------------------

Init ==
    /\ maxSize \in Limits /\ timeout \in BOOLEAN
    /\ pc = "prepare" /\ err = "none"
    /\ child = "none" /\ background = "none"
    /\ emitted = [s \in Streams |-> 0]
    /\ buffer = [s \in Streams |-> 0]
    /\ copier = [s \in Streams |-> "read"]
    /\ chunk = [s \in Streams |-> 0]
    /\ writeErr = [s \in Streams |-> "none"]
    /\ mutex = NoStream
    /\ handle = "nil" /\ currentSize = 0
    /\ temp = FALSE /\ tempData = <<>> /\ final = Old

\* PrepareOutput: the path or the directory may be refused and CreateTemp may
\* fail; there is no capture then and nothing is deferred.
PrepareOutput ==
    /\ pc = "prepare"
    /\ \/ /\ pc' = "returned" /\ err' = "prepare"
          /\ UNCHANGED <<handle, temp>>
       \/ /\ pc' = "exec" /\ handle' = "open" /\ temp' = TRUE
          /\ UNCHANGED err
    /\ UNCHANGED <<config, child, background, pipes, mutex, currentSize, tempData, final>>

\* Execute up to cmd.Start: validation, staging of the verified descriptor and
\* Start itself may fail.
Start ==
    /\ pc = "exec"
    /\ \/ /\ pc' = "defer" /\ err' = "start"
          /\ UNCHANGED child
       \/ /\ pc' = "wait" /\ child' = "running"
          /\ UNCHANGED err
    /\ UNCHANGED <<config, background, pipes, mutex, store, final>>

-----------------------------------------------------------------------------
(* The command.  It may also be ended by SIGPIPE once a copier gave up:     *)
(* that is one of the ways of ChildEnds.                                    *)

Writing == child = "running" \/ background = "holding"

ChildWrites(s) ==
    /\ Writing /\ copier[s] # "failed" /\ emitted[s] < MaxBytes
    /\ emitted' = [emitted EXCEPT ![s] = @ + 1]
    /\ UNCHANGED <<config, pc, err, child, background, buffer, copier, chunk,
                   writeErr, mutex, store, final>>

ChildEnds ==
    /\ child = "running"
    /\ child' \in {"success", "failure", "killed"}
    /\ UNCHANGED <<config, pc, err, background, pipes, mutex, store, final>>

\* The command's context expires and os/exec kills the child, only the child;
\* the signal may find it already exiting, with status 0 or another.
Timeout ==
    /\ timeout /\ child = "running"
    /\ child' \in {"killed", "failure", "late"}
    /\ UNCHANGED <<config, pc, err, background, pipes, mutex, store, final>>

\* The child leaves a process behind that inherited the write ends.
Fork ==
    /\ child = "running" /\ background = "none"
    /\ background' = "holding"
    /\ UNCHANGED <<config, pc, err, child, pipes, mutex, store, final>>

BackgroundEnds ==
    /\ background = "holding"
    /\ background' = "gone"
    /\ UNCHANGED <<config, pc, err, child, pipes, mutex, store, final>>

-----------------------------------------------------------------------------
(* The goroutine that copies stream s: outputWrapper.Write, which calls     *)
(* Capture.WriteOutput.                                                     *)

\* io.Copy reads a chunk and outputWrapper.Write appends it to its buffer.
ReadPipe(s) ==
    /\ pc = "wait" /\ copier[s] = "read"
    /\ \E n \in 1 .. MaxChunk :
          /\ buffer[s] + n <= emitted[s]
          /\ chunk' = [chunk EXCEPT ![s] = n]
          /\ buffer' = [buffer EXCEPT ![s] = @ + n]
    /\ copier' = [copier EXCEPT ![s] = "lock"]
    /\ UNCHANGED <<config, pc, err, child, background, emitted, writeErr,
                   mutex, store, final>>

EndOfFile(s) ==
    /\ pc = "wait" /\ copier[s] = "read"
    /\ ~Writing /\ buffer[s] = emitted[s]
    /\ copier' = [copier EXCEPT ![s] = "eof"]
    /\ UNCHANGED <<config, pc, err, child, background, emitted, buffer, chunk,
                   writeErr, mutex, store, final>>

\* Mutant: the check looks at the size before this write.
BugFits(s) == currentSize <= maxSize
Fits(s) == currentSize + chunk[s] <= maxSize

\* Mutant: the error is kept but the copy goes on.
BugFail(s, e) ==
    /\ writeErr' = [writeErr EXCEPT ![s] = IF @ = "none" THEN e ELSE @]
    /\ copier' = [copier EXCEPT ![s] = "read"]
\* outputWrapper.Write keeps its first error; io.Copy stops and os/exec closes
\* the read end.
Fail(s, e) ==
    /\ writeErr' = [writeErr EXCEPT ![s] = IF @ = "none" THEN e ELSE @]
    /\ copier' = [copier EXCEPT ![s] = "failed"]

\* Mutant: the early return of the limit leaves the mutex locked.
BugCheckSize(s) ==
    /\ copier[s] = "lock" /\ mutex = NoStream
    /\ mutex' = s
    /\ \/ /\ Fits(s)
          /\ copier' = [copier EXCEPT ![s] = "write"]
          /\ UNCHANGED writeErr
       \/ ~Fits(s) /\ Fail(s, "limit")
    /\ UNCHANGED <<config, pc, err, child, background, emitted, buffer, chunk, store, final>>

\* Mutant: the mutex is taken for the write only, not for the check.
BugUnlockedCheck(s) ==
    /\ copier[s] = "lock"
    /\ \/ /\ Fits(s)
          /\ copier' = [copier EXCEPT ![s] = "write"]
          /\ UNCHANGED writeErr
       \/ ~Fits(s) /\ Fail(s, "limit")
    /\ UNCHANGED <<mutex, config, pc, err, child, background, emitted, buffer, chunk, store, final>>

\* WriteOutput locks the mutex and checks the limit.
CheckSize(s) ==
    /\ copier[s] = "lock" /\ mutex = NoStream
    /\ \/ /\ Fits(s)
          /\ mutex' = s
          /\ copier' = [copier EXCEPT ![s] = "write"]
          /\ UNCHANGED writeErr
       \/ /\ ~Fits(s) /\ Fail(s, "limit")
          /\ UNCHANGED mutex
    /\ UNCHANGED <<config, pc, err, child, background, emitted, buffer, chunk, store, final>>

\* The first n bytes of the chunk of stream s.
Bytes(s, n) == [i \in 1 .. n |-> <<s, buffer[s] - chunk[s] + i>>]

\* ... and, still holding it, writes to the file.  A failing write may have
\* written a part, which CurrentSize does not count.
WriteFile(s) ==
    /\ copier[s] = "write" /\ handle = "open"
    /\ \/ /\ tempData' = tempData \o Bytes(s, chunk[s])
          /\ currentSize' = currentSize + chunk[s]
          /\ copier' = [copier EXCEPT ![s] = "read"]
          /\ UNCHANGED writeErr
       \/ /\ \E n \in 0 .. chunk[s] - 1 : tempData' = tempData \o Bytes(s, n)
          /\ Fail(s, "io")
          /\ UNCHANGED currentSize
    /\ mutex' = NoStream
    /\ UNCHANGED <<config, pc, err, child, background, emitted, buffer, chunk,
                   handle, temp, final>>

-----------------------------------------------------------------------------
(* executeCommandWithPath after Run, and the end of executeCommandWithOutput *)

\* The error of Wait: an unsuccessful exit, else the context's error when the
\* kill was sent before the child was waited for.
WaitErr ==
    CASE child = "success" -> "none"
      [] child = "late"    -> "context"
      [] OTHER             -> "exit"

\* Mutant: the state of the child wins over a write error.
BugCmdErr ==
    CASE child # "success"            -> WaitErr
      [] writeErr[Stdout] # "none"    -> writeErr[Stdout]
      [] OTHER                        -> writeErr[Stderr]
\* The error of Run; a write error of a wrapper is preferred to it, that of
\* stdout first.
CmdErr ==
    CASE writeErr[Stdout] # "none"    -> writeErr[Stdout]
      [] writeErr[Stdout] = "none" /\ writeErr[Stderr] # "none" -> writeErr[Stderr]
      [] OTHER                        -> WaitErr

\* Run returns when the child was waited for and both copiers ended.
RunReturns ==
    /\ pc = "wait" /\ child \in Endings
    /\ \A s \in Streams : copier[s] \in {"eof", "failed"}
    /\ err' = CmdErr
    /\ pc' = IF CmdErr = "none" THEN "close" ELSE "defer"
    /\ UNCHANGED <<config, child, background, pipes, mutex, store, final>>

\* FinalizeOutput: Capture.Close, which forgets the handle even on an error.
CloseForMove ==
    /\ pc = "close"
    /\ handle' = "nil"
    /\ \/ pc' = "move" /\ UNCHANGED err
       \/ pc' = "defer" /\ err' = "finalize"
    /\ UNCHANGED <<config, child, background, pipes, mutex, currentSize, temp, tempData, final>>

\* Mutant: the error of MoveToFinal is dropped.
BugMoveToFinal ==
    /\ pc = "move" /\ pc' = "defer"
    /\ \/ UNCHANGED <<temp, final>>
       \/ final' = tempData /\ temp' = FALSE
    /\ UNCHANGED <<err, config, child, background, pipes, mutex, handle, currentSize, tempData>>

\* FinalizeOutput: MoveToFinal.  It may fail before the rename, between the
\* rename and the removal of the temporary name, or in the last validation.
MoveToFinal ==
    /\ pc = "move" /\ pc' = "defer"
    /\ \/ err' = "finalize" /\ UNCHANGED <<temp, final>>
       \/ err' = "finalize" /\ final' = tempData /\ UNCHANGED temp
       \/ err' = "finalize" /\ final' = tempData /\ temp' = FALSE
       \/ final' = tempData /\ temp' = FALSE /\ UNCHANGED err
    /\ UNCHANGED <<config, child, background, pipes, mutex, handle, currentSize, tempData>>

\* CleanupOutput; cleanupTempFile returns at once when h, the handle, is nil.
CleanupOutput(h) ==
    /\ temp' = (temp /\ h = "nil")
    /\ tempData' = IF h = "nil" THEN tempData ELSE <<>>
    /\ currentSize' = 0

\* The deferred function: Close, which may fail when the handle is still open,
\* and CleanupOutput when there is an error.
Defer ==
    /\ pc = "defer" /\ pc' = "returned"
    /\ handle' = "nil"
    /\ \/ UNCHANGED err
       \/ handle = "open" /\ err' = IF err = "none" THEN "close" ELSE err
    /\ IF err' # "none" THEN CleanupOutput(handle')
                        ELSE UNCHANGED <<temp, tempData, currentSize>>
    /\ UNCHANGED <<config, child, background, pipes, mutex, final>>

Returned == pc = "returned" /\ UNCHANGED vars

\* Steps of the runner's own goroutines.
RunnerStep ==
    \/ PrepareOutput \/ Start \/ RunReturns \/ CloseForMove \/ MoveToFinal \/ Defer
    \/ \E s \in Streams : ReadPipe(s) \/ EndOfFile(s) \/ CheckSize(s) \/ WriteFile(s)

Next ==
    \/ RunnerStep
    \/ \E s \in Streams : ChildWrites(s)
    \/ ChildEnds \/ Timeout \/ Fork \/ BackgroundEnds
    \/ Returned

\* The scheduler runs every goroutine; the context's timer fires; sync.Mutex
\* hands the lock to a starving waiter.  A command without a timeout, and a
\* process left behind, may run for ever.
Fairness ==
    /\ WF_vars(PrepareOutput) /\ WF_vars(Start) /\ WF_vars(RunReturns)
    /\ WF_vars(CloseForMove) /\ WF_vars(MoveToFinal) /\ WF_vars(Defer)
    /\ WF_vars(Timeout)
    /\ \A s \in Streams :
          /\ WF_vars(ReadPipe(s)) /\ WF_vars(EndOfFile(s))
          /\ SF_vars(CheckSize(s)) /\ WF_vars(WriteFile(s))

Spec == Init /\ [][Next]_vars /\ Fairness

-----------------------------------------------------------------------------
(* Properties. *)

\* Every variable has its type; Capture.CurrentSize never passes MaxSize.
TypeOK ==
    /\ maxSize \in Limits /\ timeout \in BOOLEAN
    /\ pc \in PCs /\ err \in Errs
    /\ child \in {"none", "running"} \cup Endings
    /\ background \in {"none", "holding", "gone"}
    /\ emitted \in [Streams -> 0 .. MaxBytes]
    /\ buffer \in [Streams -> 0 .. MaxBytes]
    /\ copier \in [Streams -> CopierPC]
    /\ chunk \in [Streams -> 0 .. MaxChunk]
    /\ writeErr \in [Streams -> {"none", "limit", "io"}]
    /\ mutex \in Streams \cup {NoStream}
    /\ handle \in {"nil", "open"} /\ currentSize \in 0 .. maxSize
    /\ temp \in BOOLEAN
    /\ tempData \in Seq(Byte) /\ final \in {Old} \cup Seq(Byte)

\* Of stream s a file holds the first n bytes, each once and in their order.
HoldsFirst(data, s, n) ==
    /\ \A k \in 1 .. n : \E i \in DOMAIN data : data[i] = <<s, k>>
    /\ \A i \in DOMAIN data : data[i][1] = s => data[i][2] \in 1 .. n
    /\ \A i, j \in DOMAIN data :
          i < j /\ data[i][1] = s /\ data[j][1] = s => data[i][2] < data[j][2]

\* The final path holds the file of the earlier run or the complete output of
\* a command that succeeded, each stream in its own order and within the size
\* limit; never a prefix, a truncated stream or the output of a failed command
\* (executeCommandWithOutput finalizes only without an error, and the move is
\* one rename).
FinalAllOrNothing ==
    \/ final = Old
    \/ /\ child = "success"
       /\ \A s \in Streams : HoldsFirst(final, s, emitted[s])
       /\ Len(final) <= maxSize

\* When executeCommandWithOutput returns without an error the new file is in
\* place, the temporary one is gone and no descriptor is open.
SuccessMeansInstalled ==
    pc = "returned" /\ err = "none" => final # Old /\ ~temp /\ handle = "nil"

\* The returned error names the cause: a write error wins over the exit status
\* it provoked, a limit error is returned only when the command really wrote
\* more than the limit, an exit error only when the child failed, and the
\* context's error only when the child exited with 0 after its timeout.
ErrorNamesCause ==
    pc = "returned" =>
        /\ (\E s \in Streams : writeErr[s] # "none") => err \in {"limit", "io"}
        /\ err = "limit" => Total(emitted) > maxSize
        /\ err = "exit" => child \in {"failure", "killed"}
        /\ err = "context" => timeout /\ child = "late"

\* The buffers kept in memory hold at most the limit and one refused chunk per
\* stream, however much the command writes.
BufferBounded == Total(buffer) <= maxSize + 2 * MaxChunk

\* A command with a timeout ends: executeCommandWithOutput returns unless a
\* process that the command left behind keeps a pipe open.
TimeoutEndsCommand == [](timeout => <>(pc = "returned" \/ background = "holding"))

\* "FileHandle may be nil if Close() was already called, but we still need to
\* remove the temp file" (CleanupOutput): after an error before the rename no
\* temporary file is left.
TempRemovedOnError == pc = "returned" /\ err # "none" /\ final = Old => ~temp

\* "0 means unlimited in output manager" (executeCommandWithOutput): a capture
\* with maxSize 0 refuses no write for its size.
UnlimitedNeverRefused == maxSize = 0 => \A s \in Streams : writeErr[s] # "limit"

=============================================================================
