-------------------------- MODULE OutputCaptureProofs --------------------------
(***************************************************************************)
(* Proofs about OutputCapture, for every set of limits, any amount of      *)
(* output and any size of the chunks the pipes deliver.                    *)
(***************************************************************************)
EXTENDS OutputCapture, SequenceTheorems, TLAPS

\* Bytes of stream s that WriteOutput accepted: all that was read but the
\* chunk that is being written or was refused.
Accepted(s) ==
    IF copier[s] \in {"lock", "write", "failed"} THEN buffer[s] - chunk[s] ELSE buffer[s]

\* What is open, and what may have happened, at each step of
\* executeCommandWithOutput.
FlowInv ==
    /\ child = "none" <=> pc \in {"prepare", "exec"} \/ err \in {"prepare", "start"}
    /\ child = "none" => background = "none" /\ \A s \in Streams : copier[s] = "read"
    /\ pc \in {"prepare", "exec", "wait", "close", "move"} => err = "none"
    /\ pc \in {"exec", "wait", "close"} => handle = "open"
    /\ pc \in {"prepare", "move", "returned"} => handle = "nil"
    /\ pc \in {"close", "move"} =>
          child = "success" /\ \A s \in Streams : copier[s] = "eof"
    /\ pc \in {"defer", "returned"} /\ err = "none" =>
          final # Old /\ ~temp /\ handle = "nil"

\* The goroutine that copies stream s: what it read was written, its error is
\* its last step, and it holds the mutex from the check to the write.
CopierOK(s) ==
    /\ buffer[s] <= emitted[s]
    /\ copier[s] \in {"lock", "write", "failed"} => chunk[s] \in 1 .. buffer[s]
    /\ copier[s] \in {"lock", "write"} => pc = "wait"
    /\ copier[s] = "eof" =>
          child \in Endings /\ background # "holding" /\ buffer[s] = emitted[s]
    /\ writeErr[s] # "none" <=> copier[s] = "failed"
    /\ mutex = s <=> copier[s] = "write"
    /\ copier[s] = "write" => Fits(s)

CopierInv == \A s \in Streams : CopierOK(s)

\* Until the deferred cleanup CurrentSize counts the accepted bytes, and the
\* temporary file holds exactly those of every stream that met no error.
DataInv ==
    pc # "returned" =>
        /\ currentSize = Accepted(Stdout) + Accepted(Stderr)
        /\ (\A s \in Streams : writeErr[s] # "io") => Len(tempData) = currentSize
        /\ \A s \in Streams : writeErr[s] = "none" => HoldsFirst(tempData, s, Accepted(s))

\* The errors and their causes.
ErrInv ==
    /\ \A s \in Streams : writeErr[s] = "limit" => Total(emitted) > maxSize
    /\ pc \in {"defer", "returned"} =>
          /\ (\E s \in Streams : writeErr[s] # "none") => err \in {"limit", "io"}
          /\ err = "limit" => \E s \in Streams : writeErr[s] = "limit"
          /\ err = "exit" => child \in {"failure", "killed"}
          /\ err = "context" => child = "late"
    /\ child = "late" => timeout

\* The final path is replaced by the last step before the deferred function.
FinalInv ==
    final # Old =>
        /\ pc \in {"defer", "returned"} /\ child = "success"
        /\ \A s \in Streams : copier[s] = "eof" /\ HoldsFirst(final, s, emitted[s])
        /\ Len(final) <= maxSize

IInv == TypeOK /\ FlowInv /\ CopierInv /\ DataInv /\ ErrInv /\ FinalInv /\ BufferBounded

-----------------------------------------------------------------------------
(* Bytes written behind the others. *)

\* The bytes written are those of the chunk, in their order.
LEMMA BytesTyped ==
  ASSUME TypeOK, NEW s \in Streams, chunk[s] <= buffer[s], NEW n \in 0 .. chunk[s]
  PROVE  /\ Bytes(s, n) \in Seq(Byte) /\ Len(Bytes(s, n)) = n
         /\ \A i \in 1 .. n : Bytes(s, n)[i] = <<s, buffer[s] - chunk[s] + i>>
<1>1. n \in Nat /\ buffer[s] \in 0 .. MaxBytes /\ chunk[s] \in Nat
  BY BoundsAssumption DEF TypeOK
<1>2. \A i \in 1 .. n : <<s, buffer[s] - chunk[s] + i>> \in Byte
  BY <1>1, BoundsAssumption DEF Byte
<1> QED
  BY <1>1, <1>2 DEF Bytes

\* Writing the next bytes of a stream extends what the file holds of it.
LEMMA HoldsExtended ==
  ASSUME NEW s, NEW data \in Seq(Byte), NEW e \in Seq(Byte), NEW m \in Nat,
         HoldsFirst(data, s, m), \A i \in 1 .. Len(e) : e[i] = <<s, m + i>>
  PROVE  HoldsFirst(data \o e, s, m + Len(e))
<1> DEFINE d == data \o e
<1>1. /\ d \in Seq(Byte) /\ Len(d) = Len(data) + Len(e)
      /\ \A i \in 1 .. Len(data) : d[i] = data[i]
      /\ \A i \in 1 .. Len(e) : d[Len(data) + i] = e[i]
  BY ConcatProperties
<1>2. Len(data) \in Nat /\ Len(e) \in Nat /\ DOMAIN data = 1 .. Len(data)
      /\ DOMAIN d = 1 .. Len(d)
  BY <1>1
<1>3. ASSUME NEW i \in DOMAIN d
      PROVE  \/ i \in DOMAIN data /\ d[i] = data[i]
             \/ i - Len(data) \in 1 .. Len(e) /\ d[i] = <<s, m + (i - Len(data))>>
  <2>1. i \in 1 .. Len(data) + Len(e)
    BY <1>1, <1>2
  <2>2. CASE i <= Len(data)
    BY <1>1, <1>2, <2>1, <2>2
  <2>3. CASE ~(i <= Len(data))
    <3>1. i - Len(data) \in 1 .. Len(e) /\ Len(data) + (i - Len(data)) = i
      BY <1>2, <2>1, <2>3
    <3> QED
      BY <1>1, <3>1
  <2> QED
    BY <2>2, <2>3
<1>4. ASSUME NEW k \in 1 .. m + Len(e) PROVE \E i \in DOMAIN d : d[i] = <<s, k>>
  <2>1. CASE k <= m
    <3>1. k \in 1 .. m
      BY <1>2, <2>1
    <3>2. PICK i \in DOMAIN data : data[i] = <<s, k>>
      BY <3>1 DEF HoldsFirst
    <3>3. i \in DOMAIN d /\ d[i] = data[i]
      BY <1>1, <1>2
    <3> QED
      BY <3>2, <3>3
  <2>2. CASE ~(k <= m)
    <3>1. k - m \in 1 .. Len(e) /\ m + (k - m) = k
      BY <1>2, <2>2
    <3>2. d[Len(data) + (k - m)] = <<s, k>> /\ Len(data) + (k - m) \in DOMAIN d
      BY <1>1, <1>2, <3>1
    <3> QED
      BY <3>2
  <2> QED
    BY <2>1, <2>2
<1>5. ASSUME NEW i \in DOMAIN d, d[i][1] = s PROVE d[i][2] \in 1 .. m + Len(e)
  BY SMTT(30), <1>2, <1>3, <1>5 DEF HoldsFirst
<1>6. ASSUME NEW i \in DOMAIN d, NEW j \in DOMAIN d, i < j, d[i][1] = s, d[j][1] = s
      PROVE  d[i][2] < d[j][2]
  <2>1. CASE j \in DOMAIN data
    <3>1. i \in DOMAIN data
      BY <1>1, <1>2, <1>6, <2>1
    <3> QED
      BY <1>1, <1>2, <1>6, <2>1, <3>1 DEF HoldsFirst
  <2>2. CASE j \notin DOMAIN data
    <3>1. j - Len(data) \in 1 .. Len(e) /\ d[j][2] = m + (j - Len(data))
      BY <1>3, <2>2
    <3>2. CASE i \in DOMAIN data
      <4>1. d[i] = data[i]
        BY <1>1, <1>2, <3>2
      <4>2. d[i][2] \in 1 .. m
        BY <1>6, <3>2, <4>1 DEF HoldsFirst
      <4> QED
        BY SMTT(30), <1>2, <3>1, <4>2
    <3>3. CASE i \notin DOMAIN data
      <4>1. i - Len(data) \in 1 .. Len(e) /\ d[i][2] = m + (i - Len(data))
        BY <1>3, <3>3
      <4> QED
        BY <1>1, <1>2, <1>6, <3>1, <4>1
    <3> QED
      BY <3>2, <3>3
  <2> QED
    BY <2>1, <2>2
<1> QED
  BY <1>4, <1>5, <1>6 DEF HoldsFirst

\* Bytes of the other stream leave it alone.
LEMMA HoldsKept ==
  ASSUME NEW s, NEW t, s # t, NEW data \in Seq(Byte), NEW e \in Seq(Byte), NEW m \in Nat,
         HoldsFirst(data, t, m), \A i \in 1 .. Len(e) : e[i][1] = s
  PROVE  HoldsFirst(data \o e, t, m)
<1> DEFINE d == data \o e
<1>1. /\ d \in Seq(Byte) /\ Len(d) = Len(data) + Len(e)
      /\ \A i \in 1 .. Len(data) : d[i] = data[i]
      /\ \A i \in 1 .. Len(e) : d[Len(data) + i] = e[i]
  BY ConcatProperties
<1>2. Len(data) \in Nat /\ Len(e) \in Nat /\ DOMAIN data = 1 .. Len(data)
      /\ DOMAIN d = 1 .. Len(d)
  BY <1>1
<1>3. ASSUME NEW i \in DOMAIN d, d[i][1] = t PROVE i \in DOMAIN data /\ d[i] = data[i]
  <2>1. i \in 1 .. Len(data) + Len(e)
    BY <1>1, <1>2
  <2>2. CASE i <= Len(data)
    BY <1>1, <1>2, <2>1, <2>2
  <2>3. CASE ~(i <= Len(data))
    <3>1. i - Len(data) \in 1 .. Len(e) /\ Len(data) + (i - Len(data)) = i
      BY <1>2, <2>1, <2>3
    <3>2. d[i] = e[i - Len(data)]
      BY <1>1, <3>1
    <3> QED
      BY <1>3, <3>1, <3>2
  <2> QED
    BY <2>2, <2>3
<1>4. \A i \in DOMAIN data : i \in DOMAIN d /\ d[i] = data[i]
  BY <1>1, <1>2
<1>5. \A k \in 1 .. m : \E i \in DOMAIN d : d[i] = <<t, k>>
  BY <1>4 DEF HoldsFirst
<1>6. \A i \in DOMAIN d : d[i][1] = t => d[i][2] \in 1 .. m
  BY <1>3 DEF HoldsFirst
<1>7. ASSUME NEW i \in DOMAIN d, NEW j \in DOMAIN d, i < j, d[i][1] = t, d[j][1] = t
      PROVE  d[i][2] < d[j][2]
  BY <1>3, <1>7 DEF HoldsFirst
<1> QED
  BY <1>5, <1>6, <1>7 DEF HoldsFirst

-----------------------------------------------------------------------------
(* Every action preserves the invariant; the hard cases first. *)

\* No content of a capture is the file of the earlier run.
LEMMA OldIsNoCapture == ASSUME NEW d \in Seq(Byte) PROVE d # Old
<1> SUFFICES ASSUME d = Old PROVE FALSE
  OBVIOUS
<1>1. Len(d) = 1 /\ d[1] = <<NoStream, 0>>
  BY DEF Old
<1>2. d[1] \in Byte
  BY <1>1
<1> QED
  BY <1>1, <1>2, StreamsAssumption DEF Byte, Streams

\* Accepted and read bytes differ by at most the chunk in hand.
LEMMA AcceptedBounds ==
  ASSUME TypeOK, CopierInv, NEW s \in Streams
  PROVE  /\ Accepted(s) \in Nat /\ buffer[s] \in Nat /\ emitted[s] \in Nat /\ chunk[s] \in Nat
         /\ Accepted(s) <= buffer[s] /\ buffer[s] <= emitted[s]
         /\ buffer[s] <= Accepted(s) + chunk[s] /\ chunk[s] <= MaxChunk
         /\ copier[s] \in {"lock", "write", "failed"} => buffer[s] = Accepted(s) + chunk[s]
         /\ copier[s] = "read" => buffer[s] = Accepted(s)
<1>1. buffer[s] \in Nat /\ emitted[s] \in Nat /\ chunk[s] \in Nat /\ chunk[s] <= MaxChunk
  BY BoundsAssumption DEF TypeOK
<1>2. CopierOK(s)
  BY DEF CopierInv
<1> QED
  BY <1>1, <1>2 DEF CopierOK, Accepted

\* A refused write means that the command wrote more than the limit.
LEMMA RefusedMeansOver ==
  ASSUME IInv, NEW s \in Streams, copier[s] = "lock", ~Fits(s)
  PROVE  Total(emitted) > maxSize
<1> USE DEF IInv
<1>1. currentSize = Accepted(Stdout) + Accepted(Stderr) /\ currentSize \in Nat /\ maxSize \in Nat
  BY LimitsAssumption DEF DataInv, CopierInv, CopierOK, TypeOK
<1>2. Stdout \in Streams /\ Stderr \in Streams /\ (s = Stdout \/ s = Stderr)
  BY DEF Streams
<1>3. currentSize + chunk[s] > maxSize /\ buffer[s] = Accepted(s) + chunk[s] /\ chunk[s] \in Nat
  BY <1>1, AcceptedBounds DEF Fits
<1> HIDE DEF IInv
<1>4. /\ Accepted(Stdout) \in Nat /\ buffer[Stdout] \in Nat /\ emitted[Stdout] \in Nat
      /\ Accepted(Stdout) <= buffer[Stdout] /\ buffer[Stdout] <= emitted[Stdout]
  BY <1>2, AcceptedBounds DEF IInv
<1>5. /\ Accepted(Stderr) \in Nat /\ buffer[Stderr] \in Nat /\ emitted[Stderr] \in Nat
      /\ Accepted(Stderr) <= buffer[Stderr] /\ buffer[Stderr] <= emitted[Stderr]
  BY <1>2, AcceptedBounds DEF IInv
<1>6. CASE s = Stdout
  BY <1>1, <1>3, <1>4, <1>5, <1>6 DEF Total
<1>7. CASE s = Stderr
  BY <1>1, <1>3, <1>4, <1>5, <1>7 DEF Total
<1> QED
  BY <1>2, <1>6, <1>7

\* One more chunk in a buffer leaves room for the chunk of the other stream.
LEMMA ReadBuffer ==
  ASSUME IInv, NEW s \in Streams, ReadPipe(s)
  PROVE  BufferBounded'
<1>1. TypeOK /\ CopierInv /\ DataInv
  BY DEF IInv
<1>2. Stdout \in Streams /\ Stderr \in Streams /\ (s = Stdout \/ s = Stderr)
      /\ Stdout # Stderr
  BY StreamsAssumption DEF Streams
<1>3. currentSize = Accepted(Stdout) + Accepted(Stderr) /\ maxSize \in Nat
      /\ currentSize <= maxSize /\ maxSize' = maxSize /\ MaxChunk \in Nat
  BY <1>1, LimitsAssumption, BoundsAssumption DEF DataInv, ReadPipe, TypeOK, config
<1>4. PICK n \in 1 .. MaxChunk : buffer' = [buffer EXCEPT ![s] = @ + n]
  BY DEF ReadPipe
<1>5. buffer[s] = Accepted(s)
  BY <1>1, AcceptedBounds DEF ReadPipe
<1>6. /\ Accepted(Stdout) \in Nat /\ buffer[Stdout] \in Nat
      /\ buffer[Stdout] <= Accepted(Stdout) + MaxChunk
      /\ Accepted(Stderr) \in Nat /\ buffer[Stderr] \in Nat
      /\ buffer[Stderr] <= Accepted(Stderr) + MaxChunk
  BY <1>1, <1>2, <1>3, AcceptedBounds
<1>7. CASE s = Stdout
  <2>1. buffer'[Stdout] = Accepted(Stdout) + n /\ buffer'[Stderr] = buffer[Stderr]
    BY <1>1, <1>2, <1>4, <1>5, <1>7 DEF TypeOK
  <2> QED
    BY <1>3, <1>6, <2>1 DEF BufferBounded, Total
<1>8. CASE s = Stderr
  <2>1. buffer'[Stderr] = Accepted(Stderr) + n /\ buffer'[Stdout] = buffer[Stdout]
    BY <1>1, <1>2, <1>4, <1>5, <1>8 DEF TypeOK
  <2> QED
    BY <1>3, <1>6, <2>1 DEF BufferBounded, Total
<1> QED
  BY <1>2, <1>7, <1>8

\* A read changes neither what was accepted nor the file.
LEMMA ReadData ==
  ASSUME IInv, NEW s \in Streams, ReadPipe(s)
  PROVE  DataInv'
<1>1. ASSUME NEW t \in Streams PROVE Accepted(t)' = Accepted(t) /\ writeErr'[t] = writeErr[t]
  <2>1. CASE t = s
    <3>1. PICK n \in 1 .. MaxChunk :
             /\ chunk' = [chunk EXCEPT ![s] = n]
             /\ buffer' = [buffer EXCEPT ![s] = @ + n]
      BY DEF ReadPipe
    <3>2. chunk'[s] = n /\ buffer'[s] = buffer[s] + n /\ copier'[s] = "lock"
          /\ copier[s] = "read" /\ buffer[s] \in Nat /\ n \in Nat
      BY <3>1, BoundsAssumption DEF ReadPipe, IInv, TypeOK
    <3> QED
      BY <2>1, <3>2 DEF Accepted, ReadPipe
  <2>2. CASE t # s
    BY <2>2 DEF Accepted, ReadPipe, IInv, TypeOK
  <2> QED
    BY <2>1, <2>2
<1>2. Stdout \in Streams /\ Stderr \in Streams
  BY DEF Streams
<1>3. UNCHANGED <<pc, currentSize, tempData>>
  BY DEF ReadPipe, store
<1> QED
  BY <1>1, <1>2, <1>3 DEF DataInv, IInv

\* A write puts the chunk, or a part of it when it fails, behind the others.
LEMMA WriteTemp ==
  ASSUME IInv, NEW s \in Streams, WriteFile(s)
  PROVE  \E n \in 0 .. chunk[s] :
            /\ tempData' = tempData \o Bytes(s, n)
            /\ \/ /\ n = chunk[s] /\ currentSize' = currentSize + chunk[s]
                  /\ copier' = [copier EXCEPT ![s] = "read"] /\ writeErr' = writeErr
               \/ /\ Fail(s, "io") /\ currentSize' = currentSize
<1>1. chunk[s] \in Nat
  BY BoundsAssumption DEF IInv, TypeOK
<1>2. CASE /\ tempData' = tempData \o Bytes(s, chunk[s])
           /\ currentSize' = currentSize + chunk[s]
           /\ copier' = [copier EXCEPT ![s] = "read"] /\ UNCHANGED writeErr
  <2>1. chunk[s] \in 0 .. chunk[s]
    BY <1>1
  <2>2. WITNESS chunk[s] \in 0 .. chunk[s]
  <2> QED
    BY <1>2
<1>3. CASE /\ \E n \in 0 .. chunk[s] - 1 : tempData' = tempData \o Bytes(s, n)
           /\ Fail(s, "io") /\ UNCHANGED currentSize
  BY SMTT(30), <1>1, <1>3
<1> QED
  BY <1>2, <1>3 DEF WriteFile

\* The temporary file after a write.
LEMMA WriteData ==
  ASSUME IInv, NEW s \in Streams, WriteFile(s)
  PROVE  DataInv' /\ tempData' \in Seq(Byte)
<1>1. PICK n \in 0 .. chunk[s] :
         /\ tempData' = tempData \o Bytes(s, n)
         /\ \/ /\ n = chunk[s] /\ currentSize' = currentSize + chunk[s]
               /\ copier' = [copier EXCEPT ![s] = "read"] /\ writeErr' = writeErr
            \/ /\ Fail(s, "io") /\ currentSize' = currentSize
  BY WriteTemp
<1>2. TypeOK /\ CopierInv /\ DataInv /\ CopierOK(s)
  BY DEF IInv, CopierInv
<1>3. /\ copier[s] = "write" /\ pc = "wait" /\ writeErr[s] = "none"
      /\ UNCHANGED <<pc, buffer, chunk>>
  BY <1>2 DEF WriteFile, CopierOK
<1>4. /\ Accepted(s) \in Nat /\ chunk[s] \in Nat /\ buffer[s] = Accepted(s) + chunk[s]
      /\ chunk[s] <= buffer[s] /\ Accepted(s) = buffer[s] - chunk[s]
  <2>1. Accepted(s) \in Nat /\ chunk[s] \in Nat /\ buffer[s] = Accepted(s) + chunk[s]
    BY <1>2, <1>3, AcceptedBounds
  <2> QED
    BY <2>1
<1>5. /\ Bytes(s, n) \in Seq(Byte) /\ Len(Bytes(s, n)) = n
      /\ \A i \in 1 .. n : Bytes(s, n)[i] = <<s, Accepted(s) + i>>
  BY <1>2, <1>4, BytesTyped
<1>6. tempData \in Seq(Byte) /\ Len(tempData) \in Nat
  BY <1>2 DEF TypeOK
<1>7. tempData' \in Seq(Byte) /\ Len(tempData') = Len(tempData) + n
  BY <1>1, <1>5, <1>6, ConcatProperties
<1>8. ASSUME NEW t \in Streams, t # s
      PROVE  /\ Accepted(t)' = Accepted(t) /\ writeErr'[t] = writeErr[t]
             /\ writeErr[t] = "none" => HoldsFirst(tempData', t, Accepted(t))
  <2>1. Accepted(t)' = Accepted(t) /\ writeErr'[t] = writeErr[t]
    BY <1>1, <1>2, <1>3, <1>8 DEF Accepted, Fail, TypeOK
  <2>2. ASSUME writeErr[t] = "none" PROVE HoldsFirst(tempData', t, Accepted(t))
    <3>1. HoldsFirst(tempData, t, Accepted(t)) /\ Accepted(t) \in Nat
      BY <1>2, <1>3, <2>2, AcceptedBounds DEF DataInv
    <3>2. \A i \in 1 .. Len(Bytes(s, n)) : Bytes(s, n)[i][1] = s
      BY <1>5
    <3> QED
      BY <1>1, <1>5, <1>6, <1>8, <3>1, <3>2, HoldsKept
  <2> QED
    BY <2>1, <2>2
<1>9. Stdout \in Streams /\ Stderr \in Streams /\ (s = Stdout \/ s = Stderr)
      /\ Stdout # Stderr /\ Streams = {Stdout, Stderr}
  BY StreamsAssumption DEF Streams
<1>10. /\ currentSize = Accepted(Stdout) + Accepted(Stderr) /\ currentSize \in Nat
       /\ Accepted(Stdout) \in Nat /\ Accepted(Stderr) \in Nat
       /\ (\A t \in Streams : writeErr[t] # "io") => Len(tempData) = currentSize
       /\ HoldsFirst(tempData, s, Accepted(s))
  BY SMTT(30), <1>2, <1>3, <1>9, AcceptedBounds, LimitsAssumption DEF DataInv, TypeOK
<1>11. CASE /\ n = chunk[s] /\ currentSize' = currentSize + chunk[s]
            /\ copier' = [copier EXCEPT ![s] = "read"] /\ writeErr' = writeErr
  <2>1. Accepted(s)' = Accepted(s) + chunk[s]
    BY <1>2, <1>3, <1>4, <1>11 DEF Accepted, TypeOK
  <2>2. HoldsFirst(tempData', s, Accepted(s) + chunk[s])
    BY <1>1, <1>4, <1>5, <1>6, <1>10, <1>11, HoldsExtended
  <2>3. currentSize' = Accepted(Stdout)' + Accepted(Stderr)'
    <3>1. CASE s = Stdout
      BY <1>4, <1>8, <1>9, <1>10, <1>11, <2>1, <3>1
    <3>2. CASE s = Stderr
      BY <1>4, <1>8, <1>9, <1>10, <1>11, <2>1, <3>2
    <3> QED
      BY <1>9, <3>1, <3>2
  <2>4. (\A t \in Streams : writeErr'[t] # "io") => Len(tempData') = currentSize'
    BY <1>4, <1>7, <1>10, <1>11
  <2>5. ASSUME NEW t \in Streams, writeErr'[t] = "none"
        PROVE  HoldsFirst(tempData', t, Accepted(t)')
    BY <1>8, <1>11, <2>1, <2>2, <2>5
  <2> QED
    BY <1>7, <2>3, <2>4, <2>5 DEF DataInv
<1>12. CASE Fail(s, "io") /\ currentSize' = currentSize
  <2>1. Accepted(s)' = Accepted(s) /\ writeErr'[s] = "io"
    BY <1>2, <1>3, <1>12 DEF Accepted, Fail, TypeOK
  <2>2. currentSize' = Accepted(Stdout)' + Accepted(Stderr)'
    BY <1>8, <1>9, <1>10, <1>12, <2>1
  <2>3. ASSUME NEW t \in Streams, writeErr'[t] = "none"
        PROVE  HoldsFirst(tempData', t, Accepted(t)')
    BY <1>8, <2>1, <2>3
  <2> QED
    BY <1>7, <2>1, <2>2, <2>3 DEF DataInv
<1> QED
  BY <1>1, <1>7, <1>11, <1>12

\* The descriptor, the temporary file and the child at each step.
LEMMA FlowStep == IInv /\ [Next]_vars => FlowInv'
<1> SUFFICES ASSUME IInv, [Next]_vars PROVE FlowInv'
  OBVIOUS
<1> USE StreamsAssumption, LimitsAssumption, BoundsAssumption
    DEF IInv, TypeOK, config, pipes, store, Streams, FlowInv, CopierInv, CopierOK, Endings, Errs
<1>1. CASE Returned \/ UNCHANGED vars
  BY <1>1 DEF Returned, vars
<1>2. CASE PrepareOutput
  BY <1>2 DEF PrepareOutput
<1>3. CASE Start
  BY <1>3 DEF Start
<1>4. CASE ChildEnds
  BY <1>4 DEF ChildEnds
<1>5. CASE Timeout
  BY <1>5 DEF Timeout
<1>6. CASE Fork
  BY <1>6 DEF Fork
<1>7. CASE BackgroundEnds
  BY <1>7 DEF BackgroundEnds
<1>8. CASE RunReturns
  BY <1>8 DEF RunReturns, CmdErr, WaitErr
<1>9. CASE CloseForMove
  BY <1>9 DEF CloseForMove
<1>10. CASE MoveToFinal
  <2>1. tempData # Old
    BY OldIsNoCapture
  <2> QED
    BY <1>10, <2>1 DEF MoveToFinal
<1>11. CASE Defer
  BY <1>11 DEF Defer, CleanupOutput
<1>12. ASSUME NEW s \in Streams, ChildWrites(s) PROVE FlowInv'
  BY <1>12 DEF ChildWrites, Writing
<1>13. ASSUME NEW s \in Streams, ReadPipe(s) PROVE FlowInv'
  BY <1>13 DEF ReadPipe
<1>14. ASSUME NEW s \in Streams, EndOfFile(s) PROVE FlowInv'
  BY <1>14 DEF EndOfFile, Writing
<1>15. ASSUME NEW s \in Streams, CheckSize(s) PROVE FlowInv'
  BY <1>15 DEF CheckSize, Fail, Fits
<1>16. ASSUME NEW s \in Streams, WriteFile(s) PROVE FlowInv'
  BY <1>16 DEF WriteFile, Fail
<1> QED
  BY <1>1, <1>2, <1>3, <1>4, <1>5, <1>6, <1>7, <1>8, <1>9, <1>10, <1>11, <1>12, <1>13,
     <1>14, <1>15, <1>16
  DEF Next, RunnerStep

\* The two copiers and the mutex they share.
LEMMA CopierStep == IInv /\ [Next]_vars => CopierInv'
<1> SUFFICES ASSUME IInv, [Next]_vars PROVE CopierInv'
  OBVIOUS
<1> USE StreamsAssumption, LimitsAssumption, BoundsAssumption
    DEF IInv, TypeOK, config, pipes, store, Streams, FlowInv, CopierInv, CopierOK, Endings,
        Fits, CopierPC
<1>1. CASE Returned \/ UNCHANGED vars
  BY <1>1 DEF Returned, vars
<1>2. CASE PrepareOutput
  BY <1>2 DEF PrepareOutput
<1>3. CASE Start
  BY <1>3 DEF Start
<1>4. CASE ChildEnds
  BY <1>4 DEF ChildEnds
<1>5. CASE Timeout
  BY <1>5 DEF Timeout
<1>6. CASE Fork
  BY <1>6 DEF Fork
<1>7. CASE BackgroundEnds
  BY <1>7 DEF BackgroundEnds
<1>8. CASE RunReturns
  BY <1>8 DEF RunReturns, CmdErr, WaitErr
<1>9. CASE CloseForMove
  BY <1>9 DEF CloseForMove
<1>10. CASE MoveToFinal
  BY <1>10 DEF MoveToFinal
<1>11. CASE Defer
  BY <1>11 DEF Defer, CleanupOutput
<1>12. ASSUME NEW s \in Streams, ChildWrites(s) PROVE CopierInv'
  BY SMTT(30), <1>12 DEF ChildWrites, Writing
<1>13. ASSUME NEW s \in Streams, ReadPipe(s) PROVE CopierInv'
  BY <1>13 DEF ReadPipe
<1>14. ASSUME NEW s \in Streams, EndOfFile(s) PROVE CopierInv'
  BY <1>14 DEF EndOfFile, Writing
<1>15. ASSUME NEW s \in Streams, CheckSize(s) PROVE CopierInv'
  <2> SUFFICES ASSUME NEW t \in Streams PROVE CopierOK(t)'
    OBVIOUS
  <2>1. CASE t = s
    BY <1>15, <2>1 DEF CheckSize, Fail
  <2>2. CASE t # s
    BY <1>15, <2>2 DEF CheckSize, Fail
  <2> QED
    BY <2>1, <2>2
<1>16. ASSUME NEW s \in Streams, WriteFile(s) PROVE CopierInv'
  <2> SUFFICES ASSUME NEW t \in Streams PROVE CopierOK(t)'
    OBVIOUS
  <2>1. CASE t = s
    BY <1>16, <2>1 DEF WriteFile, Fail
  <2>2. CASE t # s
    BY <1>16, <2>2 DEF WriteFile, Fail
  <2> QED
    BY <2>1, <2>2
<1> QED
  BY <1>1, <1>2, <1>3, <1>4, <1>5, <1>6, <1>7, <1>8, <1>9, <1>10, <1>11, <1>12, <1>13,
     <1>14, <1>15, <1>16
  DEF Next, RunnerStep

\* Every variable keeps its type.
LEMMA TypeStep == IInv /\ [Next]_vars => TypeOK'
<1> SUFFICES ASSUME IInv, [Next]_vars PROVE TypeOK'
  OBVIOUS
<1> USE StreamsAssumption, LimitsAssumption, BoundsAssumption
    DEF IInv, TypeOK, config, pipes, store, Streams, FlowInv, CopierInv, CopierOK, Endings,
        Fits, CopierPC, PCs, Errs
<1>1. CASE Returned \/ UNCHANGED vars
  BY SMTT(30), <1>1 DEF Returned, vars
<1>2. CASE PrepareOutput
  BY <1>2 DEF PrepareOutput
<1>3. CASE Start
  BY <1>3 DEF Start
<1>4. CASE ChildEnds
  BY <1>4 DEF ChildEnds
<1>5. CASE Timeout
  BY <1>5 DEF Timeout
<1>6. CASE Fork
  BY <1>6 DEF Fork
<1>7. CASE BackgroundEnds
  BY <1>7 DEF BackgroundEnds
<1>8. CASE RunReturns
  BY <1>8 DEF RunReturns, CmdErr, WaitErr
<1>9. CASE CloseForMove
  BY <1>9 DEF CloseForMove
<1>10. CASE MoveToFinal
  BY <1>10 DEF MoveToFinal
<1>11. CASE Defer
  BY SMTT(30), <1>11 DEF Defer, CleanupOutput
<1>12. ASSUME NEW s \in Streams, ChildWrites(s) PROVE TypeOK'
  BY SMTT(30), <1>12 DEF ChildWrites, Writing
<1>13. ASSUME NEW s \in Streams, ReadPipe(s) PROVE TypeOK'
  BY <1>13 DEF ReadPipe
<1>14. ASSUME NEW s \in Streams, EndOfFile(s) PROVE TypeOK'
  BY <1>14 DEF EndOfFile, Writing
<1>15. ASSUME NEW s \in Streams, CheckSize(s) PROVE TypeOK'
  BY SMTT(30), <1>15 DEF CheckSize, Fail, Fits
<1>16. ASSUME NEW s \in Streams, WriteFile(s) PROVE TypeOK'
  <2>1. tempData' \in Seq(Byte)
    BY <1>16, WriteData
  <2>2. currentSize' \in 0 .. maxSize
    BY SMTT(30), <1>16 DEF WriteFile
  <2>3. copier' \in [Streams -> CopierPC] /\ writeErr' \in [Streams -> {"none", "limit", "io"}]
    BY SMTT(30), <1>16 DEF WriteFile, Fail
  <2> QED
    BY <1>16, <2>1, <2>2, <2>3 DEF WriteFile
<1> QED
  BY <1>1, <1>2, <1>3, <1>4, <1>5, <1>6, <1>7, <1>8, <1>9, <1>10, <1>11, <1>12, <1>13,
     <1>14, <1>15, <1>16
  DEF Next, RunnerStep

\* An error and its cause.
LEMMA ErrStep == IInv /\ [Next]_vars => ErrInv'
<1> SUFFICES ASSUME IInv, [Next]_vars PROVE ErrInv'
  OBVIOUS
<1> USE StreamsAssumption, LimitsAssumption, BoundsAssumption
    DEF IInv, TypeOK, config, pipes, store, Streams, FlowInv, CopierInv, CopierOK, ErrInv, Total
<1>1. CASE Returned \/ UNCHANGED vars
  BY <1>1 DEF Returned, vars
<1>2. CASE PrepareOutput
  BY <1>2 DEF PrepareOutput
<1>3. CASE Start
  BY <1>3 DEF Start
<1>4. CASE ChildEnds
  BY <1>4 DEF ChildEnds
<1>5. CASE Timeout
  BY <1>5 DEF Timeout
<1>6. CASE Fork
  BY <1>6 DEF Fork
<1>7. CASE BackgroundEnds
  BY <1>7 DEF BackgroundEnds
<1>8. CASE RunReturns
  <2>1. (\E s \in Streams : writeErr[s] # "none") => CmdErr \in {"limit", "io"}
    BY DEF CmdErr, WaitErr
  <2>2. CmdErr = "limit" => \E s \in Streams : writeErr[s] = "limit"
    BY DEF CmdErr, WaitErr
  <2>3. CmdErr = "exit" => child \notin {"success", "late"}
    BY DEF CmdErr, WaitErr
  <2>4. CmdErr = "context" => child = "late"
    BY DEF CmdErr, WaitErr
  <2> QED
    BY <1>8, <2>1, <2>2, <2>3, <2>4 DEF RunReturns, Endings
<1>9. CASE CloseForMove
  BY <1>9 DEF CloseForMove
<1>10. CASE MoveToFinal
  BY <1>10 DEF MoveToFinal
<1>11. CASE Defer
  BY <1>11 DEF Defer, CleanupOutput
<1>12. ASSUME NEW s \in Streams, ChildWrites(s) PROVE ErrInv'
  BY SMTT(30), <1>12 DEF ChildWrites, Writing
<1>13. ASSUME NEW s \in Streams, ReadPipe(s) PROVE ErrInv'
  BY <1>13 DEF ReadPipe
<1>14. ASSUME NEW s \in Streams, EndOfFile(s) PROVE ErrInv'
  BY <1>14 DEF EndOfFile, Writing
<1>15. ASSUME NEW s \in Streams, CheckSize(s) PROVE ErrInv'
  <2>1. ~Fits(s) => Total(emitted) > maxSize
    BY <1>15, RefusedMeansOver DEF CheckSize
  <2> QED
    BY <1>15, <2>1 DEF CheckSize, Fail
<1>16. ASSUME NEW s \in Streams, WriteFile(s) PROVE ErrInv'
  BY SMTT(30), <1>16 DEF WriteFile, Fail
<1> QED
  BY <1>1, <1>2, <1>3, <1>4, <1>5, <1>6, <1>7, <1>8, <1>9, <1>10, <1>11, <1>12, <1>13,
     <1>14, <1>15, <1>16
  DEF Next, RunnerStep

\* The buffers stay within the limit and the refused chunks.
LEMMA BufferStep == IInv /\ [Next]_vars => BufferBounded'
<1> SUFFICES ASSUME IInv, [Next]_vars PROVE BufferBounded'
  OBVIOUS
<1> USE StreamsAssumption, LimitsAssumption, BoundsAssumption
    DEF IInv, TypeOK, config, pipes, store, Streams, BufferBounded, Total
<1>1. CASE Returned \/ UNCHANGED vars
  BY <1>1 DEF Returned, vars
<1>2. CASE PrepareOutput
  BY <1>2 DEF PrepareOutput
<1>3. CASE Start
  BY <1>3 DEF Start
<1>4. CASE ChildEnds
  BY <1>4 DEF ChildEnds
<1>5. CASE Timeout
  BY <1>5 DEF Timeout
<1>6. CASE Fork
  BY <1>6 DEF Fork
<1>7. CASE BackgroundEnds
  BY <1>7 DEF BackgroundEnds
<1>8. CASE RunReturns
  BY <1>8 DEF RunReturns, CmdErr, WaitErr
<1>9. CASE CloseForMove
  BY <1>9 DEF CloseForMove
<1>10. CASE MoveToFinal
  BY <1>10 DEF MoveToFinal
<1>11. CASE Defer
  BY <1>11 DEF Defer, CleanupOutput
<1>12. ASSUME NEW s \in Streams, ChildWrites(s) PROVE BufferBounded'
  BY <1>12 DEF ChildWrites, Writing
<1>13. ASSUME NEW s \in Streams, ReadPipe(s) PROVE BufferBounded'
  BY <1>13, ReadBuffer
<1>14. ASSUME NEW s \in Streams, EndOfFile(s) PROVE BufferBounded'
  BY <1>14 DEF EndOfFile, Writing
<1>15. ASSUME NEW s \in Streams, CheckSize(s) PROVE BufferBounded'
  BY <1>15 DEF CheckSize, Fail, Fits
<1>16. ASSUME NEW s \in Streams, WriteFile(s) PROVE BufferBounded'
  BY <1>16 DEF WriteFile, Fail
<1> QED
  BY <1>1, <1>2, <1>3, <1>4, <1>5, <1>6, <1>7, <1>8, <1>9, <1>10, <1>11, <1>12, <1>13,
     <1>14, <1>15, <1>16
  DEF Next, RunnerStep

\* The temporary file holds what was accepted.
LEMMA DataStep == IInv /\ [Next]_vars => DataInv'
<1> SUFFICES ASSUME IInv, [Next]_vars PROVE DataInv'
  OBVIOUS
<1> USE StreamsAssumption, LimitsAssumption, BoundsAssumption
    DEF IInv, TypeOK, config, pipes, store, Streams, CopierInv, CopierOK, DataInv, Accepted
<1>1. CASE Returned \/ UNCHANGED vars
  BY <1>1 DEF Returned, vars
<1>2. CASE PrepareOutput
  BY <1>2 DEF PrepareOutput
<1>3. CASE Start
  BY <1>3 DEF Start
<1>4. CASE ChildEnds
  BY <1>4 DEF ChildEnds
<1>5. CASE Timeout
  BY <1>5 DEF Timeout
<1>6. CASE Fork
  BY <1>6 DEF Fork
<1>7. CASE BackgroundEnds
  BY <1>7 DEF BackgroundEnds
<1>8. CASE RunReturns
  BY <1>8 DEF RunReturns, CmdErr, WaitErr
<1>9. CASE CloseForMove
  BY <1>9 DEF CloseForMove
<1>10. CASE MoveToFinal
  BY <1>10 DEF MoveToFinal
<1>11. CASE Defer
  BY <1>11 DEF Defer, CleanupOutput
<1>12. ASSUME NEW s \in Streams, ChildWrites(s) PROVE DataInv'
  BY <1>12 DEF ChildWrites, Writing
<1>13. ASSUME NEW s \in Streams, ReadPipe(s) PROVE DataInv'
  BY <1>13, ReadData
<1>14. ASSUME NEW s \in Streams, EndOfFile(s) PROVE DataInv'
  BY <1>14 DEF EndOfFile, Writing
<1>15. ASSUME NEW s \in Streams, CheckSize(s) PROVE DataInv'
  BY ZenonT(40), <1>15 DEF CheckSize, Fail, Fits
<1>16. ASSUME NEW s \in Streams, WriteFile(s) PROVE DataInv'
  BY <1>16, WriteData
<1> QED
  BY <1>1, <1>2, <1>3, <1>4, <1>5, <1>6, <1>7, <1>8, <1>9, <1>10, <1>11, <1>12, <1>13,
     <1>14, <1>15, <1>16
  DEF Next, RunnerStep

\* The final path is replaced as a whole.
LEMMA FinalStep == IInv /\ [Next]_vars => FinalInv'
<1> SUFFICES ASSUME IInv, [Next]_vars PROVE FinalInv'
  OBVIOUS
<1> USE StreamsAssumption, LimitsAssumption, BoundsAssumption
    DEF IInv, TypeOK, config, pipes, store, Streams, FlowInv, CopierInv, CopierOK, FinalInv
<1>1. CASE Returned \/ UNCHANGED vars
  BY <1>1 DEF Returned, vars
<1>2. CASE PrepareOutput
  BY <1>2 DEF PrepareOutput
<1>3. CASE Start
  BY <1>3 DEF Start
<1>4. CASE ChildEnds
  BY <1>4 DEF ChildEnds
<1>5. CASE Timeout
  BY <1>5 DEF Timeout
<1>6. CASE Fork
  BY <1>6 DEF Fork
<1>7. CASE BackgroundEnds
  BY <1>7 DEF BackgroundEnds
<1>8. CASE RunReturns
  BY <1>8 DEF RunReturns, CmdErr, WaitErr
<1>9. CASE CloseForMove
  BY <1>9 DEF CloseForMove
<1>10. CASE MoveToFinal
  BY <1>10 DEF MoveToFinal, DataInv, Accepted
<1>11. CASE Defer
  BY <1>11 DEF Defer, CleanupOutput
<1>12. ASSUME NEW s \in Streams, ChildWrites(s) PROVE FinalInv'
  BY <1>12 DEF ChildWrites, Writing
<1>13. ASSUME NEW s \in Streams, ReadPipe(s) PROVE FinalInv'
  BY <1>13 DEF ReadPipe
<1>14. ASSUME NEW s \in Streams, EndOfFile(s) PROVE FinalInv'
  BY <1>14 DEF EndOfFile, Writing
<1>15. ASSUME NEW s \in Streams, CheckSize(s) PROVE FinalInv'
  BY <1>15 DEF CheckSize, Fail, Fits
<1>16. ASSUME NEW s \in Streams, WriteFile(s) PROVE FinalInv'
  BY <1>16 DEF WriteFile, Fail
<1> QED
  BY <1>1, <1>2, <1>3, <1>4, <1>5, <1>6, <1>7, <1>8, <1>9, <1>10, <1>11, <1>12, <1>13,
     <1>14, <1>15, <1>16
  DEF Next, RunnerStep

\* The inductive invariant holds in every reachable state.
LEMMA Inductive == Spec => []IInv
<1>1. Init => IInv
  <2> SUFFICES ASSUME Init PROVE IInv
    OBVIOUS
  <2> USE StreamsAssumption, LimitsAssumption, BoundsAssumption DEF Init, Streams
  <2>1. TypeOK
    <3>1. maxSize \in Nat /\ 0 \in 0 .. maxSize /\ 0 \in 0 .. MaxBytes /\ 0 \in 0 .. MaxChunk
      OBVIOUS
    <3>2. tempData \in Seq(Byte) /\ currentSize \in 0 .. maxSize
      BY <3>1
    <3> QED
      BY <3>1, <3>2 DEF TypeOK, PCs, Errs, Endings, CopierPC
  <2>2. FlowInv /\ ErrInv /\ FinalInv
    BY DEF FlowInv, ErrInv, FinalInv
  <2>3. CopierInv
    BY DEF CopierInv, CopierOK
  <2>4. DataInv
    <3>1. Accepted(Stdout) = 0 /\ Accepted(Stderr) = 0
      BY DEF Accepted
    <3>2. HoldsFirst(<<>>, Stdout, 0) /\ HoldsFirst(<<>>, Stderr, 0)
      BY DEF HoldsFirst
    <3>3. Len(tempData) = currentSize
      OBVIOUS
    <3> QED
      BY <3>1, <3>2, <3>3 DEF DataInv
  <2>5. BufferBounded
    BY DEF BufferBounded, Total
  <2> QED
    BY <2>1, <2>2, <2>3, <2>4, <2>5 DEF IInv
<1>2. IInv /\ [Next]_vars => IInv'
  BY TypeStep, FlowStep, CopierStep, DataStep, ErrStep, FinalStep, BufferStep DEF IInv
<1> QED
  BY <1>1, <1>2, PTL DEF Spec

\* Every variable keeps its type; CurrentSize never passes MaxSize, because the
\* mutex is held from the check of the limit to the end of the write.
THEOREM TypeCorrect == Spec => []TypeOK
<1>1. IInv => TypeOK
  BY DEF IInv
<1> QED
  BY <1>1, Inductive, PTL

\* The final path is the file of the earlier run or the complete output of a
\* command that succeeded, each stream in its order and within the limit, for
\* every interleaving of the two copiers with the command and its descendants.
THEOREM FinalTheorem == Spec => []FinalAllOrNothing
<1>1. IInv => FinalAllOrNothing
  BY DEF IInv, FinalInv, FinalAllOrNothing
<1> QED
  BY <1>1, Inductive, PTL

\* A return without an error means that the output is installed.
THEOREM InstalledTheorem == Spec => []SuccessMeansInstalled
<1>1. IInv => SuccessMeansInstalled
  BY DEF IInv, FlowInv, SuccessMeansInstalled
<1> QED
  BY <1>1, Inductive, PTL

\* The returned error names its cause.
THEOREM CauseTheorem == Spec => []ErrorNamesCause
<1>1. IInv => ErrorNamesCause
  BY DEF IInv, ErrInv, ErrorNamesCause
<1> QED
  BY <1>1, Inductive, PTL

\* The buffers in memory are bounded by the limit and one chunk per stream.
THEOREM BufferTheorem == Spec => []BufferBounded
<1>1. IInv => BufferBounded
  BY DEF IInv
<1> QED
  BY <1>1, Inductive, PTL
=============================================================================
