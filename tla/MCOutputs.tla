------------------------------ MODULE MCOutputs ------------------------------
(***************************************************************************)
(* What leaves the program: the captured output of a command, and the      *)
(* records and notifications of a run. In a behaviour of OutputCapture no  *)
(* run reports, in one of Reporting no output file could be prepared.      *)
(***************************************************************************)
EXTENDS MCOutputCapture, MCReporting

Silent == /\ setting = Quiet /\ todo = <<>> /\ step = "done" /\ handlers = "local"
          /\ shows = [s \in Sinks |-> {}]
          /\ pending = Nothing /\ cancelled = FALSE /\ collector = <<>>
          /\ accepted = [n \in Numbers |-> 0] /\ lost = [n \in Numbers |-> 0]

Unprepared == /\ maxSize = 1 /\ timeout = FALSE
              /\ pc = "returned" /\ err = "prepare"
              /\ child = "none" /\ background = "none"
              /\ emitted = [s \in Streams |-> 0] /\ buffer = [s \in Streams |-> 0]
              /\ copier = [s \in Streams |-> "read"] /\ chunk = [s \in Streams |-> 0]
              /\ writeErr = [s \in Streams |-> "none"]
              /\ mutex = NoStream /\ handle = "nil" /\ currentSize = 0
              /\ temp = FALSE /\ tempData = <<>> /\ final = Old

OutputsInit == (Init /\ Silent) \/ (ReportInit /\ Unprepared)

OutputsNext == (Next /\ UNCHANGED reportVars) \/ (ReportNext /\ UNCHANGED vars)

OutputsSpec == OutputsInit /\ [][OutputsNext]_<<vars, reportVars>> /\ Fairness /\ WF_reportVars(Main)
=============================================================================
