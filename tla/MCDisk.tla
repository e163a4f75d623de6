-------------------------------- MODULE MCDisk --------------------------------
(***************************************************************************)
(* What is read from the disk: the configuration at the start of a run,    *)
(* and the records of a file that is recorded meanwhile. A behaviour is    *)
(* one of Startup or one of RecordStore.                                   *)
(***************************************************************************)
EXTENDS MCStartup, MCRecordStore

VARIABLE part   \* the module whose behaviour this is

\* Nothing is read and nothing is known of the file system yet.
NotStarted ==
  /\ step = "start" /\ err = "none" /\ results = <<>> /\ grants = {}
  /\ cfg = <<>> /\ templates = <<>> /\ level = "global" /\ spec = <<>> /\ rt = <<>>
  /\ todo = <<>> /\ env = <<>> /\ cmdNo = <<>> /\ fields = <<>>
  /\ who = <<>> /\ members = <<>> /\ node = <<>> /\ now = <<>> /\ cache = <<>> /\ misses = <<>> /\ query = <<>>
  /\ reading = <<>> /\ included = <<>> /\ starts = <<>> /\ dirs = <<>> /\ component = <<>> /\ violations = <<>>

DiskInit ==
  \/ /\ part = "startup" /\ Init
     /\ StoreInit /\ recordFile = <<>> /\ force = [r \in Recorders |-> FALSE]
  \/ part = "records" /\ StoreInit /\ NotStarted

\* A run that was refused or has its commands expanded goes on elsewhere.
DiskNext ==
  \/ part = "startup" /\ Next /\ UNCHANGED <<storeVars, part>>
  \/ part = "startup" /\ step \in {"done", "failed"} /\ UNCHANGED <<vars, storeVars, part>>
  \/ part = "records" /\ StoreNext /\ UNCHANGED <<vars, part>>

DiskSpec == DiskInit /\ [][DiskNext]_<<vars, storeVars, part>>
=============================================================================
