SPECIFICATION GateSpec
CONSTANTS
  MaxArgs <- MCMaxArgs
  MaxPreviews = 3
  Alphabet <- MCAlphabet
  Tokens <- MCTokens
  Commands <- MCCommands
  Previews <- MCPreviews
  Links <- MCLinks
  Absent <- MCAbsent
  MaxSymlinkDepth = 3
  Setuid = {"su"}
  Unstatable = {"broken"}
  Shebang <- MCShebang
  IndirectExecMaxDepth = 3
  Paths <- MCPaths
  Nodes <- MCNodes
  NetworkSyscalls = {41}
  ExecSyscalls = {59}
  Zoning <- MCZoning
  MaxBackwardScan = 3
  MaxInstructionLength = 2
  TailProbeBytes = 4
  MaxValidSyscallNumber = 500
  MprotectSyscall = 10
  bin1 = bin1
  bin2 = bin2
  Names <- MCNames
  Inodes = {i1, i2}
  Nothing = Nothing
  Contents <- MCContents
  Recorded <- MCRecorded
  MaxChanges = 3
SYMMETRY Interchangeable
INVARIANTS
  WrappedRunsDenied
  WritesJudged
  ExitTellsPreview
  BinaryJudged
  ExecTypeOK
  ExecutedIsVerified
  NoFalseRefusal
  NothingHeld
