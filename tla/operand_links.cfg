SPECIFICATION Spec
CONSTANTS
  MaxArgs <- MCMaxArgs
  MaxPreviews = 3
  Alphabet <- MCAlphabet
  Tokens <- MCTokens
  Commands <- MCCommands
  Previews <- MCPreviews
  Links <- MCLinks
  Absent <- MCAbsent
  MaxSymlinkDepth = 3
  Setuid = {"su"}
  Unstatable = {"broken"}
  Shebang <- MCShebang
  IndirectExecMaxDepth = 3
  Paths <- MCPaths
  Nodes <- MCNodes
  NetworkSyscalls = {41}
  ExecSyscalls = {59}
  Zoning <- MCZoning
  MaxBackwardScan = 3
  MaxInstructionLength = 2
  TailProbeBytes = 4
  MaxValidSyscallNumber = 500
  MprotectSyscall = 10
INVARIANTS
  LinksFollowed
CHECK_DEADLOCK FALSE
