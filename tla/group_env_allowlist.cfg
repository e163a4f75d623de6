SPECIFICATION Spec
CONSTANTS
  MaxRecursionDepth = 3
  GlobalNames = {"G", "H", "T", "A"}
  LocalNames = {"a", "b", "c", "d", "p", "q", "u", "grp"}
  AutoNames = {"__runner_pid"}
  Forbidden = {"LD_PRELOAD"}
  MaxVarsPerLevel = 4
  MaxArrayElements = 2
  MaxStringValueLen = 2
  AbsLiterals = {"/opt/x", "/opt/link"}
  RealPath <- MCRealPath
  Users = {"root", "me", "other"}
  Root = "root"
  Groups = {"wheel", "staff", "lost"}
  RootGroup = "wheel"
  CacheTimeout = 2
  CleanupInterval = 2
  MaxTime = 3
  EnumTime = 1
  Parent <- MCParent
  Scenarios <- MCImportScenarios
  DirOf <- MCDirOf
  HashDir = "/hash"
INVARIANTS
  GroupListObeyed
CHECK_DEADLOCK FALSE
