SPECIFICATION OutputsSpec
CONSTANTS
  Stdout = stdout
  Stderr = stderr
  NoStream = NoStream
  Limits <- MCLimits
  MaxBytes = 3
  MaxChunk = 2
  MaxRedactionDepth = 3
  SensitiveKeys = {"password", "Token"}
  MaxFailures = 2
  RetryCount = 2
  MaxLogged = 2
  Scenarios <- MCScenarios
  MaxReports = 3
  Secrets = {"s1", "s2", "s3", "s4", "s5", "s6", "s7", "s8", "s9"}
  Overlooked = {"s7", "s8", "s9"}
  PanicTexts = {"x1", "x2"}
INVARIANTS
  TypeOK
  FinalAllOrNothing
  SuccessMeansInstalled
  ErrorNamesCause
  BufferBounded
  NothingSecretLogged
PROPERTIES
  TimeoutEndsCommand
  NotificationsSettle
