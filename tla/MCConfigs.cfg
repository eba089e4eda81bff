SPECIFICATION LifecycleSpec
CONSTANTS
  Accounts = {a1}
  Bots = {b1}
  Droplets = {d1}
  Tokens = {1, 2}
  NoAccount = NoAccount
  NoBot = NoBot
  NoDroplet = NoDroplet
  Faults <- AllCalls
  LostReplies <- AllCalls
  VariableConflict = "use_column"
  Callers = {c1, c2, c3}
  MaxVersion = 3
  Exclusive <- Writers
  Disconnects = TRUE
SYMMETRY CallerSymmetry
INVARIANTS LifecycleTypeOK VersionsGapless OnlineRunsConfig
PROPERTY ImplementsRegister
CHECK_DEADLOCK FALSE
