SPECIFICATION FairAgentSpec
CONSTANTS
  Accounts = {a1}
  Bots = {b1}
  Droplets = {d1}
  Tokens = {1}
  NoAccount = NoAccount
  NoBot = NoBot
  NoDroplet = NoDroplet
  VariableConflict = "use_column"
  Callers = {d1, h1}
  Faults = {}
  LostReplies = {}
  MaxVersion = 3
  Exclusive = {{"update"}}
  Disconnects = TRUE
  Lossy = TRUE
  Delays = {0, 1, 2}
  Cycle = 12
INVARIANTS AppliedIsOnDisk AppliedNotAhead
PROPERTIES ConfigConverges ProvisionedComesOnline
