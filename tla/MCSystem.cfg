SPECIFICATION FairSystemSpec
CONSTANTS
  Accounts = {a1}
  Bots = {b1}
  Droplets = {d1}
  Tokens <- TokenPool
  NoAccount = NoAccount
  NoBot = NoBot
  NoDroplet = NoDroplet
  VariableConflict = "use_column"
  Handlers = {p1, p2}
  TierChoices = {"basic"}
  Overlap = FALSE
  ReuseDestroyed = FALSE
  Cancellation = FALSE
  OneShot = TRUE
  Callers = {d1, h1}
  Faults = {"create_droplet", "destroy_droplet", "assign_droplet"}
  LostReplies = {"link_droplet"}
  MaxVersion = 2
  Exclusive = {}
  Disconnects = FALSE
  Lossy = FALSE
  Delays = {0}
  Cycle = 3
INVARIANTS SystemTypeOK DesiredConfigExists AppliedNotAhead
PROPERTY ProvisionedComesUp
CHECK_DEADLOCK FALSE
