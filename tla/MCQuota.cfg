SPECIFICATION Spec
CONSTANTS
  Accounts = {a1}
  Bots = {b1, b2, b3}
  Droplets = {d1}
  Handlers = {p1, p2, p3}
  Tokens <- TokenPool
  NoAccount = NoAccount
  NoBot = NoBot
  NoDroplet = NoDroplet
  TierChoices = {"free", "basic"}
  Faults = {"create_config", "give_back", "delete_bot", "decrement", "create_droplet", "destroy_droplet"}
  LostReplies = {"increment", "delete_bot"}
  VariableConflict = "use_column"
  Overlap = FALSE
  ReuseDestroyed = FALSE
  Cancellation = TRUE
  OneShot = TRUE
SYMMETRY HandlerSymmetry
INVARIANT CounterCoversBots
PROPERTIES GrowthWithinLimit ImplementsQuota
CHECK_DEADLOCK FALSE
