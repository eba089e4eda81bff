SPECIFICATION Spec
CONSTANTS
  Accounts = {a1}
  Bots = {b1, b2, b3, b4}
  Droplets = {d1, d2, d3, d4}
  Handlers = {p1}
  Tokens <- TokenPool
  NoAccount = NoAccount
  NoBot = NoBot
  NoDroplet = NoDroplet
  TierChoices = {"basic"}
  Faults = {}
  LostReplies = {}
  VariableConflict = "use_column"
  Overlap = FALSE
  ReuseDestroyed = TRUE
  Cancellation = FALSE
  OneShot = FALSE
INVARIANT LiveBotsWithinLimit
