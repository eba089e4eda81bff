SPECIFICATION Spec
CONSTANTS
  Accounts = {a1}
  Bots = {b1, b2}
  Droplets = {d1, d2, d3}
  Handlers = {p1}
  Tokens <- TokenPool
  NoAccount = NoAccount
  NoBot = NoBot
  NoDroplet = NoDroplet
  TierChoices = {"basic"}
  Faults = {"create_droplet", "rate_limit", "insert_droplet", "destroy_droplet", "redeploy_destroy", "shutdown"}
  LostReplies = {}
  VariableConflict = "use_column"
  Overlap = FALSE
  ReuseDestroyed = FALSE
  Cancellation = FALSE
  OneShot = FALSE
INVARIANTS CounterIsExact StatusTellsDroplet PausedBotIsStopped
