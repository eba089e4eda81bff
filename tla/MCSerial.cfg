SPECIFICATION FairHttpSpec
CONSTANTS
  Accounts = {a1}
  Bots = {b1, b2}
  Droplets = {d1, d2}
  Handlers = {p1}
  Tokens <- TokenPool
  NoAccount = NoAccount
  NoBot = NoBot
  NoDroplet = NoDroplet
  TierChoices = {"basic"}
  Faults <- FaultsButRollback
  LostReplies <- LossesButRepeats
  VariableConflict = "use_column"
  Overlap = FALSE
  ReuseDestroyed = FALSE
  Cancellation = FALSE
  OneShot = FALSE
  MaxLength = 6
INVARIANTS NoOrphanDroplet FailedCreateLeavesNothing QuietBotsHaveConfig DestroyedForGood AgentCanAuthenticate
INVARIANTS RefusedBeforeDestroying ShellReadsBack
PROPERTIES RetryIsAccepted EveryRequestAnswered
