SPECIFICATION Spec
CONSTANTS
  Accounts = {a1}
  Bots = {b1, b2}
  Droplets = {d1, d2}
  Handlers = {p1}
  Tokens <- TokenPool
  NoAccount = NoAccount
  NoBot = NoBot
  NoDroplet = NoDroplet
  TierChoices = {"basic"}
  Faults = {}
  LostReplies = {}
  VariableConflict = "error"
  Overlap = FALSE
  ReuseDestroyed = FALSE
  Cancellation = FALSE
  OneShot = FALSE
PROPERTY UnderLimitIsGranted
