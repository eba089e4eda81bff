SPECIFICATION HttpSpec
CONSTANTS
  Accounts = {a1}
  Bots = {b1, b2}
  Droplets = {d1, d2}
  Handlers = {p1, p2, p3}
  Tokens <- TokenPool
  NoAccount = NoAccount
  NoBot = NoBot
  NoDroplet = NoDroplet
  TierChoices = {"basic"}
  Faults = {"destroy_droplet", "insert_droplet", "assign_droplet"}
  LostReplies = {"create_droplet"}
  VariableConflict = "use_column"
  Overlap = TRUE
  ReuseDestroyed = TRUE
  Cancellation = TRUE
  OneShot = TRUE
  MaxLength = 6
SYMMETRY HandlerSymmetry
INVARIANTS TypeOK DropletOwnership MarkedDestroyedIsGone DesiredConfigExists
PROPERTIES OnlyOwnDropletDestroyed NotFoundIsTrue
CHECK_DEADLOCK FALSE
