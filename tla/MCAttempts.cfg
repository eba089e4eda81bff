SPECIFICATION FairClientSpec
CONSTANTS
  Accounts = {a1}
  Bots = {b1}
  Droplets = {d1, d2, d3, d4}
  Tokens = {}
  NoAccount = NoAccount
  NoBot = NoBot
  NoDroplet = NoDroplet
  Faults = {}
  LostReplies = {}
  VariableConflict = "use_column"
  MaxCalls = 2
  Weathers <- BothWeathers
INVARIANTS ClientTypeOK CreatedAtMost OkMeansDone NotFoundMeansGone PowerAsAsked
PROPERTY EveryCallReturns
CHECK_DEADLOCK FALSE
