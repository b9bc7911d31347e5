\* A frontend that does not reset the abort flag, as the daemon and the web.
\* It stops when the environment's bounds are used up: no deadlock check.
SPECIFICATION Spec
CONSTANTS
  MaxTurns = 2
  StreamingTools = TRUE
  HasFallback = TRUE
  TokenBudget = 0
  DiminishingTokens = 1
  RecoveryLimit = 1
  MaxConcurrentTools = 2
  ResetsAbort = FALSE
  ToolOutcomes = {}
  HookAnswers = {}
  ModelFailures = {}
  StopReasons = {"end_turn"}
  MaxSubmits = 2
  MaxToolUses = 1
  MaxSteers = 0
  MaxAborts = 1
  MaxAgents = 0
  MaxCompactions = 0
CHECK_DEADLOCK FALSE
PROPERTIES
  SubmitStartsUnaborted
