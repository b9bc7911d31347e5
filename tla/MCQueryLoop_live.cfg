\* Every way round the loop, with no turn limit.
\* It stops when the environment's bounds are used up: no deadlock check.
SPECIFICATION FairSpec
CONSTANTS
  MaxTurns = 0
  StreamingTools = TRUE
  HasFallback = TRUE
  TokenBudget = 1
  DiminishingTokens = 1
  RecoveryLimit = 1
  MaxConcurrentTools = 2
  ResetsAbort = TRUE
  ToolOutcomes = {}
  HookAnswers <- EveryHookAnswer
  ModelFailures <- EveryFailure
  StopReasons <- EveryStopReason
  MaxSubmits = 1
  MaxToolUses = 1
  MaxSteers = 0
  MaxAborts = 0
  MaxAgents = 0
  MaxCompactions = 0
CHECK_DEADLOCK FALSE
INVARIANT
  ResultsFollowTheirCalls
PROPERTIES
  SubmitEnds
