\* A tool that adds messages, as the Skill tool does, and a compaction.
\* It stops when the environment's bounds are used up: no deadlock check.
SPECIFICATION Spec
CONSTANTS
  MaxTurns = 2
  StreamingTools = TRUE
  HasFallback = TRUE
  TokenBudget = 0
  DiminishingTokens = 1
  RecoveryLimit = 1
  MaxConcurrentTools = 2
  ResetsAbort = TRUE
  ToolOutcomes = {"messages"}
  HookAnswers = {}
  ModelFailures = {}
  StopReasons = {"end_turn"}
  MaxSubmits = 1
  MaxToolUses = 2
  MaxSteers = 0
  MaxAborts = 0
  MaxAgents = 0
  MaxCompactions = 1
CHECK_DEADLOCK FALSE
INVARIANTS
  ResultsFollowTheirCalls
