\* Two submits with steers, an agent, a compaction and a tool call, or one with
\* four tool calls over two turns, a fallback, a steer and an abort.
\* It stops when the environment's bounds are used up: no deadlock check.
SPECIFICATION Spec
CONSTANTS
  MaxTurns = 3
  StreamingTools = TRUE
  HasFallback = TRUE
  TokenBudget = 0
  DiminishingTokens = 1
  RecoveryLimit = 1
  MaxConcurrentTools = 2
  ResetsAbort = TRUE
  ToolOutcomes <- EveryOutcome
  HookAnswers = {"prevent"}
  ModelFailures = {"prompt_too_long", "capacity"}
  StopReasons = {"end_turn"}
  MaxSubmits = 2
  MaxToolUses = 4
  MaxSteers = 2
  MaxAborts = 1
  MaxAgents = 1
  MaxCompactions = 1
CONSTRAINT Mixed
CHECK_DEADLOCK FALSE
INVARIANTS
  TypeOK
  ToolRunsOnce
  SerialToolsInOrder
  NoToolOutlivesItsResponse
  CurrentCallsAnswered
  StopHooksCannotLoop
  SteersInOrder
  AgentsReportedOnce
  LoopAndEngineAgree
PROPERTIES
  SteersDroppedOnlyAtEnd
