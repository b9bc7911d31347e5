------------------------------ MODULE QueryLoop ------------------------------
(***************************************************************************)
(* The agentic query loop of crates/cc-engine/src/query/loop_impl.rs, with *)
(* the engine that consumes its stream (lifecycle/submit_message.rs), the  *)
(* steer queue (lifecycle/mod.rs) and the tool tasks it spawns.            *)
(*                                                                         *)
(* One query runs at a time per engine.  Beside it run the tool tasks, a   *)
(* user who steers or aborts, and background agents that finish.  The      *)
(* model, the hooks and the compaction are the environment: each of their  *)
(* answers is a nondeterministic choice.                                   *)
(*                                                                         *)
(* A message is its kind and the identifiers it carries; its text is left  *)
(* out.  The engine handles each yielded item before the loop resumes (the *)
(* stream is pulled), so a yield and its handling are one step.  A step    *)
(* ends where another task could make a difference: before each abort      *)
(* check, each drain of a queue and each wait for the model or for a tool. *)
(***************************************************************************)
EXTENDS Integers, Sequences, FiniteSets

CONSTANTS
  MaxTurns,           \* params.max_turns; 0 stands for None
  StreamingTools,     \* gates.streaming_tool_execution
  HasFallback,        \* the fallback model is not the model first attempted
  TokenBudget,        \* task_budget_total outside sub-agents; 0 when absent
  DiminishingTokens,  \* DIMINISHING_THRESHOLD, in the units of TokenBudget
  RecoveryLimit,      \* MAX_OUTPUT_TOKENS_RECOVERY_LIMIT
  MaxConcurrentTools, \* MAX_CONCURRENT_TOOLS
  ResetsAbort,        \* the frontend calls reset_abort before submit_message
  ToolOutcomes,       \* what a tool execution may return besides a result
  HookAnswers,        \* what the Stop hooks may answer besides "allow"
  ModelFailures,      \* how a model call may fail
  StopReasons,        \* why the model stops
  \* Bounds on the environment.
  MaxSubmits, MaxToolUses, MaxSteers, MaxAborts, MaxAgents, MaxCompactions

AllToolOutcomes  == {"plain", "messages", "hook_stopped"}
AllHookAnswers   == {"prevent", "error"}
AllModelFailures == {"prompt_too_long", "capacity", "other"}
AllStopReasons   == {"end_turn", "max_tokens"}

ASSUME QueryLoopAssumption ==
  /\ MaxTurns \in Nat /\ TokenBudget \in Nat /\ DiminishingTokens \in Nat
  /\ RecoveryLimit \in Nat /\ MaxConcurrentTools \in Nat \ {0}
  /\ StreamingTools \in BOOLEAN /\ HasFallback \in BOOLEAN
  /\ ResetsAbort \in BOOLEAN
  /\ ToolOutcomes \subseteq AllToolOutcomes
  /\ HookAnswers \subseteq AllHookAnswers
  /\ ModelFailures \subseteq AllModelFailures
  /\ StopReasons \subseteq AllStopReasons
  /\ MaxSubmits \in Nat /\ MaxToolUses \in Nat /\ MaxSteers \in Nat
  /\ MaxAborts \in Nat /\ MaxAgents \in Nat /\ MaxCompactions \in Nat

VARIABLES
  pc,         \* where the query loop stands; "idle" between two submits
  history,    \* QueryLoopState.messages: what the next request is built from
  turn,       \* QueryLoopState.turn_count
  recovery,   \* the recoveries QueryLoopState remembers to have tried
  budget,     \* the BudgetTracker, and the output tokens of this query
  attempt,    \* the model attempt: its accumulator and its tool executor
  task,       \* the task of each tool call: its status, or what it returned
  runs,       \* how often each tool call was executed (a history variable)
  transcript, \* the engine's messages, which outlive the query
  aborted,    \* the engine's abort flag
  steering,   \* ActiveSteerState.active
  pending,    \* ActiveSteerState.pending
  background, \* pending_bg_results: background agents not yet reported
  firstTool,  \* the first tool call of this submit (a history variable)
  used        \* how much of the environment's bounds is used up

loopVars   == <<history, turn, recovery, budget>>
toolVars   == <<task, runs>>
engineVars == <<transcript, aborted, steering, pending, background>>
vars == <<pc, loopVars, attempt, toolVars, engineVars, firstTool, used>>

ToolIds == 1 .. MaxToolUses

-----------------------------------------------------------------------------
(* Messages.                                                               *)

UserKinds == {"user", "steer", "meta", "hook", "tool_message"}
Kinds == UserKinds \cup {"assistant", "tool_result", "system"}
Messages == [kind : Kinds, ids : SUBSET Nat]
Msg(kind, ids) == [kind |-> kind, ids |-> ids]

\* A message of no consequence for the model: an attachment, a boundary.
Notice == Msg("system", {})

\* A variant that takes only the first text of the queue it empties.
FirstSteerMessage == [i \in DOMAIN pending \cap {1} |-> Msg("steer", {pending[i]})]

\* drain_steer_messages: every pending text becomes a user message.
SteerMessages == [i \in DOMAIN pending |-> Msg("steer", {pending[i]})]

\* drain_background_results: every finished agent becomes a system message.
AgentMessages == [i \in DOMAIN background |-> Msg("system", {background[i]})]

(***************************************************************************)
(* Compaction, as far as the loop can tell: the history is cut at the      *)
(* start of a turn, which is any user message that is not a tool result,   *)
(* keeping the first message; or it is replaced by a summary.  Where the   *)
(* pipeline cuts (200, 40 or 5 turns back) is left open.                   *)
(***************************************************************************)
TurnStartsAnyUser(messages) ==   \* A variant that takes tool results for turns.
  {i \in 2 .. Len(messages) : messages[i].kind \in UserKinds \cup {"tool_result"}}

TurnStarts(messages) ==
  {i \in 2 .. Len(messages) : messages[i].kind \in UserKinds}

CutAt(messages, i) ==
  <<messages[1], Notice>> \o SubSeq(messages, i, Len(messages))

Cuts(messages) == {CutAt(messages, i) : i \in TurnStarts(messages)}

Summary == <<Notice, Msg("meta", {})>>

-----------------------------------------------------------------------------
(* The initial state, of the engine and of a query.                        *)

NoRecovery ==
  [stopHookActive |-> FALSE, escalated |-> FALSE, truncations |-> 0,
   collapsed |-> FALSE, reacted |-> FALSE]

NoTokens == [continuations |-> 0, lastDelta |-> 0, lastTokens |-> 0, tokens |-> 0]

NewAttempt(fallback) ==
  [fallback |-> fallback, uses |-> {}, safe |-> {},
   blocked |-> FALSE, started |-> {}, begun |-> {},
   stop |-> "end_turn", answered |-> {}]

Init ==
  /\ pc = "idle"
  /\ history = <<>> /\ turn = 1 /\ recovery = NoRecovery /\ budget = NoTokens
  /\ attempt = NewAttempt(FALSE)
  /\ task = [t \in ToolIds |-> "none"]
  /\ runs = [t \in ToolIds |-> 0]
  /\ transcript = <<>> /\ aborted = FALSE
  /\ steering = FALSE /\ pending = <<>> /\ background = <<>>
  /\ firstTool = 1
  /\ used = [submits |-> 0, tools |-> 0, steers |-> 0, aborts |-> 0,
             agents |-> 0, compactions |-> 0]

-----------------------------------------------------------------------------
(* Submitting, and ending a submit.                                        *)

\* submit_message: the guard opens the steer queue, the prompt is recorded
\* and the loop starts from everything the engine remembers.
Submit ==
  /\ pc = "idle" /\ used.submits < MaxSubmits
  /\ transcript' = Append(transcript, Msg("user", {}))
  /\ history' = transcript'
  /\ aborted' = (aborted /\ ~ResetsAbort)
  /\ steering' = TRUE /\ pending' = <<>>
  /\ pc' = "setup"
  /\ firstTool' = used.tools + 1
  /\ used' = [used EXCEPT !.submits = @ + 1]
  /\ UNCHANGED <<turn, recovery, budget, attempt, toolVars, background>>

\* The loop has broken: the stream ends, the state of the query is dropped,
\* and the guard with it, which closes the steer queue and empties it.
FinishSubmit ==
  /\ pc = "ending"
  /\ pc' = "idle" /\ steering' = FALSE /\ pending' = <<>>
  /\ history' = <<>> /\ turn' = 1 /\ recovery' = NoRecovery /\ budget' = NoTokens
  /\ attempt' = NewAttempt(FALSE)
  /\ UNCHANGED <<toolVars, transcript, aborted, background, firstTool, used>>

\* The next iteration begins; what belongs to the last response is dropped.
GoRound == pc' = "setup" /\ attempt' = NewAttempt(FALSE)

\* The loop yields a last message, which only the engine records, and breaks.
EndWith(message) ==
  /\ transcript' = Append(transcript, message)
  /\ pc' = "ending"
  /\ UNCHANGED <<aborted, steering, pending, background, firstTool, used>>

\* A variant that does not yield what it drains.
GoRoundUnrecorded ==
  /\ history' = history \o SteerMessages
  /\ pending' = <<>>
  /\ turn' = turn + 1
  /\ GoRound
  /\ UNCHANGED <<recovery, budget, toolVars, transcript, aborted, steering,
                 background, firstTool, used>>

\* Drained messages are yielded and pushed, and the loop goes round again.
GoRoundSteered ==
  /\ history' = history \o SteerMessages
  /\ transcript' = transcript \o SteerMessages
  /\ pending' = <<>>
  /\ turn' = turn + 1
  /\ GoRound
  /\ UNCHANGED <<recovery, budget, toolVars, aborted, steering,
                 background, firstTool, used>>

\* The loop pushes a message nobody else sees, and goes round again.
GoRoundWith(message) ==
  /\ history' = Append(history, message)
  /\ turn' = turn + 1
  /\ GoRound
  /\ UNCHANGED <<toolVars, engineVars, firstTool, used>>

-----------------------------------------------------------------------------
(* Steps 1 and 2: the abort check, the queues, the context.                *)

SetupAborted ==
  /\ pc = "setup" /\ aborted
  /\ EndWith(Msg("assistant", {}))
  /\ UNCHANGED <<loopVars, attempt, toolVars>>

\* A variant that looks at the queues without emptying them.
PeekQueues == UNCHANGED <<background, pending>>

\* drain_all, drain(..)
EmptyQueues == background' = <<>> /\ pending' = <<>>

Setup ==
  /\ pc = "setup" /\ ~aborted
  /\ LET drained == AgentMessages \o SteerMessages
     IN  /\ transcript' = transcript \o drained
         /\ \/ /\ history' = history \o drained
               /\ UNCHANGED used
            \/ /\ used.compactions < MaxCompactions
               /\ history' \in Cuts(history \o drained) \cup {Summary}
               /\ used' = [used EXCEPT !.compactions = @ + 1]
  /\ EmptyQueues
  /\ pc' = "request"
  /\ UNCHANGED <<turn, recovery, budget, attempt, toolVars, aborted, steering, firstTool>>

-----------------------------------------------------------------------------
(* Step 3: the model call.                                                 *)

RequestAccepted ==
  /\ pc = "request"
  /\ pc' = "stream"
  /\ UNCHANGED <<loopVars, attempt, toolVars, engineVars, firstTool, used>>

\* handle_prompt_too_long: a local cut, then an emergency compaction, each
\* tried once in a query; either may shorten contents only, or find nothing.
PromptTooLong ==
  /\ pc = "request" /\ "prompt_too_long" \in ModelFailures
  /\ \/ ~recovery.collapsed /\ recovery' = [recovery EXCEPT !.collapsed = TRUE]
     \/ /\ ~recovery.reacted
        /\ recovery' = [recovery EXCEPT !.collapsed = TRUE, !.reacted = TRUE]
  /\ history' \in Cuts(history) \cup {history}
  /\ GoRound
  /\ UNCHANGED <<turn, budget, toolVars, engineVars, firstTool, used>>

PromptStaysTooLong ==
  /\ pc = "request" /\ "prompt_too_long" \in ModelFailures
  /\ recovery' = [recovery EXCEPT !.collapsed = TRUE, !.reacted = TRUE]
  /\ EndWith(Msg("assistant", {}))
  /\ UNCHANGED <<history, turn, budget, attempt, toolVars>>

\* A variant that retries the retry.
MayFallBackAgain == "capacity" \in ModelFailures /\ HasFallback

\* classify_model_call_failure: a capacity error is retried on the fallback
\* model, unless this attempt is the retry.
MayFallBack ==
  "capacity" \in ModelFailures /\ HasFallback /\ ~attempt.fallback

RequestFallsBack ==
  /\ pc = "request" /\ MayFallBack
  /\ attempt' = NewAttempt(TRUE)
  /\ UNCHANGED <<pc, loopVars, toolVars, engineVars, firstTool, used>>

RequestFails ==
  /\ pc = "request"
  /\ \/ "other" \in ModelFailures
     \/ "capacity" \in ModelFailures /\ ~MayFallBack
  /\ EndWith(Msg("assistant", {}))
  /\ UNCHANGED <<loopVars, attempt, toolVars>>

\* A variant in which a serial tool does not hold back the calls after it.
StreamToolUseUnblocked(safe) ==
  LET t == used.tools + 1
      starts == StreamingTools /\ safe
  IN
  /\ pc = "stream" /\ used.tools < MaxToolUses
  /\ used' = [used EXCEPT !.tools = t]
  /\ attempt' = [attempt EXCEPT
       !.uses = @ \cup {t},
       !.safe = IF safe THEN @ \cup {t} ELSE @,
       !.started = IF starts THEN @ \cup {t} ELSE @]
  /\ task' = IF starts THEN [task EXCEPT ![t] = "running"] ELSE task
  /\ runs' = IF starts THEN [runs EXCEPT ![t] = @ + 1] ELSE runs
  /\ UNCHANGED <<pc, loopVars, engineVars, firstTool>>

\* A tool_use block is complete.  StreamingToolExecutor::add_tool_use starts
\* a concurrency-safe tool at once, until it meets one that is not.
StreamToolUse(safe) ==
  LET t == used.tools + 1
      starts == StreamingTools /\ safe /\ ~attempt.blocked
  IN
  /\ pc = "stream" /\ used.tools < MaxToolUses
  /\ used' = [used EXCEPT !.tools = t]
  /\ attempt' = [attempt EXCEPT
       !.uses = @ \cup {t},
       !.safe = IF safe THEN @ \cup {t} ELSE @,
       !.blocked = @ \/ (StreamingTools /\ ~safe),
       !.started = IF starts THEN @ \cup {t} ELSE @]
  /\ task' = IF starts THEN [task EXCEPT ![t] = "running"] ELSE task
  /\ runs' = IF starts THEN [runs EXCEPT ![t] = @ + 1] ELSE runs
  /\ UNCHANGED <<pc, loopVars, engineVars, firstTool>>

\* A variant that drops the executor without aborting it.
DropStarted == UNCHANGED task

\* StreamingToolExecutor::abort: the tasks are told to stop at their next
\* await; nobody waits for them.
AbortStarted ==
  task' = [t \in ToolIds |->
             IF t \in attempt.started /\ task[t] = "running"
             THEN "condemned" ELSE task[t]]

StreamFallsBack ==
  /\ pc = "stream" /\ MayFallBack
  /\ AbortStarted
  /\ attempt' = NewAttempt(TRUE)
  /\ pc' = "request"
  /\ UNCHANGED <<loopVars, runs, engineVars, firstTool, used>>

\* The stream breaks, or shows no progress until a timeout fires.
StreamFails ==
  /\ pc = "stream"
  /\ \/ "other" \in ModelFailures
     \/ "capacity" \in ModelFailures /\ ~MayFallBack
  /\ AbortStarted
  /\ EndWith(Msg("assistant", {}))
  /\ UNCHANGED <<loopVars, attempt, runs>>

-----------------------------------------------------------------------------
(* Step 4: the response is complete.                                       *)

Capped(n, bound) == IF n < bound THEN n ELSE bound

\* cumulative_usage, saturated at TokenBudget; a response costs 0 or 1.
CountTokens ==
  \E cost \in {0, 1} :
    budget' = [budget EXCEPT !.tokens = Capped(@ + cost, TokenBudget)]

\* Cut short by the user: the engine records the response, the loop drops it,
\* and with it the executor, whose tasks run on detached.
ResponseAborted ==
  /\ pc = "stream" /\ aborted
  /\ CountTokens
  /\ EndWith(Msg("assistant", attempt.uses))
  /\ UNCHANGED <<history, turn, recovery, attempt, toolVars>>

\* The stream ends, or breaks with a chunk read error after text without tool
\* calls, which counts as an end.
ResponseArrives ==
  /\ pc = "stream" /\ ~aborted
  /\ CountTokens
  /\ history' = Append(history, Msg("assistant", attempt.uses))
  /\ transcript' = Append(transcript, Msg("assistant", attempt.uses))
  /\ \E reason \in StopReasons : attempt' = [attempt EXCEPT !.stop = reason]
  /\ pc' = IF attempt.uses = {} THEN "answer" ELSE "tools"
  /\ UNCHANGED <<turn, recovery, toolVars, aborted, steering, pending,
                 background, firstTool, used>>

-----------------------------------------------------------------------------
(* Step 5: an answer without tool calls.  Texts the user has steered with  *)
(* come first, then truncation, the Stop hooks and the token budget.       *)

AnswerSteered ==
  /\ pc = "answer" /\ pending # <<>>
  /\ GoRoundSteered

Truncated == pc = "answer" /\ pending = <<>> /\ attempt.stop = "max_tokens"
Complete == pc = "answer" /\ pending = <<>> /\ attempt.stop # "max_tokens"

\* handle_max_output_tokens: first with more tokens, in the same turn.
Escalate ==
  /\ Truncated /\ ~recovery.escalated
  /\ recovery' = [recovery EXCEPT !.escalated = TRUE]
  /\ GoRound
  /\ UNCHANGED <<history, turn, budget, toolVars, engineVars, firstTool, used>>

ContinueTruncated ==
  /\ Truncated /\ recovery.escalated /\ recovery.truncations < RecoveryLimit
  /\ recovery' = [recovery EXCEPT !.truncations = @ + 1]
  /\ GoRoundWith(Msg("meta", {}))
  /\ UNCHANGED budget

StayTruncated ==
  /\ Truncated /\ recovery.escalated /\ recovery.truncations >= RecoveryLimit
  /\ pc' = "ending"
  /\ UNCHANGED <<loopVars, attempt, toolVars, engineVars, firstTool, used>>

\* A variant that forgets to have asked.
StopHookPreventsAgain ==
  /\ Complete /\ ~recovery.stopHookActive /\ "prevent" \in HookAnswers
  /\ GoRoundWith(Msg("hook", {}))
  /\ UNCHANGED <<recovery, budget>>

\* run_stop_hooks: the hooks are asked once, until a tool turn resets them.
StopHookPrevents ==
  /\ Complete /\ ~recovery.stopHookActive /\ "prevent" \in HookAnswers
  /\ recovery' = [recovery EXCEPT !.stopHookActive = TRUE]
  /\ GoRoundWith(Msg("hook", {}))
  /\ UNCHANGED budget

StopHookFails ==
  /\ Complete /\ ~recovery.stopHookActive /\ "error" \in HookAnswers
  /\ pc' = "ending"
  /\ UNCHANGED <<loopVars, attempt, toolVars, engineVars, firstTool, used>>

\* check_token_budget: go on below 90% of the budget, unless after three
\* continuations the last two brought little.
NewTokens ==   \* a saturating subtraction
  IF budget.tokens > budget.lastTokens THEN budget.tokens - budget.lastTokens ELSE 0
Diminishing ==
  /\ budget.continuations >= 3
  /\ NewTokens < DiminishingTokens /\ budget.lastDelta < DiminishingTokens
BudgetRemains ==
  TokenBudget > 0 /\ ~Diminishing /\ 10 * budget.tokens < 9 * TokenBudget

ContinueBudget ==
  /\ Complete /\ BudgetRemains
  /\ budget' = [continuations |-> budget.continuations + 1, lastDelta |-> NewTokens,
                lastTokens |-> budget.tokens, tokens |-> budget.tokens]
  /\ GoRoundWith(Msg("meta", {}))
  /\ UNCHANGED recovery

AnswerAccepted ==
  /\ Complete /\ ~BudgetRemains
  /\ pc' = "ending"
  /\ UNCHANGED <<loopVars, attempt, toolVars, engineVars, firstTool, used>>

-----------------------------------------------------------------------------
(* Step 6: the tools.  First those the stream started are awaited; then    *)
(* execute_tool_calls runs the others in order, a batch of consecutive     *)
(* concurrency-safe ones together, up to MAX_CONCURRENT_TOOLS at a time.   *)

RemainingAll == attempt.uses   \* A variant that also runs what the stream started.

Remaining == attempt.uses \ attempt.started
Finished(ids) == \A t \in ids : task[t] \in AllToolOutcomes

SameBatch(s, t) == {u \in Remaining : s <= u /\ u <= t} \subseteq attempt.safe
Batch(t) == {s \in Remaining : SameBatch(s, t) \/ SameBatch(t, s)}

\* The calls before t have been begun, and have returned if t must wait.
MayStart(t) ==
  /\ t \in Remaining \ attempt.begun
  /\ Finished(attempt.started)
  /\ \A s \in Remaining :
       s < t => s \in attempt.begun /\ (SameBatch(s, t) \/ Finished({s}))
  /\ Cardinality({s \in Batch(t) : task[s] = "running"}) < MaxConcurrentTools

StartTool(t) ==
  /\ pc = "tools" /\ MayStart(t)
  /\ attempt' = [attempt EXCEPT !.begun = @ \cup {t}]
  /\ task' = [task EXCEPT ![t] = "running"]
  /\ runs' = [runs EXCEPT ![t] = @ + 1]
  /\ UNCHANGED <<pc, loopVars, engineVars, firstTool, used>>

\* A variant that records that the tool has returned but not what.
FinishToolUntyped(t) ==
  /\ task[t] = "running"
  /\ task' = [task EXCEPT ![t] = "finished"]
  /\ UNCHANGED <<pc, loopVars, attempt, runs, engineVars, firstTool, used>>

\* The task of a tool call returns: a result or an error, new messages with
\* it, or the wish of a hook that the query stop.
FinishTool(t) ==
  /\ task[t] = "running"
  /\ \E o \in ToolOutcomes \cup {"plain"} : task' = [task EXCEPT ![t] = o]
  /\ UNCHANGED <<pc, loopVars, attempt, runs, engineVars, firstTool, used>>

\* A task that was told to stop reaches an await, or its end.
CancelTool(t) ==
  /\ task[t] = "condemned"
  /\ task' = [task EXCEPT ![t] = "cancelled"]
  /\ UNCHANGED <<pc, loopVars, attempt, runs, engineVars, firstTool, used>>

ToolsAborted ==
  /\ pc = "tools" /\ Finished(attempt.uses) /\ aborted
  /\ pc' = "ending"
  /\ UNCHANGED <<loopVars, attempt, toolVars, engineVars, firstTool, used>>

ToolsFinished ==
  /\ pc = "tools" /\ Finished(attempt.uses) /\ ~aborted
  /\ pc' = "results"
  /\ UNCHANGED <<loopVars, attempt, toolVars, engineVars, firstTool, used>>

\* The results are yielded and pushed in the order of the calls, each with
\* the messages its tool added.
ResultMessages(t) ==
  IF task[t] = "messages"
  THEN <<Msg("tool_result", {t}), Msg("tool_message", {})>>
  ELSE <<Msg("tool_result", {t})>>

PushResult(t) ==
  /\ pc = "results" /\ t \in attempt.uses \ attempt.answered
  /\ \A s \in attempt.uses \ attempt.answered : t <= s
  /\ attempt' = [attempt EXCEPT !.answered = @ \cup {t}]
  /\ history' = history \o ResultMessages(t)
  /\ transcript' = transcript \o ResultMessages(t)
  /\ UNCHANGED <<pc, turn, recovery, budget, toolVars, aborted, steering,
                 pending, background, firstTool, used>>

\* A variant that goes on after the first result.
AnsweredFirst == pc = "results" /\ attempt.answered # {}

Answered == pc = "results" /\ attempt.answered = attempt.uses
HookStopped == \E t \in attempt.uses : task[t] = "hook_stopped"
TurnsUsedUp == MaxTurns > 0 /\ turn >= MaxTurns

ToolsSteered ==
  /\ Answered /\ pending # <<>>
  /\ GoRoundSteered

\* A PostToolUse hook or the turn limit ends the query with an attachment.
ToolsEnd ==
  /\ Answered /\ pending = <<>> /\ (HookStopped \/ TurnsUsedUp)
  /\ EndWith(Notice)
  /\ UNCHANGED <<loopVars, attempt, toolVars>>

NextTurn ==
  /\ Answered /\ pending = <<>> /\ ~HookStopped /\ ~TurnsUsedUp
  /\ turn' = turn + 1
  /\ recovery' = [recovery EXCEPT !.stopHookActive = FALSE]
  /\ GoRound
  /\ UNCHANGED <<history, budget, toolVars, engineVars, firstTool, used>>

-----------------------------------------------------------------------------
(* The user and the background agents.                                     *)

\* submit_steer_message: refused unless a submit is active.
Steer ==
  /\ steering /\ used.steers < MaxSteers
  /\ used' = [used EXCEPT !.steers = @ + 1]
  /\ pending' = Append(pending, used.steers + 1)
  /\ UNCHANGED <<pc, loopVars, attempt, toolVars, transcript, aborted, steering,
                 background, firstTool>>

Abort ==
  /\ used.aborts < MaxAborts
  /\ used' = [used EXCEPT !.aborts = @ + 1]
  /\ aborted' = TRUE
  /\ UNCHANGED <<pc, loopVars, attempt, toolVars, transcript, steering, pending,
                 background, firstTool>>

AgentFinishes ==
  /\ used.agents < MaxAgents
  /\ used' = [used EXCEPT !.agents = @ + 1]
  /\ background' = Append(background, used.agents + 1)
  /\ UNCHANGED <<pc, loopVars, attempt, toolVars, transcript, aborted, steering,
                 pending, firstTool>>

-----------------------------------------------------------------------------
(* The specification.                                                      *)

Loop ==
  \/ SetupAborted \/ Setup
  \/ RequestAccepted \/ PromptTooLong \/ PromptStaysTooLong
  \/ RequestFallsBack \/ RequestFails
  \/ (\E safe \in BOOLEAN : StreamToolUse(safe))
  \/ StreamFallsBack \/ StreamFails
  \/ ResponseAborted \/ ResponseArrives
  \/ AnswerSteered \/ Escalate \/ ContinueTruncated \/ StayTruncated
  \/ StopHookPrevents \/ StopHookFails \/ ContinueBudget \/ AnswerAccepted
  \/ (\E t \in ToolIds : StartTool(t)) \/ ToolsAborted \/ ToolsFinished
  \/ (\E t \in ToolIds : PushResult(t))
  \/ ToolsSteered \/ ToolsEnd \/ NextTurn
  \/ FinishSubmit

Task(t) == FinishTool(t) \/ CancelTool(t)

User == Submit \/ Steer \/ Abort

Next == Loop \/ (\E t \in ToolIds : Task(t)) \/ User \/ AgentFinishes

Spec == Init /\ [][Next]_vars

\* The runtime polls the loop as long as it can take a step, the model's
\* stream ends or times out, and every tool returns in the end.  Nothing is
\* asked of the user or of the agents.
Fairness == WF_vars(Loop) /\ \A t \in ToolIds : WF_vars(Task(t))

FairSpec == Spec /\ Fairness

-----------------------------------------------------------------------------
(* What the loop promises.                                                 *)

Recoveries == [stopHookActive : BOOLEAN, escalated : BOOLEAN, truncations : Nat,
               collapsed : BOOLEAN, reacted : BOOLEAN]
Budgets == [continuations : Nat, lastDelta : Nat, lastTokens : Nat, tokens : Nat]
Attempts == [fallback : BOOLEAN, uses : SUBSET ToolIds, safe : SUBSET ToolIds,
             blocked : BOOLEAN, started : SUBSET ToolIds, begun : SUBSET ToolIds,
             stop : AllStopReasons, answered : SUBSET ToolIds]
TaskStates == {"none", "running", "condemned", "cancelled"} \cup AllToolOutcomes
Bounds == [submits : Nat, tools : Nat, steers : Nat, aborts : Nat, agents : Nat,
           compactions : Nat]
Places ==
  {"idle", "setup", "request", "stream", "answer", "tools", "results", "ending"}

LoopTyped ==
  /\ history \in Seq(Messages) /\ turn \in Nat
  /\ recovery \in Recoveries /\ budget \in Budgets
ToolsTyped == task \in [ToolIds -> TaskStates] /\ runs \in [ToolIds -> Nat]
EngineTyped ==
  /\ transcript \in Seq(Messages) /\ aborted \in BOOLEAN
  /\ steering \in BOOLEAN /\ pending \in Seq(Nat) /\ background \in Seq(Nat)

\* Every variable has its type.
TypeOK ==
  /\ pc \in Places /\ LoopTyped /\ attempt \in Attempts /\ ToolsTyped
  /\ EngineTyped /\ firstTool \in Nat /\ used \in Bounds

\* A tool call is executed at most once, although the stream may have started
\* it before the batches of execute_tool_calls run.
ToolRunsOnce == \A t \in ToolIds : runs[t] <= 1

\* Two calls of a response overlap only if both are concurrency-safe: before a
\* serial tool begins the calls before it have returned, and until it returns
\* none after it begins, whether a batch or the stream starts them.
SerialToolsInOrder ==
  \A s, t \in attempt.uses :
    s < t /\ ~({s, t} \subseteq attempt.safe) /\ task[t] # "none" =>
      task[s] \in AllToolOutcomes

\* Until the user aborts, a tool that nobody has told to stop belongs to the
\* response the loop is handling: none is left behind by a fallback, an error
\* or a recovery.
NoToolOutlivesItsResponse ==
  used.aborts = 0 =>
    \A t \in ToolIds : task[t] = "running" =>
      t \in attempt.uses /\ pc \in {"stream", "tools"}

Calls(messages, i) == IF messages[i].kind = "assistant" THEN messages[i].ids ELSE {}
Results(messages, i) == IF messages[i].kind = "tool_result" THEN messages[i].ids ELSE {}

UnansweredCalls(messages) ==
  UNION {Calls(messages, i) \ UNION {Results(messages, j) : j \in i + 1 .. Len(messages)}
           : i \in DOMAIN messages}

OrphanResults(messages) ==
  UNION {Results(messages, j) \ UNION {Calls(messages, i) : i \in 1 .. j - 1}
           : j \in DOMAIN messages}

\* A request never holds a call of this submit that has no result: whatever
\* fell back, was steered, cut or retried in between.
CurrentCallsAnswered ==
  pc = "request" => \A t \in UnansweredCalls(history) : t < firstTool

\* A request never holds a tool result without its call before it, as a
\* discarded response or a cut in the wrong place would leave behind.
ResultsFollowTheirCalls == pc = "request" => OrphanResults(history) = {}

\* Between two answers that a Stop hook has sent back lies a tool turn, so a
\* hook that always prevents cannot keep the loop going by itself.
StopHooksCannotLoop ==
  \A i, j \in DOMAIN history :
    i < j /\ history[i].kind = "hook" /\ history[j].kind = "hook" =>
      \E k \in i .. j : history[k].kind = "tool_result"

\* What the user steers with is recorded in the order given and never twice,
\* and what is pending comes after what is recorded.
SteersInOrder ==
  LET steered == transcript \o SteerMessages
  IN  \A i, j \in DOMAIN steered :
        i < j /\ steered[i].kind = "steer" /\ steered[j].kind = "steer" =>
          \A a \in steered[i].ids, b \in steered[j].ids : a < b

\* A text the user has steered with leaves the queue for the transcript, or is
\* dropped with the queue when the submit ends: no recovery loses it.
SteersDroppedOnlyAtEnd ==
  [][\A i \in DOMAIN pending :
       \/ pc = "ending"
       \/ \E j \in DOMAIN pending' : pending'[j] = pending[i]
       \/ \E j \in DOMAIN transcript' : transcript'[j] = Msg("steer", {pending[i]})]_vars

\* The report of a background agent is waiting or recorded, and never both or
\* twice, whatever became of the submits since; and nothing else is reported.
AgentsReportedOnce ==
  LET reports == transcript \o AgentMessages
      Reported(i) == IF reports[i].kind = "system" THEN reports[i].ids ELSE {}
  IN  /\ \A i \in DOMAIN reports : Reported(i) \subseteq 1 .. used.agents
      /\ \A a \in 1 .. used.agents :
           \E i \in DOMAIN reports :
             /\ Reported(i) = {a}
             /\ \A j \in DOMAIN reports \ {i} : a \notin Reported(j)

\* The messages of the loop's own, which the engine never sees.
OwnKinds == {"meta", "hook"}

\* Where the i-th message of a history stands when those are left out.
Place(messages, i) ==
  Cardinality({k \in 1 .. i : messages[k].kind \notin OwnKinds})

\* One sequence of messages is another without the loop's own messages.
IsWithoutOwn(recorded, messages) ==
  /\ Len(recorded) = Place(messages, Len(messages))
  /\ \A i \in DOMAIN messages :
       messages[i].kind \notin OwnKinds => recorded[Place(messages, i)] = messages[i]

\* As long as nothing is compacted, the loop sends what the engine has
\* recorded, in the same order, and beyond it only its own continuations.
LoopAndEngineAgree ==
  pc = "request" /\ used.compactions = 0 /\ ~recovery.collapsed =>
    IsWithoutOwn(transcript, history)

\* A submit starts with the abort flag down: an abort ends one submit.
SubmitStartsUnaborted == [][pc = "idle" /\ pc' = "setup" => ~aborted']_vars

\* Every submit ends, whatever the model, the hooks and the user do.
SubmitEnds == pc # "idle" ~> pc = "idle"

=============================================================================
