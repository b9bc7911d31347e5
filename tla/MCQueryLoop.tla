----------------------------- MODULE MCQueryLoop -----------------------------
(***************************************************************************)
(* QueryLoop for TLC.  Only the environment is bounded: the loop needs no  *)
(* bound of its own, since every way round it uses up a tool call, a steer,*)
(* a recovery, a Stop hook or a part of the token budget.                  *)
(***************************************************************************)
EXTENDS QueryLoop

\* What the environment may answer when a run leaves nothing out.
EveryHookAnswer == AllHookAnswers
EveryFailure    == AllModelFailures
EveryOutcome    == AllToolOutcomes
EveryStopReason == AllStopReasons

\* One submit and its tool calls, with a steer and an abort.
Tools ==
  /\ turn <= 2 /\ used.submits <= 1 /\ used.steers <= 1
  /\ used.tools + used.steers + used.aborts <= 5
  /\ used.agents = 0 /\ used.compactions = 0
  /\ ~recovery.stopHookActive /\ ~recovery.collapsed /\ ~recovery.reacted

\* What is said over two submits, with at most one tool call; a second submit
\* takes the place of something said.
Talk ==
  /\ used.tools <= 1 /\ used.aborts = 0 /\ ~attempt.fallback
  /\ used.submits + used.tools + used.steers + used.agents + used.compactions <= 5
  /\ \A t \in ToolIds : task[t] \notin {"messages", "hook_stopped"}

Mixed == Tools \/ Talk
=============================================================================
