--------------------------- MODULE QueryLoopProofs ---------------------------
(***************************************************************************)
(* Proofs about QueryLoop, for every value of its constants.               *)
(***************************************************************************)
EXTENDS QueryLoop, SequenceTheorems, TLAPS

-----------------------------------------------------------------------------
(* What the drained queues and the compaction return.                      *)

\* A message built by Msg is a message.
LEMMA MsgType ==
  ASSUME NEW kind \in Kinds, NEW ids \in SUBSET Nat
  PROVE  Msg(kind, ids) \in Messages
BY DEF Msg, Messages

\* drain_steer_messages returns messages.
LEMMA SteerMessagesType ==
  ASSUME pending \in Seq(Nat)
  PROVE  SteerMessages \in Seq(Messages)
<1>1. \A i \in 1 .. Len(pending) : Msg("steer", {pending[i]}) \in Messages
  BY DEF Msg, Messages, Kinds, UserKinds
<1>2. Len(pending) \in Nat /\ DOMAIN pending = 1 .. Len(pending)
  OBVIOUS
<1>3. SteerMessages \in [1 .. Len(pending) -> Messages]
  BY <1>1, <1>2, Zenon DEF SteerMessages
<1>. QED  BY <1>2, <1>3, SeqDef

\* drain_background_results returns messages.
LEMMA AgentMessagesType ==
  ASSUME background \in Seq(Nat)
  PROVE  AgentMessages \in Seq(Messages)
<1>1. \A i \in 1 .. Len(background) : Msg("system", {background[i]}) \in Messages
  BY DEF Msg, Messages, Kinds, UserKinds
<1>2. Len(background) \in Nat /\ DOMAIN background = 1 .. Len(background)
  OBVIOUS
<1>3. AgentMessages \in [1 .. Len(background) -> Messages]
  BY <1>1, <1>2, Zenon DEF AgentMessages
<1>. QED  BY <1>2, <1>3, SeqDef

\* Compaction returns messages, wherever it cuts.
LEMMA CutsType ==
  ASSUME NEW messages \in Seq(Messages)
  PROVE  Cuts(messages) \subseteq Seq(Messages)
<1>. SUFFICES ASSUME NEW i \in TurnStarts(messages)
              PROVE  CutAt(messages, i) \in Seq(Messages)
  BY DEF Cuts
<1>1. i \in 2 .. Len(messages)
  BY DEF TurnStarts
<1>2. Notice \in Messages
  BY DEF Notice, Msg, Messages, Kinds
<1>3. messages[1] \in Messages
  BY <1>1
<1>4. SubSeq(messages, i, Len(messages)) \in Seq(Messages)
  BY <1>1
<1>. QED  BY <1>2, <1>3, <1>4 DEF CutAt

\* A summary is made of messages.
LEMMA SummaryType == Summary \in Seq(Messages)
<1>1. Notice \in Messages /\ Msg("meta", {}) \in Messages
  BY DEF Notice, Msg, Messages, Kinds, UserKinds
<1>. QED  BY <1>1 DEF Summary

-----------------------------------------------------------------------------
(* What the updates of the records return.                                 *)

\* A bound that is counted up is still a number.
LEMMA BoundsUpdates ==
  ASSUME NEW u \in Bounds
  PROVE  /\ [u EXCEPT !.submits = @ + 1] \in Bounds
         /\ [u EXCEPT !.tools = u.tools + 1] \in Bounds
         /\ [u EXCEPT !.steers = @ + 1] \in Bounds
         /\ [u EXCEPT !.aborts = @ + 1] \in Bounds
         /\ [u EXCEPT !.agents = @ + 1] \in Bounds
         /\ [u EXCEPT !.compactions = @ + 1] \in Bounds
<1>1. [u EXCEPT !.submits = @ + 1] \in Bounds      BY DEF Bounds
<1>2. [u EXCEPT !.tools = u.tools + 1] \in Bounds  BY DEF Bounds
<1>3. [u EXCEPT !.steers = @ + 1] \in Bounds       BY DEF Bounds
<1>4. [u EXCEPT !.aborts = @ + 1] \in Bounds       BY DEF Bounds
<1>5. [u EXCEPT !.agents = @ + 1] \in Bounds       BY DEF Bounds
<1>6. [u EXCEPT !.compactions = @ + 1] \in Bounds  BY DEF Bounds
<1>. QED  BY <1>1, <1>2, <1>3, <1>4, <1>5, <1>6

\* The recoveries keep their types, whichever of them is tried.
LEMMA RecoveryUpdates ==
  ASSUME NEW r \in Recoveries, NEW b \in BOOLEAN
  PROVE  /\ [r EXCEPT !.collapsed = TRUE] \in Recoveries
         /\ [r EXCEPT !.collapsed = TRUE, !.reacted = TRUE] \in Recoveries
         /\ [r EXCEPT !.escalated = TRUE] \in Recoveries
         /\ [r EXCEPT !.truncations = @ + 1] \in Recoveries
         /\ [r EXCEPT !.stopHookActive = b] \in Recoveries
<1>1. [r EXCEPT !.collapsed = TRUE] \in Recoveries                   BY DEF Recoveries
<1>2. [r EXCEPT !.collapsed = TRUE, !.reacted = TRUE] \in Recoveries BY DEF Recoveries
<1>3. [r EXCEPT !.escalated = TRUE] \in Recoveries                   BY DEF Recoveries
<1>4. [r EXCEPT !.truncations = @ + 1] \in Recoveries                BY DEF Recoveries
<1>5. [r EXCEPT !.stopHookActive = b] \in Recoveries                 BY DEF Recoveries
<1>. QED  BY <1>1, <1>2, <1>3, <1>4, <1>5

\* An attempt keeps its type while its calls begin and are answered.
LEMMA AttemptUpdates ==
  ASSUME NEW a \in Attempts, NEW t \in ToolIds, NEW stop \in AllStopReasons
  PROVE  /\ [a EXCEPT !.begun = @ \cup {t}] \in Attempts
         /\ [a EXCEPT !.answered = @ \cup {t}] \in Attempts
         /\ [a EXCEPT !.stop = stop] \in Attempts
<1>1. [a EXCEPT !.begun = @ \cup {t}] \in Attempts     BY DEF Attempts
<1>2. [a EXCEPT !.answered = @ \cup {t}] \in Attempts  BY DEF Attempts
<1>3. [a EXCEPT !.stop = stop] \in Attempts            BY DEF Attempts
<1>. QED  BY <1>1, <1>2, <1>3

\* A new attempt has the type of an attempt.
LEMMA NewAttemptType ==
  ASSUME NEW fallback \in BOOLEAN
  PROVE  NewAttempt(fallback) \in Attempts
BY DEF NewAttempt, Attempts, AllStopReasons

\* Counting the tokens of a response keeps the type of the budget.
LEMMA CountTokensType ==
  ASSUME budget \in Budgets, CountTokens
  PROVE  budget' \in Budgets
<1>1. PICK cost \in {0, 1} :
        budget' = [budget EXCEPT !.tokens = Capped(@ + cost, TokenBudget)]
  BY DEF CountTokens
<1>2. budget.tokens + cost \in Nat
  BY DEF Budgets
<1>3. Capped(budget.tokens + cost, TokenBudget) \in Nat
  BY <1>2, QueryLoopAssumption DEF Capped
<1>. QED  BY <1>1, <1>3 DEF Budgets

\* So does continuing because the budget remains.
LEMMA ContinueBudgetType ==
  ASSUME budget \in Budgets, ContinueBudget
  PROVE  budget' \in Budgets
<1>1. budget.tokens \in Nat /\ budget.lastTokens \in Nat /\ budget.continuations + 1 \in Nat
  BY DEF Budgets
<1>2. NewTokens \in Nat
  BY <1>1 DEF NewTokens
<1>. QED  BY <1>1, <1>2 DEF ContinueBudget, Budgets

\* The tools that are told to stop keep a state of a task.
LEMMA AbortStartedType ==
  ASSUME task \in [ToolIds -> TaskStates], AbortStarted
  PROVE  task' \in [ToolIds -> TaskStates]
<1>1. "condemned" \in TaskStates
  BY DEF TaskStates
<1>. QED  BY <1>1 DEF AbortStarted

\* What a tool adds to the history are messages.
LEMMA ResultMessagesType ==
  ASSUME NEW t \in ToolIds
  PROVE  ResultMessages(t) \in Seq(Messages)
<1>1. /\ Msg("tool_result", {t}) \in Messages
      /\ Msg("tool_message", {}) \in Messages
  BY MsgType DEF Kinds, UserKinds, ToolIds
<1>. QED  BY <1>1 DEF ResultMessages

-----------------------------------------------------------------------------
(* Type correctness.                                                       *)

\* The last message of a query and the ways round the loop are well typed.
LEMMA EndWithType ==
  ASSUME TypeOK, NEW m \in Messages, EndWith(m)
  PROVE  pc' \in Places /\ EngineTyped' /\ firstTool' \in Nat /\ used' \in Bounds
BY DEF TypeOK, EndWith, EngineTyped, Places

LEMMA GoRoundType ==
  ASSUME GoRound
  PROVE  pc' \in Places /\ attempt' \in Attempts
BY NewAttemptType DEF GoRound, Places

LEMMA GoRoundSteeredType ==
  ASSUME TypeOK, GoRoundSteered
  PROVE  TypeOK'
<1>1. SteerMessages \in Seq(Messages)
  BY SteerMessagesType DEF TypeOK, EngineTyped
<1>2. history' \in Seq(Messages) /\ turn' \in Nat
  BY <1>1 DEF TypeOK, LoopTyped, GoRoundSteered
<1>3. LoopTyped'
  BY <1>2 DEF TypeOK, LoopTyped, GoRoundSteered
<1>4. transcript' \in Seq(Messages) /\ pending' \in Seq(Nat)
  BY <1>1 DEF TypeOK, EngineTyped, GoRoundSteered
<1>5. EngineTyped'
  BY <1>4 DEF TypeOK, EngineTyped, GoRoundSteered
<1>6. pc' \in Places /\ attempt' \in Attempts
  BY GoRoundType DEF GoRoundSteered
<1>. QED  BY <1>3, <1>5, <1>6 DEF TypeOK, GoRoundSteered, ToolsTyped, toolVars

LEMMA GoRoundWithType ==
  ASSUME TypeOK, NEW m \in Messages, GoRoundWith(m),
         recovery' \in Recoveries, budget' \in Budgets
  PROVE  TypeOK'
<1>1. history' \in Seq(Messages) /\ turn' \in Nat
  BY DEF TypeOK, LoopTyped, GoRoundWith
<1>2. LoopTyped'
  BY <1>1 DEF LoopTyped
<1>3. pc' \in Places /\ attempt' \in Attempts
  BY GoRoundType DEF GoRoundWith
<1>. QED
  BY <1>2, <1>3
  DEF TypeOK, GoRoundWith, ToolsTyped, EngineTyped, toolVars, engineVars

\* Every variable has its type in every reachable state.
THEOREM TypeCorrect == Spec => []TypeOK
<1>1. Init => TypeOK
  <2>. SUFFICES ASSUME Init PROVE TypeOK
    OBVIOUS
  <2>1. LoopTyped
    BY DEF Init, LoopTyped, NoRecovery, NoTokens, Recoveries, Budgets
  <2>2. ToolsTyped /\ EngineTyped
    BY EmptySeq DEF Init, ToolsTyped, EngineTyped, TaskStates
  <2>3. attempt \in Attempts /\ pc \in Places
    BY NewAttemptType DEF Init, Places
  <2>4. used \in Bounds /\ firstTool \in Nat
    BY DEF Init, Bounds
  <2>. QED  BY <2>1, <2>2, <2>3, <2>4 DEF TypeOK
<1>2. TypeOK /\ [Next]_vars => TypeOK'
  <2>. SUFFICES ASSUME TypeOK, [Next]_vars PROVE TypeOK'
    OBVIOUS
  <2>. USE DEF TypeOK
  <2>. DEFINE SameLoop == UNCHANGED loopVars
              SameTools == UNCHANGED toolVars
              SameEngine == UNCHANGED engineVars
  <2>l. SameLoop => LoopTyped'      BY DEF LoopTyped, loopVars
  <2>t. SameTools => ToolsTyped'    BY DEF ToolsTyped, toolVars
  <2>e. SameEngine => EngineTyped'  BY DEF EngineTyped, engineVars
  <2>m. \A kind \in Kinds, ids \in SUBSET Nat : Msg(kind, ids) \in Messages
    BY MsgType
  <2>u. \A ids \in SUBSET Nat :
          Msg("assistant", ids) \in Messages /\ Msg("system", ids) \in Messages
    BY <2>m DEF Kinds
  <2>c. \A ids \in SUBSET Nat :
          Msg("user", ids) \in Messages /\ Msg("meta", ids) \in Messages
          /\ Msg("hook", ids) \in Messages
    BY <2>m DEF Kinds, UserKinds
  <2>i. attempt.uses \in SUBSET Nat
    BY DEF Attempts, ToolIds
  <2>. HIDE DEF SameLoop, SameTools, SameEngine
  <2>1. CASE Submit
    <3>1. transcript' \in Seq(Messages)
      BY <2>1, <2>c DEF Submit, EngineTyped
    <3>2. EngineTyped' /\ LoopTyped'
      BY <2>1, <3>1 DEF Submit, EngineTyped, LoopTyped
    <3>3. firstTool' \in Nat /\ used' \in Bounds
      BY <2>1, BoundsUpdates DEF Submit, Bounds
    <3>. QED  BY <2>1, <2>t, <3>2, <3>3 DEF Submit, Places, SameTools
  <2>2. CASE FinishSubmit
    <3>1. LoopTyped'
      BY <2>2 DEF FinishSubmit, LoopTyped, NoRecovery, NoTokens, Recoveries, Budgets
    <3>2. EngineTyped'
      BY <2>2, EmptySeq DEF FinishSubmit, EngineTyped
    <3>3. attempt' \in Attempts
      BY <2>2, NewAttemptType DEF FinishSubmit
    <3>. QED  BY <2>2, <2>t, <3>1, <3>2, <3>3 DEF FinishSubmit, Places, SameTools
  <2>3. CASE SetupAborted
    BY <2>3, <2>l, <2>t, <2>u, EndWithType DEF SetupAborted, SameLoop, SameTools
  <2>4. CASE Setup
    <3>1. AgentMessages \o SteerMessages \in Seq(Messages)
      BY AgentMessagesType, SteerMessagesType DEF EngineTyped
    <3>2. history \o (AgentMessages \o SteerMessages) \in Seq(Messages)
      BY <3>1 DEF LoopTyped
    <3>3. history' \in Seq(Messages)
      BY <2>4, <3>2, CutsType, SummaryType DEF Setup
    <3>4. transcript' \in Seq(Messages)
      BY <2>4, <3>1 DEF Setup, EngineTyped
    <3>5. LoopTyped' /\ EngineTyped'
      BY <2>4, <3>3, <3>4 DEF Setup, LoopTyped, EngineTyped, EmptyQueues
    <3>6. used' \in Bounds
      BY <2>4, BoundsUpdates DEF Setup
    <3>. QED  BY <2>4, <2>t, <3>5, <3>6 DEF Setup, Places, SameTools
  <2>5. CASE RequestAccepted
    BY <2>5, <2>l, <2>t, <2>e
    DEF RequestAccepted, Places, SameLoop, SameTools, SameEngine
  <2>6. CASE PromptTooLong
    <3>1. history' \in Seq(Messages)
      BY <2>6, CutsType DEF PromptTooLong, LoopTyped
    <3>2. recovery' \in Recoveries
      BY <2>6, RecoveryUpdates DEF PromptTooLong, LoopTyped
    <3>3. LoopTyped'
      BY <2>6, <3>1, <3>2 DEF PromptTooLong, LoopTyped
    <3>. QED
      BY <2>6, <2>t, <2>e, <3>3, GoRoundType DEF PromptTooLong, SameTools, SameEngine
  <2>7. CASE PromptStaysTooLong
    <3>1. recovery' \in Recoveries
      BY <2>7, RecoveryUpdates DEF PromptStaysTooLong, LoopTyped
    <3>2. LoopTyped'
      BY <2>7, <3>1 DEF PromptStaysTooLong, LoopTyped
    <3>. QED  BY <2>7, <2>t, <2>u, <3>2, EndWithType DEF PromptStaysTooLong, SameTools
  <2>8. CASE RequestFallsBack
    BY <2>8, <2>l, <2>t, <2>e, NewAttemptType
    DEF RequestFallsBack, SameLoop, SameTools, SameEngine
  <2>9. CASE RequestFails
    BY <2>9, <2>l, <2>t, <2>u, EndWithType DEF RequestFails, SameLoop, SameTools
  <2>10. ASSUME NEW safe \in BOOLEAN, StreamToolUse(safe) PROVE TypeOK'
    <3>. DEFINE t == used.tools + 1
    <3>1. t \in ToolIds
      <4>1. used.tools \in Nat
        BY DEF Bounds
      <4>. QED  BY <2>10, <4>1, QueryLoopAssumption DEF StreamToolUse, ToolIds
    <3>2. attempt' \in Attempts
      BY <2>10, <3>1 DEF StreamToolUse, Attempts
    <3>3. task' \in [ToolIds -> TaskStates]
      BY <2>10, <3>1 DEF StreamToolUse, TaskStates, ToolsTyped
    <3>4. runs' \in [ToolIds -> Nat]
      BY <2>10, <3>1 DEF StreamToolUse, ToolsTyped
    <3>5. used' \in Bounds
      BY <2>10, BoundsUpdates DEF StreamToolUse
    <3>6. pc' \in Places /\ SameLoop /\ SameEngine /\ firstTool' \in Nat
      BY <2>10 DEF StreamToolUse, SameLoop, SameEngine
    <3>. QED  BY <2>l, <2>e, <3>2, <3>3, <3>4, <3>5, <3>6 DEF ToolsTyped
  <2>11. CASE StreamFallsBack
    <3>1. ToolsTyped'
      BY <2>11, AbortStartedType DEF StreamFallsBack, ToolsTyped
    <3>. QED
      BY <2>11, <2>l, <2>e, <3>1, NewAttemptType
      DEF StreamFallsBack, Places, SameLoop, SameEngine
  <2>12. CASE StreamFails
    <3>1. ToolsTyped'
      BY <2>12, AbortStartedType DEF StreamFails, ToolsTyped
    <3>. QED  BY <2>12, <2>l, <2>u, <3>1, EndWithType DEF StreamFails, SameLoop
  <2>13. CASE ResponseAborted
    <3>1. LoopTyped'
      BY <2>13, CountTokensType DEF ResponseAborted, LoopTyped
    <3>. QED  BY <2>13, <2>t, <2>u, <2>i, <3>1, EndWithType DEF ResponseAborted, SameTools
  <2>14. CASE ResponseArrives
    <3>1. PICK reason \in StopReasons : attempt' = [attempt EXCEPT !.stop = reason]
      BY <2>14 DEF ResponseArrives
    <3>2. attempt' \in Attempts
      BY <3>1, QueryLoopAssumption DEF Attempts
    <3>3. history' \in Seq(Messages) /\ transcript' \in Seq(Messages)
      BY <2>14, <2>u, <2>i DEF ResponseArrives, LoopTyped, EngineTyped
    <3>4. LoopTyped'
      BY <2>14, <3>3, CountTokensType DEF ResponseArrives, LoopTyped
    <3>5. EngineTyped' /\ pc' \in Places
      BY <2>14, <3>3 DEF ResponseArrives, EngineTyped, Places
    <3>. QED  BY <2>14, <2>t, <3>2, <3>4, <3>5 DEF ResponseArrives, SameTools
  <2>15. CASE AnswerSteered
    BY <2>15, GoRoundSteeredType DEF AnswerSteered
  <2>16. CASE Escalate
    <3>1. LoopTyped'
      BY <2>16, RecoveryUpdates DEF Escalate, LoopTyped
    <3>. QED  BY <2>16, <2>t, <2>e, <3>1, GoRoundType DEF Escalate, SameTools, SameEngine
  <2>17. CASE ContinueTruncated
    <3>1. recovery' \in Recoveries /\ budget' \in Budgets
      BY <2>17, RecoveryUpdates DEF ContinueTruncated, LoopTyped
    <3>. QED  BY <2>17, <2>c, <3>1, GoRoundWithType DEF ContinueTruncated
  <2>18. CASE StayTruncated
    BY <2>18, <2>l, <2>t, <2>e
    DEF StayTruncated, Places, SameLoop, SameTools, SameEngine
  <2>19. CASE StopHookPrevents
    <3>1. recovery' \in Recoveries /\ budget' \in Budgets
      BY <2>19, RecoveryUpdates DEF StopHookPrevents, LoopTyped
    <3>. QED  BY <2>19, <2>c, <3>1, GoRoundWithType DEF StopHookPrevents
  <2>20. CASE StopHookFails
    BY <2>20, <2>l, <2>t, <2>e
    DEF StopHookFails, Places, SameLoop, SameTools, SameEngine
  <2>21. CASE ContinueBudget
    <3>1. recovery' \in Recoveries /\ budget' \in Budgets
      BY <2>21, ContinueBudgetType DEF ContinueBudget, LoopTyped
    <3>. QED  BY <2>21, <2>c, <3>1, GoRoundWithType DEF ContinueBudget
  <2>22. CASE AnswerAccepted
    BY <2>22, <2>l, <2>t, <2>e
    DEF AnswerAccepted, Places, SameLoop, SameTools, SameEngine
  <2>23. ASSUME NEW t \in ToolIds, StartTool(t) PROVE TypeOK'
    <3>1. attempt' \in Attempts
      BY <2>23, AttemptUpdates DEF StartTool, AllStopReasons
    <3>2. ToolsTyped'
      BY <2>23 DEF StartTool, ToolsTyped, TaskStates
    <3>. QED  BY <2>23, <2>l, <2>e, <3>1, <3>2 DEF StartTool, SameLoop, SameEngine
  <2>24. ASSUME NEW t \in ToolIds, FinishTool(t) PROVE TypeOK'
    <3>1. PICK o \in ToolOutcomes \cup {"plain"} : task' = [task EXCEPT ![t] = o]
      BY <2>24 DEF FinishTool
    <3>2. o \in TaskStates
      BY <3>1, QueryLoopAssumption DEF TaskStates, AllToolOutcomes
    <3>3. ToolsTyped'
      BY <2>24, <3>1, <3>2 DEF FinishTool, ToolsTyped
    <3>. QED  BY <2>24, <2>l, <2>e, <3>3 DEF FinishTool, SameLoop, SameEngine
  <2>25. ASSUME NEW t \in ToolIds, CancelTool(t) PROVE TypeOK'
    <3>1. ToolsTyped'
      BY <2>25 DEF CancelTool, ToolsTyped, TaskStates
    <3>. QED  BY <2>25, <2>l, <2>e, <3>1 DEF CancelTool, SameLoop, SameEngine
  <2>26. CASE ToolsAborted \/ ToolsFinished
    BY <2>26, <2>l, <2>t, <2>e
    DEF ToolsAborted, ToolsFinished, Places, SameLoop, SameTools, SameEngine
  <2>27. ASSUME NEW t \in ToolIds, PushResult(t) PROVE TypeOK'
    <3>1. history' \in Seq(Messages) /\ transcript' \in Seq(Messages)
      BY <2>27, ResultMessagesType DEF PushResult, LoopTyped, EngineTyped
    <3>2. LoopTyped' /\ EngineTyped'
      BY <2>27, <3>1 DEF PushResult, LoopTyped, EngineTyped
    <3>3. attempt' \in Attempts
      BY <2>27, AttemptUpdates DEF PushResult, AllStopReasons
    <3>. QED  BY <2>27, <2>t, <3>2, <3>3 DEF PushResult, SameTools
  <2>28. CASE ToolsSteered
    BY <2>28, GoRoundSteeredType DEF ToolsSteered
  <2>29. CASE ToolsEnd
    <3>1. Notice \in Messages
      BY <2>u DEF Notice
    <3>. QED  BY <2>29, <2>l, <2>t, <3>1, EndWithType DEF ToolsEnd, SameLoop, SameTools
  <2>30. CASE NextTurn
    <3>1. recovery' \in Recoveries
      BY <2>30, RecoveryUpdates DEF NextTurn, LoopTyped
    <3>2. LoopTyped'
      BY <2>30, <3>1 DEF NextTurn, LoopTyped
    <3>. QED  BY <2>30, <2>t, <2>e, <3>2, GoRoundType DEF NextTurn, SameTools, SameEngine
  <2>31. CASE Steer
    <3>1. used' \in Bounds
      BY <2>31, BoundsUpdates DEF Steer
    <3>2. pending' \in Seq(Nat)
      BY <2>31 DEF Steer, EngineTyped, Bounds
    <3>3. EngineTyped'
      BY <2>31, <3>2 DEF Steer, EngineTyped
    <3>. QED  BY <2>31, <2>l, <2>t, <3>1, <3>3 DEF Steer, SameLoop, SameTools
  <2>32. CASE Abort
    <3>1. used' \in Bounds
      BY <2>32, BoundsUpdates DEF Abort
    <3>2. EngineTyped'
      BY <2>32 DEF Abort, EngineTyped
    <3>. QED  BY <2>32, <2>l, <2>t, <3>1, <3>2 DEF Abort, SameLoop, SameTools
  <2>33. CASE AgentFinishes
    <3>1. used' \in Bounds
      BY <2>33, BoundsUpdates DEF AgentFinishes
    <3>2. background' \in Seq(Nat)
      BY <2>33 DEF AgentFinishes, EngineTyped, Bounds
    <3>3. EngineTyped'
      BY <2>33, <3>2 DEF AgentFinishes, EngineTyped
    <3>. QED  BY <2>33, <2>l, <2>t, <3>1, <3>3 DEF AgentFinishes, SameLoop, SameTools
  <2>34. CASE UNCHANGED vars
    BY <2>34, <2>l, <2>t, <2>e DEF vars, SameLoop, SameTools, SameEngine
  <2>. QED
    BY <2>1, <2>2, <2>3, <2>4, <2>5, <2>6, <2>7, <2>8, <2>9, <2>10, <2>11, <2>12, <2>13,
       <2>14, <2>15, <2>16, <2>17, <2>18, <2>19, <2>20, <2>21, <2>22, <2>23, <2>24, <2>25,
       <2>26, <2>27, <2>28, <2>29, <2>30, <2>31, <2>32, <2>33, <2>34
    DEF Next, Loop, Task, User
<1>. QED  BY <1>1, <1>2, PTL DEF Spec

-----------------------------------------------------------------------------
(***************************************************************************)
(* The tools.  ToolInv is the inductive invariant: what a task has become  *)
(* is told by the two sets of the attempt, those the stream has started    *)
(* and those a batch has begun, and by where the loop stands.              *)
(***************************************************************************)

\* A call that has not been streamed yet, or not begun, has not run.
FreshCallsWait ==
  \A t \in ToolIds :
    t > used.tools \/ t \in attempt.uses \ (attempt.started \cup attempt.begun) =>
      task[t] = "none" /\ runs[t] = 0

\* The stream starts concurrency-safe calls only, and none after a serial one.
StartedAreSafe ==
  /\ \A t \in attempt.uses : t <= used.tools
  /\ attempt.safe \subseteq attempt.uses /\ attempt.started \subseteq attempt.safe
  /\ \A s \in attempt.uses, t \in attempt.started : s < t => s \in attempt.safe
  /\ IF StreamingTools THEN attempt.blocked \/ attempt.uses \subseteq attempt.safe
                       ELSE attempt.started = {}

\* The batches begin calls the stream has left to them, after the stream.
BegunAreLeft ==
  /\ attempt.begun \subseteq attempt.uses \ attempt.started
  /\ pc \in {"idle", "setup", "request", "stream"} => attempt.begun = {}

AbortsCounted == aborted => used.aborts > 0

ToolInv ==
  /\ FreshCallsWait /\ StartedAreSafe /\ BegunAreLeft /\ AbortsCounted
  /\ ToolRunsOnce /\ SerialToolsInOrder /\ NoToolOutlivesItsResponse

\* A step that neither begins, ends nor forgets a call keeps the invariant,
\* provided no tool is left running where nobody waits for it.
LEMMA CallsKept ==
  ASSUME TypeOK, ToolInv, UNCHANGED toolVars,
         attempt'.uses = attempt.uses, attempt'.safe = attempt.safe,
         attempt'.blocked = attempt.blocked, attempt'.started = attempt.started,
         attempt'.begun = attempt.begun,
         used'.tools = used.tools, used'.aborts = used.aborts, aborted' => aborted,
         pc' \in {"idle", "setup", "request", "stream"} =>
           pc \in {"idle", "setup", "request", "stream"},
         \/ used.aborts > 0 \/ pc \notin {"stream", "tools"} \/ pc' \in {"stream", "tools"}
         \/ \A t \in attempt.uses : task[t] # "running"
  PROVE  ToolInv'
<1>1. task' = task /\ runs' = runs
  BY DEF toolVars
<1>2. FreshCallsWait' /\ StartedAreSafe' /\ BegunAreLeft' /\ AbortsCounted'
  BY <1>1 DEF ToolInv, FreshCallsWait, StartedAreSafe, BegunAreLeft, AbortsCounted
<1>3. ToolRunsOnce' /\ SerialToolsInOrder'
  BY <1>1 DEF ToolInv, ToolRunsOnce, SerialToolsInOrder
<1>4. NoToolOutlivesItsResponse'
  BY <1>1 DEF ToolInv, NoToolOutlivesItsResponse, TypeOK, Bounds
<1>. QED  BY <1>2, <1>3, <1>4 DEF ToolInv

\* A new attempt forgets the calls of the last one, none of which is running.
LEMMA CallsForgotten ==
  ASSUME TypeOK, ToolInv, UNCHANGED toolVars, NEW fallback, attempt' = NewAttempt(fallback),
         used'.tools = used.tools, used'.aborts = used.aborts, aborted' => aborted,
         pc \notin {"stream", "tools"}
  PROVE  ToolInv'
<1>1. task' = task /\ runs' = runs
  BY DEF toolVars
<1>2. /\ attempt'.uses = {} /\ attempt'.safe = {} /\ attempt'.started = {}
      /\ attempt'.begun = {}
  BY DEF NewAttempt
<1>3. FreshCallsWait' /\ StartedAreSafe' /\ BegunAreLeft' /\ AbortsCounted'
  BY <1>1, <1>2 DEF ToolInv, FreshCallsWait, StartedAreSafe, BegunAreLeft, AbortsCounted
<1>4. ToolRunsOnce' /\ SerialToolsInOrder'
  BY <1>1, <1>2 DEF ToolInv, ToolRunsOnce, SerialToolsInOrder
<1>5. NoToolOutlivesItsResponse'
  BY <1>1 DEF ToolInv, NoToolOutlivesItsResponse
<1>. QED  BY <1>3, <1>4, <1>5 DEF ToolInv

\* A call that is streamed waits, or starts if it and those before are safe.
LEMMA StreamToolUseKeeps ==
  ASSUME TypeOK, ToolInv, NEW safe \in BOOLEAN, StreamToolUse(safe)
  PROVE  ToolInv'
<1>. DEFINE u == used.tools + 1
            starts == StreamingTools /\ safe /\ ~attempt.blocked
<1>1. u \in ToolIds
  <2>1. used.tools \in Nat
    BY DEF TypeOK, Bounds
  <2>. QED  BY <2>1, QueryLoopAssumption DEF StreamToolUse, ToolIds
<1>2. /\ attempt'.uses = attempt.uses \cup {u}
      /\ attempt'.safe = IF safe THEN attempt.safe \cup {u} ELSE attempt.safe
      /\ attempt'.blocked = (attempt.blocked \/ (StreamingTools /\ ~safe))
      /\ attempt'.started = IF starts THEN attempt.started \cup {u} ELSE attempt.started
      /\ attempt'.begun = attempt.begun
  BY DEF StreamToolUse, TypeOK, Attempts
<1>3. /\ used'.tools = u /\ used'.aborts = used.aborts /\ used.tools \in Nat
      /\ pc' = pc /\ pc = "stream" /\ aborted' = aborted
  BY DEF StreamToolUse, TypeOK, Bounds, engineVars
<1>4. /\ \A t \in ToolIds \ {u} : task'[t] = task[t] /\ runs'[t] = runs[t]
      /\ task'[u] = IF starts THEN "running" ELSE task[u]
      /\ runs'[u] = IF starts THEN runs[u] + 1 ELSE runs[u]
  BY <1>1 DEF StreamToolUse, TypeOK, ToolsTyped
<1>5. /\ u \notin attempt.uses /\ task[u] = "none" /\ runs[u] = 0
      /\ \A t \in attempt.uses : t \in ToolIds /\ t < u
  BY <1>1, <1>3 DEF ToolInv, FreshCallsWait, StartedAreSafe, TypeOK, Attempts, ToolIds
<1>. HIDE DEF u, starts
<1>6. FreshCallsWait'
  BY <1>1, <1>2, <1>3, <1>4, <1>5 DEF ToolInv, FreshCallsWait, ToolIds, u
<1>7. StartedAreSafe'
  <2>1. StreamingTools \in BOOLEAN
    BY QueryLoopAssumption
  <2>. QED  BY <1>2, <1>3, <1>5, <2>1 DEF ToolInv, StartedAreSafe, u, starts, ToolIds
<1>8. BegunAreLeft' /\ AbortsCounted'
  BY <1>2, <1>3, <1>5 DEF ToolInv, BegunAreLeft, AbortsCounted
<1>9. ToolRunsOnce'
  BY <1>1, <1>4, <1>5 DEF ToolInv, ToolRunsOnce
<1>10. SerialToolsInOrder'
  <2>. SUFFICES ASSUME NEW s \in attempt'.uses, NEW t \in attempt'.uses,
                       s < t, ~({s, t} \subseteq attempt'.safe), task'[t] # "none"
                PROVE  task'[s] \in AllToolOutcomes
    BY DEF SerialToolsInOrder
  <2>1. s \in attempt.uses
    BY <1>2, <1>3, <1>5 DEF u, ToolIds
  <2>2. CASE t = u
    <3>1. starts
      BY <1>4, <1>5, <2>2
    <3>2. {s, t} \subseteq attempt'.safe
      BY <1>2, <2>1, <2>2, <3>1 DEF ToolInv, StartedAreSafe, starts
    <3>. QED  BY <3>2
  <2>3. CASE t # u
    BY <1>2, <1>4, <1>5, <2>1, <2>3 DEF ToolInv, SerialToolsInOrder
  <2>. QED  BY <2>2, <2>3
<1>11. NoToolOutlivesItsResponse'
  BY <1>1, <1>2, <1>3, <1>4 DEF ToolInv, NoToolOutlivesItsResponse
<1>. QED  BY <1>6, <1>7, <1>8, <1>9, <1>10, <1>11 DEF ToolInv

\* A batch begins a call that has not run, when those before it allow.
LEMMA StartToolKeeps ==
  ASSUME TypeOK, ToolInv, NEW u \in ToolIds, StartTool(u)
  PROVE  ToolInv'
<1>1. /\ attempt'.uses = attempt.uses /\ attempt'.safe = attempt.safe
      /\ attempt'.blocked = attempt.blocked /\ attempt'.started = attempt.started
      /\ attempt'.begun = attempt.begun \cup {u}
      /\ pc' = pc /\ pc = "tools" /\ aborted' = aborted /\ used' = used
  BY DEF StartTool, TypeOK, Attempts, engineVars
<1>2. /\ \A t \in ToolIds \ {u} : task'[t] = task[t] /\ runs'[t] = runs[t]
      /\ task'[u] = "running" /\ runs'[u] = runs[u] + 1
  BY DEF StartTool, TypeOK, ToolsTyped
<1>3. u \in attempt.uses \ attempt.started /\ u \notin attempt.begun /\ Finished(attempt.started)
  BY DEF StartTool, MayStart, Remaining
<1>4. task[u] = "none" /\ runs[u] = 0
  BY <1>3 DEF ToolInv, FreshCallsWait
<1>5. attempt.uses \subseteq ToolIds
  BY DEF TypeOK, Attempts
<1>6. FreshCallsWait' /\ StartedAreSafe' /\ BegunAreLeft' /\ AbortsCounted'
  <2>1. FreshCallsWait'
    <3>1. u <= used.tools /\ used.tools \in Nat
      BY <1>3 DEF ToolInv, StartedAreSafe, TypeOK, Bounds
    <3>2. \A t \in ToolIds :
            t > used.tools \/ t \in attempt.uses \ (attempt.started \cup attempt'.begun) =>
              t # u
      BY <1>1, <3>1 DEF ToolIds
    <3>. QED  BY <1>1, <1>2, <3>2 DEF ToolInv, FreshCallsWait
  <2>2. StartedAreSafe'
    BY <1>1 DEF ToolInv, StartedAreSafe
  <2>3. BegunAreLeft' /\ AbortsCounted'
    BY <1>1, <1>3 DEF ToolInv, BegunAreLeft, AbortsCounted
  <2>. QED  BY <2>1, <2>2, <2>3
<1>7. ToolRunsOnce'
  BY <1>2, <1>4 DEF ToolInv, ToolRunsOnce
<1>8. SerialToolsInOrder'
  <2>. SUFFICES ASSUME NEW s \in attempt.uses, NEW t \in attempt.uses,
                       s < t, ~({s, t} \subseteq attempt.safe), task'[t] # "none"
                PROVE  task'[s] \in AllToolOutcomes
    BY <1>1 DEF SerialToolsInOrder
  <2>1. CASE t = u
    <3>1. s # u
      BY <1>5, <2>1 DEF ToolIds
    <3>2. CASE s \in attempt.started
      BY <1>2, <1>3, <1>5, <3>1, <3>2 DEF Finished
    <3>3. CASE s \notin attempt.started
      <4>1. SameBatch(s, t) \/ Finished({s})
        BY <2>1, <3>3 DEF StartTool, MayStart, Remaining
      <4>2. s <= s /\ s <= t /\ t <= t
        BY <1>5 DEF ToolIds
      <4>3. ~SameBatch(s, t)
        BY <1>3, <2>1, <3>3, <4>2 DEF SameBatch, Remaining
      <4>. QED  BY <1>2, <1>5, <3>1, <4>1, <4>3 DEF Finished
    <3>. QED  BY <3>2, <3>3
  <2>2. CASE t # u
    <3>1. task[s] \in AllToolOutcomes
      BY <1>2, <1>5, <2>2 DEF ToolInv, SerialToolsInOrder
    <3>2. s # u
      BY <1>4, <3>1 DEF AllToolOutcomes
    <3>. QED  BY <1>2, <1>5, <3>1, <3>2
  <2>. QED  BY <2>1, <2>2
<1>9. NoToolOutlivesItsResponse'
  BY <1>1, <1>2, <1>3 DEF ToolInv, NoToolOutlivesItsResponse
<1>. QED  BY <1>6, <1>7, <1>8, <1>9 DEF ToolInv

\* A task that moves on from running or condemned disturbs no other.
LEMMA TaskMoves ==
  ASSUME TypeOK, ToolInv, NEW u \in ToolIds, NEW outcome,
         \/ task[u] = "running" /\ outcome \in AllToolOutcomes
         \/ task[u] = "condemned" /\ outcome = "cancelled",
         task' = [task EXCEPT ![u] = outcome], runs' = runs,
         UNCHANGED <<pc, attempt, aborted, used>>
  PROVE  ToolInv'
<1>1. /\ \A t \in ToolIds \ {u} : task'[t] = task[t]
      /\ task'[u] = outcome /\ outcome # "running" /\ outcome # "none"
      /\ task[u] # "none" /\ task[u] \notin AllToolOutcomes
  BY DEF TypeOK, ToolsTyped, AllToolOutcomes
<1>2. FreshCallsWait' /\ StartedAreSafe' /\ BegunAreLeft' /\ AbortsCounted'
  <2>1. FreshCallsWait'
    BY <1>1 DEF ToolInv, FreshCallsWait
  <2>. QED  BY <2>1 DEF ToolInv, StartedAreSafe, BegunAreLeft, AbortsCounted
<1>3. ToolRunsOnce'
  BY DEF ToolInv, ToolRunsOnce
<1>4. SerialToolsInOrder'
  <2>1. attempt.uses \subseteq ToolIds
    BY DEF TypeOK, Attempts
  <2>. QED  BY <1>1, <2>1 DEF ToolInv, SerialToolsInOrder
<1>5. NoToolOutlivesItsResponse'
  BY <1>1 DEF ToolInv, NoToolOutlivesItsResponse
<1>. QED  BY <1>2, <1>3, <1>4, <1>5 DEF ToolInv

\* When a stream is given up, every task it has started is told to stop.
LEMMA StreamGivenUp ==
  ASSUME TypeOK, ToolInv, pc = "stream", AbortStarted, runs' = runs,
         UNCHANGED <<aborted, used>>,
         \/ attempt' = attempt /\ pc' = "ending"
         \/ attempt' = NewAttempt(TRUE) /\ pc' = "request"
  PROVE  ToolInv'
<1>1. attempt.begun = {} /\ attempt.uses \subseteq ToolIds
  BY DEF ToolInv, BegunAreLeft, TypeOK, Attempts
<1>2. \A t \in ToolIds : task'[t] = IF t \in attempt.started /\ task[t] = "running"
                                    THEN "condemned" ELSE task[t]
  BY DEF AbortStarted
<1>3. /\ attempt'.begun = {}
      /\ \/ attempt' = attempt
         \/ /\ attempt'.uses = {} /\ attempt'.safe = {} /\ attempt'.started = {}
  BY <1>1 DEF NewAttempt
<1>4. FreshCallsWait'
  BY <1>1, <1>2, <1>3 DEF ToolInv, FreshCallsWait
<1>5. StartedAreSafe' /\ BegunAreLeft' /\ AbortsCounted' /\ ToolRunsOnce'
  BY <1>3 DEF ToolInv, StartedAreSafe, BegunAreLeft, AbortsCounted, ToolRunsOnce
<1>6. SerialToolsInOrder'
  <2>. SUFFICES ASSUME attempt' = attempt,
                       NEW s \in attempt.uses, NEW t \in attempt.uses,
                       s < t, ~({s, t} \subseteq attempt.safe), task'[t] # "none"
                PROVE  task'[s] \in AllToolOutcomes
    BY <1>3 DEF SerialToolsInOrder
  <2>1. task[t] # "none"
    BY <1>1, <1>2
  <2>2. task[s] \in AllToolOutcomes
    BY <2>1 DEF ToolInv, SerialToolsInOrder
  <2>. QED  BY <1>1, <1>2, <2>2 DEF AllToolOutcomes
<1>7. NoToolOutlivesItsResponse'
  <2>. SUFFICES ASSUME used.aborts = 0, NEW t \in ToolIds, task'[t] = "running"
                PROVE  FALSE
    BY DEF NoToolOutlivesItsResponse
  <2>1. task[t] = "running" /\ t \notin attempt.started
    BY <1>2
  <2>2. t \in attempt.uses
    BY <2>1 DEF ToolInv, NoToolOutlivesItsResponse
  <2>. QED  BY <1>1, <2>1, <2>2 DEF ToolInv, FreshCallsWait
<1>. QED  BY <1>4, <1>5, <1>6, <1>7 DEF ToolInv

\* The invariant holds initially, and every step preserves it.
THEOREM ToolsCorrect == Spec => []ToolInv
<1>1. Init => ToolInv
  <2>. SUFFICES ASSUME Init PROVE ToolInv
    OBVIOUS
  <2>1. /\ attempt.uses = {} /\ attempt.safe = {} /\ attempt.started = {}
        /\ attempt.begun = {} /\ ~aborted
        /\ \A t \in ToolIds : task[t] = "none" /\ runs[t] = 0
    BY DEF Init, NewAttempt
  <2>2. FreshCallsWait /\ StartedAreSafe /\ BegunAreLeft /\ AbortsCounted
    BY <2>1 DEF FreshCallsWait, StartedAreSafe, BegunAreLeft, AbortsCounted
  <2>3. ToolRunsOnce /\ SerialToolsInOrder /\ NoToolOutlivesItsResponse
    BY <2>1 DEF ToolRunsOnce, SerialToolsInOrder, NoToolOutlivesItsResponse
  <2>. QED  BY <2>2, <2>3 DEF ToolInv
<1>2. TypeOK /\ ToolInv /\ [Next]_vars => ToolInv'
  <2>. SUFFICES ASSUME TypeOK, ToolInv, [Next]_vars PROVE ToolInv'
    OBVIOUS
  <2>. USE DEF engineVars
  <2>1. CASE Submit
    <3>1. used'.tools = used.tools /\ used'.aborts = used.aborts
      BY <2>1 DEF Submit, TypeOK, Bounds
    <3>. QED  BY <2>1, <3>1, CallsKept DEF Submit
  <2>2. CASE FinishSubmit
    BY <2>2, CallsForgotten DEF FinishSubmit
  <2>3. CASE SetupAborted
    BY <2>3, CallsKept DEF SetupAborted, EndWith
  <2>4. CASE Setup
    <3>1. used'.tools = used.tools /\ used'.aborts = used.aborts
      BY <2>4 DEF Setup, TypeOK, Bounds
    <3>. QED  BY <2>4, <3>1, CallsKept DEF Setup
  <2>5. CASE RequestAccepted
    BY <2>5, CallsKept DEF RequestAccepted
  <2>6. CASE PromptTooLong
    BY <2>6, CallsForgotten DEF PromptTooLong, GoRound
  <2>7. CASE PromptStaysTooLong \/ RequestFails
    BY <2>7, CallsKept DEF PromptStaysTooLong, RequestFails, EndWith
  <2>8. CASE RequestFallsBack
    BY <2>8, CallsForgotten DEF RequestFallsBack
  <2>9. ASSUME NEW safe \in BOOLEAN, StreamToolUse(safe) PROVE ToolInv'
    BY <2>9, StreamToolUseKeeps
  <2>10. CASE StreamFallsBack
    BY <2>10, StreamGivenUp DEF StreamFallsBack
  <2>11. CASE StreamFails
    BY <2>11, StreamGivenUp DEF StreamFails, EndWith
  <2>12. CASE ResponseAborted
    BY <2>12, CallsKept DEF ResponseAborted, EndWith, ToolInv, AbortsCounted
  <2>13. CASE ResponseArrives
    <3>1. /\ attempt'.uses = attempt.uses /\ attempt'.safe = attempt.safe
          /\ attempt'.blocked = attempt.blocked /\ attempt'.started = attempt.started
          /\ attempt'.begun = attempt.begun
      BY <2>13 DEF ResponseArrives, TypeOK, Attempts
    <3>2. /\ pc' \in {"answer", "tools"} /\ (pc' = "answer" => attempt.uses = {})
          /\ UNCHANGED toolVars /\ used' = used /\ aborted' = aborted
      BY <2>13 DEF ResponseArrives
    <3>. QED  BY <3>1, <3>2, CallsKept
  <2>14. CASE AnswerSteered \/ ToolsSteered
    <3>1. GoRoundSteered /\ pc \in {"answer", "results"}
      BY <2>14 DEF AnswerSteered, ToolsSteered, Answered
    <3>. QED  BY <3>1, CallsForgotten DEF GoRoundSteered, GoRound
  <2>15. CASE Escalate
    BY <2>15, CallsForgotten DEF Escalate, Truncated, GoRound
  <2>16. CASE ContinueTruncated
    BY <2>16, CallsForgotten DEF ContinueTruncated, Truncated, GoRoundWith, GoRound
  <2>17. CASE StopHookPrevents \/ ContinueBudget
    <3>1. PICK m : pc = "answer" /\ GoRoundWith(m)
      BY <2>17 DEF StopHookPrevents, ContinueBudget, Complete
    <3>2. /\ attempt' = NewAttempt(FALSE) /\ UNCHANGED toolVars
          /\ used' = used /\ aborted' = aborted
      BY <3>1 DEF GoRoundWith, GoRound
    <3>. QED  BY <3>1, <3>2, CallsForgotten
  <2>18. CASE StayTruncated \/ StopHookFails \/ AnswerAccepted
    BY <2>18, CallsKept DEF StayTruncated, StopHookFails, AnswerAccepted, Truncated, Complete
  <2>19. ASSUME NEW t \in ToolIds, StartTool(t) PROVE ToolInv'
    BY <2>19, StartToolKeeps
  <2>20. ASSUME NEW t \in ToolIds, FinishTool(t) PROVE ToolInv'
    <3>1. PICK o \in ToolOutcomes \cup {"plain"} : task' = [task EXCEPT ![t] = o]
      BY <2>20 DEF FinishTool
    <3>2. o \in AllToolOutcomes
      BY QueryLoopAssumption DEF AllToolOutcomes
    <3>. QED  BY <2>20, <3>1, <3>2, TaskMoves DEF FinishTool
  <2>21. ASSUME NEW t \in ToolIds, CancelTool(t) PROVE ToolInv'
    BY <2>21, TaskMoves DEF CancelTool
  <2>22. CASE ToolsAborted \/ ToolsFinished
    <3>1. \A t \in attempt.uses : task[t] # "running"
      BY <2>22 DEF ToolsAborted, ToolsFinished, Finished, AllToolOutcomes
    <3>. QED  BY <2>22, <3>1, CallsKept DEF ToolsAborted, ToolsFinished
  <2>23. ASSUME NEW t \in ToolIds, PushResult(t) PROVE ToolInv'
    <3>1. /\ attempt'.uses = attempt.uses /\ attempt'.safe = attempt.safe
          /\ attempt'.blocked = attempt.blocked /\ attempt'.started = attempt.started
          /\ attempt'.begun = attempt.begun
      BY <2>23 DEF PushResult, TypeOK, Attempts
    <3>. QED  BY <2>23, <3>1, CallsKept DEF PushResult
  <2>24. CASE ToolsEnd
    BY <2>24, CallsKept DEF ToolsEnd, Answered, EndWith
  <2>25. CASE NextTurn
    BY <2>25, CallsForgotten DEF NextTurn, Answered, GoRound
  <2>26. CASE Steer \/ AgentFinishes
    <3>1. used'.tools = used.tools /\ used'.aborts = used.aborts
      BY <2>26 DEF Steer, AgentFinishes, TypeOK, Bounds
    <3>. QED  BY <2>26, <3>1, CallsKept DEF Steer, AgentFinishes
  <2>27. CASE Abort
    <3>1. /\ used'.tools = used.tools /\ used'.aborts = used.aborts + 1
          /\ used.aborts \in Nat
      BY <2>27 DEF Abort, TypeOK, Bounds
    <3>2. UNCHANGED <<pc, attempt, task, runs>>
      BY <2>27 DEF Abort, toolVars
    <3>. QED
      BY <3>1, <3>2
      DEF ToolInv, FreshCallsWait, StartedAreSafe, BegunAreLeft, AbortsCounted,
          ToolRunsOnce, SerialToolsInOrder, NoToolOutlivesItsResponse
  <2>28. CASE UNCHANGED vars
    BY <2>28, CallsKept DEF vars
  <2>. QED
    BY <2>1, <2>2, <2>3, <2>4, <2>5, <2>6, <2>7, <2>8, <2>9, <2>10, <2>11, <2>12, <2>13,
       <2>14, <2>15, <2>16, <2>17, <2>18, <2>19, <2>20, <2>21, <2>22, <2>23, <2>24, <2>25,
       <2>26, <2>27, <2>28
    DEF Next, Loop, Task, User
<1>. QED  BY <1>1, <1>2, TypeCorrect, PTL DEF Spec

\* A tool call is executed at most once.
THEOREM ToolsRunOnce == Spec => []ToolRunsOnce
<1>1. ToolInv => ToolRunsOnce
  BY DEF ToolInv
<1>. QED  BY <1>1, ToolsCorrect, PTL

\* Calls overlap only if both are concurrency-safe, however they were started.
THEOREM SerialToolsWait == Spec => []SerialToolsInOrder
<1>1. ToolInv => SerialToolsInOrder
  BY DEF ToolInv
<1>. QED  BY <1>1, ToolsCorrect, PTL

\* Until the user aborts, no fallback, error or recovery leaves a tool running.
THEOREM NoToolIsLeftBehind == Spec => []NoToolOutlivesItsResponse
<1>1. ToolInv => NoToolOutlivesItsResponse
  BY DEF ToolInv
<1>. QED  BY <1>1, ToolsCorrect, PTL

=============================================================================
