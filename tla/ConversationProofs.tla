--------------------------- MODULE ConversationProofs ---------------------------
(***************************************************************************)
(* Proofs about what is said in QueryLoop: the conversation the loop works *)
(* on, the one the engine records, and the two queues that feed both.      *)
(*                                                                         *)
(* Most steps of the loop say nothing.  StepKinds sorts the steps by what  *)
(* they say; each invariant is then proved kind by kind, from lemmas about *)
(* what it is for messages to be appended, queued, drained or cut.         *)
(***************************************************************************)
EXTENDS QueryLoopProofs, FiniteSetTheorems

-----------------------------------------------------------------------------
(* What a step says.                                                       *)

\* A last message, which only the engine records: an error, a response cut
\* short, or an attachment.
Ends(m) ==
  /\ pc \notin {"idle", "ending"} /\ EndWith(m)
  /\ m.kind \in {"assistant", "system"} /\ m.ids \subseteq attempt.uses
  /\ m.kind = "system" => m.ids = {}
  /\ recovery'.stopHookActive = recovery.stopHookActive
  /\ UNCHANGED <<history, attempt>>

\* A message of the loop's own, which only the loop sees.
Continues(m) ==
  /\ pc = "answer" /\ GoRoundWith(m)
  /\ m.kind \in OwnKinds /\ m.ids = {}
  /\ recovery'.collapsed = recovery.collapsed
  /\ IF m.kind = "hook" THEN ~recovery.stopHookActive /\ recovery'.stopHookActive
     ELSE recovery'.stopHookActive = recovery.stopHookActive

\* The texts the user has steered with.
IsSteered == GoRoundSteered /\ (pc = "answer" \/ Answered)

\* Nothing: an attempt is made or given up, tools run, the loop goes on.
SaysNothing ==
  /\ UNCHANGED <<history, transcript, pending, background, steering, firstTool>>
  /\ used'.steers = used.steers /\ used'.agents = used.agents
  /\ used'.compactions = used.compactions /\ used'.tools >= used.tools
  /\ recovery'.collapsed = recovery.collapsed
  /\ \/ /\ pc' = pc /\ recovery' = recovery
        /\ attempt'.uses = attempt.uses /\ attempt'.answered = attempt.answered
     \/ /\ {pc, pc'} \subseteq {"request", "stream"} /\ recovery' = recovery
        /\ attempt'.answered \in {{}, attempt.answered}
     \/ /\ pc = "answer" \/ Answered
        /\ recovery'.stopHookActive = recovery.stopHookActive \/ Answered
        /\ GoRound
     \/ pc = "tools" /\ pc' = "results" /\ UNCHANGED <<attempt, recovery>>
     \/ pc # "idle" /\ pc' = "ending" /\ UNCHANGED <<attempt, recovery>>

\* Every step is of one of these kinds.
LEMMA StepKinds ==
  ASSUME TypeOK, [Next]_vars
  PROVE  \/ Submit \/ FinishSubmit \/ Setup \/ PromptTooLong
         \/ ResponseArrives \/ IsSteered
         \/ \E m \in Messages : Ends(m)
         \/ \E m \in Messages : Continues(m)
         \/ \E t \in ToolIds : PushResult(t)
         \/ Steer \/ AgentFinishes \/ SaysNothing
<1>. USE DEF loopVars, engineVars, toolVars
<1>1. \A ids \in SUBSET Nat, kind \in {"assistant", "system", "meta", "hook"} :
        /\ Msg(kind, ids) \in Messages
        /\ Msg(kind, ids).kind = kind /\ Msg(kind, ids).ids = ids
  BY DEF Msg, Messages, Kinds, UserKinds
<1>2. attempt.uses \in SUBSET Nat /\ {} \in SUBSET Nat
  BY DEF TypeOK, Attempts, ToolIds
<1>3. used.tools \in Nat
  BY DEF TypeOK, Bounds
<1>4. CASE SetupAborted \/ PromptStaysTooLong \/ RequestFails \/ StreamFails
  <2>0. recovery'.stopHookActive = recovery.stopHookActive
    BY <1>4
    DEF SetupAborted, PromptStaysTooLong, RequestFails, StreamFails,
        TypeOK, LoopTyped, Recoveries
  <2>1. Ends(Msg("assistant", {}))
    BY <1>1, <1>2, <1>4, <2>0
    DEF SetupAborted, PromptStaysTooLong, RequestFails, StreamFails, Ends
  <2>. QED  BY <1>1, <1>2, <2>1
<1>5. CASE ResponseAborted
  <2>1. Ends(Msg("assistant", attempt.uses))
    BY <1>1, <1>2, <1>5 DEF ResponseAborted, Ends
  <2>. QED  BY <1>1, <1>2, <2>1
<1>6. CASE ToolsEnd
  <2>1. Ends(Notice)
    BY <1>1, <1>2, <1>6 DEF ToolsEnd, Ends, Notice, Answered
  <2>. QED  BY <1>1, <1>2, <2>1 DEF Notice
<1>7. CASE ContinueTruncated \/ ContinueBudget
  <2>1. /\ recovery'.collapsed = recovery.collapsed
        /\ recovery'.stopHookActive = recovery.stopHookActive
    BY <1>7 DEF ContinueTruncated, ContinueBudget, TypeOK, LoopTyped, Recoveries
  <2>2. Continues(Msg("meta", {}))
    BY <1>1, <1>2, <1>7, <2>1
    DEF ContinueTruncated, ContinueBudget, Truncated, Complete, Continues, OwnKinds
  <2>. QED  BY <1>1, <1>2, <2>2
<1>8. CASE StopHookPrevents
  <2>1. recovery'.collapsed = recovery.collapsed /\ recovery'.stopHookActive
    BY <1>8 DEF StopHookPrevents, TypeOK, LoopTyped, Recoveries
  <2>2. Continues(Msg("hook", {}))
    BY <1>1, <1>2, <1>8, <2>1 DEF StopHookPrevents, Complete, Continues, OwnKinds
  <2>. QED  BY <1>1, <1>2, <2>2
<1>9. CASE AnswerSteered \/ ToolsSteered
  BY <1>9 DEF AnswerSteered, ToolsSteered, IsSteered
<1>10. CASE RequestAccepted \/ RequestFallsBack \/ StreamFallsBack
  BY <1>3, <1>10
  DEF RequestAccepted, RequestFallsBack, StreamFallsBack, SaysNothing, NewAttempt
<1>11. ASSUME NEW safe \in BOOLEAN, StreamToolUse(safe) PROVE SaysNothing
  <2>1. /\ used'.steers = used.steers /\ used'.agents = used.agents
        /\ used'.compactions = used.compactions /\ used'.tools >= used.tools
    BY <1>3, <1>11 DEF StreamToolUse, TypeOK, Bounds
  <2>2. attempt'.answered = attempt.answered
    BY <1>11 DEF StreamToolUse, TypeOK, Attempts
  <2>. QED  BY <1>11, <2>1, <2>2 DEF StreamToolUse, SaysNothing
<1>12. CASE Escalate
  <2>1. /\ recovery'.collapsed = recovery.collapsed
        /\ recovery'.stopHookActive = recovery.stopHookActive
    BY <1>12 DEF Escalate, TypeOK, LoopTyped, Recoveries
  <2>. QED  BY <1>3, <1>12, <2>1 DEF Escalate, Truncated, SaysNothing
<1>13. CASE NextTurn
  <2>1. recovery'.collapsed = recovery.collapsed
    BY <1>13 DEF NextTurn, TypeOK, LoopTyped, Recoveries
  <2>. QED  BY <1>3, <1>13, <2>1 DEF NextTurn, SaysNothing
<1>14. CASE StayTruncated \/ StopHookFails \/ AnswerAccepted \/ ToolsAborted \/ ToolsFinished
  BY <1>3, <1>14
  DEF StayTruncated, StopHookFails, AnswerAccepted, ToolsAborted, ToolsFinished,
      Truncated, Complete, SaysNothing
<1>15. ASSUME NEW t \in ToolIds, StartTool(t) \/ FinishTool(t) \/ CancelTool(t)
       PROVE  SaysNothing
  <2>1. attempt'.uses = attempt.uses /\ attempt'.answered = attempt.answered
    BY <1>15 DEF StartTool, FinishTool, CancelTool, TypeOK, Attempts
  <2>. QED  BY <1>3, <1>15, <2>1 DEF StartTool, FinishTool, CancelTool, SaysNothing
<1>16. CASE Abort
  <2>1. /\ used'.steers = used.steers /\ used'.agents = used.agents
        /\ used'.compactions = used.compactions /\ used'.tools >= used.tools
    BY <1>3, <1>16 DEF Abort, TypeOK, Bounds
  <2>. QED  BY <1>16, <2>1 DEF Abort, SaysNothing
<1>17. CASE UNCHANGED vars
  BY <1>3, <1>17 DEF vars, SaysNothing
<1>. QED
  BY <1>4, <1>5, <1>6, <1>7, <1>8, <1>9, <1>10, <1>11, <1>12, <1>13, <1>14, <1>15, <1>16,
     <1>17
  DEF Next, Loop, Task, User

-----------------------------------------------------------------------------
(***************************************************************************)
(* How conversations begin.  A cut keeps the first message: that it is not *)
(* a tool call, a result or a hook's is what makes a cut at the start of a *)
(* turn safe.                                                              *)
(***************************************************************************)
FirstMessages ==
  /\ transcript # <<>> => transcript[1].kind = "user"
  /\ \A i \in DOMAIN transcript : transcript[i].kind \notin OwnKinds
  /\ IF pc = "idle" THEN history = <<>>
     ELSE /\ transcript # <<>> /\ history # <<>>
          /\ history[1].kind \in {"user", "system"}

\* Messages added at the end leave the first as it is.
LEMMA FirstStays ==
  ASSUME NEW messages \in Seq(Messages), messages # <<>>, NEW s \in Seq(Messages)
  PROVE  messages \o s # <<>> /\ (messages \o s)[1] = messages[1]
<1>1. Len(messages) \in Nat \ {0} /\ Len(s) \in Nat
  BY EmptySeq
<1>2. Len(messages \o s) = Len(messages) + Len(s) /\ (messages \o s)[1] = messages[1]
  BY <1>1, ConcatProperties
<1>. QED  BY <1>1, <1>2, EmptySeq

\* A cut keeps the first message and, from a user message on, the others.
LEMMA CutProperties ==
  ASSUME NEW messages \in Seq(Messages), NEW cut \in Cuts(messages)
  PROVE  \E c \in 2 .. Len(messages) :
           /\ messages[c].kind \in UserKinds
           /\ cut \in Seq(Messages) /\ Len(cut) = Len(messages) - c + 3
           /\ cut[1] = messages[1] /\ cut[2] = Notice
           /\ \A k \in 3 .. Len(cut) : cut[k] = messages[k + c - 3]
<1>1. PICK c \in TurnStarts(messages) : cut = CutAt(messages, c)
  BY DEF Cuts
<1>2. c \in 2 .. Len(messages) /\ messages[c].kind \in UserKinds /\ Len(messages) \in Nat
  BY <1>1 DEF TurnStarts
<1>. DEFINE rest == SubSeq(messages, c, Len(messages))
            front == <<messages[1], Notice>>
<1>3. /\ rest \in Seq(Messages) /\ Len(rest) = Len(messages) - c + 1
      /\ \A i \in 1 .. Len(messages) - c + 1 : rest[i] = messages[c + i - 1]
  <2>1. \A i \in c .. Len(messages) : messages[i] \in Messages
    BY <1>2
  <2>. QED  BY <1>2, <2>1, SubSeqProperties
<1>4. front \in Seq(Messages) /\ Len(front) = 2 /\ front[1] = messages[1] /\ front[2] = Notice
  <2>1. Notice \in Messages
    BY DEF Notice, Msg, Messages, Kinds
  <2>2. messages[1] \in Messages
    BY <1>2, ElementOfSeq
  <2>. QED  BY <2>1, <2>2 DEF front
<1>. HIDE DEF rest, front
<1>5. /\ cut \in Seq(Messages) /\ Len(cut) = 2 + Len(rest)
      /\ \A i \in 1 .. 2 + Len(rest) : cut[i] = IF i <= 2 THEN front[i] ELSE rest[i - 2]
  <2>1. cut = front \o rest
    BY <1>1 DEF CutAt, rest, front
  <2>2. /\ cut \in Seq(Messages) /\ Len(cut) = Len(front) + Len(rest)
        /\ \A i \in 1 .. Len(front) + Len(rest) :
             cut[i] = IF i <= Len(front) THEN front[i] ELSE rest[i - Len(front)]
    BY <1>3, <1>4, <2>1, ConcatProperties
  <2>. QED  BY <1>4, <2>2
<1>6. \A k \in 3 .. Len(cut) : cut[k] = messages[k + c - 3]
  <2>. TAKE k \in 3 .. Len(cut)
  <2>1. k \in 3 .. 2 + Len(rest) /\ Len(rest) = Len(messages) - c + 1
    BY <1>3, <1>5
  <2>2. k - 2 \in 1 .. Len(messages) - c + 1 /\ c + (k - 2) - 1 = k + c - 3
    BY <1>2, <2>1
  <2>3. cut[k] = rest[k - 2]
    BY <1>2, <1>5, <2>1
  <2>. QED  BY <1>3, <2>2, <2>3
<1>7. cut[1] = messages[1] /\ cut[2] = Notice /\ Len(cut) = Len(messages) - c + 3
  BY <1>2, <1>3, <1>4, <1>5
<1>. QED  BY <1>2, <1>5, <1>6, <1>7

\* A summary is a boundary and a continuation.
LEMMA SummaryProperties ==
  /\ Summary \in Seq(Messages) /\ Len(Summary) = 2
  /\ Summary[1] = Notice /\ Summary[2] = Msg("meta", {})
  /\ Summary[1].kind = "system" /\ Summary[2].kind = "meta"
BY SummaryType DEF Summary, Notice, Msg

\* The messages drained from the two queues.
LEMMA DrainedMessages ==
  ASSUME pending \in Seq(Nat), background \in Seq(Nat)
  PROVE  /\ SteerMessages \in Seq(Messages) /\ AgentMessages \in Seq(Messages)
         /\ DOMAIN SteerMessages = DOMAIN pending
         /\ DOMAIN AgentMessages = DOMAIN background
         /\ \A i \in DOMAIN SteerMessages :
              SteerMessages[i].kind = "steer" /\ SteerMessages[i].ids = {pending[i]}
         /\ \A i \in DOMAIN AgentMessages :
              AgentMessages[i].kind = "system" /\ AgentMessages[i].ids = {background[i]}
BY SteerMessagesType, AgentMessagesType DEF SteerMessages, AgentMessages, Msg

\* The messages a tool adds: its result, and what comes with it.
LEMMA ResultMessagesProperties ==
  ASSUME NEW t \in ToolIds
  PROVE  /\ ResultMessages(t) \in Seq(Messages)
         /\ ResultMessages(t) # <<>> /\ ResultMessages(t)[1] = Msg("tool_result", {t})
         /\ Len(ResultMessages(t)) \in 1 .. 2
         /\ Len(ResultMessages(t)) = 2 => task[t] = "messages"
         /\ \A i \in 2 .. Len(ResultMessages(t)) :
              ResultMessages(t)[i] = Msg("tool_message", {})
BY ResultMessagesType DEF ResultMessages

\* Appending a message is adding the sequence of that message.
LEMMA OneMore ==
  ASSUME NEW messages \in Seq(Messages), NEW m \in Messages
  PROVE  /\ <<m>> \in Seq(Messages) /\ Append(messages, m) = messages \o <<m>>
         /\ DOMAIN <<m>> = {1} /\ <<m>>[1] = m /\ Len(<<m>>) = 1
<1>1. Append(messages, m) = messages \o <<m>>
  BY AppendIsConcat
<1>2. <<m>> \in Seq(Messages) /\ DOMAIN <<m>> = {1} /\ <<m>>[1] = m /\ Len(<<m>>) = 1
  OBVIOUS
<1>. QED  BY <1>1, <1>2

\* Two queues drained one after the other are drained together.
LEMMA Regrouped ==
  ASSUME NEW messages \in Seq(Messages), NEW s \in Seq(Messages), NEW t \in Seq(Messages)
  PROVE  (messages \o s) \o t = messages \o (s \o t)
BY ConcatAssociative

\* No message of the loop's own comes out of messages without one.
LEMMA OwnStaysOut ==
  ASSUME NEW messages \in Seq(Messages), NEW s \in Seq(Messages),
         \A i \in DOMAIN messages : messages[i].kind \notin OwnKinds,
         \A i \in DOMAIN s : s[i].kind \notin OwnKinds
  PROVE  \A i \in DOMAIN (messages \o s) : (messages \o s)[i].kind \notin OwnKinds
<1>1. /\ Len(messages) \in Nat /\ Len(s) \in Nat
      /\ DOMAIN messages = 1 .. Len(messages) /\ DOMAIN s = 1 .. Len(s)
      /\ DOMAIN (messages \o s) = 1 .. Len(messages) + Len(s)
  BY LenProperties, ConcatProperties
<1>. SUFFICES ASSUME NEW i \in 1 .. Len(messages) + Len(s)
              PROVE  (messages \o s)[i].kind \notin OwnKinds
  BY <1>1
<1>2. (messages \o s)[i] = IF i <= Len(messages) THEN messages[i] ELSE s[i - Len(messages)]
  BY ConcatProperties
<1>3. CASE i <= Len(messages)
  BY <1>1, <1>2, <1>3
<1>4. CASE i > Len(messages)
  <2>1. i - Len(messages) \in DOMAIN s
    BY <1>1, <1>4
  <2>. QED  BY <1>1, <1>2, <1>4, <2>1
<1>. QED  BY <1>1, <1>3, <1>4

\* What is recorded between a prompt and the end of its submit is added to
\* the transcript, and none of it is the loop's own.
LEMMA RecordedFirst ==
  ASSUME TypeOK, FirstMessages, pc # "idle", pc' # "idle",
         NEW s \in Seq(Messages), transcript' = transcript \o s,
         \A i \in DOMAIN s : s[i].kind \notin OwnKinds,
         history' # <<>>, history'[1].kind \in {"user", "system"}
  PROVE  FirstMessages'
<1>1. transcript \in Seq(Messages)
  BY DEF TypeOK, EngineTyped
<1>2. transcript' # <<>> /\ transcript'[1] = transcript[1]
  BY <1>1, FirstStays DEF FirstMessages
<1>3. \A i \in DOMAIN transcript' : transcript'[i].kind \notin OwnKinds
  BY <1>1, OwnStaysOut DEF FirstMessages
<1>. QED  BY <1>2, <1>3 DEF FirstMessages

\* A conversation begins with a prompt, or once compacted with a boundary, as
\* submit_message and the cuts of the pipeline leave it.
THEOREM ConversationsBegin == Spec => []FirstMessages
<1>1. Init => FirstMessages
  BY DEF Init, FirstMessages
<1>2. TypeOK /\ FirstMessages /\ [Next]_vars => FirstMessages'
  <2>. SUFFICES ASSUME TypeOK, FirstMessages, [Next]_vars PROVE FirstMessages'
    OBVIOUS
  <2>t. transcript \in Seq(Messages) /\ history \in Seq(Messages)
    BY DEF TypeOK, LoopTyped, EngineTyped
  <2>d. /\ SteerMessages \in Seq(Messages) /\ AgentMessages \in Seq(Messages)
        /\ \A i \in DOMAIN SteerMessages : SteerMessages[i].kind = "steer"
        /\ \A i \in DOMAIN AgentMessages : AgentMessages[i].kind = "system"
    BY DrainedMessages DEF TypeOK, EngineTyped
  <2>h. ASSUME pc # "idle", NEW s \in Seq(Messages), history' = history \o s
        PROVE  history' # <<>> /\ history'[1].kind \in {"user", "system"}
    BY <2>t, <2>h, FirstStays DEF FirstMessages
  <2>1. CASE Submit
    <3>1. Msg("user", {}) \in Messages /\ Msg("user", {}).kind = "user"
      BY MsgType DEF Kinds, UserKinds, Msg
    <3>2. transcript' = transcript \o <<Msg("user", {})>> /\ history' = transcript'
      BY <2>1, <2>t, <3>1, OneMore DEF Submit
    <3>3. \A i \in DOMAIN transcript' : transcript'[i].kind \notin OwnKinds
      BY <2>t, <3>1, <3>2, OneMore, OwnStaysOut DEF FirstMessages, OwnKinds
    <3>4. transcript' # <<>> /\ transcript'[1].kind = "user"
      <4>1. CASE transcript = <<>>
        BY <2>1, <3>1, <4>1 DEF Submit
      <4>2. CASE transcript # <<>>
        BY <2>t, <3>1, <3>2, <4>2, OneMore, FirstStays DEF FirstMessages
      <4>. QED  BY <4>1, <4>2
    <3>. QED  BY <2>1, <3>2, <3>3, <3>4 DEF Submit, FirstMessages
  <2>2. CASE FinishSubmit
    BY <2>2 DEF FinishSubmit, FirstMessages
  <2>3. CASE Setup
    <3>1. AgentMessages \o SteerMessages \in Seq(Messages)
      BY <2>d
    <3>2. \A i \in DOMAIN (AgentMessages \o SteerMessages) :
            (AgentMessages \o SteerMessages)[i].kind \notin OwnKinds
      BY <2>d, OwnStaysOut DEF OwnKinds
    <3>3. history' # <<>> /\ history'[1].kind \in {"user", "system"}
      <4>. DEFINE whole == history \o (AgentMessages \o SteerMessages)
      <4>1. whole \in Seq(Messages) /\ whole # <<>> /\ whole[1] = history[1]
        BY <2>3, <2>t, <3>1, FirstStays DEF Setup, FirstMessages
      <4>2. history[1].kind \in {"user", "system"}
        BY <2>3 DEF Setup, FirstMessages
      <4>3. history' = whole \/ history' \in Cuts(whole) \/ history' = Summary
        BY <2>3 DEF Setup
      <4>. HIDE DEF whole
      <4>4. CASE history' \in Cuts(whole)
        <5>1. PICK c \in 2 .. Len(whole) :
                /\ history' \in Seq(Messages) /\ history'[1] = whole[1]
                /\ Len(history') = Len(whole) - c + 3
          BY <4>1, <4>4, CutProperties
        <5>2. history' # <<>>
          BY <4>1, <5>1, EmptySeq
        <5>. QED  BY <4>1, <4>2, <5>1, <5>2
      <4>. QED  BY <4>1, <4>2, <4>3, <4>4, SummaryProperties, EmptySeq
    <3>. QED  BY <2>3, <3>1, <3>2, <3>3, RecordedFirst DEF Setup
  <2>4. CASE PromptTooLong
    <3>1. history' # <<>> /\ history'[1].kind \in {"user", "system"}
      <4>1. CASE history' \in Cuts(history)
        <5>1. PICK c \in 2 .. Len(history) :
                /\ history' \in Seq(Messages) /\ history'[1] = history[1]
                /\ Len(history') = Len(history) - c + 3
          BY <2>t, <4>1, CutProperties
        <5>2. history' # <<>>
          BY <2>t, <5>1, EmptySeq
        <5>. QED  BY <2>4, <5>1, <5>2 DEF PromptTooLong, FirstMessages
      <4>. QED  BY <2>4, <4>1 DEF PromptTooLong, FirstMessages
    <3>2. transcript' = transcript /\ pc # "idle" /\ pc' # "idle"
      BY <2>4 DEF PromptTooLong, GoRound, engineVars
    <3>. QED  BY <3>1, <3>2 DEF FirstMessages
  <2>5. CASE ResponseArrives
    <3>. DEFINE m == Msg("assistant", attempt.uses)
    <3>1. m \in Messages /\ m.kind = "assistant"
      BY MsgType DEF Kinds, Msg, TypeOK, Attempts, ToolIds
    <3>2. transcript' = transcript \o <<m>> /\ history' = history \o <<m>>
      BY <2>5, <2>t, <3>1, OneMore DEF ResponseArrives
    <3>. HIDE DEF m
    <3>3. \A i \in DOMAIN <<m>> : <<m>>[i].kind \notin OwnKinds
      BY <2>t, <3>1, OneMore DEF OwnKinds
    <3>4. pc # "idle" /\ pc' # "idle"
      BY <2>5 DEF ResponseArrives
    <3>. QED  BY <2>t, <2>h, <3>1, <3>2, <3>3, <3>4, OneMore, RecordedFirst
  <2>6. CASE IsSteered
    <3>1. pc # "idle" /\ pc' # "idle"
      BY <2>6 DEF IsSteered, Answered, GoRoundSteered, GoRound
    <3>. QED
      BY <2>6, <2>d, <2>h, <3>1, RecordedFirst DEF IsSteered, GoRoundSteered, OwnKinds
  <2>7. ASSUME NEW m \in Messages, Ends(m) PROVE FirstMessages'
    <3>1. transcript' = transcript \o <<m>> /\ history' = history
      BY <2>7, <2>t, OneMore DEF Ends, EndWith
    <3>2. \A i \in DOMAIN <<m>> : <<m>>[i].kind \notin OwnKinds
      BY <2>7, <2>t, OneMore DEF Ends, OwnKinds
    <3>3. pc # "idle" /\ pc' # "idle"
      BY <2>7 DEF Ends, EndWith
    <3>4. history' # <<>> /\ history'[1].kind \in {"user", "system"}
      BY <3>1, <3>3 DEF FirstMessages
    <3>. QED  BY <2>t, <3>1, <3>2, <3>3, <3>4, OneMore, RecordedFirst
  <2>8. ASSUME NEW m \in Messages, Continues(m) PROVE FirstMessages'
    <3>1. /\ transcript' = transcript /\ history' = history \o <<m>>
          /\ pc # "idle" /\ pc' # "idle"
      BY <2>8, <2>t, OneMore DEF Continues, GoRoundWith, GoRound, engineVars
    <3>. QED  BY <2>t, <2>h, <3>1, OneMore DEF FirstMessages
  <2>9. ASSUME NEW t \in ToolIds, PushResult(t) PROVE FirstMessages'
    <3>1. /\ ResultMessages(t) \in Seq(Messages)
          /\ \A i \in DOMAIN ResultMessages(t) : ResultMessages(t)[i].kind \notin OwnKinds
      BY ResultMessagesType DEF ResultMessages, Msg, OwnKinds
    <3>2. pc # "idle" /\ pc' # "idle"
      BY <2>9 DEF PushResult
    <3>. QED  BY <2>9, <2>h, <3>1, <3>2, RecordedFirst DEF PushResult
  <2>10. CASE Steer \/ AgentFinishes
    BY <2>10 DEF Steer, AgentFinishes, FirstMessages, loopVars
  <2>11. CASE SaysNothing
    <3>1. pc = "idle" <=> pc' = "idle"
      BY <2>11 DEF SaysNothing, GoRound, Answered
    <3>. QED  BY <2>11, <3>1 DEF SaysNothing, FirstMessages
  <2>. QED
    BY <2>1, <2>2, <2>3, <2>4, <2>5, <2>6, <2>7, <2>8, <2>9, <2>10, <2>11, StepKinds
<1>. QED  BY <1>1, <1>2, TypeCorrect, PTL DEF Spec

-----------------------------------------------------------------------------
(***************************************************************************)
(* The two queues.  A text the user has steered with and the report of an  *)
(* agent go the same way: they are numbered as they come, wait in a queue, *)
(* and are recorded when the queue is drained.                             *)
(***************************************************************************)

\* Where the messages of a concatenation come from.
LEMMA Positions ==
  ASSUME NEW messages \in Seq(Messages), NEW s \in Seq(Messages)
  PROVE  /\ Len(messages) \in Nat /\ Len(s) \in Nat
         /\ DOMAIN messages = 1 .. Len(messages) /\ DOMAIN s = 1 .. Len(s)
         /\ messages \o s \in Seq(Messages)
         /\ Len(messages \o s) = Len(messages) + Len(s)
         /\ DOMAIN (messages \o s) = 1 .. Len(messages) + Len(s)
         /\ \A i \in 1 .. Len(messages) : (messages \o s)[i] = messages[i]
         /\ \A k \in 1 .. Len(s) : (messages \o s)[Len(messages) + k] = s[k]
         /\ \A i \in 1 .. Len(messages) + Len(s) :
              \/ i \in 1 .. Len(messages)
              \/ \E k \in 1 .. Len(s) : i = Len(messages) + k
<1>1. Len(messages) \in Nat /\ Len(s) \in Nat
  BY LenProperties
<1>2. /\ messages \o s \in Seq(Messages)
      /\ Len(messages \o s) = Len(messages) + Len(s)
      /\ \A i \in 1 .. Len(messages) + Len(s) :
           (messages \o s)[i] = IF i <= Len(messages) THEN messages[i]
                                ELSE s[i - Len(messages)]
  BY ConcatProperties
<1>3. /\ DOMAIN messages = 1 .. Len(messages) /\ DOMAIN s = 1 .. Len(s)
      /\ DOMAIN (messages \o s) = 1 .. Len(messages) + Len(s)
  BY <1>2, LenProperties
<1>4. \A i \in 1 .. Len(messages) : (messages \o s)[i] = messages[i]
  BY <1>1, <1>2
<1>5. \A k \in 1 .. Len(s) : (messages \o s)[Len(messages) + k] = s[k]
  <2>. TAKE k \in 1 .. Len(s)
  <2>1. /\ Len(messages) + k \in 1 .. Len(messages) + Len(s)
        /\ ~(Len(messages) + k <= Len(messages)) /\ (Len(messages) + k) - Len(messages) = k
    BY <1>1
  <2>. QED  BY <1>2, <2>1
<1>6. ASSUME NEW i \in 1 .. Len(messages) + Len(s), i \notin 1 .. Len(messages)
      PROVE  \E k \in 1 .. Len(s) : i = Len(messages) + k
  <2>1. i - Len(messages) \in 1 .. Len(s) /\ i = Len(messages) + (i - Len(messages))
    BY <1>1, <1>6
  <2>. QED  BY <2>1
<1>. QED  BY <1>1, <1>2, <1>3, <1>4, <1>5, <1>6

\* What is recorded of a kind, and then what is queued, carries increasing
\* numbers, none of them above n.
InOrder(messages, queue, kind, n) ==
  /\ \A i, j \in DOMAIN messages :
       i < j /\ messages[i].kind = kind /\ messages[j].kind = kind =>
         \A a \in messages[i].ids, b \in messages[j].ids : a < b
  /\ \A i \in DOMAIN messages, k \in DOMAIN queue :
       messages[i].kind = kind => \A a \in messages[i].ids : a < queue[k]
  /\ \A k, l \in DOMAIN queue : k < l => queue[k] < queue[l]
  /\ \A i \in DOMAIN messages :
       messages[i].kind = kind => messages[i].ids \subseteq 1 .. n
  /\ \A k \in DOMAIN queue : queue[k] \in 1 .. n

\* Each number up to n is recorded, by itself, or queued.
NoneMissing(messages, queue, kind, n) ==
  \A a \in 1 .. n :
    \/ \E i \in DOMAIN messages : messages[i].kind = kind /\ messages[i].ids = {a}
    \/ \E k \in DOMAIN queue : queue[k] = a

\* Messages that carry no number of the kind may be recorded at any time.
LEMMA OthersRecorded ==
  ASSUME NEW messages \in Seq(Messages), NEW queue \in Seq(Nat), NEW n \in Nat, NEW kind,
         NEW s \in Seq(Messages), \A i \in DOMAIN s : s[i].kind = kind => s[i].ids = {}
  PROVE  /\ InOrder(messages, queue, kind, n) => InOrder(messages \o s, queue, kind, n)
         /\ NoneMissing(messages, queue, kind, n) =>
              NoneMissing(messages \o s, queue, kind, n)
<1>. DEFINE whole == messages \o s
<1>1. /\ Len(messages) \in Nat /\ Len(s) \in Nat
      /\ DOMAIN messages = 1 .. Len(messages) /\ DOMAIN s = 1 .. Len(s)
      /\ DOMAIN whole = 1 .. Len(messages) + Len(s)
      /\ \A i \in 1 .. Len(messages) : whole[i] = messages[i]
      /\ \A k \in 1 .. Len(s) : whole[Len(messages) + k] = s[k]
      /\ \A i \in 1 .. Len(messages) + Len(s) :
           \/ i \in 1 .. Len(messages)
           \/ \E k \in 1 .. Len(s) : i = Len(messages) + k
  BY Positions
<1>. HIDE DEF whole
<1>2. ASSUME NEW i \in DOMAIN whole, whole[i].kind = kind, whole[i].ids # {}
      PROVE  i \in DOMAIN messages
  <2>1. \A k \in DOMAIN s : whole[Len(messages) + k] = s[k]
    BY <1>1
  <2>2. i \in DOMAIN messages \/ \E k \in DOMAIN s : i = Len(messages) + k
    BY <1>1
  <2>. QED  BY <1>2, <2>1, <2>2
<1>3. \A i \in DOMAIN messages : i \in DOMAIN whole /\ whole[i] = messages[i]
  BY <1>1
<1>4. InOrder(messages, queue, kind, n) => InOrder(whole, queue, kind, n)
  BY <1>2, <1>3 DEF InOrder
<1>5. NoneMissing(messages, queue, kind, n) => NoneMissing(whole, queue, kind, n)
  BY <1>3 DEF NoneMissing
<1>. QED  BY <1>4, <1>5 DEF whole

\* The next number is queued.
LEMMA NextQueued ==
  ASSUME NEW messages \in Seq(Messages), NEW queue \in Seq(Nat), NEW n \in Nat, NEW kind
  PROVE  /\ InOrder(messages, queue, kind, n) =>
              InOrder(messages, Append(queue, n + 1), kind, n + 1)
         /\ NoneMissing(messages, queue, kind, n) =>
              NoneMissing(messages, Append(queue, n + 1), kind, n + 1)
<1>. DEFINE longer == Append(queue, n + 1)
<1>1. /\ Len(queue) \in Nat /\ DOMAIN queue = 1 .. Len(queue)
      /\ DOMAIN longer = 1 .. Len(queue) + 1
      /\ \A k \in DOMAIN queue : longer[k] = queue[k] /\ queue[k] \in Nat
      /\ longer[Len(queue) + 1] = n + 1
  <2>1. n + 1 \in Nat /\ Len(queue) \in Nat /\ DOMAIN queue = 1 .. Len(queue)
    BY LenProperties
  <2>2. /\ longer \in Seq(Nat) /\ Len(longer) = Len(queue) + 1
        /\ \A k \in 1 .. Len(queue) : longer[k] = queue[k]
        /\ longer[Len(queue) + 1] = n + 1
    BY <2>1, AppendProperties
  <2>. QED  BY <2>1, <2>2, LenProperties
<1>. HIDE DEF longer
<1>2. ASSUME NEW k \in DOMAIN longer
      PROVE  k \in DOMAIN queue \/ (k = Len(queue) + 1 /\ longer[k] = n + 1)
  <2>1. k \in 1 .. Len(queue) + 1 /\ Len(queue) \in Nat
    BY <1>1
  <2>2. k \in 1 .. Len(queue) \/ k = Len(queue) + 1
    BY <2>1
  <2>. QED  BY <1>1, <2>2
<1>3. \A i \in DOMAIN messages : messages[i].ids \subseteq Nat
  <2>1. \A i \in DOMAIN messages : messages[i] \in Messages
    BY LenProperties
  <2>. QED  BY <2>1 DEF Messages
<1>4. InOrder(messages, queue, kind, n) => InOrder(messages, longer, kind, n + 1)
  <2>. SUFFICES ASSUME InOrder(messages, queue, kind, n)
                PROVE  InOrder(messages, longer, kind, n + 1)
    OBVIOUS
  <2>1. \A i \in DOMAIN messages, k \in DOMAIN longer :
          messages[i].kind = kind => \A a \in messages[i].ids : a < longer[k]
    BY <1>1, <1>2, <1>3 DEF InOrder
  <2>2. ASSUME NEW k \in DOMAIN longer, NEW l \in DOMAIN longer, k < l
        PROVE  longer[k] < longer[l]
    <3>1. k \in DOMAIN queue /\ longer[k] = queue[k] /\ queue[k] \in 1 .. n
      BY <1>1, <2>2 DEF InOrder
    <3>2. CASE l \in DOMAIN queue
      BY <1>1, <2>2, <3>1, <3>2 DEF InOrder
    <3>3. CASE l \notin DOMAIN queue
      BY <1>2, <3>1, <3>3
    <3>. QED  BY <3>2, <3>3
  <2>3. \A i \in DOMAIN messages :
          messages[i].kind = kind => messages[i].ids \subseteq 1 .. n + 1
    BY DEF InOrder
  <2>4. \A k \in DOMAIN longer : longer[k] \in 1 .. n + 1
    BY <1>1, <1>2 DEF InOrder
  <2>. QED  BY <2>1, <2>2, <2>3, <2>4 DEF InOrder
<1>5. NoneMissing(messages, queue, kind, n) => NoneMissing(messages, longer, kind, n + 1)
  <2>1. \A a \in 1 .. n + 1 : a \in 1 .. n \/ a = n + 1
    OBVIOUS
  <2>2. \A k \in DOMAIN queue : k \in DOMAIN longer /\ longer[k] = queue[k]
    BY <1>1
  <2>3. Len(queue) + 1 \in DOMAIN longer
    BY <1>1
  <2>. QED  BY <1>1, <2>1, <2>2, <2>3 DEF NoneMissing
<1>. QED  BY <1>4, <1>5 DEF longer

\* A queue may be dropped, as far as the order is concerned.
LEMMA QueueDropped ==
  ASSUME NEW messages, NEW queue, NEW n, NEW kind, InOrder(messages, queue, kind, n)
  PROVE  InOrder(messages, <<>>, kind, n)
BY DEF InOrder

\* A queue that is drained into the record leaves nothing behind.
LEMMA QueueDrained ==
  ASSUME NEW messages \in Seq(Messages), NEW queue \in Seq(Nat), NEW n \in Nat, NEW kind,
         NEW s \in Seq(Messages), DOMAIN s = DOMAIN queue,
         \A k \in DOMAIN queue : s[k].kind = kind /\ s[k].ids = {queue[k]}
  PROVE  /\ InOrder(messages, queue, kind, n) => InOrder(messages \o s, <<>>, kind, n)
         /\ NoneMissing(messages, queue, kind, n) =>
              NoneMissing(messages \o s, <<>>, kind, n)
<1>. DEFINE whole == messages \o s
<1>1. /\ Len(messages) \in Nat /\ Len(s) \in Nat
      /\ DOMAIN messages = 1 .. Len(messages) /\ DOMAIN s = 1 .. Len(s)
      /\ DOMAIN whole = 1 .. Len(messages) + Len(s)
      /\ \A i \in 1 .. Len(messages) : whole[i] = messages[i]
      /\ \A k \in 1 .. Len(s) : whole[Len(messages) + k] = s[k]
      /\ \A i \in 1 .. Len(messages) + Len(s) :
           \/ i \in 1 .. Len(messages)
           \/ \E k \in 1 .. Len(s) : i = Len(messages) + k
  BY Positions
<1>. HIDE DEF whole
<1>2. \A i \in DOMAIN messages : i \in DOMAIN whole /\ whole[i] = messages[i]
  BY <1>1
<1>3. \A k \in DOMAIN queue :
        /\ Len(messages) + k \in DOMAIN whole
        /\ whole[Len(messages) + k].kind = kind
        /\ whole[Len(messages) + k].ids = {queue[k]}
  BY <1>1
<1>4. InOrder(messages, queue, kind, n) => InOrder(whole, <<>>, kind, n)
  <2>. SUFFICES ASSUME InOrder(messages, queue, kind, n)
                PROVE  InOrder(whole, <<>>, kind, n)
    OBVIOUS
  <2>1. ASSUME NEW i \in DOMAIN whole, NEW j \in DOMAIN whole,
               i < j, whole[i].kind = kind, whole[j].kind = kind,
               NEW a \in whole[i].ids, NEW b \in whole[j].ids
        PROVE  a < b
    <3>1. CASE j \in DOMAIN messages
      <4>1. i \in DOMAIN messages
        BY <1>1, <2>1, <3>1
      <4>. QED  BY <1>2, <2>1, <3>1, <4>1 DEF InOrder
    <3>2. CASE j \notin DOMAIN messages
      <4>1. PICK l \in DOMAIN queue : j = Len(messages) + l
        BY <1>1, <3>2
      <4>2. b = queue[l]
        BY <1>3, <2>1, <4>1
      <4>3. CASE i \in DOMAIN messages
        BY <1>2, <2>1, <4>2, <4>3 DEF InOrder
      <4>4. CASE i \notin DOMAIN messages
        <5>1. PICK k \in DOMAIN queue : i = Len(messages) + k
          BY <1>1, <4>4
        <5>2. a = queue[k] /\ k < l
          BY <1>1, <1>3, <2>1, <4>1, <5>1
        <5>. QED  BY <4>2, <5>2 DEF InOrder
      <4>. QED  BY <4>3, <4>4
    <3>. QED  BY <3>1, <3>2
  <2>2. ASSUME NEW i \in DOMAIN whole, whole[i].kind = kind
        PROVE  whole[i].ids \subseteq 1 .. n
    <3>1. CASE i \in DOMAIN messages
      BY <1>2, <2>2, <3>1 DEF InOrder
    <3>2. CASE i \notin DOMAIN messages
      <4>1. PICK k \in DOMAIN queue : i = Len(messages) + k
        BY <1>1, <3>2
      <4>. QED  BY <1>3, <4>1 DEF InOrder
    <3>. QED  BY <3>1, <3>2
  <2>. QED  BY <2>1, <2>2 DEF InOrder
<1>5. NoneMissing(messages, queue, kind, n) => NoneMissing(whole, <<>>, kind, n)
  <2>. SUFFICES ASSUME NoneMissing(messages, queue, kind, n), NEW a \in 1 .. n
                PROVE  \E i \in DOMAIN whole : whole[i].kind = kind /\ whole[i].ids = {a}
    BY DEF NoneMissing
  <2>1. CASE \E i \in DOMAIN messages : messages[i].kind = kind /\ messages[i].ids = {a}
    BY <1>2, <2>1
  <2>2. CASE \E k \in DOMAIN queue : queue[k] = a
    BY <1>3, <2>2
  <2>. QED  BY <2>1, <2>2 DEF NoneMissing
<1>. QED  BY <1>4, <1>5 DEF whole

\* The invariant of the queues.  Nothing waits between two submits: the guard
\* of a submit empties the steer queue when it opens and when it closes it.
QueueInv ==
  /\ InOrder(transcript, pending, "steer", used.steers)
  /\ InOrder(transcript, background, "system", used.agents)
  /\ NoneMissing(transcript, background, "system", used.agents)
  /\ pc = "idle" => pending = <<>> /\ ~steering

\* What else is recorded keeps it, while both queues stay or one is dropped.
LEMMA OthersKeepQueues ==
  ASSUME TypeOK, QueueInv, NEW s \in Seq(Messages), transcript' = transcript \o s,
         \A i \in DOMAIN s : s[i].kind \in {"steer", "system"} => s[i].ids = {},
         pending' \in {pending, <<>>}, background' = background,
         used'.steers = used.steers, used'.agents = used.agents, pc' # "idle"
  PROVE  QueueInv'
<1>1. /\ transcript \in Seq(Messages) /\ pending \in Seq(Nat) /\ background \in Seq(Nat)
      /\ used.steers \in Nat /\ used.agents \in Nat
  BY DEF TypeOK, EngineTyped, Bounds
<1>2. \A kind \in {"steer", "system"} :
        \A i \in DOMAIN s : s[i].kind = kind => s[i].ids = {}
  OBVIOUS
<1>3. InOrder(transcript', pending, "steer", used.steers)
  BY <1>1, <1>2, OthersRecorded DEF QueueInv
<1>4. InOrder(transcript', background, "system", used.agents)
  BY <1>1, <1>2, OthersRecorded DEF QueueInv
<1>5. NoneMissing(transcript', background, "system", used.agents)
  BY <1>1, <1>2, OthersRecorded DEF QueueInv
<1>6. InOrder(transcript', pending', "steer", used.steers)
  BY <1>3, QueueDropped
<1>. QED  BY <1>4, <1>5, <1>6 DEF QueueInv

\* Draining the steer queue keeps it.
LEMMA SteersDrained ==
  ASSUME TypeOK, QueueInv, transcript' = transcript \o SteerMessages, pending' = <<>>,
         background' = background,
         used'.steers = used.steers, used'.agents = used.agents, pc' # "idle"
  PROVE  QueueInv'
<1>1. /\ transcript \in Seq(Messages) /\ pending \in Seq(Nat) /\ background \in Seq(Nat)
      /\ used.steers \in Nat /\ used.agents \in Nat
  BY DEF TypeOK, EngineTyped, Bounds
<1>2. /\ SteerMessages \in Seq(Messages) /\ DOMAIN SteerMessages = DOMAIN pending
      /\ \A i \in DOMAIN SteerMessages :
           SteerMessages[i].kind = "steer" /\ SteerMessages[i].ids = {pending[i]}
  BY <1>1, DrainedMessages
<1>3. InOrder(transcript', <<>>, "steer", used.steers)
  BY <1>1, <1>2, QueueDrained DEF QueueInv
<1>4. /\ InOrder(transcript', background, "system", used.agents)
      /\ NoneMissing(transcript', background, "system", used.agents)
  BY <1>1, <1>2, OthersRecorded DEF QueueInv
<1>. QED  BY <1>3, <1>4 DEF QueueInv

\* So does draining both, the agents' reports first.
LEMMA SetupDrains ==
  ASSUME TypeOK, QueueInv, Setup
  PROVE  QueueInv'
<1>1. /\ transcript \in Seq(Messages) /\ pending \in Seq(Nat) /\ background \in Seq(Nat)
      /\ used.steers \in Nat /\ used.agents \in Nat
  BY DEF TypeOK, EngineTyped, Bounds
<1>2. /\ SteerMessages \in Seq(Messages) /\ DOMAIN SteerMessages = DOMAIN pending
      /\ \A i \in DOMAIN SteerMessages :
           SteerMessages[i].kind = "steer" /\ SteerMessages[i].ids = {pending[i]}
      /\ AgentMessages \in Seq(Messages) /\ DOMAIN AgentMessages = DOMAIN background
      /\ \A i \in DOMAIN AgentMessages :
           AgentMessages[i].kind = "system" /\ AgentMessages[i].ids = {background[i]}
  BY <1>1, DrainedMessages
<1>. DEFINE reported == transcript \o AgentMessages
<1>3. reported \in Seq(Messages) /\ transcript' = reported \o SteerMessages
  <2>1. transcript' = transcript \o (AgentMessages \o SteerMessages)
    BY DEF Setup
  <2>2. (transcript \o AgentMessages) \o SteerMessages
          = transcript \o (AgentMessages \o SteerMessages)
    BY <1>1, <1>2, Regrouped
  <2>3. transcript \o AgentMessages \in Seq(Messages)
    BY <1>1, <1>2, ConcatProperties
  <2>. QED  BY <2>1, <2>2, <2>3
<1>4. /\ InOrder(reported, pending, "steer", used.steers)
      /\ InOrder(reported, <<>>, "system", used.agents)
      /\ NoneMissing(reported, <<>>, "system", used.agents)
  <2>1. InOrder(reported, pending, "steer", used.steers)
    BY <1>1, <1>2, OthersRecorded DEF QueueInv
  <2>2. /\ InOrder(reported, <<>>, "system", used.agents)
        /\ NoneMissing(reported, <<>>, "system", used.agents)
    BY <1>1, <1>2, QueueDrained DEF QueueInv
  <2>. QED  BY <2>1, <2>2
<1>. HIDE DEF reported
<1>5. InOrder(transcript', <<>>, "steer", used.steers)
  BY <1>1, <1>2, <1>3, <1>4, QueueDrained
<1>6. <<>> \in Seq(Nat)
  BY EmptySeq
<1>7. /\ InOrder(transcript', <<>>, "system", used.agents)
      /\ NoneMissing(transcript', <<>>, "system", used.agents)
  BY <1>1, <1>2, <1>3, <1>4, <1>6, OthersRecorded
<1>8. used'.steers = used.steers /\ used'.agents = used.agents
  BY DEF Setup, TypeOK, Bounds
<1>9. pending' = <<>> /\ background' = <<>> /\ pc' # "idle"
  BY DEF Setup, EmptyQueues
<1>. QED  BY <1>5, <1>7, <1>8, <1>9 DEF QueueInv

\* What was steered with and what the agents reported is numbered upwards over
\* the transcript and the queue behind it, whatever drain_steer_messages and
\* drain_background_results have moved from one to the other.
THEOREM QueuesCorrect == Spec => []QueueInv
<1>1. Init => QueueInv
  <2>. SUFFICES ASSUME Init PROVE QueueInv
    OBVIOUS
  <2>1. DOMAIN transcript = {} /\ DOMAIN pending = {} /\ DOMAIN background = {}
    BY DEF Init
  <2>2. 1 .. used.agents = {} /\ ~steering /\ pending = <<>>
    BY DEF Init
  <2>. QED  BY <2>1, <2>2 DEF QueueInv, InOrder, NoneMissing
<1>2. TypeOK /\ QueueInv /\ [Next]_vars => QueueInv'
  <2>. SUFFICES ASSUME TypeOK, QueueInv, [Next]_vars PROVE QueueInv'
    OBVIOUS
  <2>t. /\ transcript \in Seq(Messages) /\ pending \in Seq(Nat) /\ background \in Seq(Nat)
        /\ used.steers \in Nat /\ used.agents \in Nat
    BY DEF TypeOK, EngineTyped, Bounds
  <2>1. CASE Submit
    <3>1. Msg("user", {}) \in Messages /\ Msg("user", {}).kind = "user"
      BY MsgType DEF Kinds, UserKinds, Msg
    <3>2. transcript' = transcript \o <<Msg("user", {})>>
      BY <2>1, <2>t, <3>1, OneMore DEF Submit
    <3>3. used'.steers = used.steers /\ used'.agents = used.agents
      BY <2>1 DEF Submit, TypeOK, Bounds
    <3>4. /\ <<Msg("user", {})>> \in Seq(Messages)
          /\ \A i \in DOMAIN <<Msg("user", {})>> :
               <<Msg("user", {})>>[i].kind \notin {"steer", "system"}
      BY <3>1
    <3>. QED  BY <2>1, <3>2, <3>3, <3>4, OthersKeepQueues DEF Submit
  <2>2. CASE FinishSubmit
    BY <2>2, QueueDropped DEF FinishSubmit, QueueInv
  <2>3. CASE Setup
    BY <2>3, SetupDrains
  <2>4. CASE PromptTooLong
    BY <2>4 DEF PromptTooLong, GoRound, engineVars, QueueInv
  <2>5. CASE ResponseArrives
    <3>. DEFINE m == Msg("assistant", attempt.uses)
    <3>1. m \in Messages /\ m.kind = "assistant"
      BY MsgType DEF Kinds, Msg, TypeOK, Attempts, ToolIds
    <3>2. transcript' = transcript \o <<m>>
      BY <2>5, <2>t, <3>1, OneMore DEF ResponseArrives
    <3>. HIDE DEF m
    <3>3. <<m>> \in Seq(Messages) /\ \A i \in DOMAIN <<m>> : <<m>>[i].kind = "assistant"
      BY <3>1
    <3>. QED  BY <2>5, <3>2, <3>3, OthersKeepQueues DEF ResponseArrives
  <2>6. CASE IsSteered
    BY <2>6, SteersDrained DEF IsSteered, GoRoundSteered, GoRound
  <2>7. ASSUME NEW m \in Messages, Ends(m) PROVE QueueInv'
    <3>1. transcript' = transcript \o <<m>>
      BY <2>7, <2>t, OneMore DEF Ends, EndWith
    <3>2. \A i \in DOMAIN <<m>> : <<m>>[i].kind \in {"steer", "system"} => <<m>>[i].ids = {}
      BY <2>7, <2>t, OneMore DEF Ends
    <3>. QED  BY <2>7, <2>t, <3>1, <3>2, OneMore, OthersKeepQueues DEF Ends, EndWith
  <2>8. ASSUME NEW m \in Messages, Continues(m) PROVE QueueInv'
    BY <2>8 DEF Continues, GoRoundWith, GoRound, engineVars, QueueInv
  <2>9. ASSUME NEW t \in ToolIds, PushResult(t) PROVE QueueInv'
    <3>1. /\ ResultMessages(t) \in Seq(Messages)
          /\ \A i \in DOMAIN ResultMessages(t) :
               ResultMessages(t)[i].kind \notin {"steer", "system"}
      BY ResultMessagesType DEF ResultMessages, Msg
    <3>. QED  BY <2>9, <3>1, OthersKeepQueues DEF PushResult
  <2>10. CASE Steer
    <3>1. used'.steers = used.steers + 1 /\ used'.agents = used.agents
      BY <2>10 DEF Steer, TypeOK, Bounds
    <3>2. InOrder(transcript, pending', "steer", used.steers + 1)
      BY <2>10, <2>t, NextQueued DEF Steer, QueueInv
    <3>. QED  BY <2>10, <3>1, <3>2 DEF Steer, QueueInv
  <2>11. CASE AgentFinishes
    <3>1. used'.steers = used.steers /\ used'.agents = used.agents + 1
      BY <2>11 DEF AgentFinishes, TypeOK, Bounds
    <3>2. /\ InOrder(transcript, background', "system", used.agents + 1)
          /\ NoneMissing(transcript, background', "system", used.agents + 1)
      BY <2>11, <2>t, NextQueued DEF AgentFinishes, QueueInv
    <3>. QED  BY <2>11, <3>1, <3>2 DEF AgentFinishes, QueueInv
  <2>12. CASE SaysNothing
    <3>1. pc' = "idle" => pc = "idle"
      BY <2>12 DEF SaysNothing, GoRound
    <3>. QED  BY <2>12, <3>1 DEF SaysNothing, QueueInv
  <2>. QED
    BY <2>1, <2>2, <2>3, <2>4, <2>5, <2>6, <2>7, <2>8, <2>9, <2>10, <2>11, <2>12, StepKinds
<1>. QED  BY <1>1, <1>2, TypeCorrect, PTL DEF Spec

\* What the user steers with is recorded in the order given, and never twice.
THEOREM SteersKeepTheirOrder == Spec => []SteersInOrder
<1>1. TypeOK /\ QueueInv => SteersInOrder
  <2>. SUFFICES ASSUME TypeOK, QueueInv PROVE SteersInOrder
    OBVIOUS
  <2>1. /\ transcript \in Seq(Messages) /\ pending \in Seq(Nat) /\ background \in Seq(Nat)
        /\ used.steers \in Nat
    BY DEF TypeOK, EngineTyped, Bounds
  <2>2. InOrder(transcript \o SteerMessages, <<>>, "steer", used.steers)
    BY <2>1, DrainedMessages, QueueDrained DEF QueueInv
  <2>. QED  BY <2>2 DEF InOrder, SteersInOrder
<1>. QED  BY <1>1, TypeCorrect, QueuesCorrect, PTL

\* Each agent's report is recorded or waiting, at one place only.
THEOREM AgentsAreReportedOnce == Spec => []AgentsReportedOnce
<1>1. TypeOK /\ QueueInv => AgentsReportedOnce
  <2>. SUFFICES ASSUME TypeOK, QueueInv PROVE AgentsReportedOnce
    OBVIOUS
  <2>1. /\ transcript \in Seq(Messages) /\ pending \in Seq(Nat) /\ background \in Seq(Nat)
        /\ used.agents \in Nat
    BY DEF TypeOK, EngineTyped, Bounds
  <2>. DEFINE reports == transcript \o AgentMessages
  <2>2. /\ InOrder(reports, <<>>, "system", used.agents)
        /\ NoneMissing(reports, <<>>, "system", used.agents)
    BY <2>1, DrainedMessages, QueueDrained DEF QueueInv
  <2>3. reports \in Seq(Messages) /\ DOMAIN reports \subseteq Nat
    BY <2>1, DrainedMessages, Positions
  <2>. HIDE DEF reports
  <2>4. \A i \in DOMAIN reports :
          (IF reports[i].kind = "system" THEN reports[i].ids ELSE {}) \subseteq 1 .. used.agents
    BY <2>2 DEF InOrder
  <2>5. ASSUME NEW a \in 1 .. used.agents
        PROVE  \E i \in DOMAIN reports :
                 /\ (IF reports[i].kind = "system" THEN reports[i].ids ELSE {}) = {a}
                 /\ \A j \in DOMAIN reports \ {i} :
                      a \notin (IF reports[j].kind = "system" THEN reports[j].ids ELSE {})
    <3>1. PICK i \in DOMAIN reports : reports[i].kind = "system" /\ reports[i].ids = {a}
      <4>1. \A k \in DOMAIN <<>> : FALSE
        OBVIOUS
      <4>2. \/ \E i \in DOMAIN reports : reports[i].kind = "system" /\ reports[i].ids = {a}
            \/ \E k \in DOMAIN <<>> : <<>>[k] = a
        BY <2>2, Zenon DEF NoneMissing
      <4>. QED  BY <4>1, <4>2
    <3>2. ASSUME NEW j \in DOMAIN reports \ {i}, reports[j].kind = "system",
                 a \in reports[j].ids
          PROVE  FALSE
      <4>1. i < j \/ j < i
        BY <2>3
      <4>2. a < a
        BY <2>2, <3>1, <3>2, <4>1 DEF InOrder
      <4>. QED  BY <4>2
    <3>. QED  BY <3>1, <3>2
  <2>. QED  BY <2>4, <2>5 DEF AgentsReportedOnce, reports
<1>. QED  BY <1>1, TypeCorrect, QueuesCorrect, PTL

\* A steer leaves its queue for the transcript, or when the submit ends.
THEOREM SteersAreNotLost == Spec => SteersDroppedOnlyAtEnd
<1>. DEFINE Accounted(i) ==
       \/ pc = "ending"
       \/ \E j \in DOMAIN pending' : pending'[j] = pending[i]
       \/ \E j \in DOMAIN transcript' : transcript'[j] = Msg("steer", {pending[i]})
<1>1. TypeOK /\ QueueInv /\ [Next]_vars => \A i \in DOMAIN pending : Accounted(i)
  <2>. SUFFICES ASSUME TypeOK, QueueInv, [Next]_vars, NEW i \in DOMAIN pending
                PROVE  Accounted(i)
    OBVIOUS
  <2>t. transcript \in Seq(Messages) /\ pending \in Seq(Nat) /\ background \in Seq(Nat)
    BY DEF TypeOK, EngineTyped
  <2>k. pending' = pending => Accounted(i)
    OBVIOUS
  <2>d. ASSUME NEW s \in Seq(Messages), transcript' = s \o SteerMessages
        PROVE  Accounted(i)
    <3>1. SteerMessages \in Seq(Messages) /\ i \in 1 .. Len(SteerMessages)
      BY <2>t, DrainedMessages, LenProperties
    <3>2. /\ Len(s) + i \in DOMAIN transcript'
          /\ transcript'[Len(s) + i] = SteerMessages[i]
      <4>1. Len(s) \in Nat /\ Len(SteerMessages) \in Nat
        BY <3>1, Positions
      <4>2. Len(s) + i \in 1 .. Len(s) + Len(SteerMessages)
        BY <3>1, <4>1
      <4>. QED  BY <2>d, <3>1, <4>2, Positions
    <3>. QED  BY <3>2 DEF SteerMessages
  <2>1. CASE Submit
    BY <2>1 DEF Submit, QueueInv
  <2>2. CASE FinishSubmit
    BY <2>2 DEF FinishSubmit
  <2>3. CASE Setup
    <3>1. /\ transcript \o AgentMessages \in Seq(Messages)
          /\ transcript' = (transcript \o AgentMessages) \o SteerMessages
      <4>1. transcript' = transcript \o (AgentMessages \o SteerMessages)
        BY <2>3 DEF Setup
      <4>2. AgentMessages \in Seq(Messages) /\ SteerMessages \in Seq(Messages)
        BY <2>t, DrainedMessages
      <4>3. (transcript \o AgentMessages) \o SteerMessages
              = transcript \o (AgentMessages \o SteerMessages)
        BY <2>t, <4>2, Regrouped
      <4>. QED  BY <2>t, <4>1, <4>2, <4>3, ConcatProperties
    <3>. QED  BY <2>d, <3>1
  <2>4. CASE IsSteered
    BY <2>4, <2>t, <2>d DEF IsSteered, GoRoundSteered
  <2>5. CASE Steer
    <3>1. i \in DOMAIN pending' /\ pending'[i] = pending[i]
      BY <2>5, <2>t DEF Steer, TypeOK, Bounds
    <3>. QED  BY <3>1
  <2>6. CASE PromptTooLong \/ AgentFinishes \/ SaysNothing
    BY <2>6, <2>k DEF PromptTooLong, AgentFinishes, SaysNothing, engineVars
  <2>7. CASE ResponseArrives
    BY <2>7, <2>k DEF ResponseArrives
  <2>8. ASSUME NEW m \in Messages, Ends(m) \/ Continues(m) PROVE Accounted(i)
    BY <2>8, <2>k DEF Ends, Continues, EndWith, GoRoundWith, engineVars
  <2>9. ASSUME NEW t \in ToolIds, PushResult(t) PROVE Accounted(i)
    BY <2>9, <2>k DEF PushResult
  <2>. HIDE DEF Accounted
  <2>. QED
    BY <2>1, <2>2, <2>3, <2>4, <2>5, <2>6, <2>7, <2>8, <2>9, StepKinds
<1>2. TypeOK /\ QueueInv /\ [Next]_vars
        => [\A i \in DOMAIN pending : Accounted(i)]_vars
  BY <1>1
<1>. QED  BY <1>2, TypeCorrect, QueuesCorrect, PTL DEF Spec, SteersDroppedOnlyAtEnd

-----------------------------------------------------------------------------
(***************************************************************************)
(* The loop's conversation and the engine's.  Leaving out the loop's own   *)
(* messages, they are one until something is compacted: messages are added *)
(* to both at once, or only to one when they are the loop's own.           *)
(***************************************************************************)

\* The place of a message is a number, not above that of a later one.
LEMMA PlaceType ==
  ASSUME NEW messages, NEW n \in Nat, NEW i \in 0 .. n
  PROVE  /\ Place(messages, i) \in Nat /\ Place(messages, i) <= Place(messages, n)
         /\ i >= 1 /\ messages[i].kind \notin OwnKinds => Place(messages, i) >= 1
<1>. DEFINE Others(j) == {k \in 1 .. j : messages[k].kind \notin OwnKinds}
<1>1. \A j \in 0 .. n : IsFiniteSet(Others(j))
  <2>. TAKE j \in 0 .. n
  <2>1. IsFiniteSet(1 .. j) /\ Others(j) \in SUBSET (1 .. j)
    BY FS_Interval
  <2>. QED  BY <2>1, FS_Subset
<1>2. Others(i) \in SUBSET Others(n)
  OBVIOUS
<1>3. IsFiniteSet(Others(i)) /\ IsFiniteSet(Others(n))
  BY <1>1
<1>4. i >= 1 /\ messages[i].kind \notin OwnKinds => Others(i) # {}
  <2>1. i >= 1 => i \in 1 .. i
    OBVIOUS
  <2>. QED  BY <2>1
<1>. HIDE DEF Others
<1>5. Cardinality(Others(i)) \in Nat /\ Cardinality(Others(i)) <= Cardinality(Others(n))
  BY <1>2, <1>3, FS_CardinalityType, FS_Subset
<1>6. Others(i) # {} => Cardinality(Others(i)) # 0
  BY <1>3, FS_EmptySet
<1>7. Place(messages, i) = Cardinality(Others(i)) /\ Place(messages, n) = Cardinality(Others(n))
  BY DEF Place, Others
<1>. QED  BY <1>4, <1>5, <1>6, <1>7

\* The places of messages do not depend on what comes after them.
LEMMA PlaceOfPrefix ==
  ASSUME NEW messages \in Seq(Messages), NEW s \in Seq(Messages),
         NEW i \in 0 .. Len(messages)
  PROVE  Place(messages \o s, i) = Place(messages, i)
<1>1. /\ Len(messages) \in Nat
      /\ \A k \in 1 .. Len(messages) : (messages \o s)[k] = messages[k]
  BY Positions
<1>2. \A k \in 1 .. i : k \in 1 .. Len(messages)
  BY <1>1
<1>3. {k \in 1 .. i : (messages \o s)[k].kind \notin OwnKinds}
        = {k \in 1 .. i : messages[k].kind \notin OwnKinds}
  BY <1>1, <1>2
<1>. QED  BY <1>3 DEF Place

\* Messages of others, added at the end, take the places that follow.
LEMMA PlaceOfAdded ==
  ASSUME NEW messages \in Seq(Messages), NEW s \in Seq(Messages),
         \A k \in DOMAIN s : s[k].kind \notin OwnKinds,
         NEW i \in 0 .. Len(s)
  PROVE  Place(messages \o s, Len(messages) + i) = Place(messages, Len(messages)) + i
<1>. DEFINE n == Len(messages)
            whole == messages \o s
            before == {k \in 1 .. n : messages[k].kind \notin OwnKinds}
            added == n + 1 .. n + i
<1>1. /\ n \in Nat /\ Len(s) \in Nat /\ DOMAIN s = 1 .. Len(s)
      /\ \A k \in 1 .. n : whole[k] = messages[k]
      /\ \A k \in 1 .. Len(s) : whole[n + k] = s[k]
  BY Positions
<1>2. \A k \in added : whole[k].kind \notin OwnKinds
  <2>. TAKE k \in added
  <2>1. k - n \in 1 .. Len(s) /\ n + (k - n) = k
    BY <1>1
  <2>2. whole[k] = s[k - n]
    BY <1>1, <2>1
  <2>. QED  BY <1>1, <2>1, <2>2
<1>3. /\ 1 .. n + i = (1 .. n) \cup added
      /\ (1 .. n) \cap added = {}
  BY <1>1
<1>. HIDE DEF whole, added, n
<1>4. {k \in 1 .. n + i : whole[k].kind \notin OwnKinds} = before \cup added
  BY <1>1, <1>2, <1>3
<1>5. before \cap added = {}
  BY <1>3
<1>6. IsFiniteSet(before)
  <2>1. IsFiniteSet(1 .. n)
    BY <1>1, FS_Interval
  <2>2. before \in SUBSET (1 .. n)
    OBVIOUS
  <2>. QED  BY <2>1, <2>2, FS_Subset
<1>7. IsFiniteSet(added) /\ Cardinality(added) = i
  <2>1. n + 1 \in Int /\ n + i \in Int
    BY <1>1
  <2>2. IsFiniteSet(n + 1 .. n + i)
        /\ Cardinality(n + 1 .. n + i) = IF n + 1 > n + i THEN 0 ELSE (n + i) - (n + 1) + 1
    BY <2>1, FS_Interval
  <2>3. (IF n + 1 > n + i THEN 0 ELSE (n + i) - (n + 1) + 1) = i
    BY <1>1
  <2>. QED  BY <2>2, <2>3 DEF added
<1>. HIDE DEF before
<1>8. Cardinality(before) \in Nat
  BY <1>6, FS_CardinalityType
<1>9. Cardinality(before \cup added) = Cardinality(before) + Cardinality(added) - Cardinality({})
  BY <1>5, <1>6, <1>7, FS_Union
<1>10. Cardinality(before \cup added) = Cardinality(before) + i
  BY <1>7, <1>8, <1>9, FS_EmptySet
<1>. QED  BY <1>4, <1>10 DEF Place, n, whole, before

\* A message of the loop's own takes no place.
LEMMA PlaceOfOwn ==
  ASSUME NEW messages \in Seq(Messages), NEW m \in Messages, m.kind \in OwnKinds
  PROVE  Place(messages \o <<m>>, Len(messages) + 1) = Place(messages, Len(messages))
<1>1. /\ Len(messages) \in Nat /\ <<m>> \in Seq(Messages) /\ Len(<<m>>) = 1 /\ <<m>>[1] = m
  BY OneMore, LenProperties
<1>2. /\ \A k \in 1 .. Len(messages) : (messages \o <<m>>)[k] = messages[k]
      /\ (messages \o <<m>>)[Len(messages) + 1] = m
  BY <1>1, Positions
<1>3. \A k \in 1 .. Len(messages) + 1 : k \in 1 .. Len(messages) \/ k = Len(messages) + 1
  BY <1>1
<1>4. \A k \in 1 .. Len(messages) : k \in 1 .. Len(messages) + 1
  BY <1>1
<1>5. {k \in 1 .. Len(messages) + 1 : (messages \o <<m>>)[k].kind \notin OwnKinds}
        = {k \in 1 .. Len(messages) : messages[k].kind \notin OwnKinds}
  BY <1>2, <1>3, <1>4
<1>. QED  BY <1>5 DEF Place

\* A conversation without messages of the loop's own is its own record.
LEMMA AgreeWithItself ==
  ASSUME NEW messages \in Seq(Messages),
         \A k \in DOMAIN messages : messages[k].kind \notin OwnKinds
  PROVE  IsWithoutOwn(messages, messages)
<1>1. Len(messages) \in Nat /\ DOMAIN messages = 1 .. Len(messages)
  BY LenProperties
<1>2. ASSUME NEW i \in 0 .. Len(messages) PROVE Place(messages, i) = i
  <2>1. i \in Nat /\ \A k \in 1 .. i : k \in DOMAIN messages
    BY <1>1
  <2>2. {k \in 1 .. i : messages[k].kind \notin OwnKinds} = 1 .. i
    BY <2>1
  <2>3. Cardinality(1 .. i) = i
    BY <2>1, FS_Interval
  <2>. QED  BY <2>2, <2>3 DEF Place
<1>. QED  BY <1>1, <1>2 DEF IsWithoutOwn

\* Recording what is added, if it is not the loop's own, keeps the agreement.
LEMMA AgreeOnAdded ==
  ASSUME NEW recorded \in Seq(Messages), NEW messages \in Seq(Messages),
         IsWithoutOwn(recorded, messages), NEW s \in Seq(Messages),
         \A k \in DOMAIN s : s[k].kind \notin OwnKinds
  PROVE  IsWithoutOwn(recorded \o s, messages \o s)
<1>1. /\ Len(messages) \in Nat /\ Len(s) \in Nat /\ DOMAIN s = 1 .. Len(s)
      /\ DOMAIN messages = 1 .. Len(messages)
      /\ Len(messages \o s) = Len(messages) + Len(s)
      /\ DOMAIN (messages \o s) = 1 .. Len(messages) + Len(s)
      /\ \A i \in 1 .. Len(messages) : (messages \o s)[i] = messages[i]
      /\ \A k \in 1 .. Len(s) : (messages \o s)[Len(messages) + k] = s[k]
      /\ \A i \in 1 .. Len(messages) + Len(s) :
           \/ i \in 1 .. Len(messages)
           \/ \E k \in 1 .. Len(s) : i = Len(messages) + k
  BY Positions
<1>2. /\ Len(recorded) \in Nat
      /\ Len(recorded \o s) = Len(recorded) + Len(s)
      /\ \A i \in 1 .. Len(recorded) : (recorded \o s)[i] = recorded[i]
      /\ \A k \in 1 .. Len(s) : (recorded \o s)[Len(recorded) + k] = s[k]
  BY Positions
<1>3. Len(recorded) = Place(messages, Len(messages))
  BY DEF IsWithoutOwn
<1>4. Len(recorded \o s) = Place(messages \o s, Len(messages \o s))
  <2>1. Len(s) \in 0 .. Len(s)
    BY <1>1
  <2>2. Place(messages \o s, Len(messages) + Len(s)) = Place(messages, Len(messages)) + Len(s)
    BY <2>1, PlaceOfAdded
  <2>. QED  BY <1>1, <1>2, <1>3, <2>2
<1>5. ASSUME NEW i \in 1 .. Len(messages) + Len(s), (messages \o s)[i].kind \notin OwnKinds
      PROVE  (recorded \o s)[Place(messages \o s, i)] = (messages \o s)[i]
  <2>1. CASE i \in 1 .. Len(messages)
    <3>1. /\ messages[i].kind \notin OwnKinds /\ (messages \o s)[i] = messages[i]
          /\ i \in 0 .. Len(messages)
      BY <1>1, <1>5, <2>1
    <3>2. Place(messages \o s, i) = Place(messages, i)
      BY <3>1, PlaceOfPrefix
    <3>3. Place(messages, i) \in 1 .. Len(recorded)
      <4>1. /\ Place(messages, i) \in Nat
            /\ Place(messages, i) <= Place(messages, Len(messages))
            /\ Place(messages, i) >= 1
        BY <1>1, <2>1, <3>1, PlaceType
      <4>. QED  BY <1>2, <1>3, <4>1
    <3>4. recorded[Place(messages, i)] = messages[i]
      BY <1>1, <2>1, <3>1 DEF IsWithoutOwn
    <3>. QED  BY <1>2, <3>1, <3>2, <3>3, <3>4
  <2>2. CASE \E k \in 1 .. Len(s) : i = Len(messages) + k
    <3>1. PICK k \in 1 .. Len(s) : i = Len(messages) + k
      BY <2>2
    <3>2. k \in 0 .. Len(s) /\ (messages \o s)[i] = s[k]
      BY <1>1, <3>1
    <3>3. Place(messages \o s, i) = Len(recorded) + k
      BY <1>3, <3>1, <3>2, PlaceOfAdded
    <3>. QED  BY <1>2, <3>2, <3>3
  <2>. QED  BY <1>1, <1>5, <2>1, <2>2
<1>. QED  BY <1>1, <1>4, <1>5 DEF IsWithoutOwn

\* So does adding a message of the loop's own, which is not recorded.
LEMMA AgreeOnOwn ==
  ASSUME NEW recorded \in Seq(Messages), NEW messages \in Seq(Messages),
         IsWithoutOwn(recorded, messages), NEW m \in Messages, m.kind \in OwnKinds
  PROVE  IsWithoutOwn(recorded, messages \o <<m>>)
<1>1. <<m>> \in Seq(Messages) /\ Len(<<m>>) = 1 /\ <<m>>[1] = m /\ 1 \in 1 .. 1
  BY OneMore
<1>2. /\ Len(messages) \in Nat /\ DOMAIN messages = 1 .. Len(messages)
      /\ Len(messages \o <<m>>) = Len(messages) + 1
      /\ DOMAIN (messages \o <<m>>) = 1 .. Len(messages) + 1
      /\ \A i \in 1 .. Len(messages) : (messages \o <<m>>)[i] = messages[i]
      /\ (messages \o <<m>>)[Len(messages) + 1] = m
  BY <1>1, Positions
<1>3. Len(recorded) = Place(messages \o <<m>>, Len(messages \o <<m>>))
  BY <1>2, PlaceOfOwn DEF IsWithoutOwn
<1>4. ASSUME NEW i \in 1 .. Len(messages) + 1, (messages \o <<m>>)[i].kind \notin OwnKinds
      PROVE  recorded[Place(messages \o <<m>>, i)] = (messages \o <<m>>)[i]
  <2>1. i # Len(messages) + 1
    BY <1>2, <1>4
  <2>2. i \in 1 .. Len(messages) /\ i \in 0 .. Len(messages)
    BY <1>2, <2>1
  <2>3. (messages \o <<m>>)[i] = messages[i] /\ messages[i].kind \notin OwnKinds
    BY <1>2, <1>4, <2>2
  <2>4. Place(messages \o <<m>>, i) = Place(messages, i)
    BY <1>1, <2>2, PlaceOfPrefix
  <2>. QED  BY <1>2, <2>2, <2>3, <2>4 DEF IsWithoutOwn
<1>. QED  BY <1>2, <1>3, <1>4 DEF IsWithoutOwn

\* The invariant: once the engine records the loop's last message, which the
\* loop does not keep, the two differ; and so they do once something is cut.
AgreeInv ==
  pc \notin {"idle", "ending"} /\ used.compactions = 0 /\ ~recovery.collapsed =>
    IsWithoutOwn(transcript, history)

\* As long as nothing is compacted, the transcript is the history without the
\* loop's own messages, at every step and not only where a request is made:
\* the engine records exactly what the loop yields beside what it pushes.
THEOREM ConversationsAgree == Spec => []AgreeInv
<1>1. Init => AgreeInv
  BY DEF Init, AgreeInv
<1>2. TypeOK /\ FirstMessages /\ AgreeInv /\ [Next]_vars => AgreeInv'
  <2>. SUFFICES ASSUME TypeOK, FirstMessages, AgreeInv, [Next]_vars,
                       pc' \notin {"idle", "ending"}, used'.compactions = 0,
                       ~recovery'.collapsed
                PROVE  IsWithoutOwn(transcript, history)'
    BY DEF AgreeInv
  <2>t. transcript \in Seq(Messages) /\ history \in Seq(Messages) /\ used \in Bounds
    BY DEF TypeOK, LoopTyped, EngineTyped
  <2>d. /\ SteerMessages \in Seq(Messages) /\ AgentMessages \in Seq(Messages)
        /\ \A i \in DOMAIN SteerMessages : SteerMessages[i].kind = "steer"
        /\ \A i \in DOMAIN AgentMessages : AgentMessages[i].kind = "system"
    BY DrainedMessages DEF TypeOK, EngineTyped
  <2>a. ASSUME pc \notin {"idle", "ending"}, used.compactions = 0, ~recovery.collapsed,
               NEW s \in Seq(Messages), \A k \in DOMAIN s : s[k].kind \notin OwnKinds,
               transcript' = transcript \o s, history' = history \o s
        PROVE  IsWithoutOwn(transcript, history)'
    <3>1. IsWithoutOwn(transcript \o s, history \o s)
      BY <2>t, <2>a, AgreeOnAdded DEF AgreeInv
    <3>. QED  BY <2>a, <3>1 DEF IsWithoutOwn, Place
  <2>1. CASE Submit
    <3>1. Msg("user", {}) \in Messages /\ Msg("user", {}).kind = "user"
      BY MsgType DEF Kinds, UserKinds, Msg
    <3>2. transcript' = transcript \o <<Msg("user", {})>> /\ history' = transcript'
      BY <2>1, <2>t, <3>1, OneMore DEF Submit
    <3>3. transcript' \in Seq(Messages)
      BY <2>t, <3>1, <3>2, OneMore, ConcatProperties
    <3>4. \A i \in DOMAIN transcript' : transcript'[i].kind \notin OwnKinds
      BY <2>t, <3>1, <3>2, OneMore, OwnStaysOut DEF FirstMessages, OwnKinds
    <3>5. IsWithoutOwn(transcript', transcript')
      BY <3>3, <3>4, AgreeWithItself
    <3>. QED  BY <3>2, <3>5 DEF IsWithoutOwn, Place
  <2>2. CASE FinishSubmit
    BY <2>2 DEF FinishSubmit
  <2>3. CASE Setup
    <3>. DEFINE s == AgentMessages \o SteerMessages
    <3>1. s \in Seq(Messages) /\ \A k \in DOMAIN s : s[k].kind \notin OwnKinds
      BY <2>d, ConcatProperties, OwnStaysOut DEF OwnKinds
    <3>2. /\ transcript' = transcript \o s /\ recovery' = recovery /\ pc = "setup"
          /\ \/ history' = history \o s /\ used' = used
             \/ used' = [used EXCEPT !.compactions = @ + 1]
      BY <2>3 DEF Setup
    <3>. HIDE DEF s
    <3>3. history' = history \o s /\ used' = used
      BY <2>t, <3>2 DEF Bounds
    <3>. QED  BY <2>a, <3>1, <3>2, <3>3
  <2>4. CASE PromptTooLong
    BY <2>4 DEF PromptTooLong, TypeOK, LoopTyped, Recoveries
  <2>5. CASE ResponseArrives
    <3>. DEFINE m == Msg("assistant", attempt.uses)
    <3>1. m \in Messages /\ m.kind = "assistant"
      BY MsgType DEF Kinds, Msg, TypeOK, Attempts, ToolIds
    <3>2. transcript' = transcript \o <<m>> /\ history' = history \o <<m>>
      BY <2>5, <2>t, <3>1, OneMore DEF ResponseArrives
    <3>. HIDE DEF m
    <3>3. <<m>> \in Seq(Messages) /\ \A k \in DOMAIN <<m>> : <<m>>[k].kind \notin OwnKinds
      BY <3>1 DEF OwnKinds
    <3>. QED  BY <2>5, <2>a, <3>2, <3>3 DEF ResponseArrives
  <2>6. CASE IsSteered
    <3>1. \A k \in DOMAIN SteerMessages : SteerMessages[k].kind \notin OwnKinds
      BY <2>d DEF OwnKinds
    <3>. QED  BY <2>6, <2>a, <2>d, <3>1 DEF IsSteered, GoRoundSteered, Answered
  <2>7. ASSUME NEW m \in Messages, Ends(m) PROVE FALSE
    BY <2>7 DEF Ends, EndWith
  <2>8. ASSUME NEW m \in Messages, Continues(m) PROVE IsWithoutOwn(transcript, history)'
    <3>1. transcript' = transcript /\ history' = history \o <<m>>
      BY <2>8, <2>t, OneMore DEF Continues, GoRoundWith, engineVars
    <3>2. IsWithoutOwn(transcript, history)
      BY <2>8 DEF Continues, GoRoundWith, AgreeInv
    <3>3. IsWithoutOwn(transcript, history \o <<m>>)
      BY <2>8, <2>t, <3>2, AgreeOnOwn DEF Continues
    <3>. QED  BY <3>1, <3>3 DEF IsWithoutOwn, Place
  <2>9. ASSUME NEW t \in ToolIds, PushResult(t) PROVE IsWithoutOwn(transcript, history)'
    <3>1. /\ ResultMessages(t) \in Seq(Messages)
          /\ \A i \in DOMAIN ResultMessages(t) : ResultMessages(t)[i].kind \notin OwnKinds
      BY ResultMessagesType DEF ResultMessages, Msg, OwnKinds
    <3>. QED  BY <2>9, <2>a, <3>1 DEF PushResult
  <2>10. CASE Steer \/ AgentFinishes
    <3>1. used'.compactions = used.compactions
      BY <2>10, <2>t DEF Steer, AgentFinishes, Bounds
    <3>. QED
      BY <2>10, <3>1 DEF Steer, AgentFinishes, AgreeInv, IsWithoutOwn, Place, loopVars
  <2>11. CASE SaysNothing
    <3>1. pc \notin {"idle", "ending"} /\ used.compactions = 0 /\ ~recovery.collapsed
      BY <2>11 DEF SaysNothing, Answered
    <3>. QED  BY <2>11, <3>1 DEF SaysNothing, AgreeInv, IsWithoutOwn, Place
  <2>. QED
    BY <2>1, <2>2, <2>3, <2>4, <2>5, <2>6, <2>7, <2>8, <2>9, <2>10, <2>11, StepKinds
<1>. QED  BY <1>1, <1>2, TypeCorrect, ConversationsBegin, PTL DEF Spec

\* Until something is compacted, a request holds what the engine has recorded.
THEOREM LoopSendsTheRecord == Spec => []LoopAndEngineAgree
<1>1. AgreeInv => LoopAndEngineAgree
  BY DEF AgreeInv, LoopAndEngineAgree
<1>. QED  BY <1>1, ConversationsAgree, PTL

-----------------------------------------------------------------------------
(***************************************************************************)
(* The Stop hooks.  A hook that prevents the end is not asked again until  *)
(* a tool turn has ended, and by then a result stands behind its message.  *)
(***************************************************************************)

\* While the tools run there are calls, and only then are any answered.
AnswerInv ==
  /\ pc \in {"tools", "results"} => attempt.uses # {}
  /\ pc \notin {"results", "ending"} => attempt.answered = {}

\* Only a response whose results are being pushed has answered calls: every way
\* round the loop starts from an attempt without any.
THEOREM AnswersBelongToResults == Spec => []AnswerInv
<1>1. Init => AnswerInv
  BY DEF Init, AnswerInv, NewAttempt
<1>2. TypeOK /\ AnswerInv /\ [Next]_vars => AnswerInv'
  <2>. SUFFICES ASSUME TypeOK, AnswerInv, [Next]_vars PROVE AnswerInv'
    OBVIOUS
  <2>n. \A fallback : NewAttempt(fallback).answered = {}
    BY DEF NewAttempt
  <2>1. CASE Submit \/ Steer \/ AgentFinishes
    BY <2>1 DEF Submit, Steer, AgentFinishes, AnswerInv
  <2>2. CASE FinishSubmit
    BY <2>2, <2>n DEF FinishSubmit, AnswerInv
  <2>3. CASE Setup
    BY <2>3 DEF Setup, AnswerInv
  <2>4. CASE PromptTooLong \/ IsSteered
    BY <2>4, <2>n DEF PromptTooLong, IsSteered, GoRoundSteered, GoRound, AnswerInv
  <2>5. CASE ResponseArrives
    <3>1. attempt'.uses = attempt.uses /\ attempt'.answered = attempt.answered
      BY <2>5 DEF ResponseArrives, TypeOK, Attempts
    <3>. QED  BY <2>5, <3>1 DEF ResponseArrives, AnswerInv
  <2>6. ASSUME NEW m \in Messages, Ends(m) PROVE AnswerInv'
    BY <2>6 DEF Ends, EndWith, AnswerInv
  <2>7. ASSUME NEW m \in Messages, Continues(m) PROVE AnswerInv'
    BY <2>7, <2>n DEF Continues, GoRoundWith, GoRound, AnswerInv
  <2>8. ASSUME NEW t \in ToolIds, PushResult(t) PROVE AnswerInv'
    BY <2>8 DEF PushResult, AnswerInv
  <2>9. CASE SaysNothing
    BY <2>9, <2>n DEF SaysNothing, GoRound, AnswerInv
  <2>. QED
    BY <2>1, <2>2, <2>3, <2>4, <2>5, <2>6, <2>7, <2>8, <2>9, StepKinds
<1>. QED  BY <1>1, <1>2, TypeCorrect, PTL DEF Spec

\* Between two hooks' messages stands a result.
HooksApart(messages) ==
  \A i, j \in DOMAIN messages :
    i < j /\ messages[i].kind = "hook" /\ messages[j].kind = "hook" =>
      \E k \in i .. j : messages[k].kind = "tool_result"

\* A result stands behind every hook's message.
HooksFollowed(messages) ==
  \A i \in DOMAIN messages :
    messages[i].kind = "hook" =>
      \E k \in DOMAIN messages : k > i /\ messages[k].kind = "tool_result"

\* Where there is no hook's message, nothing is to be shown.
LEMMA NoHooks ==
  ASSUME NEW messages, \A i \in DOMAIN messages : messages[i].kind # "hook"
  PROVE  HooksApart(messages) /\ HooksFollowed(messages)
BY DEF HooksApart, HooksFollowed

\* Other messages may be added, and a result settles what came before it.
LEMMA OthersAfterHooks ==
  ASSUME NEW messages \in Seq(Messages), NEW s \in Seq(Messages),
         \A k \in DOMAIN s : s[k].kind # "hook"
  PROVE  /\ HooksApart(messages) => HooksApart(messages \o s)
         /\ HooksFollowed(messages) => HooksFollowed(messages \o s)
         /\ s # <<>> /\ s[1].kind = "tool_result" => HooksFollowed(messages \o s)
<1>. DEFINE whole == messages \o s
<1>1. /\ Len(messages) \in Nat /\ Len(s) \in Nat
      /\ DOMAIN messages = 1 .. Len(messages) /\ DOMAIN s = 1 .. Len(s)
      /\ DOMAIN whole = 1 .. Len(messages) + Len(s)
      /\ \A i \in 1 .. Len(messages) : whole[i] = messages[i]
      /\ \A k \in 1 .. Len(s) : whole[Len(messages) + k] = s[k]
      /\ \A i \in 1 .. Len(messages) + Len(s) :
           \/ i \in 1 .. Len(messages)
           \/ \E k \in 1 .. Len(s) : i = Len(messages) + k
  BY Positions
<1>. HIDE DEF whole
<1>2. \A i \in DOMAIN messages : i \in DOMAIN whole /\ whole[i] = messages[i]
  BY <1>1
<1>3. ASSUME NEW i \in DOMAIN whole, whole[i].kind = "hook"
      PROVE  i \in DOMAIN messages /\ messages[i].kind = "hook"
  <2>1. \A k \in 1 .. Len(s) : whole[Len(messages) + k].kind # "hook"
    BY <1>1
  <2>2. i \in 1 .. Len(messages)
    BY <1>1, <1>3, <2>1
  <2>. QED  BY <1>1, <1>3, <2>2
<1>4. ASSUME HooksApart(messages) PROVE HooksApart(whole)
  <2>. SUFFICES ASSUME NEW i \in DOMAIN whole, NEW j \in DOMAIN whole, i < j,
                       whole[i].kind = "hook", whole[j].kind = "hook"
                PROVE  \E k \in i .. j : whole[k].kind = "tool_result"
    BY DEF HooksApart
  <2>1. PICK k \in i .. j : messages[k].kind = "tool_result"
    BY <1>3, <1>4 DEF HooksApart
  <2>2. k \in DOMAIN messages
    BY <1>1, <1>3
  <2>. QED  BY <1>2, <2>1, <2>2
<1>5. ASSUME HooksFollowed(messages) PROVE HooksFollowed(whole)
  BY <1>2, <1>3, <1>5 DEF HooksFollowed
<1>6. ASSUME s # <<>>, s[1].kind = "tool_result" PROVE HooksFollowed(whole)
  <2>1. Len(s) >= 1
    BY <1>1, <1>6, EmptySeq
  <2>2. /\ Len(messages) + 1 \in DOMAIN whole
        /\ whole[Len(messages) + 1].kind = "tool_result"
        /\ \A i \in DOMAIN messages : Len(messages) + 1 > i
    BY <1>1, <1>6, <2>1
  <2>. QED  BY <1>3, <2>2 DEF HooksFollowed
<1>. QED  BY <1>4, <1>5, <1>6 DEF whole

\* A hook may speak when a result stands behind every hook's message.
LEMMA HookSpeaks ==
  ASSUME NEW messages \in Seq(Messages), NEW m \in Messages,
         HooksApart(messages), HooksFollowed(messages)
  PROVE  HooksApart(messages \o <<m>>)
<1>. DEFINE whole == messages \o <<m>>
<1>1. <<m>> \in Seq(Messages) /\ Len(<<m>>) = 1
  BY OneMore
<1>2. /\ Len(messages) \in Nat /\ DOMAIN messages = 1 .. Len(messages)
      /\ DOMAIN whole = 1 .. Len(messages) + 1
      /\ \A i \in 1 .. Len(messages) : whole[i] = messages[i]
  BY <1>1, Positions
<1>. HIDE DEF whole
<1>. SUFFICES ASSUME NEW i \in DOMAIN whole, NEW j \in DOMAIN whole, i < j,
                     whole[i].kind = "hook", whole[j].kind = "hook"
              PROVE  \E k \in i .. j : whole[k].kind = "tool_result"
  BY DEF HooksApart, whole
<1>3. i \in DOMAIN messages /\ messages[i].kind = "hook"
  BY <1>2
<1>4. CASE j \in DOMAIN messages
  <2>1. PICK k \in i .. j : messages[k].kind = "tool_result"
    BY <1>2, <1>3, <1>4 DEF HooksApart
  <2>. QED  BY <1>2, <1>4, <2>1
<1>5. CASE j \notin DOMAIN messages
  <2>1. PICK k \in DOMAIN messages : k > i /\ messages[k].kind = "tool_result"
    BY <1>3 DEF HooksFollowed
  <2>2. k \in i .. j
    BY <1>2, <1>5, <2>1
  <2>. QED  BY <1>2, <2>1, <2>2
<1>. QED  BY <1>4, <1>5

\* A cut that keeps no hook's message in front keeps what stands between.
LEMMA HooksCut ==
  ASSUME NEW messages \in Seq(Messages), NEW cut \in Cuts(messages),
         messages[1].kind # "hook"
  PROVE  /\ HooksApart(messages) => HooksApart(cut)
         /\ HooksFollowed(messages) => HooksFollowed(cut)
<1>1. PICK c \in 2 .. Len(messages) :
        /\ cut \in Seq(Messages) /\ Len(cut) = Len(messages) - c + 3
        /\ cut[1] = messages[1] /\ cut[2] = Notice
        /\ \A k \in 3 .. Len(cut) : cut[k] = messages[k + c - 3]
  BY CutProperties
<1>2. /\ Len(messages) \in Nat /\ DOMAIN messages = 1 .. Len(messages)
      /\ DOMAIN cut = 1 .. Len(cut) /\ Len(cut) \in Nat
  BY <1>1, LenProperties
<1>3. ASSUME NEW i \in DOMAIN cut, cut[i].kind = "hook"
      PROVE  i \in 3 .. Len(cut) /\ i + c - 3 \in DOMAIN messages
             /\ messages[i + c - 3].kind = "hook"
  <2>1. Notice.kind # "hook"
    BY DEF Notice, Msg
  <2>2. i # 1 /\ i # 2
    BY <1>1, <1>3, <2>1
  <2>3. i \in 3 .. Len(cut) /\ i + c - 3 \in DOMAIN messages
    BY <1>1, <1>2, <2>2
  <2>. QED  BY <1>1, <1>3, <2>3
<1>4. ASSUME NEW i \in 3 .. Len(cut), NEW k \in DOMAIN messages, k >= i + c - 3
      PROVE  k - c + 3 \in 3 .. Len(cut) /\ cut[k - c + 3] = messages[k]
  <2>1. k - c + 3 \in 3 .. Len(cut) /\ (k - c + 3) + c - 3 = k
    BY <1>1, <1>2, <1>4
  <2>. QED  BY <1>1, <2>1
<1>5. ASSUME HooksApart(messages) PROVE HooksApart(cut)
  <2>. SUFFICES ASSUME NEW i \in DOMAIN cut, NEW j \in DOMAIN cut, i < j,
                       cut[i].kind = "hook", cut[j].kind = "hook"
                PROVE  \E k \in i .. j : cut[k].kind = "tool_result"
    BY DEF HooksApart
  <2>1. /\ i \in 3 .. Len(cut) /\ j \in 3 .. Len(cut)
        /\ i + c - 3 \in DOMAIN messages /\ j + c - 3 \in DOMAIN messages
        /\ i + c - 3 < j + c - 3
        /\ messages[i + c - 3].kind = "hook" /\ messages[j + c - 3].kind = "hook"
    BY <1>3
  <2>2. PICK k \in i + c - 3 .. j + c - 3 : messages[k].kind = "tool_result"
    BY <1>5, <2>1 DEF HooksApart
  <2>3. k \in DOMAIN messages /\ k >= i + c - 3 /\ k - c + 3 \in i .. j
    BY <1>2, <2>1
  <2>. QED  BY <1>4, <2>1, <2>2, <2>3
<1>6. ASSUME HooksFollowed(messages) PROVE HooksFollowed(cut)
  <2>. SUFFICES ASSUME NEW i \in DOMAIN cut, cut[i].kind = "hook"
                PROVE  \E k \in DOMAIN cut : k > i /\ cut[k].kind = "tool_result"
    BY DEF HooksFollowed
  <2>1. PICK k \in DOMAIN messages : k > i + c - 3 /\ messages[k].kind = "tool_result"
    BY <1>3, <1>6 DEF HooksFollowed
  <2>2. k >= i + c - 3 /\ k - c + 3 > i
    BY <1>2, <1>3, <2>1
  <2>3. k - c + 3 \in 3 .. Len(cut) /\ cut[k - c + 3] = messages[k]
    BY <1>3, <1>4, <2>2
  <2>. QED  BY <1>2, <2>1, <2>2, <2>3
<1>. QED  BY <1>5, <1>6

\* The invariant.  The flag of the recovery says that a hook has spoken since
\* the last tool turn; it falls where a turn ends, and by then, as soon as one
\* call of the turn is answered, a result stands behind every hook's message.
HookInv ==
  /\ HooksApart(history)
  /\ ~recovery.stopHookActive => HooksFollowed(history)
  /\ pc = "results" /\ attempt.answered # {} => HooksFollowed(history)

\* A step that adds no hook's message and leaves the flag keeps it.
LEMMA OthersKeepHooks ==
  ASSUME TypeOK, HookInv, NEW s \in Seq(Messages), history' = history \o s,
         \A k \in DOMAIN s : s[k].kind # "hook",
         recovery'.stopHookActive = recovery.stopHookActive, pc' # "results"
  PROVE  HookInv'
<1>1. history \in Seq(Messages)
  BY DEF TypeOK, LoopTyped
<1>2. /\ HooksApart(history')
      /\ HooksFollowed(history) => HooksFollowed(history')
  BY <1>1, OthersAfterHooks DEF HookInv
<1>. QED  BY <1>2 DEF HookInv, HooksApart, HooksFollowed

\* Between two messages of a Stop hook stands a result, and where the hooks may
\* be asked again (stop_hook_active is reset) one stands behind the last.
THEOREM HooksCorrect == Spec => []HookInv
<1>1. Init => HookInv
  BY DEF Init, HookInv, HooksApart, HooksFollowed
<1>2. TypeOK /\ FirstMessages /\ AnswerInv /\ HookInv /\ [Next]_vars => HookInv'
  <2>. SUFFICES ASSUME TypeOK, FirstMessages, AnswerInv, HookInv, [Next]_vars
                PROVE  HookInv'
    OBVIOUS
  <2>t. transcript \in Seq(Messages) /\ history \in Seq(Messages)
    BY DEF TypeOK, LoopTyped, EngineTyped
  <2>d. /\ SteerMessages \in Seq(Messages) /\ AgentMessages \in Seq(Messages)
        /\ \A i \in DOMAIN SteerMessages : SteerMessages[i].kind = "steer"
        /\ \A i \in DOMAIN AgentMessages : AgentMessages[i].kind = "system"
    BY DrainedMessages DEF TypeOK, EngineTyped
  <2>s. ASSUME UNCHANGED history, recovery'.stopHookActive = recovery.stopHookActive,
               pc' # "results"
        PROVE  HookInv'
    BY <2>s DEF HookInv, HooksApart, HooksFollowed
  <2>1. CASE Submit
    <3>1. Msg("user", {}) \in Messages /\ Msg("user", {}).kind = "user"
      BY MsgType DEF Kinds, UserKinds, Msg
    <3>2. history' = transcript \o <<Msg("user", {})>>
      BY <2>1, <2>t, <3>1, OneMore DEF Submit
    <3>3. \A i \in DOMAIN history' : history'[i].kind \notin OwnKinds
      BY <2>t, <3>1, <3>2, OneMore, OwnStaysOut DEF FirstMessages, OwnKinds
    <3>4. HooksApart(history') /\ HooksFollowed(history')
      BY <3>3, NoHooks DEF OwnKinds
    <3>. QED  BY <3>4 DEF HookInv, HooksApart, HooksFollowed
  <2>2. CASE FinishSubmit
    <3>1. \A i \in DOMAIN history' : history'[i].kind # "hook"
      BY <2>2 DEF FinishSubmit
    <3>2. HooksApart(history') /\ HooksFollowed(history')
      BY <3>1, NoHooks
    <3>. QED  BY <3>2 DEF HookInv, HooksApart, HooksFollowed
  <2>3. CASE Setup
    <3>. DEFINE s == AgentMessages \o SteerMessages
                whole == history \o s
    <3>1. s \in Seq(Messages) /\ \A k \in DOMAIN s : s[k].kind \notin OwnKinds
      BY <2>d, ConcatProperties, OwnStaysOut DEF OwnKinds
    <3>2. /\ pc' # "results" /\ pc = "setup" /\ recovery' = recovery
          /\ history' = whole \/ history' \in Cuts(whole) \/ history' = Summary
      BY <2>3 DEF Setup
    <3>. HIDE DEF s
    <3>3. /\ whole \in Seq(Messages) /\ whole[1] = history[1]
          /\ HooksApart(whole)
          /\ HooksFollowed(history) => HooksFollowed(whole)
      <4>1. \A k \in DOMAIN s : s[k].kind # "hook"
        BY <3>1 DEF OwnKinds
      <4>2. whole[1] = history[1]
        BY <2>t, <3>1, <3>2, FirstStays DEF FirstMessages
      <4>. QED  BY <2>t, <3>1, <4>1, <4>2, OthersAfterHooks, ConcatProperties DEF HookInv
    <3>. HIDE DEF whole
    <3>4. CASE history' = whole
      BY <3>2, <3>3, <3>4 DEF HookInv, HooksApart, HooksFollowed
    <3>5. CASE history' \in Cuts(whole)
      <4>1. whole[1].kind # "hook"
        BY <3>2, <3>3 DEF FirstMessages
      <4>2. HooksApart(history') /\ (HooksFollowed(history) => HooksFollowed(history'))
        BY <3>3, <3>5, <4>1, HooksCut
      <4>. QED  BY <3>2, <4>2 DEF HookInv, HooksApart, HooksFollowed
    <3>6. CASE history' = Summary
      <4>1. \A i \in DOMAIN history' : history'[i].kind # "hook"
        BY <3>6 DEF Summary, Notice, Msg
      <4>2. HooksApart(history') /\ HooksFollowed(history')
        BY <4>1, NoHooks
      <4>. QED  BY <4>2 DEF HookInv, HooksApart, HooksFollowed
    <3>. QED  BY <3>2, <3>4, <3>5, <3>6
  <2>4. CASE PromptTooLong
    <3>1. recovery'.stopHookActive = recovery.stopHookActive
      BY <2>4 DEF PromptTooLong, TypeOK, LoopTyped, Recoveries
    <3>2. /\ pc' # "results" /\ pc = "request"
          /\ history' \in Cuts(history) \/ history' = history
      BY <2>4 DEF PromptTooLong, GoRound
    <3>3. CASE history' \in Cuts(history)
      <4>1. history[1].kind # "hook"
        BY <3>2 DEF FirstMessages
      <4>2. HooksApart(history') /\ (HooksFollowed(history) => HooksFollowed(history'))
        BY <2>t, <3>3, <4>1, HooksCut DEF HookInv
      <4>. QED  BY <3>1, <3>2, <4>2 DEF HookInv, HooksApart, HooksFollowed
    <3>. QED  BY <2>s, <3>1, <3>2, <3>3
  <2>5. CASE ResponseArrives
    <3>. DEFINE m == Msg("assistant", attempt.uses)
    <3>1. m \in Messages /\ m.kind = "assistant"
      BY MsgType DEF Kinds, Msg, TypeOK, Attempts, ToolIds
    <3>2. history' = history \o <<m>> /\ recovery' = recovery /\ pc' # "results"
      BY <2>5, <2>t, <3>1, OneMore DEF ResponseArrives
    <3>. HIDE DEF m
    <3>3. <<m>> \in Seq(Messages) /\ \A k \in DOMAIN <<m>> : <<m>>[k].kind # "hook"
      BY <3>1
    <3>. QED  BY <3>2, <3>3, OthersKeepHooks
  <2>6. CASE IsSteered
    <3>1. \A k \in DOMAIN SteerMessages : SteerMessages[k].kind # "hook"
      BY <2>d
    <3>. QED  BY <2>6, <2>d, <3>1, OthersKeepHooks DEF IsSteered, GoRoundSteered, GoRound
  <2>7. ASSUME NEW m \in Messages, Ends(m) PROVE HookInv'
    BY <2>7, <2>s DEF Ends, EndWith
  <2>8. ASSUME NEW m \in Messages, Continues(m) PROVE HookInv'
    <3>1. history' = history \o <<m>> /\ pc' = "setup"
      BY <2>8, <2>t, OneMore DEF Continues, GoRoundWith, GoRound
    <3>2. CASE m.kind = "hook"
      <4>1. HooksApart(history')
        BY <2>8, <2>t, <3>1, <3>2, HookSpeaks DEF Continues, HookInv
      <4>. QED  BY <2>8, <3>1, <3>2, <4>1 DEF Continues, HookInv, HooksApart
    <3>3. CASE m.kind # "hook"
      <4>1. <<m>> \in Seq(Messages) /\ \A k \in DOMAIN <<m>> : <<m>>[k].kind # "hook"
        BY <3>3
      <4>. QED  BY <2>8, <3>1, <3>3, <4>1, OthersKeepHooks DEF Continues
    <3>. QED  BY <3>2, <3>3
  <2>9. ASSUME NEW t \in ToolIds, PushResult(t) PROVE HookInv'
    <3>1. /\ ResultMessages(t) \in Seq(Messages) /\ ResultMessages(t) # <<>>
          /\ ResultMessages(t)[1].kind = "tool_result"
          /\ \A i \in DOMAIN ResultMessages(t) : ResultMessages(t)[i].kind # "hook"
      BY ResultMessagesType DEF ResultMessages, Msg
    <3>2. HooksApart(history') /\ HooksFollowed(history')
      BY <2>9, <2>t, <3>1, OthersAfterHooks DEF PushResult, HookInv
    <3>. QED  BY <3>2 DEF HookInv, HooksApart, HooksFollowed
  <2>10. CASE Steer \/ AgentFinishes
    BY <2>10 DEF Steer, AgentFinishes, HookInv, HooksApart, HooksFollowed, loopVars
  <2>11. CASE SaysNothing
    <3>1. /\ HooksApart(history) /\ history' = history
          /\ pc' = "results" /\ attempt'.answered # {} =>
               pc = "results" /\ attempt.answered # {}
      BY <2>11 DEF SaysNothing, GoRound, HookInv, AnswerInv
    <3>2. \/ recovery'.stopHookActive = recovery.stopHookActive
          \/ pc = "results" /\ attempt.answered # {}
      BY <2>11 DEF SaysNothing, Answered, AnswerInv
    <3>. QED  BY <3>1, <3>2 DEF HookInv, HooksApart, HooksFollowed
  <2>. QED
    BY <2>1, <2>2, <2>3, <2>4, <2>5, <2>6, <2>7, <2>8, <2>9, <2>10, <2>11, StepKinds
<1>. QED  BY <1>1, <1>2, TypeCorrect, ConversationsBegin, AnswersBelongToResults, PTL DEF Spec

\* A hook that always prevents the end cannot keep the loop going by itself.
THEOREM StopHooksDoNotLoop == Spec => []StopHooksCannotLoop
<1>1. HookInv => StopHooksCannotLoop
  BY DEF HookInv, HooksApart, StopHooksCannotLoop
<1>. QED  BY <1>1, HooksCorrect, PTL

-----------------------------------------------------------------------------
(***************************************************************************)
(* The tool calls of a conversation.  The calls of a response are answered *)
(* before the loop goes round; what an earlier submit left unanswered      *)
(* carries lower numbers, since calls are numbered as they come.           *)
(***************************************************************************)

\* A call is unanswered when no result of it stands behind it.
LEMMA UnansweredCall ==
  ASSUME NEW messages, NEW t
  PROVE  t \in UnansweredCalls(messages) <=>
           \E i \in DOMAIN messages :
             /\ messages[i].kind = "assistant" /\ t \in messages[i].ids
             /\ \A j \in i + 1 .. Len(messages) :
                  messages[j].kind = "tool_result" => t \notin messages[j].ids
<1>1. \A j : t \in Results(messages, j) <=>
               messages[j].kind = "tool_result" /\ t \in messages[j].ids
  BY DEF Results
<1>2. \A i : t \in Calls(messages, i) <=>
               messages[i].kind = "assistant" /\ t \in messages[i].ids
  BY DEF Calls
<1>3. \A i : t \in UNION {Results(messages, j) : j \in i + 1 .. Len(messages)} <=>
               \E j \in i + 1 .. Len(messages) : t \in Results(messages, j)
  OBVIOUS
<1>4. t \in UnansweredCalls(messages) <=>
        \E i \in DOMAIN messages :
          /\ t \in Calls(messages, i)
          /\ t \notin UNION {Results(messages, j) : j \in i + 1 .. Len(messages)}
  BY DEF UnansweredCalls
<1>. QED  BY <1>1, <1>2, <1>3, <1>4

\* Messages that are added answer calls, or make them.
LEMMA CallsAdded ==
  ASSUME NEW messages \in Seq(Messages), NEW s \in Seq(Messages),
         NEW t \in UnansweredCalls(messages \o s)
  PROVE  \/ /\ t \in UnansweredCalls(messages)
            /\ \A k \in DOMAIN s : s[k].kind = "tool_result" => t \notin s[k].ids
         \/ \E k \in DOMAIN s : s[k].kind = "assistant" /\ t \in s[k].ids
<1>. DEFINE whole == messages \o s
<1>1. /\ Len(messages) \in Nat /\ Len(s) \in Nat
      /\ DOMAIN messages = 1 .. Len(messages) /\ DOMAIN s = 1 .. Len(s)
      /\ DOMAIN whole = 1 .. Len(messages) + Len(s)
      /\ Len(whole) = Len(messages) + Len(s)
      /\ \A i \in 1 .. Len(messages) : whole[i] = messages[i]
      /\ \A k \in 1 .. Len(s) : whole[Len(messages) + k] = s[k]
      /\ \A i \in 1 .. Len(messages) + Len(s) :
           \/ i \in 1 .. Len(messages)
           \/ \E k \in 1 .. Len(s) : i = Len(messages) + k
  BY Positions
<1>2. PICK i \in DOMAIN whole :
        /\ whole[i].kind = "assistant" /\ t \in whole[i].ids
        /\ \A j \in i + 1 .. Len(whole) :
             whole[j].kind = "tool_result" => t \notin whole[j].ids
  BY UnansweredCall
<1>. HIDE DEF whole
<1>3. CASE i \in 1 .. Len(messages)
  <2>1. messages[i].kind = "assistant" /\ t \in messages[i].ids
    BY <1>1, <1>2, <1>3
  <2>2. \A j \in i + 1 .. Len(messages) :
          messages[j].kind = "tool_result" => t \notin messages[j].ids
    <3>. TAKE j \in i + 1 .. Len(messages)
    <3>1. j \in 1 .. Len(messages) /\ j \in i + 1 .. Len(whole)
      BY <1>1, <1>3
    <3>. QED  BY <1>1, <1>2, <3>1
  <2>3. \A k \in DOMAIN s : s[k].kind = "tool_result" => t \notin s[k].ids
    <3>. TAKE k \in DOMAIN s
    <3>1. Len(messages) + k \in i + 1 .. Len(whole)
      BY <1>1, <1>3
    <3>. QED  BY <1>1, <1>2, <3>1
  <2>. QED  BY <1>1, <1>3, <2>1, <2>2, <2>3, UnansweredCall
<1>4. CASE \E k \in 1 .. Len(s) : i = Len(messages) + k
  <2>1. PICK k \in 1 .. Len(s) : i = Len(messages) + k
    BY <1>4
  <2>2. s[k].kind = "assistant" /\ t \in s[k].ids
    BY <1>1, <1>2, <2>1
  <2>. QED  BY <1>1, <2>2
<1>. QED  BY <1>1, <1>3, <1>4

\* A cut that keeps no call in front leaves no call without its result.
LEMMA CallsCut ==
  ASSUME NEW messages \in Seq(Messages), NEW cut \in Cuts(messages),
         messages[1].kind # "assistant"
  PROVE  UnansweredCalls(cut) \subseteq UnansweredCalls(messages)
<1>1. PICK c \in 2 .. Len(messages) :
        /\ cut \in Seq(Messages) /\ Len(cut) = Len(messages) - c + 3
        /\ cut[1] = messages[1] /\ cut[2] = Notice
        /\ \A k \in 3 .. Len(cut) : cut[k] = messages[k + c - 3]
  BY CutProperties
<1>2. /\ Len(messages) \in Nat /\ DOMAIN messages = 1 .. Len(messages)
      /\ DOMAIN cut = 1 .. Len(cut) /\ Len(cut) \in Nat
  BY <1>1, LenProperties
<1>. SUFFICES ASSUME NEW t \in UnansweredCalls(cut)
              PROVE  t \in UnansweredCalls(messages)
  OBVIOUS
<1>3. PICK i \in DOMAIN cut :
        /\ cut[i].kind = "assistant" /\ t \in cut[i].ids
        /\ \A j \in i + 1 .. Len(cut) :
             cut[j].kind = "tool_result" => t \notin cut[j].ids
  BY UnansweredCall
<1>4. i \in 3 .. Len(cut) /\ i + c - 3 \in DOMAIN messages
  <2>1. Notice.kind # "assistant"
    BY DEF Notice, Msg
  <2>2. i # 1 /\ i # 2
    BY <1>1, <1>3, <2>1
  <2>. QED  BY <1>1, <1>2, <2>2
<1>5. messages[i + c - 3].kind = "assistant" /\ t \in messages[i + c - 3].ids
  BY <1>1, <1>3, <1>4
<1>6. \A j \in (i + c - 3) + 1 .. Len(messages) :
        messages[j].kind = "tool_result" => t \notin messages[j].ids
  <2>. TAKE j \in (i + c - 3) + 1 .. Len(messages)
  <2>1. /\ j - c + 3 \in i + 1 .. Len(cut) /\ j - c + 3 \in 3 .. Len(cut)
        /\ (j - c + 3) + c - 3 = j
    BY <1>1, <1>2, <1>4
  <2>. QED  BY <1>1, <1>3, <2>1
<1>. QED  BY <1>4, <1>5, <1>6, UnansweredCall

\* The invariant: an unanswered call is of an earlier submit, or of the
\* response whose tools are running or being answered.
CallInv ==
  /\ pc # "ending" =>
       \A t \in UnansweredCalls(history) :
         \/ t < firstTool
         \/ pc \in {"tools", "results"} /\ t \in attempt.uses \ attempt.answered
  /\ \A i \in DOMAIN transcript :
       transcript[i].kind = "assistant" => \A t \in transcript[i].ids : t <= used.tools

\* Recording a response, or messages without calls, keeps its second part.
LEMMA CallsRecorded ==
  ASSUME TypeOK, CallInv, NEW s \in Seq(Messages), transcript' = transcript \o s,
         \A k \in DOMAIN s : s[k].kind = "assistant" => \A t \in s[k].ids : t <= used.tools,
         used'.tools = used.tools
  PROVE  \A i \in DOMAIN transcript' :
           transcript'[i].kind = "assistant" =>
             \A t \in transcript'[i].ids : t <= used'.tools
<1>1. transcript \in Seq(Messages)
  BY DEF TypeOK, EngineTyped
<1>. SUFFICES ASSUME NEW i \in DOMAIN transcript', transcript'[i].kind = "assistant",
                     NEW t \in transcript'[i].ids
              PROVE  t <= used.tools
  OBVIOUS
<1>2. /\ DOMAIN transcript = 1 .. Len(transcript) /\ DOMAIN s = 1 .. Len(s)
      /\ \A j \in 1 .. Len(transcript) : transcript'[j] = transcript[j]
      /\ \A k \in 1 .. Len(s) : transcript'[Len(transcript) + k] = s[k]
      /\ \/ i \in 1 .. Len(transcript)
         \/ \E k \in 1 .. Len(s) : i = Len(transcript) + k
  BY <1>1, Positions
<1>. QED  BY <1>2 DEF CallInv

\* In every state reached, the only calls of this submit without a result in the
\* history are those of the response whose results are being pushed, or which
\* an ending query leaves behind.
THEOREM CallsCorrect == Spec => []CallInv
<1>1. Init => CallInv
  <2>. SUFFICES ASSUME Init PROVE CallInv
    OBVIOUS
  <2>1. \A t : t \notin UnansweredCalls(history)
    BY UnansweredCall DEF Init
  <2>. QED  BY <2>1 DEF Init, CallInv
<1>2. TypeOK /\ TypeOK' /\ FirstMessages /\ AnswerInv /\ ToolInv /\ CallInv /\ [Next]_vars
        => CallInv'
  <2>. SUFFICES ASSUME TypeOK, TypeOK', FirstMessages, AnswerInv, ToolInv, CallInv,
                       [Next]_vars
                PROVE  CallInv'
    OBVIOUS
  <2>t. /\ transcript \in Seq(Messages) /\ history \in Seq(Messages) /\ used \in Bounds
        /\ used.tools \in Nat /\ firstTool \in Nat
    BY DEF TypeOK, LoopTyped, EngineTyped, Bounds
  <2>u. \A t \in attempt.uses : t <= used.tools
    BY DEF ToolInv, StartedAreSafe
  <2>d. /\ SteerMessages \in Seq(Messages) /\ AgentMessages \in Seq(Messages)
        /\ \A i \in DOMAIN SteerMessages : SteerMessages[i].kind = "steer"
        /\ \A i \in DOMAIN AgentMessages : AgentMessages[i].kind = "system"
    BY DrainedMessages DEF TypeOK, EngineTyped
  <2>. DEFINE Open(messages) ==
                \A t \in UnansweredCalls(messages) : t < firstTool
              Recorded ==
                \A i \in DOMAIN transcript :
                  transcript[i].kind = "assistant" =>
                    \A t \in transcript[i].ids : t <= used.tools
  <2>a. ASSUME NEW s \in Seq(Messages), \A k \in DOMAIN s : s[k].kind # "assistant"
        PROVE  \A t \in UnansweredCalls(history \o s) :
                 /\ t \in UnansweredCalls(history)
                 /\ \A k \in DOMAIN s : s[k].kind = "tool_result" => t \notin s[k].ids
    BY <2>t, <2>a, CallsAdded
  <2>o. pc \notin {"tools", "results", "ending"} \/ Answered => Open(history)
    BY DEF CallInv, Answered
  <2>n. ASSUME Open(history'), firstTool' = firstTool, Recorded' PROVE CallInv'
    BY <2>n DEF CallInv
  <2>r. ASSUME transcript' = transcript, used'.tools >= used.tools, used'.tools \in Nat
        PROVE  Recorded'
    <3>. SUFFICES ASSUME NEW i \in DOMAIN transcript, transcript[i].kind = "assistant",
                         NEW t \in transcript[i].ids
                  PROVE  t <= used'.tools
      BY <2>r
    <3>1. transcript[i] \in Messages
      BY <2>t, LenProperties
    <3>. QED  BY <2>t, <2>r, <3>1 DEF CallInv, Messages
  <2>w. used'.tools \in Nat
    BY DEF TypeOK, Bounds
  <2>. HIDE DEF Open, Recorded
  <2>1. CASE Submit
    <3>. DEFINE m == Msg("user", {})
    <3>1. m \in Messages /\ m.kind = "user"
      BY MsgType DEF Kinds, UserKinds, Msg
    <3>2. /\ transcript' = transcript \o <<m>> /\ history' = transcript'
          /\ firstTool' = used.tools + 1
      BY <2>1, <2>t, <3>1, OneMore DEF Submit
    <3>. HIDE DEF m
    <3>3. <<m>> \in Seq(Messages) /\ \A k \in DOMAIN <<m>> : <<m>>[k].kind = "user"
      BY <3>1
    <3>4. used'.tools = used.tools
      BY <2>1, <2>t DEF Submit, Bounds
    <3>5. Recorded'
      BY <3>2, <3>3, <3>4, CallsRecorded DEF Recorded
    <3>6. ASSUME NEW t \in UnansweredCalls(history') PROVE t < firstTool'
      <4>1. t \in UnansweredCalls(transcript)
        BY <2>t, <3>2, <3>3, <3>6, CallsAdded
      <4>2. PICK i \in DOMAIN transcript :
              transcript[i].kind = "assistant" /\ t \in transcript[i].ids
        BY <4>1, UnansweredCall
      <4>3. transcript[i] \in Messages
        BY <2>t, LenProperties
      <4>4. t \in Nat /\ t <= used.tools
        BY <4>2, <4>3 DEF CallInv, Messages
      <4>. QED  BY <2>t, <3>2, <4>4
    <3>. QED  BY <3>5, <3>6 DEF CallInv, Recorded
  <2>2. CASE FinishSubmit
    <3>1. \A t : t \notin UnansweredCalls(history')
      BY <2>2, UnansweredCall DEF FinishSubmit
    <3>2. Recorded'
      BY <2>2, <2>r, <2>t DEF FinishSubmit
    <3>. QED  BY <3>1, <3>2 DEF CallInv, Recorded
  <2>3. CASE Setup
    <3>. DEFINE s == AgentMessages \o SteerMessages
                whole == history \o s
    <3>1. s \in Seq(Messages) /\ \A k \in DOMAIN s : s[k].kind # "assistant"
      <4>1. /\ s \in Seq(Messages) /\ DOMAIN s = 1 .. Len(AgentMessages) + Len(SteerMessages)
            /\ DOMAIN AgentMessages = 1 .. Len(AgentMessages)
            /\ DOMAIN SteerMessages = 1 .. Len(SteerMessages)
            /\ \A i \in 1 .. Len(AgentMessages) : s[i] = AgentMessages[i]
            /\ \A k \in 1 .. Len(SteerMessages) :
                 s[Len(AgentMessages) + k] = SteerMessages[k]
            /\ \A i \in 1 .. Len(AgentMessages) + Len(SteerMessages) :
                 \/ i \in 1 .. Len(AgentMessages)
                 \/ \E k \in 1 .. Len(SteerMessages) : i = Len(AgentMessages) + k
        BY <2>d, Positions
      <4>. HIDE DEF s
      <4>2. ASSUME NEW k \in DOMAIN s PROVE s[k].kind \in {"system", "steer"}
        <5>1. CASE k \in 1 .. Len(AgentMessages)
          BY <2>d, <4>1, <5>1
        <5>2. CASE \E j \in 1 .. Len(SteerMessages) : k = Len(AgentMessages) + j
          <6>1. PICK j \in DOMAIN SteerMessages : k = Len(AgentMessages) + j
            BY <4>1, <5>2
          <6>2. s[k] = SteerMessages[j]
            BY <4>1, <6>1
          <6>. QED  BY <2>d, <6>2
        <5>. QED  BY <4>1, <5>1, <5>2
      <4>. QED  BY <4>1, <4>2
    <3>2. /\ transcript' = transcript \o s /\ pc = "setup" /\ firstTool' = firstTool
          /\ history' = whole \/ history' \in Cuts(whole) \/ history' = Summary
          /\ used'.tools = used.tools
      BY <2>3, <2>t DEF Setup, Bounds
    <3>. HIDE DEF s
    <3>3. Recorded'
      BY <3>1, <3>2, CallsRecorded DEF Recorded
    <3>4. Open(whole)
      BY <2>a, <2>o, <3>1, <3>2 DEF Open
    <3>5. whole \in Seq(Messages) /\ whole[1].kind # "assistant"
      BY <2>t, <3>1, <3>2, ConcatProperties, FirstStays DEF FirstMessages
    <3>. HIDE DEF whole
    <3>6. Open(history')
      <4>1. CASE history' = Summary
        <5>1. \A t : t \notin UnansweredCalls(history')
          BY <4>1, SummaryProperties, UnansweredCall, LenProperties
        <5>. QED  BY <5>1 DEF Open
      <4>2. CASE history' \in Cuts(whole)
        BY <3>4, <3>5, <4>2, CallsCut DEF Open
      <4>. QED  BY <3>2, <3>4, <4>1, <4>2
    <3>. QED  BY <2>n, <3>2, <3>3, <3>6
  <2>4. CASE PromptTooLong
    <3>1. /\ transcript' = transcript /\ firstTool' = firstTool /\ used' = used
          /\ pc = "request" /\ (history' \in Cuts(history) \/ history' = history)
      BY <2>4 DEF PromptTooLong, engineVars
    <3>2. Open(history')
      <4>1. history[1].kind # "assistant"
        BY <3>1 DEF FirstMessages
      <4>. QED  BY <2>t, <2>o, <3>1, <4>1, CallsCut DEF Open
    <3>. QED  BY <2>n, <2>r, <2>t, <3>1, <3>2
  <2>5. CASE ResponseArrives
    <3>. DEFINE m == Msg("assistant", attempt.uses)
    <3>1. m \in Messages /\ m.kind = "assistant" /\ m.ids = attempt.uses
      BY MsgType DEF Kinds, Msg, TypeOK, Attempts, ToolIds
    <3>2. /\ transcript' = transcript \o <<m>> /\ history' = history \o <<m>>
          /\ firstTool' = firstTool /\ used' = used
      BY <2>5, <2>t, <3>1, OneMore DEF ResponseArrives
    <3>. HIDE DEF m
    <3>3. <<m>> \in Seq(Messages) /\ \A k \in DOMAIN <<m>> : <<m>>[k] = m
      BY <3>1
    <3>4. Recorded'
      BY <2>u, <3>1, <3>2, <3>3, CallsRecorded DEF Recorded
    <3>5. /\ pc' = IF attempt.uses = {} THEN "answer" ELSE "tools"
          /\ attempt'.uses = attempt.uses /\ attempt'.answered = {} /\ Open(history)
      BY <2>5, <2>o DEF ResponseArrives, TypeOK, Attempts, AnswerInv
    <3>6. \A t \in UnansweredCalls(history') : t < firstTool \/ t \in attempt.uses
      BY <2>t, <3>1, <3>2, <3>3, <3>5, CallsAdded DEF Open
    <3>. QED  BY <3>2, <3>4, <3>5, <3>6 DEF CallInv, Recorded
  <2>6. CASE IsSteered
    <3>1. /\ transcript' = transcript \o SteerMessages /\ history' = history \o SteerMessages
          /\ firstTool' = firstTool /\ used' = used /\ (pc = "answer" \/ Answered)
      BY <2>6 DEF IsSteered, GoRoundSteered
    <3>2. Open(history')
      BY <2>a, <2>d, <2>o, <3>1 DEF Open
    <3>3. Recorded'
      BY <2>d, <3>1, CallsRecorded DEF Recorded
    <3>. QED  BY <2>n, <3>1, <3>2, <3>3
  <2>7. ASSUME NEW m \in Messages, Ends(m) PROVE CallInv'
    <3>1. /\ transcript' = transcript \o <<m>> /\ pc' = "ending" /\ used' = used
          /\ m.ids \subseteq attempt.uses
      BY <2>7, <2>t, OneMore DEF Ends, EndWith
    <3>2. <<m>> \in Seq(Messages) /\ \A k \in DOMAIN <<m>> : <<m>>[k] = m
      OBVIOUS
    <3>3. Recorded'
      BY <2>u, <3>1, <3>2, CallsRecorded DEF Recorded
    <3>. QED  BY <3>1, <3>3 DEF CallInv, Recorded
  <2>8. ASSUME NEW m \in Messages, Continues(m) PROVE CallInv'
    <3>1. /\ transcript' = transcript /\ history' = history \o <<m>>
          /\ firstTool' = firstTool /\ used' = used /\ pc = "answer" /\ m.kind # "assistant"
      BY <2>8, <2>t, OneMore DEF Continues, GoRoundWith, engineVars, OwnKinds
    <3>2. <<m>> \in Seq(Messages) /\ \A k \in DOMAIN <<m>> : <<m>>[k] = m
      OBVIOUS
    <3>3. Open(history')
      BY <2>a, <2>o, <3>1, <3>2 DEF Open
    <3>. QED  BY <2>n, <2>r, <2>t, <3>1, <3>3
  <2>9. ASSUME NEW u \in ToolIds, PushResult(u) PROVE CallInv'
    <3>1. /\ ResultMessages(u) \in Seq(Messages)
          /\ \A k \in DOMAIN ResultMessages(u) : ResultMessages(u)[k].kind # "assistant"
          /\ 1 \in DOMAIN ResultMessages(u) /\ ResultMessages(u)[1].kind = "tool_result"
          /\ u \in ResultMessages(u)[1].ids
      BY ResultMessagesType DEF ResultMessages, Msg
    <3>2. /\ transcript' = transcript \o ResultMessages(u)
          /\ history' = history \o ResultMessages(u)
          /\ firstTool' = firstTool /\ used' = used /\ pc = "results" /\ pc' = "results"
      BY <2>9 DEF PushResult
    <3>3. attempt'.uses = attempt.uses /\ attempt'.answered = attempt.answered \cup {u}
      BY <2>9 DEF PushResult, TypeOK, Attempts
    <3>4. Recorded'
      BY <3>1, <3>2, CallsRecorded DEF Recorded
    <3>5. \A t \in UnansweredCalls(history') : t \in UnansweredCalls(history) /\ t # u
      BY <2>a, <3>1, <3>2
    <3>. QED  BY <3>2, <3>3, <3>4, <3>5 DEF CallInv, Recorded
  <2>10. CASE Steer \/ AgentFinishes
    <3>1. /\ used'.tools = used.tools /\ pc' = pc /\ history' = history
          /\ attempt' = attempt /\ transcript' = transcript /\ firstTool' = firstTool
      BY <2>10, <2>t DEF Steer, AgentFinishes, loopVars, Bounds
    <3>. QED  BY <3>1 DEF CallInv
  <2>11. CASE SaysNothing
    <3>1. Recorded'
      BY <2>11, <2>r, <2>w DEF SaysNothing
    <3>2. history' = history /\ firstTool' = firstTool
      BY <2>11 DEF SaysNothing
    <3>3. CASE pc \notin {"tools", "results", "ending"} \/ Answered
      BY <2>n, <2>o, <3>1, <3>2, <3>3
    <3>4. CASE pc \in {"tools", "results", "ending"} /\ ~Answered
      <4>1. \/ pc' = pc /\ attempt'.uses = attempt.uses /\ attempt'.answered = attempt.answered
            \/ pc = "tools" /\ pc' = "results" /\ attempt' = attempt
            \/ pc' = "ending"
        BY <2>11, <3>4 DEF SaysNothing
      <4>. QED  BY <3>1, <3>2, <4>1 DEF CallInv, Recorded
    <3>. QED  BY <3>3, <3>4
  <2>. QED
    BY <2>1, <2>2, <2>3, <2>4, <2>5, <2>6, <2>7, <2>8, <2>9, <2>10, <2>11, StepKinds
<1>. QED  BY <1>1, <1>2, TypeCorrect, ConversationsBegin, AnswersBelongToResults,
             ToolsCorrect, PTL DEF Spec

\* No request holds a call of its submit that has no result.
THEOREM RequestsAreAnswered == Spec => []CurrentCallsAnswered
<1>1. CallInv => CurrentCallsAnswered
  BY DEF CallInv, CurrentCallsAnswered
<1>. QED  BY <1>1, CallsCorrect, PTL

-----------------------------------------------------------------------------
(***************************************************************************)
(* The results of a conversation.  Where no tool adds messages of its own, *)
(* the results of a response stand right behind it, so that no turn starts *)
(* between a call and its result and no cut parts them.  The `orphan' run  *)
(* shows that this fails with a tool that does.                            *)
(***************************************************************************)

\* Every result has its call before it, and no turn starts in between.
Contiguous(messages) ==
  \A j \in DOMAIN messages :
    messages[j].kind = "tool_result" =>
      \A t \in messages[j].ids :
        \E i \in DOMAIN messages :
          /\ i < j /\ messages[i].kind = "assistant" /\ t \in messages[i].ids
          /\ \A k \in i .. j : messages[k].kind \notin UserKinds

\* A response with these calls is the last message but for its results.
EndsWithCalls(messages, calls) ==
  \E i \in DOMAIN messages :
    /\ messages[i].kind = "assistant" /\ messages[i].ids = calls
    /\ \A k \in i + 1 .. Len(messages) : messages[k].kind = "tool_result"

\* Results that follow their calls are no orphans.
LEMMA NoOrphans ==
  ASSUME NEW messages \in Seq(Messages), Contiguous(messages)
  PROVE  OrphanResults(messages) = {}
<1>1. DOMAIN messages = 1 .. Len(messages) /\ Len(messages) \in Nat
  BY LenProperties
<1>. SUFFICES ASSUME NEW j \in DOMAIN messages, NEW t \in Results(messages, j)
              PROVE  t \in UNION {Calls(messages, i) : i \in 1 .. j - 1}
  BY DEF OrphanResults
<1>2. messages[j].kind = "tool_result" /\ t \in messages[j].ids
  BY DEF Results
<1>3. PICK i \in DOMAIN messages :
        i < j /\ messages[i].kind = "assistant" /\ t \in messages[i].ids
  BY <1>2 DEF Contiguous
<1>4. i \in 1 .. j - 1 /\ t \in Calls(messages, i)
  BY <1>1, <1>3 DEF Calls
<1>. QED  BY <1>4

\* Messages that are no results may be added.
LEMMA OthersAfterResults ==
  ASSUME NEW messages \in Seq(Messages), Contiguous(messages), NEW s \in Seq(Messages),
         \A k \in DOMAIN s : s[k].kind # "tool_result"
  PROVE  Contiguous(messages \o s)
<1>. DEFINE whole == messages \o s
<1>1. /\ Len(messages) \in Nat /\ Len(s) \in Nat
      /\ DOMAIN messages = 1 .. Len(messages) /\ DOMAIN s = 1 .. Len(s)
      /\ DOMAIN whole = 1 .. Len(messages) + Len(s)
      /\ \A i \in 1 .. Len(messages) : whole[i] = messages[i]
      /\ \A k \in 1 .. Len(s) : whole[Len(messages) + k] = s[k]
      /\ \A i \in 1 .. Len(messages) + Len(s) :
           \/ i \in 1 .. Len(messages)
           \/ \E k \in 1 .. Len(s) : i = Len(messages) + k
  BY Positions
<1>. HIDE DEF whole
<1>. SUFFICES ASSUME NEW j \in DOMAIN whole, whole[j].kind = "tool_result",
                     NEW t \in whole[j].ids
              PROVE  \E i \in DOMAIN whole :
                       /\ i < j /\ whole[i].kind = "assistant" /\ t \in whole[i].ids
                       /\ \A k \in i .. j : whole[k].kind \notin UserKinds
  BY DEF Contiguous, whole
<1>2. j \in 1 .. Len(messages)
  <2>1. \A k \in 1 .. Len(s) : whole[Len(messages) + k].kind # "tool_result"
    BY <1>1
  <2>. QED  BY <1>1, <2>1
<1>3. PICK i \in DOMAIN messages :
        /\ i < j /\ messages[i].kind = "assistant" /\ t \in messages[i].ids
        /\ \A k \in i .. j : messages[k].kind \notin UserKinds
  BY <1>1, <1>2 DEF Contiguous
<1>4. i \in DOMAIN whole /\ whole[i] = messages[i]
  BY <1>1
<1>5. \A k \in i .. j : whole[k].kind \notin UserKinds
  <2>. TAKE k \in i .. j
  <2>1. k \in 1 .. Len(messages)
    BY <1>1, <1>2
  <2>. QED  BY <1>1, <1>3, <2>1
<1>. QED  BY <1>3, <1>4, <1>5

\* A response is the last message when it arrives.
LEMMA ResponseIsLast ==
  ASSUME NEW messages \in Seq(Messages), NEW m \in Messages, m.kind = "assistant"
  PROVE  EndsWithCalls(messages \o <<m>>, m.ids)
<1>1. <<m>> \in Seq(Messages) /\ Len(<<m>>) = 1 /\ <<m>>[1] = m
  BY OneMore
<1>2. /\ Len(messages) \in Nat /\ Len(messages \o <<m>>) = Len(messages) + 1
      /\ DOMAIN (messages \o <<m>>) = 1 .. Len(messages) + 1
      /\ (messages \o <<m>>)[Len(messages) + 1] = m
  BY <1>1, Positions
<1>3. /\ Len(messages) + 1 \in DOMAIN (messages \o <<m>>)
      /\ \A k \in (Len(messages) + 1) + 1 .. Len(messages \o <<m>>) : FALSE
  BY <1>2
<1>. QED  BY <1>2, <1>3 DEF EndsWithCalls

\* A result is added behind its response and the results before it.
LEMMA ResultAdded ==
  ASSUME NEW messages \in Seq(Messages), Contiguous(messages),
         NEW calls, EndsWithCalls(messages, calls),
         NEW m \in Messages, m.kind = "tool_result", m.ids \subseteq calls
  PROVE  Contiguous(messages \o <<m>>) /\ EndsWithCalls(messages \o <<m>>, calls)
<1>. DEFINE n == Len(messages)
            whole == messages \o <<m>>
<1>1. <<m>> \in Seq(Messages) /\ Len(<<m>>) = 1 /\ <<m>>[1] = m
  BY OneMore
<1>2. /\ n \in Nat /\ Len(whole) = n + 1
      /\ DOMAIN messages = 1 .. n /\ DOMAIN whole = 1 .. n + 1
      /\ \A i \in 1 .. n : whole[i] = messages[i]
      /\ whole[n + 1] = m
  BY <1>1, Positions
<1>. HIDE DEF whole
<1>3. PICK c \in 1 .. n :
        /\ messages[c].kind = "assistant" /\ messages[c].ids = calls
        /\ \A k \in c + 1 .. n : messages[k].kind = "tool_result"
  BY <1>2 DEF EndsWithCalls
<1>. HIDE DEF n
<1>4. \A k \in c + 1 .. n + 1 : whole[k].kind = "tool_result"
  <2>. TAKE k \in c + 1 .. n + 1
  <2>1. (k \in c + 1 .. n /\ k \in 1 .. n) \/ k = n + 1
    BY <1>2
  <2>. QED  BY <1>2, <1>3, <2>1
<1>5. whole[c] = messages[c] /\ c \in DOMAIN whole
  BY <1>2
<1>6. EndsWithCalls(whole, calls)
  BY <1>2, <1>3, <1>4, <1>5 DEF EndsWithCalls
<1>7. Contiguous(whole)
  <2>. SUFFICES ASSUME NEW j \in DOMAIN whole, whole[j].kind = "tool_result",
                       NEW t \in whole[j].ids
                PROVE  \E i \in DOMAIN whole :
                         /\ i < j /\ whole[i].kind = "assistant" /\ t \in whole[i].ids
                         /\ \A k \in i .. j : whole[k].kind \notin UserKinds
    BY DEF Contiguous
  <2>1. CASE j = n + 1
    <3>1. \A k \in c .. j : k = c \/ k \in c + 1 .. n + 1
      BY <1>2, <2>1
    <3>2. \A k \in c .. j : whole[k].kind \notin UserKinds
      BY <1>3, <1>4, <1>5, <3>1 DEF UserKinds
    <3>3. c < j /\ t \in whole[c].ids
      BY <1>2, <1>3, <1>5, <2>1
    <3>. QED  BY <1>3, <1>5, <3>2, <3>3
  <2>2. CASE j # n + 1
    <3>1. j \in 1 .. n
      BY <1>2, <2>2
    <3>2. PICK i \in DOMAIN messages :
            /\ i < j /\ messages[i].kind = "assistant" /\ t \in messages[i].ids
            /\ \A k \in i .. j : messages[k].kind \notin UserKinds
      BY <1>2, <3>1 DEF Contiguous
    <3>3. i \in DOMAIN whole /\ whole[i] = messages[i]
      BY <1>2
    <3>4. \A k \in i .. j : k \in 1 .. n
      BY <1>2, <3>1
    <3>. QED  BY <1>2, <3>2, <3>3, <3>4
  <2>. QED  BY <2>1, <2>2
<1>. QED  BY <1>6, <1>7 DEF whole

\* A cut at the start of a turn does not part a result from its call.
LEMMA ResultsCut ==
  ASSUME NEW messages \in Seq(Messages), Contiguous(messages),
         NEW cut \in Cuts(messages), messages[1].kind # "tool_result"
  PROVE  Contiguous(cut)
<1>1. PICK c \in 2 .. Len(messages) :
        /\ messages[c].kind \in UserKinds
        /\ cut \in Seq(Messages) /\ Len(cut) = Len(messages) - c + 3
        /\ cut[1] = messages[1] /\ cut[2] = Notice
        /\ \A k \in 3 .. Len(cut) : cut[k] = messages[k + c - 3]
  BY CutProperties
<1>2. /\ Len(messages) \in Nat /\ DOMAIN messages = 1 .. Len(messages)
      /\ DOMAIN cut = 1 .. Len(cut) /\ Len(cut) \in Nat
  BY <1>1, LenProperties
<1>. SUFFICES ASSUME NEW j \in DOMAIN cut, cut[j].kind = "tool_result",
                     NEW t \in cut[j].ids
              PROVE  \E i \in DOMAIN cut :
                       /\ i < j /\ cut[i].kind = "assistant" /\ t \in cut[i].ids
                       /\ \A k \in i .. j : cut[k].kind \notin UserKinds
  BY DEF Contiguous
<1>3. j \in 3 .. Len(cut) /\ j + c - 3 \in DOMAIN messages /\ cut[j] = messages[j + c - 3]
  <2>1. Notice.kind # "tool_result"
    BY DEF Notice, Msg
  <2>2. j # 1 /\ j # 2
    BY <1>1, <2>1
  <2>3. j \in 3 .. Len(cut)
    BY <1>2, <2>2
  <2>4. j + c - 3 \in 1 .. Len(messages)
    BY <1>1, <1>2, <2>3
  <2>5. cut[j] = messages[j + c - 3]
    BY <1>1, <2>3
  <2>. QED  BY <1>2, <2>3, <2>4, <2>5
<1>4. PICK i \in DOMAIN messages :
        /\ i < j + c - 3 /\ messages[i].kind = "assistant" /\ t \in messages[i].ids
        /\ \A k \in i .. j + c - 3 : messages[k].kind \notin UserKinds
  BY <1>3 DEF Contiguous
<1>5. i > c
  <2>1. c \notin i .. j + c - 3
    BY <1>1, <1>4
  <2>. QED  BY <1>2, <1>3, <2>1
<1>6. /\ i - c + 3 \in 3 .. Len(cut) /\ i - c + 3 \in DOMAIN cut
      /\ (i - c + 3) + c - 3 = i /\ i - c + 3 < j
  <2>1. c \in Int /\ i \in Int /\ j \in Int /\ i <= Len(messages)
    BY <1>1, <1>2, <1>3
  <2>2. (i - c + 3) + c - 3 = i /\ i - c + 3 < j /\ 3 <= i - c + 3
    BY <1>4, <1>5, <2>1
  <2>3. i - c + 3 <= Len(messages) - c + 3
    BY <1>2, <2>1
  <2>4. Len(cut) = Len(messages) - c + 3
    BY <1>1
  <2>5. i - c + 3 \in 3 .. Len(cut)
    BY <1>2, <2>1, <2>2, <2>3, <2>4
  <2>6. i - c + 3 \in 1 .. Len(cut)
    BY <2>5
  <2>. QED  BY <1>2, <2>2, <2>5, <2>6
<1>7. cut[i - c + 3] = messages[i]
  BY <1>1, <1>6
<1>8. \A k \in i - c + 3 .. j : cut[k].kind \notin UserKinds
  <2>. TAKE k \in i - c + 3 .. j
  <2>1. k \in 3 .. Len(cut) /\ k + c - 3 \in i .. j + c - 3
    BY <1>2, <1>3, <1>6
  <2>. QED  BY <1>1, <1>4, <2>1
<1>. QED  BY <1>4, <1>6, <1>7, <1>8

\* No task returns messages of its own, where no tool does.
PlainResults == \A t \in ToolIds : task[t] # "messages"

\* No tool ever returns messages if none is among the outcomes of a tool.
THEOREM ToolsAddNothing ==
  ASSUME "messages" \notin ToolOutcomes
  PROVE  Spec => []PlainResults
<1>1. Init => PlainResults
  BY DEF Init, PlainResults
<1>2. TypeOK /\ PlainResults /\ [Next]_vars => PlainResults'
  <2>. SUFFICES ASSUME TypeOK, PlainResults, [Next]_vars PROVE PlainResults'
    OBVIOUS
  <2>t. task \in [ToolIds -> TaskStates]
    BY DEF TypeOK, ToolsTyped
  <2>k. ASSUME task' = task PROVE PlainResults'
    BY <2>k DEF PlainResults
  <2>1. ASSUME NEW safe \in BOOLEAN, StreamToolUse(safe) PROVE PlainResults'
    BY <2>1, <2>t DEF StreamToolUse, PlainResults
  <2>2. CASE StreamFallsBack \/ StreamFails
    BY <2>2, <2>t DEF StreamFallsBack, StreamFails, AbortStarted, PlainResults
  <2>3. ASSUME NEW t \in ToolIds, StartTool(t) \/ CancelTool(t) PROVE PlainResults'
    BY <2>3, <2>t DEF StartTool, CancelTool, PlainResults
  <2>4. ASSUME NEW t \in ToolIds, FinishTool(t) PROVE PlainResults'
    <3>1. PICK o \in ToolOutcomes \cup {"plain"} : task' = [task EXCEPT ![t] = o]
      BY <2>4 DEF FinishTool
    <3>. QED  BY <2>t, <3>1 DEF PlainResults
  <2>5. ASSUME NEW t \in ToolIds, PushResult(t) PROVE PlainResults'
    BY <2>5, <2>k DEF PushResult, toolVars
  <2>6. CASE Submit \/ Steer \/ Abort \/ AgentFinishes \/ UNCHANGED vars
    BY <2>6, <2>k DEF Submit, Steer, Abort, AgentFinishes, vars, toolVars
  <2>7. CASE SetupAborted \/ Setup \/ RequestAccepted \/ PromptTooLong
               \/ PromptStaysTooLong \/ RequestFallsBack \/ RequestFails
    BY <2>7, <2>k
    DEF SetupAborted, Setup, RequestAccepted, PromptTooLong, PromptStaysTooLong,
        RequestFallsBack, RequestFails, toolVars
  <2>8. CASE ResponseAborted \/ ResponseArrives \/ AnswerSteered \/ Escalate
               \/ ContinueTruncated \/ StayTruncated
    BY <2>8, <2>k
    DEF ResponseAborted, ResponseArrives, AnswerSteered, Escalate, ContinueTruncated,
        StayTruncated, GoRoundSteered, GoRoundWith, toolVars
  <2>9. CASE StopHookPrevents \/ StopHookFails \/ ContinueBudget \/ AnswerAccepted
    BY <2>9, <2>k
    DEF StopHookPrevents, StopHookFails, ContinueBudget, AnswerAccepted, GoRoundWith,
        toolVars
  <2>10. CASE ToolsAborted \/ ToolsFinished \/ ToolsSteered \/ ToolsEnd \/ NextTurn
                \/ FinishSubmit
    BY <2>10, <2>k
    DEF ToolsAborted, ToolsFinished, ToolsSteered, ToolsEnd, NextTurn, FinishSubmit,
        GoRoundSteered, toolVars
  <2>. QED
    BY <2>1, <2>2, <2>3, <2>4, <2>5, <2>6, <2>7, <2>8, <2>9, <2>10
    DEF Next, Loop, Task, User
<1>. QED  BY <1>1, <1>2, TypeCorrect, PTL DEF Spec

\* Both conversations keep their results behind their calls, and while tools
\* run and their results are pushed both end with the response that asked.
ResultInv ==
  /\ Contiguous(transcript) /\ Contiguous(history)
  /\ pc \in {"tools", "results"} =>
       EndsWithCalls(transcript, attempt.uses) /\ EndsWithCalls(history, attempt.uses)

\* In every state reached, every result of the transcript and of the history
\* stands behind its call in the same turn (execute_tool_calls and the pushes
\* of loop_impl.rs), whatever was steered, retried or compacted.
THEOREM ResultsCorrect ==
  ASSUME "messages" \notin ToolOutcomes
  PROVE  Spec => []ResultInv
<1>1. Init => ResultInv
  BY DEF Init, ResultInv, Contiguous
<1>2. TypeOK /\ FirstMessages /\ PlainResults /\ ResultInv /\ [Next]_vars => ResultInv'
  <2>. SUFFICES ASSUME TypeOK, FirstMessages, PlainResults, ResultInv, [Next]_vars
                PROVE  ResultInv'
    OBVIOUS
  <2>t. transcript \in Seq(Messages) /\ history \in Seq(Messages)
    BY DEF TypeOK, LoopTyped, EngineTyped
  <2>c. Contiguous(transcript) /\ Contiguous(history)
    BY DEF ResultInv
  <2>d. /\ SteerMessages \in Seq(Messages) /\ AgentMessages \in Seq(Messages)
        /\ \A i \in DOMAIN SteerMessages : SteerMessages[i].kind # "tool_result"
        /\ \A i \in DOMAIN AgentMessages : AgentMessages[i].kind # "tool_result"
    BY DrainedMessages DEF TypeOK, EngineTyped
  <2>m. ASSUME NEW m \in Messages, m.kind # "tool_result"
        PROVE  /\ <<m>> \in Seq(Messages)
               /\ \A k \in DOMAIN <<m>> : <<m>>[k].kind # "tool_result"
    BY <2>m
  <2>n. ASSUME Contiguous(transcript'), Contiguous(history'), pc' \notin {"tools", "results"}
        PROVE  ResultInv'
    BY <2>n DEF ResultInv
  <2>1. CASE Submit
    <3>1. Msg("user", {}) \in Messages /\ Msg("user", {}).kind # "tool_result"
      BY MsgType DEF Kinds, UserKinds, Msg
    <3>2. /\ transcript' = transcript \o <<Msg("user", {})>> /\ history' = transcript'
          /\ pc' = "setup"
      BY <2>1, <2>t, <3>1, OneMore DEF Submit
    <3>3. Contiguous(transcript')
      BY <2>c, <2>m, <2>t, <3>1, <3>2, OthersAfterResults
    <3>. QED  BY <2>n, <3>2, <3>3
  <2>2. CASE FinishSubmit
    <3>1. transcript' = transcript /\ history' = <<>> /\ pc' = "idle"
      BY <2>2 DEF FinishSubmit
    <3>2. Contiguous(<<>>)
      BY DEF Contiguous
    <3>. QED  BY <2>c, <2>n, <3>1, <3>2
  <2>3. CASE Setup
    <3>. DEFINE s == AgentMessages \o SteerMessages
                whole == history \o s
    <3>1. /\ transcript' = transcript \o s /\ pc = "setup" /\ pc' = "request"
          /\ history' = whole \/ history' \in Cuts(whole) \/ history' = Summary
      BY <2>3 DEF Setup
    <3>2. /\ s \in Seq(Messages)
          /\ transcript \o s = (transcript \o AgentMessages) \o SteerMessages
          /\ whole = (history \o AgentMessages) \o SteerMessages
      BY <2>d, <2>t, Regrouped, ConcatProperties
    <3>3. ASSUME NEW messages \in Seq(Messages), Contiguous(messages)
          PROVE  Contiguous((messages \o AgentMessages) \o SteerMessages)
      <4>1. messages \o AgentMessages \in Seq(Messages)
        BY <2>d, ConcatProperties
      <4>2. Contiguous(messages \o AgentMessages)
        BY <2>d, <3>3, OthersAfterResults
      <4>. QED  BY <2>d, <4>1, <4>2, OthersAfterResults
    <3>4. Contiguous(transcript') /\ Contiguous(whole)
      BY <2>c, <2>t, <3>1, <3>2, <3>3
    <3>5. whole \in Seq(Messages) /\ whole[1].kind # "tool_result"
      BY <2>t, <3>1, <3>2, ConcatProperties, FirstStays DEF FirstMessages
    <3>. HIDE DEF whole, s
    <3>6. Contiguous(history')
      <4>1. CASE history' = Summary
        <5>1. \A k \in DOMAIN Summary : Summary[k].kind # "tool_result"
          BY SummaryProperties, LenProperties
        <5>. QED  BY <4>1, <5>1 DEF Contiguous
      <4>2. CASE history' \in Cuts(whole)
        BY <3>4, <3>5, <4>2, ResultsCut
      <4>. QED  BY <3>1, <3>4, <4>1, <4>2
    <3>. QED  BY <2>n, <3>1, <3>4, <3>6
  <2>4. CASE PromptTooLong
    <3>1. /\ transcript' = transcript /\ pc = "request" /\ pc' = "setup"
          /\ history' \in Cuts(history) \/ history' = history
      BY <2>4 DEF PromptTooLong, GoRound, engineVars
    <3>2. Contiguous(history')
      <4>1. history[1].kind # "tool_result"
        BY <3>1 DEF FirstMessages
      <4>. QED  BY <2>c, <2>t, <3>1, <4>1, ResultsCut
    <3>. QED  BY <2>c, <2>n, <3>1, <3>2
  <2>5. CASE ResponseArrives
    <3>. DEFINE m == Msg("assistant", attempt.uses)
    <3>1. m \in Messages /\ m.kind = "assistant" /\ m.ids = attempt.uses
      BY MsgType DEF Kinds, Msg, TypeOK, Attempts, ToolIds
    <3>2. transcript' = transcript \o <<m>> /\ history' = history \o <<m>>
      BY <2>5, <2>t, <3>1, OneMore DEF ResponseArrives
    <3>3. attempt'.uses = m.ids
      BY <2>5, <3>1 DEF ResponseArrives, TypeOK, Attempts
    <3>. HIDE DEF m
    <3>4. Contiguous(transcript') /\ Contiguous(history')
      BY <2>c, <2>m, <2>t, <3>1, <3>2, OthersAfterResults
    <3>5. EndsWithCalls(transcript', m.ids) /\ EndsWithCalls(history', m.ids)
      BY <2>t, <3>1, <3>2, ResponseIsLast
    <3>. QED  BY <3>3, <3>4, <3>5 DEF ResultInv
  <2>6. CASE IsSteered
    <3>1. /\ transcript' = transcript \o SteerMessages /\ history' = history \o SteerMessages
          /\ pc' = "setup"
      BY <2>6 DEF IsSteered, GoRoundSteered, GoRound
    <3>2. Contiguous(transcript') /\ Contiguous(history')
      BY <2>c, <2>d, <2>t, <3>1, OthersAfterResults
    <3>. QED  BY <2>n, <3>1, <3>2
  <2>7. ASSUME NEW m \in Messages, Ends(m) PROVE ResultInv'
    <3>1. /\ transcript' = transcript \o <<m>> /\ history' = history /\ pc' = "ending"
          /\ m.kind # "tool_result"
      BY <2>7, <2>t, OneMore DEF Ends, EndWith
    <3>2. Contiguous(transcript')
      BY <2>c, <2>m, <2>t, <3>1, OthersAfterResults
    <3>. QED  BY <2>c, <2>n, <3>1, <3>2
  <2>8. ASSUME NEW m \in Messages, Continues(m) PROVE ResultInv'
    <3>1. /\ transcript' = transcript /\ history' = history \o <<m>> /\ pc' = "setup"
          /\ m.kind # "tool_result"
      BY <2>8, <2>t, OneMore DEF Continues, GoRoundWith, GoRound, engineVars, OwnKinds
    <3>2. Contiguous(history')
      BY <2>c, <2>m, <2>t, <3>1, OthersAfterResults
    <3>. QED  BY <2>c, <2>n, <3>1, <3>2
  <2>9. ASSUME NEW t \in ToolIds, PushResult(t) PROVE ResultInv'
    <3>. DEFINE m == Msg("tool_result", {t})
    <3>1. m \in Messages /\ m.kind = "tool_result" /\ m.ids = {t}
      BY MsgType DEF Kinds, Msg, ToolIds
    <3>2. /\ transcript' = transcript \o <<m>> /\ history' = history \o <<m>>
          /\ pc = "results" /\ t \in attempt.uses
      BY <2>9 DEF PushResult, ResultMessages, PlainResults
    <3>3. attempt'.uses = attempt.uses
      BY <2>9 DEF PushResult, TypeOK, Attempts
    <3>. HIDE DEF m
    <3>4. EndsWithCalls(transcript, attempt.uses) /\ EndsWithCalls(history, attempt.uses)
      BY <3>2 DEF ResultInv
    <3>5. Contiguous(transcript') /\ EndsWithCalls(transcript', attempt.uses)
      BY <2>c, <2>t, <3>1, <3>2, <3>4, ResultAdded
    <3>6. Contiguous(history') /\ EndsWithCalls(history', attempt.uses)
      BY <2>c, <2>t, <3>1, <3>2, <3>4, ResultAdded
    <3>. QED  BY <3>3, <3>5, <3>6 DEF ResultInv
  <2>10. CASE Steer \/ AgentFinishes
    BY <2>10 DEF Steer, AgentFinishes, loopVars, ResultInv
  <2>11. CASE SaysNothing
    <3>1. transcript' = transcript /\ history' = history
      BY <2>11 DEF SaysNothing
    <3>2. \/ pc' = pc /\ attempt'.uses = attempt.uses
          \/ pc = "tools" /\ pc' = "results" /\ attempt'.uses = attempt.uses
          \/ pc' \notin {"tools", "results"}
      BY <2>11 DEF SaysNothing, GoRound
    <3>. QED  BY <3>1, <3>2 DEF ResultInv
  <2>. QED
    BY <2>1, <2>2, <2>3, <2>4, <2>5, <2>6, <2>7, <2>8, <2>9, <2>10, <2>11, StepKinds
<1>. QED  BY <1>1, <1>2, TypeCorrect, ConversationsBegin, ToolsAddNothing, PTL DEF Spec

\* If no tool adds messages of its own, no request ever holds a result without
\* its call before it: neither a discarded response nor a cut leaves one.
THEOREM ResultsHaveCalls ==
  ASSUME "messages" \notin ToolOutcomes
  PROVE  Spec => []ResultsFollowTheirCalls
<1>1. TypeOK /\ ResultInv => ResultsFollowTheirCalls
  BY NoOrphans DEF TypeOK, LoopTyped, ResultInv, ResultsFollowTheirCalls
<1>. QED  BY <1>1, TypeCorrect, ResultsCorrect, PTL

=============================================================================
