----------------------------- MODULE Teammates -----------------------------
(***************************************************************************)
(* An in-process teammate of crates/cc-teams: its runner (runner.rs), its  *)
(* entry in the task registry (in_process.rs), its inbox, the others who   *)
(* write to it (send_message.rs, command.rs) and /team kill.               *)
(*                                                                         *)
(* The runner is a task on a pool of threads, and so are the senders and   *)
(* the killer.  What it does between two awaits is not interrupted, but it *)
(* is interleaved with what the others do: a step ends where the file, the *)
(* registry or the list of tasks is read or written.                       *)
(***************************************************************************)
EXTENDS Mailbox

CONSTANT MaxLate    \* how often a tool claims a task when it is too late

ASSUME TeamAssumption == MaxLate \in Nat

VARIABLES
  kind,      \* what each message is; it does not change
  approves,  \* CC_RUST_AUTO_APPROVE_SHUTDOWN_REQUESTS; it does not change
  run,       \* where the runner is
  stirred,   \* the file was written since it began to read it
  from,      \* the loop whose tick made it look at the inbox
  batch,     \* the messages it has read and not handled yet
  plain,     \* MailboxActions.plain_messages
  leaves,    \* MailboxActions.shutdown_requested
  pending,   \* pending_user_messages in the registry
  prompts,   \* the messages the engine was given (a history variable)
  handled,   \* the messages that were handled, in order (a history variable)
  status,    \* the task's status in the registry
  attached,  \* the registry has the runner's abort handle
  cancelled, \* the cancellation token
  aborted,   \* the runner's task is to be dropped at its next await
  killer,    \* where /team kill is
  grabbed,   \* kill has found an abort handle
  tool,      \* a tool of the engine, which is a task of its own
  owns,      \* a task in the list that is not over is the teammate's
  late,      \* how often a tool claimed one when it is too late
  kept       \* a release of the tasks has failed (a history variable)

runVars  == <<run, stirred, from, batch, plain, leaves>>
saidVars == <<pending, prompts, handled>>
killVars == <<cancelled, aborted, killer, grabbed>>
taskVars == <<tool, owns, late, kept>>
vars == <<mailVars, kind, approves, runVars, saidVars, status, attached, killVars, taskVars>>

Kinds == {"plain", "approval", "shutdown", "other"}
Loops == {"turn", "idle"}    \* both await in a select! with the same branches
Runs  == Loops \cup {"drain", "reading", "acting", "marking",
                     "failing", "stopping", "releasing", "again", "over"}
Kills == {"new", "cancel", "abort", "release", "done"}

Init ==
  /\ MailInit
  /\ kind \in [Messages -> Kinds] /\ approves \in BOOLEAN
  /\ run = "turn" /\ stirred = FALSE /\ from = "turn"
  /\ batch = <<>> /\ plain = <<>> /\ leaves = FALSE
  /\ pending = <<>> /\ prompts = <<>> /\ handled = <<>>
  /\ status = "running" /\ attached = FALSE
  /\ cancelled = FALSE /\ aborted = FALSE /\ killer = "new" /\ grabbed = FALSE
  /\ tool = "none" /\ owns = FALSE /\ late = 0 /\ kept = FALSE

-----------------------------------------------------------------------------
(* Those who write to the inbox.                                           *)

Send(m) ==
  /\ Want(m)
  /\ UNCHANGED <<kind, approves, runVars, saidVars, status, attached, killVars, taskVars>>

Sending(m) ==
  /\ WithLock(m)
  /\ stirred' = (run = "reading" /\ (stirred \/ at'[m] \in {"emptied", "unlock"}))
  /\ UNCHANGED <<kind, approves, run, from, batch, plain, leaves, saidVars, status, attached,
                 killVars, taskVars>>

Ages ==
  /\ LockAges
  /\ UNCHANGED <<kind, approves, runVars, saidVars, status, attached, killVars, taskVars>>

-----------------------------------------------------------------------------
(* The engine's turn.                                                      *)

\* spawn: the registry gets the handle when the runner has been started.
Attach ==
  /\ ~attached
  /\ attached' = TRUE
  /\ UNCHANGED <<mailVars, kind, approves, runVars, saidVars, status, killVars, taskVars>>

ToolStarts ==
  /\ run = "turn" /\ tool = "none"
  /\ tool' = "running"
  /\ UNCHANGED <<mailVars, kind, approves, runVars, saidVars, status, attached, killVars,
                 owns, late, kept>>

\* It claims a task for the teammate: too late, when the stream it belongs to
\* was dropped or the teammate is being killed.
ToolClaims ==
  /\ tool # "none" /\ ~owns
  /\ \/ tool = "running" /\ killer = "new" /\ UNCHANGED late
     \/ /\ tool = "left" \/ killer # "new"
        /\ late < MaxLate /\ late' = late + 1
  /\ owns' = TRUE
  /\ UNCHANGED <<mailVars, kind, approves, runVars, saidVars, status, attached, killVars,
                 tool, kept>>

\* It completes the task, or gives it back.
ToolIsDone ==
  /\ tool # "none" /\ owns
  /\ owns' = FALSE
  /\ UNCHANGED <<mailVars, kind, approves, runVars, saidVars, status, attached, killVars,
                 tool, late, kept>>

ToolEnds ==
  /\ tool # "none"
  /\ tool' = "none"
  /\ UNCHANGED <<mailVars, kind, approves, runVars, saidVars, status, attached, killVars,
                 owns, late, kept>>

\* Nobody stops the tool of a stream that is dropped.
LeaveTool == tool' = IF tool = "none" THEN "none" ELSE "left"

\* The result arrives, or the stream ends without one.
TurnEnds ==
  /\ run = "turn" /\ tool = "none"
  /\ run' = "drain"
  /\ UNCHANGED <<mailVars, kind, approves, stirred, from, batch, plain, leaves, saidVars, status,
                 attached, killVars, taskVars>>

\* A variant that leaves the messages where they are.
DrainNothing ==
  /\ run = "drain"
  /\ run' = "idle"
  /\ UNCHANGED <<mailVars, kind, approves, stirred, from, batch, plain, leaves, saidVars, status,
                 attached, killVars, taskVars>>

\* A variant that hands the messages on as one.
DrainAsOne ==
  /\ run = "drain"
  /\ run' = IF pending = <<>> THEN "idle" ELSE "turn"
  /\ prompts' = IF pending = <<>> THEN prompts ELSE Append(prompts, pending)
  /\ pending' = <<>>
  /\ UNCHANGED <<mailVars, kind, approves, stirred, from, batch, plain, leaves, handled, status,
                 attached, killVars, taskVars>>

\* take_pending_user_messages, after a turn.
Drain ==
  /\ run = "drain"
  /\ run' = IF pending = <<>> THEN "idle" ELSE "turn"
  /\ prompts' = prompts \o pending
  /\ pending' = <<>>
  /\ UNCHANGED <<mailVars, kind, approves, stirred, from, batch, plain, leaves, handled, status,
                 attached, killVars, taskVars>>

-----------------------------------------------------------------------------
(* process_mailbox, at a tick of the turn's loop or of the idle one.       *)

\* A variant that leaves the inbox alone during a turn.
BeginReadIdle ==
  /\ run = "idle"
  /\ from' = run
  /\ batch' = IF garbled THEN <<>> ELSE Msgs(Unread)
  /\ run' = IF garbled THEN "failing" ELSE "reading"
  /\ UNCHANGED <<mailVars, kind, approves, stirred, plain, leaves, saidVars, status,
                 attached, killVars, taskVars>>

\* The file is read without a lock.
BeginRead ==
  /\ run \in Loops
  /\ from' = run
  /\ batch' = IF garbled THEN <<>> ELSE Msgs(Unread)
  /\ run' = IF garbled THEN "failing" ELSE "reading"
  /\ UNCHANGED <<mailVars, kind, approves, stirred, plain, leaves, saidVars, status,
                 attached, killVars, taskVars>>

\* A read that a write has overtaken may return the beginning of the old text
\* and the end of the new one, which is no JSON.
EndRead ==
  /\ run = "reading"
  /\ \/ run' = IF batch = <<>> THEN from ELSE "acting"
     \/ stirred /\ run' = "failing"
  /\ stirred' = FALSE
  /\ UNCHANGED <<mailVars, kind, approves, from, batch, plain, leaves, saidVars, status,
                 attached, killVars, taskVars>>

\* handle_protocol_message for a request to shut down.  The answer is written to
\* the leader's inbox, which may fail: before the task is stopped, when the
\* request is approved, and after it when it is not.
ActOnShutdown ==
  /\ \/ /\ status' = "stopped"
        /\ leaves' = (leaves \/ approves)
        /\ UNCHANGED run
     \/ /\ run' = "failing"
        /\ status' = IF approves THEN status ELSE "stopped"
        /\ UNCHANGED leaves
  /\ UNCHANGED <<plain, pending>>

ActOnApproval ==
  /\ pending' = Append(pending, Head(batch))
  /\ UNCHANGED <<run, plain, leaves, status>>

ActOnPlain ==
  /\ plain' = Append(plain, Head(batch))
  /\ UNCHANGED <<run, leaves, pending, status>>

\* The other messages of the protocol change nothing.
ActOnOther == UNCHANGED <<run, plain, leaves, pending, status>>

Act ==
  /\ run = "acting" /\ batch # <<>>
  /\ \/ kind[Head(batch)] = "plain" /\ ActOnPlain
     \/ kind[Head(batch)] = "approval" /\ ActOnApproval
     \/ kind[Head(batch)] = "shutdown" /\ ActOnShutdown
     \/ kind[Head(batch)] = "other" /\ ActOnOther
  /\ handled' = Append(handled, Head(batch))
  /\ batch' = Tail(batch)
  /\ UNCHANGED <<mailVars, kind, approves, stirred, from, prompts, attached, killVars, taskVars>>

\* mark_all_as_read: all that are there by now.
Mark ==
  /\ run = "acting" /\ batch = <<>>
  /\ Want(Runner)
  /\ run' = "marking"
  /\ UNCHANGED <<kind, approves, stirred, from, batch, plain, leaves, saidVars, status, attached,
                 killVars, taskVars>>

Marking ==
  /\ run = "marking"
  /\ WithLock(Runner)
  /\ UNCHANGED <<kind, approves, runVars, saidVars, status, attached, killVars, taskVars>>

\* The plain messages join the others; the turn goes on, or the idle loop takes
\* what there is for a new turn.
Acted ==
  /\ run = "marking"
  /\ Return(Runner, "ok")
  /\ plain' = <<>>
  /\ IF from = "idle" /\ ~leaves
     THEN /\ prompts' = prompts \o pending \o plain
          /\ pending' = <<>>
          /\ run' = IF pending \o plain = <<>> THEN "idle" ELSE "turn"
     ELSE /\ pending' = pending \o plain
          /\ run' = IF leaves THEN "stopping" ELSE "turn"
          /\ UNCHANGED prompts
  /\ UNCHANGED <<kind, approves, stirred, from, batch,
                 leaves, handled, status, attached, killVars, taskVars>>

MarkFailed ==
  /\ run = "marking"
  /\ Return(Runner, "failed")
  /\ run' = "failing"
  /\ UNCHANGED <<kind, approves, stirred, from, batch,
                 plain, leaves, saidVars, status, attached, killVars, taskVars>>

-----------------------------------------------------------------------------
(* The end of the runner.                                                  *)

\* mark_mailbox_processing_failure; the messages that were read are dropped.
\* The idle loop releases the tasks, and so does start_runner.
Fail ==
  /\ run = "failing"
  /\ status' = "stopped"
  /\ plain' = <<>> /\ batch' = <<>>
  /\ LeaveTool
  /\ run' = IF from = "idle" THEN "releasing" ELSE "again"
  /\ UNCHANGED <<mailVars, kind, approves, stirred, from, leaves, saidVars, attached, killVars,
                 owns, late, kept>>

\* The cancellation is a branch of both loops.
Cancelled ==
  /\ run \in Loops /\ cancelled
  /\ from' = run
  /\ run' = "stopping"
  /\ UNCHANGED <<mailVars, kind, approves, stirred, batch, plain, leaves, saidVars, status,
                 attached, killVars, taskVars>>

\* A turn that stops breaks the loop of run_teammate, and the tasks are released
\* twice.
Stop ==
  /\ run = "stopping"
  /\ status' = "stopped"
  /\ LeaveTool
  /\ run' = IF from = "turn" THEN "releasing" ELSE "again"
  /\ UNCHANGED <<mailVars, kind, approves, stirred, from, batch, plain, leaves, saidVars, attached,
                 killVars, owns, late, kept>>

\* unassign_teammate_tasks makes nothing of an error.
Unassign ==
  \/ owns' = FALSE /\ UNCHANGED kept
  \/ owns /\ kept' = TRUE /\ UNCHANGED owns

Release ==
  /\ run \in {"releasing", "again"}
  /\ Unassign
  /\ run' = IF run = "releasing" THEN "again" ELSE "over"
  /\ UNCHANGED <<mailVars, kind, approves, stirred, from, batch, plain, leaves, saidVars, status,
                 attached, killVars, tool, late>>

\* The runner's task is dropped where it awaits: nothing of the above is done.
Dropped ==
  /\ run \in Loops /\ aborted
  /\ LeaveTool
  /\ run' = "over"
  /\ UNCHANGED <<mailVars, kind, approves, stirred, from, batch, plain, leaves, saidVars, status,
                 attached, killVars, owns, late, kept>>

-----------------------------------------------------------------------------
(* /team kill.                                                             *)

KillStops ==
  /\ killer = "new"
  /\ status' = "stopped"
  /\ grabbed' = attached
  /\ killer' = "cancel"
  /\ UNCHANGED <<mailVars, kind, approves, runVars, saidVars, attached, cancelled, aborted,
                 taskVars>>

\* A variant that trusts the abort handle.
KillCancelsNothing ==
  /\ killer = "cancel"
  /\ killer' = "abort"
  /\ UNCHANGED <<mailVars, kind, approves, runVars, saidVars, status, attached, cancelled,
                 aborted, grabbed, taskVars>>

KillCancels ==
  /\ killer = "cancel"
  /\ cancelled' = TRUE
  /\ killer' = "abort"
  /\ UNCHANGED <<mailVars, kind, approves, runVars, saidVars, status, attached, aborted, grabbed,
                 taskVars>>

KillAborts ==
  /\ killer = "abort"
  /\ aborted' = grabbed
  /\ killer' = "release"
  /\ UNCHANGED <<mailVars, kind, approves, runVars, saidVars, status, attached, cancelled, grabbed,
                 taskVars>>

\* A variant that leaves the tasks to the runner.
KillReleasesNothing ==
  /\ killer = "release"
  /\ killer' = "done"
  /\ UNCHANGED <<mailVars, kind, approves, runVars, saidVars, status, attached, cancelled,
                 aborted, grabbed, taskVars>>

KillReleases ==
  /\ killer = "release"
  /\ Unassign
  /\ killer' = "done"
  /\ UNCHANGED <<mailVars, kind, approves, runVars, saidVars, status, attached, cancelled,
                 aborted, grabbed, tool, late>>

-----------------------------------------------------------------------------
Inboxing == BeginRead \/ EndRead \/ Act \/ Mark \/ Marking \/ Acted \/ MarkFailed
Ending   == Cancelled \/ Dropped
Leaving  == Drain \/ Fail \/ Stop \/ Release
Killing  == KillCancels \/ KillAborts \/ KillReleases

Next ==
  \/ \E m \in Messages : Send(m) \/ Sending(m)
  \/ Ages \/ Attach \/ ToolStarts \/ ToolClaims \/ ToolIsDone \/ ToolEnds \/ TurnEnds
  \/ Inboxing \/ Ending \/ Leaving \/ KillStops \/ Killing

\* Tasks are polled, and select! takes its branches at random: what is possible
\* at its await again and again is done.
Fairness ==
  /\ \A m \in Messages : WF_vars(Sending(m))
  /\ WF_vars(Inboxing) /\ WF_vars(Leaving) /\ WF_vars(Killing) /\ SF_vars(Ending)

Spec == Init /\ [][Next]_vars /\ Fairness

-----------------------------------------------------------------------------
(* The state is of its type.                                               *)
TypeOK ==
  /\ MailTypeOK
  /\ kind \in [Messages -> Kinds] /\ approves \in BOOLEAN
  /\ run \in Runs /\ stirred \in BOOLEAN /\ from \in Loops
  /\ batch \in Seq(Messages) /\ plain \in Seq(Messages) /\ leaves \in BOOLEAN
  /\ pending \in Seq(Messages) /\ prompts \in Seq(Messages) /\ handled \in Seq(Messages)
  /\ status \in {"running", "stopped"} /\ attached \in BOOLEAN
  /\ cancelled \in BOOLEAN /\ aborted \in BOOLEAN /\ killer \in Kills /\ grabbed \in BOOLEAN
  /\ tool \in {"none", "running", "left"} /\ owns \in BOOLEAN
  /\ late \in 0 .. MaxLate /\ kept \in BOOLEAN

Members(s) == {s[i] : i \in DOMAIN s}

(* The teammate handles the messages of its inbox in the order in which    *)
(* they were written and each of them once, although it reads the file     *)
(* without a lock and marks it as read later (process_mailbox), as long as *)
(* no lock lives to be five seconds old.                                   *)
HandledInOrder ==
  aged = 0 => InOrderOf(handled, Msgs(File))

(* A teammate that waits for its next message has given the engine every   *)
(* message that it handled and that is meant for it, each once, and the    *)
(* plain ones in the order in which it handled them: none waits in the     *)
(* registry while nobody looks there (drive_engine_turn, run_teammate and  *)
(* take_pending_user_messages).                                            *)
IdleMeansDelivered ==
  LET Plain == {m \in Messages : kind[m] = "plain"}
  IN  run = "idle" =>
        /\ Those(prompts, Plain) = Those(handled, Plain)
        /\ Members(prompts) = {m \in Members(handled) : kind[m] \in {"plain", "approval"}}
        /\ plain = <<>> /\ batch = <<>>

(* Once the runner is over, and no /team kill is under way, no task of the *)
(* list is the teammate's, however the runner ended: unless the list could *)
(* not be written, or a tool that was left running claimed one too late    *)
(* (release_teammate_tasks, and kill of command.rs for a runner that is    *)
(* dropped before it releases anything).                                   *)
TasksReleased ==
  run = "over" /\ killer \in {"new", "done"} /\ late = 0 /\ ~kept => ~owns

(* A message that is in the inbox, unread, is read in the end, or the      *)
(* runner is over: also while the turn goes on and on (both loops poll).   *)
MessagesAreRead ==
  \A m \in Messages :
    [msg |-> m, read |-> FALSE] \in Members(inbox) ~>
      run = "over" \/ [msg |-> m, read |-> FALSE] \notin Members(File)

(* /team kill ends the runner, also one whose abort handle was not there   *)
(* yet (spawn registers the task before it starts the runner, and adds the *)
(* handle after that).                                                     *)
KillEnds == killer = "done" ~> run = "over"

(* What mailbox.rs:9 promises of its lock, "to prevent data loss from      *)
(* concurrent access", and AGENT_TEAMS_SPEC.md of the runner: a message    *)
(* that is marked as read was handled.  It does not hold.                  *)
ReadMeansHandled ==
  \A i \in DOMAIN inbox : inbox[i].read => inbox[i].msg \in Members(handled)
=============================================================================
