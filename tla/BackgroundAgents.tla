--------------------------- MODULE BackgroundAgents ---------------------------
(***************************************************************************)
(* The agents that run in the background of a session (crates/cc-engine,   *)
(* agent/supervisor.rs).  The Agent tool launches one: it prepares a git   *)
(* worktree, creates a task, registers the agent in four places (the task, *)
(* its cancellation handle, the agent tree and the supervisor), starts the *)
(* agent's run and hands its join handle over.  The run drives a query     *)
(* engine, looks whether the worktree has changed, and takes the agent out *)
(* of the four places again.  Meanwhile users abort agents, the model      *)
(* stops tasks, and the session shuts the supervisor down.                 *)
(*                                                                         *)
(* All are tasks of one process that run at the same time: a step here is  *)
(* what is done under one lock, or what happens between two waits.         *)
(*                                                                         *)
(* Left out: what an agent does but for its effect on the worktree, its    *)
(* output and its children, hooks but for the wait, the write of a task    *)
(* that fails (TaskStore has these), and tasks that other processes change.*)
(***************************************************************************)
EXTENDS Naturals

CONSTANTS
  Agents,    \* the agents that the session launches, each once
  Aborters,  \* what users do: AbortAgent, each of them once
  Stoppers,  \* calls of TaskStop, each of them once
  None       \* no agent, no outcome

ASSUME AgentsAssumption ==
  /\ None \notin Agents
  /\ Aborters \cap Stoppers = {}

VARIABLES
  launch,    \* how far the launch of each agent has come
  run,       \* how far its run has come
  outcome,   \* what the run makes of the agent's end
  worktree,  \* the agent's worktree
  left,      \* the agents whose tools still work though the run has left them
  task,      \* the status of each agent's task
  handles,   \* the tasks that have a cancellation handle
  tree,      \* the state of each agent in the agent tree
  active,    \* the supervisor's jobs
  attached,  \* those of them that have their join handle
  cancelled, \* the agents whose cancellation token is cancelled
  told,      \* how often the session was told of an agent's completion
  at,        \* what each abort or stop does next
  whom,      \* the agent it is about
  shut,      \* what the shutdown does next
  jobs,      \* the jobs it has taken and not dealt with
  job,       \* the one it deals with
  taken,     \* all jobs it has taken (a history variable)
  aborting   \* the runs it has given up waiting for

runVars == <<run, outcome, worktree, left>>
placeVars == <<task, handles, tree, active, attached>>
stopVars == <<at, whom>>
shutVars == <<shut, jobs, job, taken, aborting>>
vars == <<launch, runVars, placeVars, cancelled, told, stopVars, shutVars>>

Requests == Aborters \cup Stoppers

\* The process has not exited.
Up == shut # "exited"

Terminal == {"completed", "failed", "cancelled"}

Init ==
  /\ launch = [a \in Agents |-> "new"]
  /\ run = [a \in Agents |-> "none"]
  /\ outcome = [a \in Agents |-> None]
  /\ worktree = [a \in Agents |-> "none"]
  /\ left = {}
  /\ task = [a \in Agents |-> "none"]
  /\ handles = {}
  /\ tree = [a \in Agents |-> "none"]
  /\ active = {}
  /\ attached = {}
  /\ cancelled = {}
  /\ told = [a \in Agents |-> 0]
  /\ at = [s \in Requests |-> "new"]
  /\ whom = [s \in Requests |-> None]
  /\ shut = "no"
  /\ jobs = {}
  /\ job = None
  /\ taken = {}
  /\ aborting = {}

-----------------------------------------------------------------------------
(* spawn_background_agent.                                                 *)

LaunchStep(a, from, next) ==
  /\ Up
  /\ launch[a] = from
  /\ launch' = [launch EXCEPT ![a] = next]
  /\ UNCHANGED <<cancelled, told, stopVars, shutVars>>

\* prepare_runtime: with a worktree, or without one, where none is wanted or
\* its creation has failed and may.
Prepare(a) ==
  /\ LaunchStep(a, "new", "prepared")
  /\ \E w \in {"none", "clean"} : worktree' = [worktree EXCEPT ![a] = w]
  /\ UNCHANGED <<run, outcome, left, placeVars>>

\* The worktree, the working directory or the task fails: what was made stays.
LaunchFails(a) ==
  /\ launch[a] \in {"new", "prepared"}
  /\ LaunchStep(a, launch[a], "refused")
  /\ UNCHANGED <<runVars, placeVars>>

CreateTask(a) ==
  /\ LaunchStep(a, "prepared", "created")
  /\ task' = [task EXCEPT ![a] = "pending"]
  /\ UNCHANGED <<runVars, handles, tree, active, attached>>

StartTask(a) ==
  /\ LaunchStep(a, "created", "started")
  /\ task' = [task EXCEPT ![a] = "in_progress"]
  /\ UNCHANGED <<runVars, handles, tree, active, attached>>

RegisterHandle(a) ==
  /\ LaunchStep(a, "started", "stoppable")
  /\ handles' = handles \cup {a}
  /\ UNCHANGED <<runVars, task, tree, active, attached>>

\* register_agent_tree
Show(a) ==
  /\ LaunchStep(a, "stoppable", "shown")
  /\ tree' = [tree EXCEPT ![a] = "running"]
  /\ UNCHANGED <<runVars, task, handles, active, attached>>

\* A variant that starts the run before it registers the job.
RegisterLate(a) ==
  /\ LaunchStep(a, "shown", "registered")
  /\ run' = [run EXCEPT ![a] = "turn"]
  /\ UNCHANGED <<outcome, worktree, left, placeVars>>

Register(a) ==
  /\ LaunchStep(a, "shown", "registered")
  /\ active' = active \cup {a}
  /\ UNCHANGED <<runVars, task, handles, tree, attached>>

SpawnRun(a) ==
  /\ LaunchStep(a, "registered", "spawned")
  /\ run' = [run EXCEPT ![a] = "turn"]
  /\ UNCHANGED <<outcome, worktree, left, placeVars>>

\* A variant that registers the job again when it has its handle.
AttachAnew(a) ==
  /\ LaunchStep(a, "spawned", "launched")
  /\ active' = active \cup {a}
  /\ attached' = attached \cup {a}
  /\ UNCHANGED <<runVars, task, handles, tree>>

\* attach_handle: the run may have ended, or the shutdown taken the job.
AttachHandle(a) ==
  /\ LaunchStep(a, "spawned", "launched")
  /\ attached' = IF a \in active THEN attached \cup {a} ELSE attached
  /\ UNCHANGED <<runVars, task, handles, tree, active>>

-----------------------------------------------------------------------------
(* AgentRuntime::run.                                                      *)

\* A run that is aborted ends where it waits, at the latest where it waits next.
Waits == {"turn", "examine", "clean", "hooks"}

RunStep(a, from, next) ==
  /\ Up
  /\ run[a] = from
  /\ run' = [run EXCEPT ![a] = next]
  /\ UNCHANGED <<launch, cancelled, stopVars, shutVars>>

\* A tool of the agent writes, also one that the run has left working.
ToolWrites(a) ==
  /\ Up
  /\ run[a] = "turn" \/ a \in left
  /\ worktree[a] = "clean"
  /\ worktree' = [worktree EXCEPT ![a] = "changed"]
  /\ UNCHANGED <<launch, run, outcome, left, placeVars, cancelled, told, stopVars, shutVars>>

AfterTurn(a) == IF worktree[a] = "none" THEN "update" ELSE "examine"

\* The engine's stream ends, when its tools have.
TurnEnds(a) ==
  /\ RunStep(a, "turn", AfterTurn(a))
  /\ \E o \in {"completed", "failed"} : outcome' = [outcome EXCEPT ![a] = o]
  /\ UNCHANGED <<worktree, left, placeVars, told>>

\* A variant that leaves the turn and forgets why.
TurnDropped(a) ==
  /\ a \in cancelled
  /\ RunStep(a, "turn", AfterTurn(a))
  /\ UNCHANGED <<outcome, left, worktree, placeVars, told>>

\* The run sees its token first.  It keeps the stream, which it does not poll
\* any more, till it returns; a command that a tool has started goes on.
TurnCancelled(a) ==
  /\ a \in cancelled
  /\ RunStep(a, "turn", AfterTurn(a))
  /\ outcome' = [outcome EXCEPT ![a] = "cancelled"]
  /\ left' \in {left, left \cup {a}}
  /\ UNCHANGED <<worktree, placeVars, told>>

\* A variant that takes a count that fails for no changes.
ExamineLightly(a) ==
  /\ \/ RunStep(a, "examine", "clean")
     \/ worktree[a] = "changed" /\ RunStep(a, "examine", "update")
  /\ UNCHANGED <<outcome, worktree, left, placeVars, told>>

\* count_worktree_changes: a count that fails stands for changes.
Examine(a) ==
  /\ \/ worktree[a] = "clean" /\ RunStep(a, "examine", "clean")
     \/ RunStep(a, "examine", "update")
  /\ UNCHANGED <<outcome, worktree, left, placeVars, told>>

\* cleanup_worktree_with_hooks removes with force, or fails and leaves it.
Removed(a) ==
  [worktree EXCEPT ![a] = CASE @ = "clean" -> "removed"
                            [] @ = "changed" -> "lost"
                            [] @ \in {"none", "removed", "lost"} -> @]

Clean(a) ==
  /\ RunStep(a, "clean", "update")
  /\ worktree' \in {worktree, Removed(a)}
  /\ UNCHANGED <<outcome, left, placeVars, told>>

\* The final status, whatever the status was.
UpdateTask(a) ==
  /\ RunStep(a, "update", "unhandle")
  /\ task' = [task EXCEPT ![a] = outcome[a]]
  /\ UNCHANGED <<outcome, worktree, left, handles, tree, active, attached, told>>

Unhandle(a) ==
  /\ RunStep(a, "unhandle", "complete")
  /\ handles' = handles \ {a}
  /\ UNCHANGED <<outcome, worktree, left, task, tree, active, attached, told>>

\* BackgroundSupervisor::complete, unless the shutdown has taken the job; the
\* SubagentStop hooks follow.
Complete(a) ==
  /\ RunStep(a, "complete", "hooks")
  /\ active' = active \ {a}
  /\ attached' = IF a \in active THEN attached \ {a} ELSE attached
  /\ UNCHANGED <<outcome, worktree, left, task, handles, tree, told>>

\* A variant that tells nobody of an agent that was cancelled.
ShowEndQuietly(a) ==
  /\ RunStep(a, "hooks", IF outcome[a] = "cancelled" THEN "over" ELSE "tell")
  /\ tree' = [tree EXCEPT ![a] = outcome[a]]
  /\ UNCHANGED <<outcome, worktree, left, task, handles, active, attached, told>>

\* update_agent_state, where "failed" is called "error".
ShowEnd(a) ==
  /\ RunStep(a, "hooks", "tell")
  /\ tree' = [tree EXCEPT ![a] = outcome[a]]
  /\ UNCHANGED <<outcome, worktree, left, task, handles, active, attached, told>>

\* The Completed event; then the run returns and drops the stream.
Tell(a) ==
  /\ RunStep(a, "tell", "over")
  /\ told' = [told EXCEPT ![a] = @ + 1]
  /\ left' = left \ {a}
  /\ UNCHANGED <<outcome, worktree, placeVars>>

AbortTakes(a) ==
  /\ a \in aborting
  /\ run[a] \in Waits
  /\ RunStep(a, run[a], "aborted")
  /\ left' = left \ {a}
  /\ UNCHANGED <<outcome, worktree, placeVars, told>>

-----------------------------------------------------------------------------
(* AbortAgent and TaskStop.                                                *)

Ask(s, a) ==
  /\ Up
  /\ at[s] = "new"
  /\ at' = [at EXCEPT ![s] = "cancel"]
  /\ whom' = [whom EXCEPT ![s] = a]
  /\ UNCHANGED <<launch, runVars, placeVars, told, shutVars>>

\* cancel_agent: through the supervisor, or through the task when there is one.
AbortAgent(s, a) ==
  /\ tree[a] # "none"
  /\ Ask(s, a)
  /\ cancelled' = IF a \in active THEN cancelled \cup {a} ELSE cancelled

TaskStop(s, a) ==
  /\ task[a] # "none"
  /\ Ask(s, a)
  /\ UNCHANGED cancelled

StopStep(s, from, next) ==
  /\ Up
  /\ at[s] = from
  /\ at' = [at EXCEPT ![s] = next]
  /\ UNCHANGED <<launch, runVars, told, whom, shutVars>>

\* A variant that trusts the status alone.
StopUnheard(s) ==
  /\ StopStep(s, "cancel", "write")
  /\ UNCHANGED <<placeVars, cancelled>>

\* try_stop: the handle first ...
StopCancel(s) ==
  /\ StopStep(s, "cancel", "write")
  /\ cancelled' = IF whom[s] \in handles THEN cancelled \cup {whom[s]} ELSE cancelled
  /\ UNCHANGED placeVars

\* ... then the status, whatever it was.
StopWrite(s) ==
  /\ StopStep(s, "write", IF s \in Aborters THEN "mark" ELSE "done")
  /\ task' = [task EXCEPT ![whom[s]] = "cancelled"]
  /\ UNCHANGED <<handles, tree, active, attached, cancelled>>

\* handle_agent_command marks the agent aborted, also one that has ended.
MarkAborted(s) ==
  /\ StopStep(s, "mark", "done")
  /\ tree' = [tree EXCEPT ![whom[s]] = "aborted"]
  /\ UNCHANGED <<task, handles, active, attached, cancelled>>

-----------------------------------------------------------------------------
(* shutdown_all.                                                           *)

ShutStep(from, next) ==
  /\ shut = from
  /\ shut' = next
  /\ UNCHANGED <<launch, run, outcome, left, told, stopVars>>

\* take_active_jobs
Shutdown ==
  /\ ShutStep("no", "next")
  /\ jobs' = active
  /\ taken' = active
  /\ active' = {}
  /\ UNCHANGED <<worktree, task, handles, tree, attached, cancelled, job, aborting>>

ShutCancel(a) ==
  /\ a \in jobs
  /\ ShutStep("next", "stop")
  /\ jobs' = jobs \ {a}
  /\ job' = a
  /\ cancelled' = cancelled \cup {a}
  /\ UNCHANGED <<worktree, placeVars, taken, aborting>>

\* A variant that leaves the status of a job it waits for to its run.
ShutStopUnwaited ==
  /\ ShutStep("stop", IF job \in attached THEN "wait" ELSE "next")
  /\ task' = IF job \in attached THEN task ELSE [task EXCEPT ![job] = "cancelled"]
  /\ UNCHANGED <<worktree, handles, tree, active, attached, cancelled,
                 jobs, job, taken, aborting>>

\* try_stop; only a job whose handle was attached in time is waited for.
ShutStop ==
  /\ ShutStep("stop", IF job \in attached THEN "wait" ELSE "next")
  /\ task' = [task EXCEPT ![job] = "cancelled"]
  /\ UNCHANGED <<worktree, handles, tree, active, attached, cancelled,
                 jobs, job, taken, aborting>>

ShutJoins ==
  /\ ShutStep("wait", "next")
  /\ run[job] \in {"over", "aborted"}
  /\ UNCHANGED <<worktree, placeVars, cancelled, jobs, job, taken, aborting>>

\* SHUTDOWN_WAIT_PER_AGENT is over: the run is aborted, but not waited for.
ShutGivesUp ==
  /\ ShutStep("wait", IF worktree[job] = "none" THEN "next" ELSE "examine")
  /\ run[job] \notin {"over", "aborted"}
  /\ aborting' = aborting \cup {job}
  /\ UNCHANGED <<worktree, placeVars, cancelled, jobs, job, taken>>

\* finalize_or_keep_worktree_after_forced_shutdown
ShutExamines ==
  /\ \/ ShutStep("examine", "clean") /\ worktree[job] = "clean"
     \/ ShutStep("examine", "next")
  /\ UNCHANGED <<worktree, placeVars, cancelled, jobs, job, taken, aborting>>

ShutCleans ==
  /\ ShutStep("clean", "next")
  /\ worktree' \in {worktree, Removed(job)}
  /\ UNCHANGED <<placeVars, cancelled, jobs, job, taken, aborting>>

\* The rest of the shutdown, and the process exits.
Exit ==
  /\ jobs = {}
  /\ ShutStep("next", "exited")
  /\ UNCHANGED <<worktree, placeVars, cancelled, jobs, job, taken, aborting>>

-----------------------------------------------------------------------------
Launcher(a) ==
  \/ Prepare(a) \/ LaunchFails(a) \/ CreateTask(a) \/ StartTask(a) \/ RegisterHandle(a)
  \/ Show(a) \/ Register(a) \/ SpawnRun(a) \/ AttachHandle(a)

RunsOn(a) ==
  \/ TurnCancelled(a) \/ Examine(a) \/ Clean(a) \/ UpdateTask(a)
  \/ Unhandle(a) \/ Complete(a) \/ ShowEnd(a) \/ Tell(a) \/ AbortTakes(a)

Stopper(s) == StopCancel(s) \/ StopWrite(s) \/ MarkAborted(s)

Shutter ==
  \/ \E a \in Agents : ShutCancel(a)
  \/ ShutStop \/ ShutJoins \/ ShutGivesUp \/ ShutExamines \/ ShutCleans \/ Exit

Next ==
  \/ \E a \in Agents :
       \/ Launcher(a) \/ RunsOn(a) \/ TurnEnds(a) \/ ToolWrites(a)
       \/ \E s \in Aborters : AbortAgent(s, a)
       \/ \E s \in Stoppers : TaskStop(s, a)
  \/ \E s \in Requests : Stopper(s)
  \/ Shutdown \/ Shutter

\* What can go on is polled: launches, stops and the shutdown come to their end.
\* A turn need not: it may wait for a model, or for a user's permission.
Fairness ==
  /\ \A a \in Agents : WF_vars(Launcher(a)) /\ WF_vars(RunsOn(a))
  /\ \A s \in Requests : WF_vars(Stopper(s))
  /\ WF_vars(Shutter)

Spec == Init /\ [][Next]_vars /\ Fairness

-----------------------------------------------------------------------------
(* Properties.                                                             *)

Launches == {"new", "prepared", "created", "started", "stoppable", "shown",
             "registered", "spawned", "launched", "refused"}
Runs == {"none", "turn", "examine", "clean", "update", "unhandle", "complete",
         "hooks", "tell", "over", "aborted"}

\* Every variable has its type; the session is told of an end once at most.
TypeOK ==
  /\ launch \in [Agents -> Launches]
  /\ run \in [Agents -> Runs]
  /\ outcome \in [Agents -> Terminal \cup {None}]
  /\ worktree \in [Agents -> {"none", "clean", "changed", "removed", "lost"}]
  /\ left \in SUBSET Agents
  /\ task \in [Agents -> Terminal \cup {"none", "pending", "in_progress"}]
  /\ handles \in SUBSET Agents
  /\ tree \in [Agents -> Terminal \cup {"none", "running", "aborted"}]
  /\ active \in SUBSET Agents
  /\ attached \in SUBSET Agents
  /\ cancelled \in SUBSET Agents
  /\ told \in [Agents -> 0 .. 1]
  /\ at \in [Requests -> {"new", "cancel", "write", "mark", "done"}]
  /\ whom \in [Requests -> Agents \cup {None}]
  /\ shut \in {"no", "next", "stop", "wait", "examine", "clean", "exited"}
  /\ jobs \in SUBSET Agents
  /\ job \in Agents \cup {None}
  /\ taken \in SUBSET Agents
  /\ aborting \in SUBSET Agents

\* An agent whose run has returned is over everywhere: its handle and its job are
\* gone, and neither the task nor the tree shows it running, although the launch
\* may still hand over the join handle, and stops and the shutdown come between.
OverMeansOver ==
  \A a \in Agents :
    run[a] = "over" =>
      /\ a \notin handles
      /\ a \notin active
      /\ task[a] \in Terminal
      /\ tree[a] \in Terminal \cup {"aborted"}

\* A run is never without a supervisor: until its end is recorded, whoever aborts
\* it finds the job, and the shutdown takes it along.
SupervisedWhileRunning ==
  \A a \in Agents :
    shut = "no" /\ run[a] \in {"turn", "examine", "clean", "update", "unhandle", "complete"}
      => a \in active

\* A worktree that has changed is removed for no agent but one that was cancelled:
\* the count comes after the tools, and a count that fails keeps it.
WorkKept == \A a \in Agents : worktree[a] = "lost" => a \in cancelled

\* When the process exits, no task of a job the shutdown took is left unfinished,
\* whether its run ended in time, was given up or was never waited for.
ShutdownEndsTasks == shut = "exited" => \A a \in taken : task[a] \in Terminal

\* An agent that a user aborts stops running, even when the abort comes while it
\* is being launched and its turn would go on for ever.
AbortsEndRuns ==
  \A s \in Aborters, a \in Agents :
    at[s] = "done" /\ whom[s] = a ~> run[a] \in {"over", "aborted"} \/ ~Up

\* "You will be notified when it completes": every end is told to the session,
\* unless the shutdown comes first.
EndsAreTold ==
  \A a \in Agents : outcome[a] # None ~> told[a] = 1 \/ run[a] = "aborted" \/ ~Up
=============================================================================
