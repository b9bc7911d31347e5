------------------------ MODULE BackgroundAgentsProofs ------------------------
(***************************************************************************)
(* That an agent which is over is over everywhere, that a run always has a *)
(* supervisor, that no work of an agent is lost which nobody cancelled, and*)
(* that the shutdown leaves no unfinished task: for any number of agents,  *)
(* aborts and stops.                                                       *)
(***************************************************************************)
EXTENDS BackgroundAgents, TLAPS

\* How far the run of an agent has come.
Ended == {"unhandle", "complete", "hooks", "tell", "over"}
Unhandled == {"complete", "hooks", "tell", "over"}
Completed == {"hooks", "tell", "over"}
Shown == {"tell", "over"}
Registered == {"registered", "spawned", "launched"}

\* The run and the four places agree with one another.
PlacesOK(a) ==
  /\ run[a] # "none" => launch[a] \in {"spawned", "launched"}
  /\ run[a] \notin {"none", "turn", "aborted"} => outcome[a] \in Terminal
  /\ run[a] \in Ended => task[a] \in Terminal
  /\ a \in handles => run[a] \notin Unhandled
  /\ a \in active => launch[a] \in Registered /\ run[a] \notin Completed
  /\ run[a] \in Shown => tree[a] \in Terminal \cup {"aborted"}
  /\ run[a] # "over" => told[a] = 0
  /\ shut = "no" /\ launch[a] \in Registered =>
       a \in active \/ run[a] \in Completed \cup {"aborted"}

\* What is not cancelled has no tool at work that its run has left.
WorkOK(a) ==
  a \notin cancelled =>
    /\ a \notin left
    /\ worktree[a] # "lost"
    /\ run[a] = "clean" => worktree[a] # "changed"

\* A job that the shutdown has taken waits for it, or its task has ended.
ShutOK ==
  /\ shut \notin {"no", "next", "exited"} => job \in cancelled
  /\ shut = "no" => taken = {}
  /\ shut = "exited" => jobs = {}
  /\ \A a \in taken :
       /\ launch[a] \in Registered
       /\ a \in jobs \/ (shut = "stop" /\ job = a) \/ task[a] \in Terminal

IInv ==
  /\ TypeOK
  /\ \A a \in Agents : PlacesOK(a) /\ WorkOK(a)
  /\ ShutOK

-----------------------------------------------------------------------------
\* The session starts with nothing launched.
LEMMA InitIInv == Init => IInv
BY AgentsAssumption DEF Init, IInv, TypeOK, PlacesOK, WorkOK, ShutOK, Launches, Runs, Terminal,
   Ended, Unhandled, Completed, Shown, Registered, Requests

\* What a launch does.
LEMMA LaunchKeeps ==
  ASSUME IInv, NEW a \in Agents, Launcher(a)
  PROVE  IInv'
<1>. USE DEF LaunchStep, runVars, placeVars, stopVars, shutVars, Terminal,
           Ended, Unhandled, Completed, Shown, Registered
<1>1. CASE Prepare(a)
  <2>1. TypeOK'
    BY <1>1, AgentsAssumption DEF IInv, TypeOK, Launches, Prepare
  <2>2. \A b \in Agents : PlacesOK(b)'
    BY <1>1 DEF IInv, TypeOK, PlacesOK, Prepare
  <2>3. \A b \in Agents : WorkOK(b)'
    BY <1>1 DEF IInv, TypeOK, WorkOK, ShutOK, Prepare
  <2>4. ShutOK'
    BY <1>1 DEF IInv, TypeOK, PlacesOK, ShutOK, Prepare
  <2>. QED  BY <2>1, <2>2, <2>3, <2>4 DEF IInv
<1>2. CASE LaunchFails(a)
  <2>1. TypeOK'
    BY <1>2, AgentsAssumption DEF IInv, TypeOK, Launches, LaunchFails
  <2>2. \A b \in Agents : PlacesOK(b)'
    BY <1>2 DEF IInv, TypeOK, PlacesOK, LaunchFails
  <2>3. \A b \in Agents : WorkOK(b)'
    BY <1>2 DEF IInv, TypeOK, WorkOK, ShutOK, LaunchFails
  <2>4. ShutOK'
    BY <1>2 DEF IInv, TypeOK, PlacesOK, ShutOK, LaunchFails
  <2>. QED  BY <2>1, <2>2, <2>3, <2>4 DEF IInv
<1>3. CASE CreateTask(a)
  <2>1. TypeOK'
    BY <1>3, AgentsAssumption DEF IInv, TypeOK, Launches, CreateTask
  <2>2. \A b \in Agents : PlacesOK(b)'
    BY <1>3 DEF IInv, TypeOK, PlacesOK, CreateTask
  <2>3. \A b \in Agents : WorkOK(b)'
    BY <1>3 DEF IInv, TypeOK, WorkOK, ShutOK, CreateTask
  <2>4. ShutOK'
    BY <1>3 DEF IInv, TypeOK, PlacesOK, ShutOK, CreateTask
  <2>. QED  BY <2>1, <2>2, <2>3, <2>4 DEF IInv
<1>4. CASE StartTask(a)
  <2>1. TypeOK'
    BY <1>4, AgentsAssumption DEF IInv, TypeOK, Launches, StartTask
  <2>2. \A b \in Agents : PlacesOK(b)'
    BY <1>4 DEF IInv, TypeOK, PlacesOK, StartTask
  <2>3. \A b \in Agents : WorkOK(b)'
    BY <1>4 DEF IInv, TypeOK, WorkOK, ShutOK, StartTask
  <2>4. ShutOK'
    BY <1>4 DEF IInv, TypeOK, PlacesOK, ShutOK, StartTask
  <2>. QED  BY <2>1, <2>2, <2>3, <2>4 DEF IInv
<1>5. CASE RegisterHandle(a)
  <2>1. TypeOK'
    BY <1>5, AgentsAssumption DEF IInv, TypeOK, Launches, RegisterHandle
  <2>2. \A b \in Agents : PlacesOK(b)'
    BY <1>5 DEF IInv, TypeOK, PlacesOK, RegisterHandle
  <2>3. \A b \in Agents : WorkOK(b)'
    BY <1>5 DEF IInv, TypeOK, WorkOK, ShutOK, RegisterHandle
  <2>4. ShutOK'
    BY <1>5 DEF IInv, TypeOK, PlacesOK, ShutOK, RegisterHandle
  <2>. QED  BY <2>1, <2>2, <2>3, <2>4 DEF IInv
<1>6. CASE Show(a)
  <2>1. TypeOK'
    BY <1>6, AgentsAssumption DEF IInv, TypeOK, Launches, Show
  <2>2. \A b \in Agents : PlacesOK(b)'
    BY <1>6 DEF IInv, TypeOK, PlacesOK, Show
  <2>3. \A b \in Agents : WorkOK(b)'
    BY <1>6 DEF IInv, TypeOK, WorkOK, ShutOK, Show
  <2>4. ShutOK'
    BY <1>6 DEF IInv, TypeOK, PlacesOK, ShutOK, Show
  <2>. QED  BY <2>1, <2>2, <2>3, <2>4 DEF IInv
<1>7. CASE Register(a)
  <2>1. TypeOK'
    BY <1>7, AgentsAssumption DEF IInv, TypeOK, Launches, Register
  <2>2. \A b \in Agents : PlacesOK(b)'
    BY <1>7 DEF IInv, TypeOK, PlacesOK, Register
  <2>3. \A b \in Agents : WorkOK(b)'
    BY <1>7 DEF IInv, TypeOK, WorkOK, ShutOK, Register
  <2>4. ShutOK'
    BY <1>7 DEF IInv, TypeOK, PlacesOK, ShutOK, Register
  <2>. QED  BY <2>1, <2>2, <2>3, <2>4 DEF IInv
<1>8. CASE SpawnRun(a)
  <2>1. TypeOK'
    BY <1>8, AgentsAssumption DEF IInv, TypeOK, Launches, Runs, SpawnRun
  <2>2. \A b \in Agents : PlacesOK(b)'
    BY <1>8 DEF IInv, TypeOK, PlacesOK, SpawnRun
  <2>3. \A b \in Agents : WorkOK(b)'
    BY <1>8 DEF IInv, TypeOK, WorkOK, ShutOK, SpawnRun
  <2>4. ShutOK'
    BY <1>8 DEF IInv, TypeOK, PlacesOK, ShutOK, SpawnRun
  <2>. QED  BY <2>1, <2>2, <2>3, <2>4 DEF IInv
<1>9. CASE AttachHandle(a)
  <2>1. TypeOK'
    BY <1>9, AgentsAssumption DEF IInv, TypeOK, Launches, AttachHandle
  <2>2. \A b \in Agents : PlacesOK(b)'
    BY <1>9 DEF IInv, TypeOK, PlacesOK, AttachHandle
  <2>3. \A b \in Agents : WorkOK(b)'
    BY <1>9 DEF IInv, TypeOK, WorkOK, ShutOK, AttachHandle
  <2>4. ShutOK'
    BY <1>9 DEF IInv, TypeOK, PlacesOK, ShutOK, AttachHandle
  <2>. QED  BY <2>1, <2>2, <2>3, <2>4 DEF IInv
<1>. QED  BY <1>1, <1>2, <1>3, <1>4, <1>5, <1>6, <1>7, <1>8, <1>9 DEF Launcher

\* What a run does, and its tools.
LEMMA RunKeeps ==
  ASSUME IInv, NEW a \in Agents, RunsOn(a) \/ TurnEnds(a) \/ ToolWrites(a)
  PROVE  IInv'
<1>. USE DEF RunStep, runVars, placeVars, stopVars, shutVars, Terminal,
           Ended, Unhandled, Completed, Shown, Registered
<1>1. CASE TurnEnds(a)
  <2>1. TypeOK'
    BY <1>1, AgentsAssumption DEF IInv, TypeOK, Runs, TurnEnds, AfterTurn
  <2>2. \A b \in Agents : PlacesOK(b)'
    BY <1>1 DEF IInv, TypeOK, PlacesOK, TurnEnds, AfterTurn
  <2>3. \A b \in Agents : WorkOK(b)'
    BY <1>1 DEF IInv, TypeOK, WorkOK, ShutOK, TurnEnds, AfterTurn
  <2>4. ShutOK'
    BY <1>1 DEF IInv, TypeOK, PlacesOK, ShutOK, TurnEnds, AfterTurn
  <2>. QED  BY <2>1, <2>2, <2>3, <2>4 DEF IInv
<1>2. CASE TurnCancelled(a)
  <2>1. TypeOK'
    BY <1>2, AgentsAssumption DEF IInv, TypeOK, Runs, TurnCancelled, AfterTurn
  <2>2. \A b \in Agents : PlacesOK(b)'
    BY <1>2 DEF IInv, TypeOK, PlacesOK, TurnCancelled, AfterTurn
  <2>3. \A b \in Agents : WorkOK(b)'
    BY <1>2 DEF IInv, TypeOK, WorkOK, ShutOK, TurnCancelled, AfterTurn
  <2>4. ShutOK'
    BY <1>2 DEF IInv, TypeOK, PlacesOK, ShutOK, TurnCancelled, AfterTurn
  <2>. QED  BY <2>1, <2>2, <2>3, <2>4 DEF IInv
<1>3. CASE ToolWrites(a)
  <2>1. TypeOK'
    BY <1>3, AgentsAssumption DEF IInv, TypeOK, Runs, ToolWrites
  <2>2. \A b \in Agents : PlacesOK(b)'
    BY <1>3 DEF IInv, TypeOK, PlacesOK, ToolWrites
  <2>3. \A b \in Agents : WorkOK(b)'
    BY <1>3 DEF IInv, TypeOK, WorkOK, ShutOK, ToolWrites
  <2>4. ShutOK'
    BY <1>3 DEF IInv, TypeOK, PlacesOK, ShutOK, ToolWrites
  <2>. QED  BY <2>1, <2>2, <2>3, <2>4 DEF IInv
<1>4. CASE Examine(a)
  <2>1. TypeOK'
    BY <1>4, AgentsAssumption DEF IInv, TypeOK, Runs, Examine
  <2>2. \A b \in Agents : PlacesOK(b)'
    BY <1>4 DEF IInv, TypeOK, PlacesOK, Examine
  <2>3. \A b \in Agents : WorkOK(b)'
    BY <1>4 DEF IInv, TypeOK, WorkOK, ShutOK, Examine
  <2>4. ShutOK'
    BY <1>4 DEF IInv, TypeOK, PlacesOK, ShutOK, Examine
  <2>. QED  BY <2>1, <2>2, <2>3, <2>4 DEF IInv
<1>5. CASE Clean(a)
  <2>1. TypeOK'
    BY <1>5, AgentsAssumption DEF IInv, TypeOK, Runs, Clean, Removed
  <2>2. \A b \in Agents : PlacesOK(b)'
    BY <1>5 DEF IInv, TypeOK, PlacesOK, Clean, Removed
  <2>3. \A b \in Agents : WorkOK(b)'
    BY <1>5 DEF IInv, TypeOK, WorkOK, ShutOK, Clean, Removed
  <2>4. ShutOK'
    BY <1>5 DEF IInv, TypeOK, PlacesOK, ShutOK, Clean, Removed
  <2>. QED  BY <2>1, <2>2, <2>3, <2>4 DEF IInv
<1>6. CASE UpdateTask(a)
  <2>1. TypeOK'
    BY <1>6, AgentsAssumption DEF IInv, TypeOK, PlacesOK, Runs, UpdateTask
  <2>2. \A b \in Agents : PlacesOK(b)'
    BY <1>6 DEF IInv, TypeOK, PlacesOK, UpdateTask
  <2>3. \A b \in Agents : WorkOK(b)'
    BY <1>6 DEF IInv, TypeOK, WorkOK, ShutOK, UpdateTask
  <2>4. ShutOK'
    BY <1>6 DEF IInv, TypeOK, PlacesOK, ShutOK, UpdateTask
  <2>. QED  BY <2>1, <2>2, <2>3, <2>4 DEF IInv
<1>7. CASE Unhandle(a)
  <2>1. TypeOK'
    BY <1>7, AgentsAssumption DEF IInv, TypeOK, Runs, Unhandle
  <2>2. \A b \in Agents : PlacesOK(b)'
    BY <1>7 DEF IInv, TypeOK, PlacesOK, Unhandle
  <2>3. \A b \in Agents : WorkOK(b)'
    BY <1>7 DEF IInv, TypeOK, WorkOK, ShutOK, Unhandle
  <2>4. ShutOK'
    BY <1>7 DEF IInv, TypeOK, PlacesOK, ShutOK, Unhandle
  <2>. QED  BY <2>1, <2>2, <2>3, <2>4 DEF IInv
<1>8. CASE Complete(a)
  <2>1. TypeOK'
    BY <1>8, AgentsAssumption DEF IInv, TypeOK, Runs, Complete
  <2>2. \A b \in Agents : PlacesOK(b)'
    BY <1>8 DEF IInv, TypeOK, PlacesOK, Complete
  <2>3. \A b \in Agents : WorkOK(b)'
    BY <1>8 DEF IInv, TypeOK, WorkOK, ShutOK, Complete
  <2>4. ShutOK'
    BY <1>8 DEF IInv, TypeOK, PlacesOK, ShutOK, Complete
  <2>. QED  BY <2>1, <2>2, <2>3, <2>4 DEF IInv
<1>9. CASE ShowEnd(a)
  <2>1. TypeOK'
    BY <1>9, AgentsAssumption DEF IInv, TypeOK, PlacesOK, Runs, ShowEnd
  <2>2. \A b \in Agents : PlacesOK(b)'
    BY <1>9 DEF IInv, TypeOK, PlacesOK, ShowEnd
  <2>3. \A b \in Agents : WorkOK(b)'
    BY <1>9 DEF IInv, TypeOK, WorkOK, ShutOK, ShowEnd
  <2>4. ShutOK'
    BY <1>9 DEF IInv, TypeOK, PlacesOK, ShutOK, ShowEnd
  <2>. QED  BY <2>1, <2>2, <2>3, <2>4 DEF IInv
<1>10. CASE Tell(a)
  <2>1. TypeOK'
    BY <1>10, AgentsAssumption DEF IInv, TypeOK, PlacesOK, Runs, Tell
  <2>2. \A b \in Agents : PlacesOK(b)'
    BY <1>10 DEF IInv, TypeOK, PlacesOK, Tell
  <2>3. \A b \in Agents : WorkOK(b)'
    BY <1>10 DEF IInv, TypeOK, WorkOK, ShutOK, Tell
  <2>4. ShutOK'
    BY <1>10 DEF IInv, TypeOK, PlacesOK, ShutOK, Tell
  <2>. QED  BY <2>1, <2>2, <2>3, <2>4 DEF IInv
<1>11. CASE AbortTakes(a)
  <2>1. TypeOK'
    BY <1>11, AgentsAssumption DEF IInv, TypeOK, Runs, AbortTakes, Waits
  <2>2. \A b \in Agents : PlacesOK(b)'
    BY <1>11 DEF IInv, TypeOK, PlacesOK, AbortTakes, Waits
  <2>3. \A b \in Agents : WorkOK(b)'
    BY <1>11 DEF IInv, TypeOK, WorkOK, ShutOK, AbortTakes, Waits
  <2>4. ShutOK'
    BY <1>11 DEF IInv, TypeOK, PlacesOK, ShutOK, AbortTakes, Waits
  <2>. QED  BY <2>1, <2>2, <2>3, <2>4 DEF IInv
<1>. QED  BY <1>1, <1>2, <1>3, <1>4, <1>5, <1>6, <1>7, <1>8, <1>9, <1>10, <1>11 DEF RunsOn

\* What the request to abort or to stop does.
LEMMA AskKeeps ==
  ASSUME IInv, NEW s \in Requests, NEW a \in Agents, AbortAgent(s, a) \/ TaskStop(s, a)
  PROVE  IInv'
<1>. USE DEF Ask, runVars, placeVars, stopVars, shutVars, Terminal,
           Ended, Unhandled, Completed, Shown, Registered
<1>1. CASE AbortAgent(s, a)
  <2>1. TypeOK'
    BY <1>1, AgentsAssumption DEF IInv, TypeOK, Requests, AbortAgent
  <2>2. \A b \in Agents : PlacesOK(b)'
    BY <1>1 DEF IInv, TypeOK, PlacesOK, AbortAgent
  <2>3. \A b \in Agents : WorkOK(b)'
    BY <1>1 DEF IInv, TypeOK, WorkOK, ShutOK, AbortAgent
  <2>4. ShutOK'
    BY <1>1 DEF IInv, TypeOK, PlacesOK, ShutOK, AbortAgent
  <2>. QED  BY <2>1, <2>2, <2>3, <2>4 DEF IInv
<1>2. CASE TaskStop(s, a)
  <2>1. TypeOK'
    BY <1>2, AgentsAssumption DEF IInv, TypeOK, Requests, TaskStop
  <2>2. \A b \in Agents : PlacesOK(b)'
    BY <1>2 DEF IInv, TypeOK, PlacesOK, TaskStop
  <2>3. \A b \in Agents : WorkOK(b)'
    BY <1>2 DEF IInv, TypeOK, WorkOK, ShutOK, TaskStop
  <2>4. ShutOK'
    BY <1>2 DEF IInv, TypeOK, PlacesOK, ShutOK, TaskStop
  <2>. QED  BY <2>1, <2>2, <2>3, <2>4 DEF IInv
<1>. QED  BY <1>1, <1>2

\* What comes of such a request.
LEMMA StopperKeeps ==
  ASSUME IInv, NEW s \in Requests, Stopper(s)
  PROVE  IInv'
<1>. USE DEF StopStep, runVars, placeVars, stopVars, shutVars, Terminal,
           Ended, Unhandled, Completed, Shown, Registered
<1>1. CASE StopCancel(s)
  <2>1. TypeOK'
    BY <1>1, AgentsAssumption DEF IInv, TypeOK, Requests, StopCancel
  <2>2. \A b \in Agents : PlacesOK(b)'
    BY <1>1 DEF IInv, TypeOK, PlacesOK, StopCancel
  <2>3. \A b \in Agents : WorkOK(b)'
    BY <1>1 DEF IInv, TypeOK, WorkOK, ShutOK, StopCancel
  <2>4. ShutOK'
    BY <1>1 DEF IInv, TypeOK, PlacesOK, ShutOK, StopCancel
  <2>. QED  BY <2>1, <2>2, <2>3, <2>4 DEF IInv
<1>2. CASE StopWrite(s)
  <2>1. TypeOK'
    BY <1>2, AgentsAssumption DEF IInv, TypeOK, Requests, StopWrite
  <2>2. \A b \in Agents : PlacesOK(b)'
    BY <1>2 DEF IInv, TypeOK, PlacesOK, StopWrite
  <2>3. \A b \in Agents : WorkOK(b)'
    BY <1>2 DEF IInv, TypeOK, WorkOK, ShutOK, StopWrite
  <2>4. ShutOK'
    BY <1>2 DEF IInv, TypeOK, PlacesOK, ShutOK, StopWrite
  <2>. QED  BY <2>1, <2>2, <2>3, <2>4 DEF IInv
<1>3. CASE MarkAborted(s)
  <2>1. TypeOK'
    BY <1>3, AgentsAssumption DEF IInv, TypeOK, Requests, MarkAborted
  <2>2. \A b \in Agents : PlacesOK(b)'
    BY <1>3 DEF IInv, TypeOK, PlacesOK, MarkAborted
  <2>3. \A b \in Agents : WorkOK(b)'
    BY <1>3 DEF IInv, TypeOK, WorkOK, ShutOK, MarkAborted
  <2>4. ShutOK'
    BY <1>3 DEF IInv, TypeOK, PlacesOK, ShutOK, MarkAborted
  <2>. QED  BY <2>1, <2>2, <2>3, <2>4 DEF IInv
<1>. QED  BY <1>1, <1>2, <1>3 DEF Stopper

\* What the shutdown does.
LEMMA ShutKeeps ==
  ASSUME IInv, Shutdown \/ Shutter
  PROVE  IInv'
<1>. USE DEF ShutStep, runVars, placeVars, stopVars, shutVars, Terminal,
           Ended, Unhandled, Completed, Shown, Registered
<1>1. CASE Shutdown
  <2>1. TypeOK'
    BY <1>1, AgentsAssumption DEF IInv, TypeOK, ShutOK, Shutdown
  <2>2. \A b \in Agents : PlacesOK(b)'
    BY <1>1 DEF IInv, TypeOK, PlacesOK, Shutdown
  <2>3. \A b \in Agents : WorkOK(b)'
    BY <1>1 DEF IInv, TypeOK, WorkOK, ShutOK, Shutdown
  <2>4. ShutOK'
    BY <1>1 DEF IInv, TypeOK, PlacesOK, ShutOK, Shutdown
  <2>. QED  BY <2>1, <2>2, <2>3, <2>4 DEF IInv
<1>2. ASSUME NEW a \in Agents, ShutCancel(a)
      PROVE  IInv'
  <2>1. TypeOK'
    BY <1>2, AgentsAssumption DEF IInv, TypeOK, ShutOK, ShutCancel
  <2>2. \A b \in Agents : PlacesOK(b)'
    BY <1>2 DEF IInv, TypeOK, PlacesOK, ShutCancel
  <2>3. \A b \in Agents : WorkOK(b)'
    BY <1>2 DEF IInv, TypeOK, WorkOK, ShutOK, ShutCancel
  <2>4. ShutOK'
    BY <1>2 DEF IInv, TypeOK, PlacesOK, ShutOK, ShutCancel
  <2>. QED  BY <2>1, <2>2, <2>3, <2>4 DEF IInv
<1>3. CASE ShutStop
  <2>1. TypeOK'
    BY <1>3, AgentsAssumption DEF IInv, TypeOK, ShutOK, ShutStop
  <2>2. \A b \in Agents : PlacesOK(b)'
    BY <1>3 DEF IInv, TypeOK, PlacesOK, ShutStop
  <2>3. \A b \in Agents : WorkOK(b)'
    BY <1>3 DEF IInv, TypeOK, WorkOK, ShutOK, ShutStop
  <2>4. ShutOK'
    BY <1>3 DEF IInv, TypeOK, PlacesOK, ShutOK, ShutStop
  <2>. QED  BY <2>1, <2>2, <2>3, <2>4 DEF IInv
<1>4. CASE ShutJoins
  <2>1. TypeOK'
    BY <1>4, AgentsAssumption DEF IInv, TypeOK, ShutOK, ShutJoins
  <2>2. \A b \in Agents : PlacesOK(b)'
    BY <1>4 DEF IInv, TypeOK, PlacesOK, ShutJoins
  <2>3. \A b \in Agents : WorkOK(b)'
    BY <1>4 DEF IInv, TypeOK, WorkOK, ShutOK, ShutJoins
  <2>4. ShutOK'
    BY <1>4 DEF IInv, TypeOK, PlacesOK, ShutOK, ShutJoins
  <2>. QED  BY <2>1, <2>2, <2>3, <2>4 DEF IInv
<1>5. CASE ShutGivesUp
  <2>1. TypeOK'
    BY <1>5, AgentsAssumption DEF IInv, TypeOK, ShutOK, ShutGivesUp
  <2>2. \A b \in Agents : PlacesOK(b)'
    BY <1>5 DEF IInv, TypeOK, PlacesOK, ShutGivesUp
  <2>3. \A b \in Agents : WorkOK(b)'
    BY <1>5 DEF IInv, TypeOK, WorkOK, ShutOK, ShutGivesUp
  <2>4. ShutOK'
    BY <1>5 DEF IInv, TypeOK, PlacesOK, ShutOK, ShutGivesUp
  <2>. QED  BY <2>1, <2>2, <2>3, <2>4 DEF IInv
<1>6. CASE ShutExamines
  <2>1. TypeOK'
    BY <1>6, AgentsAssumption DEF IInv, TypeOK, ShutOK, ShutExamines
  <2>2. \A b \in Agents : PlacesOK(b)'
    BY <1>6 DEF IInv, TypeOK, PlacesOK, ShutExamines
  <2>3. \A b \in Agents : WorkOK(b)'
    BY <1>6 DEF IInv, TypeOK, WorkOK, ShutOK, ShutExamines
  <2>4. ShutOK'
    BY <1>6 DEF IInv, TypeOK, PlacesOK, ShutOK, ShutExamines
  <2>. QED  BY <2>1, <2>2, <2>3, <2>4 DEF IInv
<1>7. CASE ShutCleans
  <2>1. TypeOK'
    BY <1>7, AgentsAssumption DEF IInv, TypeOK, ShutOK, ShutCleans, Removed
  <2>2. \A b \in Agents : PlacesOK(b)'
    BY <1>7 DEF IInv, TypeOK, PlacesOK, ShutCleans, Removed
  <2>3. \A b \in Agents : WorkOK(b)'
    BY <1>7 DEF IInv, TypeOK, WorkOK, ShutOK, ShutCleans, Removed
  <2>4. ShutOK'
    BY <1>7 DEF IInv, TypeOK, PlacesOK, ShutOK, ShutCleans, Removed
  <2>. QED  BY <2>1, <2>2, <2>3, <2>4 DEF IInv
<1>8. CASE Exit
  <2>1. TypeOK'
    BY <1>8, AgentsAssumption DEF IInv, TypeOK, ShutOK, Exit
  <2>2. \A b \in Agents : PlacesOK(b)'
    BY <1>8 DEF IInv, TypeOK, PlacesOK, Exit
  <2>3. \A b \in Agents : WorkOK(b)'
    BY <1>8 DEF IInv, TypeOK, WorkOK, ShutOK, Exit
  <2>4. ShutOK'
    BY <1>8 DEF IInv, TypeOK, PlacesOK, ShutOK, Exit
  <2>. QED  BY <2>1, <2>2, <2>3, <2>4 DEF IInv
<1>. QED  BY <1>1, <1>2, <1>3, <1>4, <1>5, <1>6, <1>7, <1>8 DEF Shutter

-----------------------------------------------------------------------------
\* The invariant holds of every step, and of none.
LEMMA NextIInv ==
  ASSUME IInv, [Next]_vars
  PROVE  IInv'
<1>1. CASE UNCHANGED vars
  BY <1>1 DEF IInv, TypeOK, PlacesOK, WorkOK, ShutOK, vars,
     runVars, placeVars, stopVars, shutVars
<1>2. CASE Next
  <2>1. ASSUME NEW a \in Agents, Launcher(a) PROVE IInv'
    BY <2>1, LaunchKeeps
  <2>2. ASSUME NEW a \in Agents, RunsOn(a) \/ TurnEnds(a) \/ ToolWrites(a) PROVE IInv'
    BY <2>2, RunKeeps
  <2>3. ASSUME NEW a \in Agents, NEW s \in Requests,
               AbortAgent(s, a) \/ TaskStop(s, a)
        PROVE  IInv'
    BY <2>3, AskKeeps
  <2>4. ASSUME NEW s \in Requests, Stopper(s) PROVE IInv'
    BY <2>4, StopperKeeps
  <2>5. CASE Shutdown \/ Shutter
    BY <2>5, ShutKeeps
  <2>. QED  BY <1>2, <2>1, <2>2, <2>3, <2>4, <2>5 DEF Next, Requests
<1>. QED  BY <1>1, <1>2

\* What every reachable state of the agents, the stops and the shutdown satisfies.
THEOREM Invariant == Spec => []IInv
<1>. QED  BY InitIInv, NextIInv, PTL DEF Spec

\* Every variable has its type, and an end is told once at most.
THEOREM AgentTypesCorrect == Spec => []TypeOK
<1>1. IInv => TypeOK
  BY DEF IInv
<1>. QED  BY <1>1, Invariant, PTL

\* An agent whose run has returned has no handle, no job, a task that has ended and
\* a node that has.
THEOREM OverEverywhere == Spec => []OverMeansOver
<1>1. IInv => OverMeansOver
  BY DEF IInv, PlacesOK, OverMeansOver, Ended, Unhandled, Completed, Shown
<1>. QED  BY <1>1, Invariant, PTL

\* Until the shutdown, a run has a job until its end is recorded.
THEOREM AlwaysSupervised == Spec => []SupervisedWhileRunning
<1>1. IInv => SupervisedWhileRunning
  BY DEF IInv, PlacesOK, SupervisedWhileRunning, Completed, Registered
<1>. QED  BY <1>1, Invariant, PTL

\* Only a cancelled agent can lose what it has changed.
THEOREM UncancelledWorkKept == Spec => []WorkKept
<1>1. IInv => WorkKept
  BY DEF IInv, WorkOK, WorkKept
<1>. QED  BY <1>1, Invariant, PTL

\* When the process exits, every task the shutdown took has ended.
THEOREM ShutdownLeavesNoTask == Spec => []ShutdownEndsTasks
<1>1. IInv => ShutdownEndsTasks
  BY DEF IInv, ShutOK, ShutdownEndsTasks
<1>. QED  BY <1>1, Invariant, PTL
=============================================================================
