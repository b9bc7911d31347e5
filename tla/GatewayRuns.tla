----------------------------- MODULE GatewayRuns -----------------------------
(***************************************************************************)
(* The remote-control gateway at work: the HTTP handlers of the daemon     *)
(* create, start and stop runs (crates/gateway/src/runner.rs) in the       *)
(* store, and pass prompts to the worker through its command files; the    *)
(* worker process claims a command at a time and executes it (crates/      *)
(* cc-daemon/src/gateway_bridge.rs); the daemon supervises the worker and  *)
(* recovers the runs when it starts (supervisor.rs, gateway_routes.rs).    *)
(*                                                                         *)
(* Handlers, workers and the recovery are processes that run at the same   *)
(* time and share nothing but files.  A step is one write to a file, or    *)
(* the read that decides about it.  Any of the processes may die between   *)
(* two of its steps; a worker survives the daemon that crashes.            *)
(*                                                                         *)
(* Left out: authentication, delivery, texts and times, the session lock   *)
(* (nothing acquires it), and what waits for an approval or an answer (no  *)
(* code gives a run one of these statuses).  A full disk is left out too,  *)
(* and two writers of one meta.json who meet in its temporary file.        *)
(***************************************************************************)
EXTENDS GatewayStore, DaemonCommands

CONSTANTS
  Stops,       \* the requests to stop a run
  Workers,     \* the worker processes, one after the other
  Recovery,    \* the recovery that a starting daemon runs
  Asks,        \* bound: what clients ask for: a slot or NoKey, and a policy
  MaxQueued,   \* GatewayPolicy::max_queued (32)
  MaxRestarts, \* RestartPolicy::max_restarts (3)
  MaxFaults    \* bound: workers that die, daemons that crash or are stopped

ASSUME GatewayAssumption ==
  /\ Requests \cap Stops = {} /\ Requests \cap Workers = {} /\ Stops \cap Workers = {}
  /\ Recovery \notin Requests \cup Stops \cup Workers
  /\ Asks \subseteq (Slots \cup {NoKey}) \X {"queue", "reject", "interrupt", "steer"}
  /\ NoKey \notin Keys \cup Slots \cup {None}
  /\ None \notin Requests \cup Slots \cup Statuses \cup {"error"}
  /\ "error" \notin Requests
  /\ {"unstarted", "abandoned"} \cap Workers = {}
  /\ MaxQueued \in Nat /\ MaxRestarts \in Nat /\ MaxFaults \in Nat

VARIABLES
  pc,       \* what each process does next
  to,       \* the status it is giving its run, or None
  of,       \* the run that a stop, or the recovery, is about
  slot,     \* the source and the key of each submission, None before it comes
  plan,     \* what the busy policy makes of it, until that is done
  answer,   \* what it was answered
  cur,      \* the command each worker executes
  todo,     \* the runs the recovery has found and has yet to look after
  daemon,   \* "up", "recovering" or "down"
  managed,  \* the worker that the daemon supervises
  restarts, \* how often it has restarted one
  orphans,  \* the workers that a daemon left behind when it crashed
  faults    \* how many faults there were

apiVars == <<of, slot, plan, answer>>
supervisorVars == <<todo, daemon, managed, restarts, orphans, faults>>
vars == <<storeVars, commands, pc, to, apiVars, cur, supervisorVars>>

Procs == Requests \cup Stops \cup Workers \cup {Recovery}
Plans == {"start", "queue", "interrupt", "reject", "unsupported"}

PCs == {"new", "reserve", "await", "mkdir", "meta", "created", "abort", "find", "send",
        "load", "write", "tell", "done", "lost", "scan",
        "down", "idle", "claim", "stream", "handled", "failed"}

Running(w) == pc[w] # "down"

\* The key goes into the metadata and the command as a digest of itself.
Keyed(q) == slot[q] \in Slots
Key(q) == IF Keyed(q) THEN slot[q][2] ELSE NoKey

\* The run that a process works on.
RunOf(p) == CASE p \in Requests -> p
              [] p \in Workers -> commands[cur[p]].run
              [] p \in Stops \cup {Recovery} -> of[p]

\* The process goes on at the step l; it turns to giving its run the status
\* st, which takes the three steps of update_status.
Goto(p, l) == pc' = [pc EXCEPT ![p] = l]
Update(p, st) == Goto(p, "load") /\ to' = [to EXCEPT ![p] = st]
Leave(p, l) == Goto(p, l) /\ to' = [to EXCEPT ![p] = None]

Reply(q, a) == Leave(q, "done") /\ answer' = [answer EXCEPT ![q] = a]

Init ==
  /\ StoreInit
  /\ CommandsInit
  /\ managed \in Workers
  /\ pc = [p \in Procs |-> CASE p = managed -> "idle"
                             [] p \in Workers \ {managed} -> "down"
                             [] p = Recovery -> "done"
                             [] p \in Requests \cup Stops -> "new"]
  /\ to = [p \in Procs |-> None]
  /\ of = [p \in Stops \cup {Recovery} |-> None]
  /\ slot = [q \in Requests |-> None]
  /\ plan = [q \in Requests |-> None]
  /\ answer = [q \in Requests |-> None]
  /\ cur = [w \in Workers |-> 0]
  /\ todo = {}
  /\ daemon = "up"
  /\ restarts = 0
  /\ orphans = {}
  /\ faults = 0

-----------------------------------------------------------------------------
(* GatewayRunner::submit_run, in a handler of the daemon.  The busy        *)
(* snapshot is taken before the run is created, and decides about it when  *)
(* it has been: evaluate_busy.                                             *)

Decision(bp, active) ==
  CASE bp = "steer" -> "unsupported"
    [] bp # "steer" /\ active = 0 -> "start"
    [] bp = "reject" /\ active > 0 -> "reject"
    [] bp = "interrupt" /\ active > 0 -> "interrupt"
    [] bp = "queue" /\ active > 0 -> IF active - 1 >= MaxQueued THEN "reject" ELSE "queue"

\* A webhook only asks whether there is an active submit.
Submit(q, s, bp) ==
  /\ daemon = "up"
  /\ pc[q] = "new"
  /\ slot' = [slot EXCEPT ![q] = s]
  /\ \E active \in {ActiveSubmits, IF ActiveSubmits = 0 THEN 0 ELSE 1} :
       plan' = [plan EXCEPT ![q] = Decision(bp, active)]
  /\ \/ s = NoKey /\ Goto(q, "mkdir")
     \/ s \in Slots /\ index[s] = None /\ Goto(q, "reserve")
     \/ s \in Slots /\ index[s] # None /\ Goto(q, "await")
  /\ UNCHANGED <<storeVars, commands, to, of, answer, cur, supervisorVars>>

\* reserve_idempotency_index: who comes second asks for the first one's run.
ReserveSlot(q) ==
  /\ pc[q] = "reserve"
  /\ \/ Reserve(slot[q], q) /\ Goto(q, "mkdir")
     \/ index[slot[q]] # None /\ Goto(q, "await") /\ UNCHANGED index
  /\ UNCHANGED <<dir, meta, told, commands, to, apiVars, cur, supervisorVars>>

\* A variant that answers with the reserved run, whether it is there or not.
AwaitBlindly(q) ==
  /\ pc[q] = "await"
  /\ Reply(q, index[slot[q]])
  /\ plan' = [plan EXCEPT ![q] = None]
  /\ UNCHANGED <<storeVars, commands, of, slot, cur, supervisorVars>>

\* load_reserved_run: it waits for the metadata, but not for long.
AwaitRun(q) ==
  /\ pc[q] = "await"
  /\ \/ meta[index[slot[q]]] # None /\ Reply(q, index[slot[q]])
     \/ meta[index[slot[q]]] = None /\ Reply(q, "error")
  /\ plan' = [plan EXCEPT ![q] = None]
  /\ UNCHANGED <<storeVars, commands, of, slot, cur, supervisorVars>>

CreateDir(q) ==
  /\ pc[q] = "mkdir"
  /\ MakeDir(q)
  /\ Goto(q, "meta")
  /\ UNCHANGED <<index, meta, told, commands, to, apiVars, cur, supervisorVars>>

CreateMeta(q) ==
  /\ pc[q] = "meta"
  /\ WriteMeta(q, "queued")
  /\ Goto(q, "created")
  /\ UNCHANGED <<index, dir, told, commands, to, apiVars, cur, supervisorVars>>

\* The first event, and what becomes of the run.  One that is not supported
\* and one that is to wait stay as they are.
Decide(q) ==
  /\ pc[q] = "created"
  /\ AppendEvent(q, "created")
  /\ \/ plan[q] = "start" /\ Goto(q, "find") /\ UNCHANGED <<to, answer>>
     \/ plan[q] = "queue" /\ Reply(q, q)
     \/ plan[q] = "reject" /\ Update(q, "failed") /\ UNCHANGED answer
     \/ plan[q] = "interrupt" /\ Goto(q, "abort") /\ UNCHANGED <<to, answer>>
     \/ plan[q] = "unsupported" /\ Reply(q, "error")
  /\ plan' = [plan EXCEPT ![q] = None]
  /\ UNCHANGED <<index, dir, meta, commands, of, slot, cur, supervisorVars>>

\* A handler sends an abort: interrupt_then_start, stop_run.
SendAbort(p) ==
  /\ p \in Requests \cup Stops
  /\ pc[p] = "abort"
  /\ Enqueue("abort", RunOf(p), NoKey)
  /\ \/ p \in Requests /\ Goto(p, "find") /\ UNCHANGED to
     \/ p \in Stops /\ Update(p, "cancelled")
  /\ UNCHANGED <<storeVars, apiVars, cur, supervisorVars>>

\* start_run's dispatch: the bridge looks for a command with the same key ...
FindCommand(q) ==
  /\ pc[q] = "find"
  /\ \/ Keyed(q) /\ HasCommand(Key(q)) /\ Update(q, "running")
     \/ ~(Keyed(q) /\ HasCommand(Key(q))) /\ Goto(q, "send") /\ UNCHANGED to
  /\ UNCHANGED <<storeVars, commands, apiVars, cur, supervisorVars>>

\* ... and writes one when there is none.
SendSubmit(q) ==
  /\ pc[q] = "send"
  /\ Enqueue("submit", q, Key(q))
  /\ Update(q, "running")
  /\ UNCHANGED <<storeVars, apiVars, cur, supervisorVars>>

\* A variant that cancels the run and tells no worker.
StopUnsaid(s, r) ==
  /\ daemon = "up"
  /\ pc[s] = "new"
  /\ meta[r] \notin Terminal \cup {None}
  /\ of' = [of EXCEPT ![s] = r]
  /\ Update(s, "cancelled")
  /\ UNCHANGED <<storeVars, commands, slot, plan, answer, cur, supervisorVars>>

\* GatewayRunner::stop_run, of a run that has not ended.
StopRun(s, r) ==
  /\ daemon = "up"
  /\ pc[s] = "new"
  /\ meta[r] \notin Terminal \cup {None}
  /\ of' = [of EXCEPT ![s] = r]
  /\ Goto(s, "abort")
  /\ UNCHANGED <<storeVars, commands, to, slot, plan, answer, cur, supervisorVars>>

-----------------------------------------------------------------------------
(* GatewayStore::update_status, in a handler, a worker or the recovery: it *)
(* reads and checks, replaces the metadata and appends the event.          *)

\* A worker process is gone.
Exit(w) ==
  /\ Leave(w, "down")
  /\ cur' = [cur EXCEPT ![w] = 0]
  /\ orphans' = orphans \ {w}

\* The process is told that it may not.  A worker reports the failure, and
\* one that may not even do that ends.
Refused(p) ==
  \/ p \in Requests /\ Reply(p, "error") /\ UNCHANGED <<cur, orphans, todo, daemon>>
  \/ p \in Stops /\ Leave(p, "done") /\ UNCHANGED <<answer, cur, orphans, todo, daemon>>
  \/ /\ p \in Workers /\ to[p] # "failed" /\ Update(p, "failed")
     /\ UNCHANGED <<answer, cur, orphans, todo, daemon>>
  \/ /\ p \in Workers /\ to[p] = "failed" /\ Exit(p)
     /\ UNCHANGED <<answer, todo, daemon>>
  \/ /\ p = Recovery /\ Leave(p, "done") /\ todo' = {} /\ daemon' = "up"
     /\ UNCHANGED <<answer, cur, orphans>>

Load(p) ==
  /\ pc[p] = "load"
  /\ \/ /\ CanTransition(meta[RunOf(p)], to[p])
        /\ Goto(p, "write")
        /\ UNCHANGED <<to, answer, cur, orphans, todo, daemon>>
     \/ /\ ~CanTransition(meta[RunOf(p)], to[p])
        /\ Refused(p)
  /\ UNCHANGED <<storeVars, commands, of, slot, plan, managed, restarts, faults>>

Write(p) ==
  /\ pc[p] = "write"
  /\ WriteMeta(RunOf(p), to[p])
  /\ Goto(p, "tell")
  /\ UNCHANGED <<index, dir, told, commands, to, apiVars, cur, supervisorVars>>

\* The status is recorded: what the process does then.
Updated(p) ==
  \/ p \in Requests /\ Reply(p, p)
  \/ p \in Stops /\ Leave(p, "done") /\ UNCHANGED answer
  \/ p \in Workers /\ to[p] = "running" /\ Leave(p, "stream") /\ UNCHANGED answer
  \/ p \in Workers /\ to[p] = "completed" /\ Leave(p, "handled") /\ UNCHANGED answer
  \/ p \in Workers /\ to[p] = "failed" /\ Leave(p, "failed") /\ UNCHANGED answer
  \/ p = Recovery /\ Leave(p, "scan") /\ UNCHANGED answer

\* The event needs the log: a run that is stopped very early has none yet.
Tell(p) ==
  /\ pc[p] = "tell"
  /\ \/ HasLog(RunOf(p)) /\ AppendEvent(RunOf(p), to[p])
     \/ ~HasLog(RunOf(p)) /\ UNCHANGED told
  /\ Updated(p)
  /\ UNCHANGED <<index, dir, meta, commands, of, slot, plan, cur, supervisorVars>>

-----------------------------------------------------------------------------
(* The worker: run_worker_mode claims one command after the other, and     *)
(* handle_worker_command executes it before the next one is claimed.       *)

ClaimRead(w) ==
  /\ pc[w] = "idle"
  /\ \E i \in NextPending : cur' = [cur EXCEPT ![w] = i]
  /\ Goto(w, "claim")
  /\ UNCHANGED <<storeVars, commands, to, apiVars, supervisorVars>>

\* execute_submit starts the run; an abort finds nothing to abort.
ClaimWrite(w) ==
  /\ pc[w] = "claim"
  /\ SetStatus(cur[w], "acked")
  /\ \/ commands[cur[w]].kind = "submit" /\ Update(w, "running")
     \/ commands[cur[w]].kind = "abort" /\ Goto(w, "handled") /\ UNCHANGED to
  /\ UNCHANGED <<storeVars, apiVars, cur, supervisorVars>>

\* A variant that marks the command before the run has ended.
MarkEarly(w) ==
  /\ pc[w] = "stream"
  /\ SetStatus(cur[w], "handled")
  /\ Update(w, "completed")
  /\ UNCHANGED <<storeVars, apiVars, cur, supervisorVars>>

\* The engine's stream ends, with an answer or with an error it reports.
StreamEnds(w) ==
  /\ pc[w] = "stream"
  /\ Update(w, "completed")
  /\ UNCHANGED <<storeVars, commands, apiVars, cur, supervisorVars>>

\* mark_command_handled, mark_command_failed
MarkDone(w) ==
  /\ pc[w] \in {"handled", "failed"}
  /\ SetStatus(cur[w], pc[w])
  /\ cur' = [cur EXCEPT ![w] = 0]
  /\ Goto(w, "idle")
  /\ UNCHANGED <<storeVars, to, apiVars, supervisorVars>>

\* A worker crashes, or is killed since a command took it so long that its
\* heartbeat became stale: it writes none while it executes one.
WorkerDies(w) ==
  /\ Running(w)
  /\ faults < MaxFaults
  /\ faults' = faults + 1
  /\ Exit(w)
  /\ UNCHANGED <<storeVars, commands, apiVars, todo, daemon, managed, restarts>>

-----------------------------------------------------------------------------
(* The daemon: it starts a worker, and another one when that one is gone.  *)

Begin(w) ==
  /\ ~Running(w)
  /\ managed' = w
  /\ pc' = [pc EXCEPT ![w] = "idle"]

\* start_all, before or after the recovery
StartWorker(w) ==
  /\ daemon # "down"
  /\ managed = "unstarted"
  /\ Begin(w)
  /\ UNCHANGED <<storeVars, commands, to, apiVars, cur, todo, daemon, restarts, orphans, faults>>

\* A variant that replaces a worker it believes dead.
PollUnsure ==
  /\ daemon = "up"
  /\ managed \in Workers
  /\ restarts < MaxRestarts
  /\ restarts' = restarts + 1
  /\ \E w \in Workers : Begin(w)
  /\ UNCHANGED <<storeVars, commands, to, apiVars, cur, todo, daemon, orphans, faults>>

\* A variant that restarts once more than the policy allows.
PollOnceMore ==
  /\ daemon = "up"
  /\ managed \in Workers
  /\ ~Running(managed)
  /\ restarts <= MaxRestarts
  /\ restarts' = restarts + 1
  /\ \E w \in Workers : Begin(w)
  /\ UNCHANGED <<storeVars, commands, to, apiVars, cur, todo, daemon, orphans, faults>>

\* poll: the worker that died is replaced, a limited number of times.
Poll ==
  /\ daemon = "up"
  /\ managed \in Workers
  /\ ~Running(managed)
  /\ \/ /\ restarts < MaxRestarts
        /\ restarts' = restarts + 1
        /\ \E w \in Workers : Begin(w)
     \/ /\ restarts >= MaxRestarts
        /\ managed' = "abandoned"
        /\ UNCHANGED <<restarts, pc>>
  /\ UNCHANGED <<storeVars, commands, to, apiVars, cur, todo, daemon, orphans, faults>>

\* The handlers and the recovery end with the daemon.
Ends(killed) ==
  /\ faults < MaxFaults
  /\ faults' = faults + 1
  /\ daemon' = "down"
  /\ managed' = "unstarted"
  /\ todo' = {}
  /\ pc' = [p \in Procs |->
              CASE p \in Requests \cup Stops /\ pc[p] \notin {"new", "done"} -> "lost"
                [] p \in Requests \cup Stops /\ pc[p] \in {"new", "done"} -> pc[p]
                [] p = Recovery -> "done"
                [] p \in Workers -> IF p \in killed THEN "down" ELSE pc[p]]
  /\ to' = [p \in Procs |-> IF p \in Workers \ killed THEN to[p] ELSE None]
  /\ of' = [p \in Stops \cup {Recovery} |-> None]
  /\ plan' = [q \in Requests |-> None]
  /\ cur' = [w \in Workers |-> IF w \in killed THEN 0 ELSE cur[w]]
  /\ restarts' = 0
  /\ UNCHANGED <<storeVars, commands, slot, answer>>

\* A daemon that crashes leaves its worker behind.
DaemonCrashes ==
  /\ daemon # "down"
  /\ Ends({})
  /\ orphans' = orphans \cup {w \in Workers : Running(w)}

\* One that is stopped, once it supervises a worker, takes it along; of the
\* orphans only one that is idle may see the request to shut down, which is
\* withdrawn when the daemon has stopped.
DaemonStops ==
  /\ daemon = "up"
  /\ managed # "unstarted"
  /\ \E seen \in SUBSET {w \in orphans : pc[w] = "idle"} :
       /\ Ends({managed} \cup seen)
       /\ orphans' = orphans \ seen

\* gateway_routes: the recovery comes first.  It fails when it cannot list.
DaemonStarts ==
  /\ daemon = "down"
  /\ \/ /\ Listable
        /\ daemon' = "recovering"
        /\ todo' = {<<r, meta[r]>> : r \in dir}
        /\ Goto(Recovery, "scan")
     \/ /\ ~Listable
        /\ daemon' = "up"
        /\ UNCHANGED <<todo, pc>>
  /\ UNCHANGED <<storeVars, commands, to, apiVars, cur, managed, restarts, orphans, faults>>

\* recover_on_startup, for one run and the status it was listed with: a run
\* whose log tells of its end is left alone, and a queued one gets an event.
\* It fails as a whole on a run whose log is missing.
Recover(r, st) ==
  /\ pc[Recovery] = "scan"
  /\ <<r, st>> \in todo
  /\ \/ /\ st = "running" /\ HasLog(r) /\ ~ToldTheEnd(r)
        /\ of' = [of EXCEPT ![Recovery] = r]
        /\ todo' = todo \ {<<r, st>>}
        /\ Update(Recovery, "recoverable")
        /\ UNCHANGED daemon
     \/ /\ st \in {"running", "queued"} => HasLog(r)
        /\ st = "running" => ToldTheEnd(r)
        /\ todo' = todo \ {<<r, st>>}
        /\ UNCHANGED <<of, pc, to, daemon>>
     \/ /\ st \in {"running", "queued"} /\ ~HasLog(r)
        /\ todo' = {} /\ daemon' = "up" /\ Goto(Recovery, "done")
        /\ UNCHANGED <<of, to>>
  /\ UNCHANGED <<storeVars, commands, slot, plan, answer, cur, managed, restarts, orphans, faults>>

\* The server listens once the recovery is over.
Recovered ==
  /\ pc[Recovery] = "scan"
  /\ todo = {}
  /\ daemon' = "up"
  /\ Goto(Recovery, "done")
  /\ UNCHANGED <<storeVars, commands, to, apiVars, cur, todo, managed, restarts, orphans, faults>>

-----------------------------------------------------------------------------
UpdateStep(p) == Load(p) \/ Write(p) \/ Tell(p)

Handler(q) == \/ ReserveSlot(q) \/ AwaitRun(q) \/ CreateDir(q) \/ CreateMeta(q)
              \/ Decide(q) \/ SendAbort(q) \/ FindCommand(q) \/ SendSubmit(q)
              \/ UpdateStep(q)

Stopper(s) == SendAbort(s) \/ UpdateStep(s)

Worker(w) == \/ ClaimRead(w) \/ ClaimWrite(w) \/ StreamEnds(w) \/ MarkDone(w)
             \/ UpdateStep(w)

Supervisor == Poll \/ \E w \in Workers : StartWorker(w)

Recoverer == \/ \E r \in Requests, st \in Statuses : Recover(r, st)
             \/ Recovered \/ UpdateStep(Recovery)

Next ==
  \/ \E q \in Requests :
       Handler(q) \/ \E ask \in Asks : Submit(q, ask[1], ask[2])
  \/ \E s \in Stops : Stopper(s) \/ \E r \in Requests : StopRun(s, r)
  \/ \E w \in Workers : Worker(w) \/ WorkerDies(w)
  \/ Supervisor \/ Recoverer \/ DaemonCrashes \/ DaemonStops \/ DaemonStarts

\* A process that lives is scheduled: its steps end.
Fairness ==
  /\ \A q \in Requests : WF_vars(Handler(q))
  /\ \A s \in Stops : WF_vars(Stopper(s))
  /\ \A w \in Workers : WF_vars(Worker(w))
  /\ WF_vars(Supervisor) /\ WF_vars(Recoverer)

Spec == Init /\ [][Next]_vars /\ Fairness

-----------------------------------------------------------------------------
(* Properties.                                                             *)

CommandFiles == [kind : CommandKinds, run : Requests,
                 key : Keys \cup {NoKey}, status : CommandStatuses]

\* Every variable has its type; in restarts that is the bound of RestartPolicy,
\* which poll checks before it starts another worker.
TypeOK ==
  /\ index \in [Slots -> Requests \cup {None}]
  /\ dir \subseteq Requests
  /\ meta \in [Requests -> Statuses \cup {None}]
  /\ told \in [Requests -> SUBSET (Terminal \cup {"created"})]
  /\ commands \in Seq(CommandFiles)
  /\ pc \in [Procs -> PCs]
  /\ to \in [Procs -> Statuses \cup {None}]
  /\ of \in [Stops \cup {Recovery} -> Requests \cup {None}]
  /\ slot \in [Requests -> Slots \cup {NoKey, None}]
  /\ plan \in [Requests -> Plans \cup {None}]
  /\ answer \in [Requests -> Requests \cup {None, "error"}]
  /\ cur \in [Workers -> Nat]
  /\ todo \subseteq Requests \X (Statuses \cup {None})
  /\ daemon \in {"up", "recovering", "down"}
  /\ managed \in Workers \cup {"unstarted", "abandoned"}
  /\ restarts \in 0 .. MaxRestarts
  /\ orphans \subseteq Workers
  /\ faults \in 0 .. MaxFaults

SubmitsOf(r) == {i \in DOMAIN commands : commands[i].kind = "submit" /\ commands[i].run = r}

\* The gateway as its clients see it.  The code tells them that a key submitted
\* twice gets one run, whatever the processes behind it do.
Registry == INSTANCE RunRegistry WITH
  asked <- slot,
  owner <- index,
  published <- {r \in Requests : meta[r] # None},
  sent <- {r \in Requests : SubmitsOf(r) # {}}

\* Every step of the processes and every fault is a step of RunRegistry or none
\* that a client sees: create_run, reserve_idempotency_index and the search for
\* a command with the key give one run to one key.
ImplementsRegistry == Registry!Spec

\* However often a client, a webhook or a starting daemon repeats itself, what
\* has one source and key is written once for the worker.
SentOnce ==
  \A i, j \in DOMAIN commands :
    /\ i # j
    /\ commands[i].kind = "submit" /\ commands[j].kind = "submit"
    => LET q == commands[i].run
           r == commands[j].run
       IN q # r /\ (slot[q] = slot[r] => slot[q] = NoKey)

\* The statuses that a client reads have a cause among the commands: nothing
\* completes that no worker has claimed, and nothing is cancelled unasked.
StatusesHaveCauses ==
  \A r \in Requests :
    /\ meta[r] = "completed" => \E i \in SubmitsOf(r) : commands[i].status # "pending"
    /\ meta[r] = "cancelled" => \E i \in DOMAIN commands :
                                  commands[i].kind = "abort" /\ commands[i].run = r
    /\ meta[r] = "running" => SubmitsOf(r) # {} \/ (Keyed(r) /\ HasCommand(Key(r)))

\* A worker that dies between two steps does not lose an end: a command is
\* marked after its run's end was recorded.
MarkedAfterTheEnd ==
  \A r \in Requests : \A i \in SubmitsOf(r) :
    /\ commands[i].status = "handled" => "completed" \in told[r]
    /\ commands[i].status = "failed" => "failed" \in told[r]

\* There is one worker beside those that a crashed daemon has left behind.
OneExecutor == \A w \in Workers : Running(w) => w = managed \/ w \in orphans

\* A run that was stopped is not executed any more.
StoppedRunsAreQuiet ==
  \A w \in Workers : pc[w] = "stream" => meta[RunOf(w)] # "cancelled"

\* A command does not wait for ever, unless there is no daemon or the daemon
\* has given its worker up.
CommandsTaken ==
  \A r \in Requests :
    (\E i \in SubmitsOf(r) : commands[i].status = "pending") ~>
      \/ \A i \in SubmitsOf(r) : commands[i].status # "pending"
      \/ daemon = "down"
      \/ managed = "abandoned"
=============================================================================
