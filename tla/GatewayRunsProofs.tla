-------------------------- MODULE GatewayRunsProofs --------------------------
(***************************************************************************)
(* Proofs about GatewayRuns, for every value of its constants: any number  *)
(* of submissions, stops, workers, keys, restarts and faults.              *)
(***************************************************************************)
EXTENDS GatewayRuns, SequenceTheorems, FiniteSetTheorems, TLAPS

Updating == {"load", "write", "tell"}

\* Where a submission is once its run is bound to its slot, once the run can
\* be seen, and once it has a log.
Bound   == {"mkdir", "meta", "created", "abort", "find", "send"} \cup Updating
Visible == {"created", "abort", "find", "send"} \cup Updating
Logged  == {"abort", "find", "send"} \cup Updating

OwnsRun(q) == slot[q] = NoKey \/ (Keyed(q) /\ index[slot[q]] = q)

\* A submission has the slot, the reservation, the metadata and the log that
\* the step it has come to takes for granted, and no answer before its last.
RequestOK(q) ==
  /\ pc[q] \in Bound \cup {"new", "reserve", "await", "done", "lost"}
  /\ pc[q] = "new" <=> slot[q] = None
  /\ answer[q] # None => pc[q] = "done"
  /\ pc[q] \in {"reserve", "await"} => Keyed(q)
  /\ pc[q] = "await" => index[slot[q]] # None
  /\ pc[q] \in Bound => OwnsRun(q)
  /\ pc[q] \in Visible => meta[q] # None
  /\ pc[q] \in Logged => told[q] # {}

\* What was sent is bound, visible and past the step that sends it.
SentOK(q) ==
  SubmitsOf(q) # {} =>
    /\ pc[q] \in Updating \cup {"done", "lost"}
    /\ OwnsRun(q)
    /\ meta[q] # None
    /\ told[q] # {}

\* A stop and the recovery know the run that they update.
AboutOK(p) == /\ pc[p] \in Updating \cup {"new", "abort", "done", "lost", "scan"}
              /\ pc[p] \in Updating \cup {"abort"} => of[p] \in Requests

\* A worker holds a command, and has recorded an end before it marks one.
WorkerOK(w) ==
  /\ pc[w] \in Updating \cup {"down", "idle", "claim", "stream", "handled", "failed"}
  /\ pc[w] \notin {"down", "idle"} => cur[w] \in DOMAIN commands
  /\ pc[w] \in Updating \cup {"stream", "failed"} => commands[cur[w]].kind = "submit"
  /\ pc[w] = "handled" /\ commands[cur[w]].kind = "submit" =>
       "completed" \in told[commands[cur[w]].run]
  /\ pc[w] = "failed" => "failed" \in told[commands[cur[w]].run]

\* Whoever updates a run writes a status, over one that is there.
UpdateOK(p) ==
  /\ pc[p] \in Updating => to[p] \in Statuses
  /\ pc[p] = "write" => meta[RunOf(p)] # None

\* Two submits are for two runs.
SubmitsDiffer ==
  \A i, j \in DOMAIN commands :
    i # j /\ commands[i].kind = "submit" /\ commands[j].kind = "submit" =>
      commands[i].run # commands[j].run

RequestsOK == \A q \in Requests : RequestOK(q)
SentsOK    == \A q \in Requests : SentOK(q)
AboutsOK   == \A p \in Stops \cup {Recovery} : AboutOK(p)
WorkersOK  == \A w \in Workers : WorkerOK(w)
UpdatesOK  == \A p \in Procs : UpdateOK(p)

Inv == /\ TypeOK /\ RequestsOK /\ SentsOK /\ AboutsOK /\ WorkersOK /\ UpdatesOK
       /\ SubmitsDiffer /\ MarkedAfterTheEnd /\ OneExecutor

-----------------------------------------------------------------------------
(* What a step may change.                                                 *)

\* The run of a process, by what the process is.
LEMMA RunOfs ==
  /\ \A q \in Requests : RunOf(q) = q /\ RunOf(q)' = q
  /\ \A w \in Workers : /\ RunOf(w) = commands[cur[w]].run
                        /\ RunOf(w)' = commands'[cur'[w]].run
  /\ \A p \in Stops \cup {Recovery} : RunOf(p) = of[p] /\ RunOf(p)' = of'[p]
BY GatewayAssumption DEF RunOf

\* A command that is written comes after the others.
LEMMA EnqueueFacts ==
  ASSUME commands \in Seq(CommandFiles), NEW kind \in CommandKinds,
         NEW run \in Requests, NEW key \in Keys \cup {NoKey}, Enqueue(kind, run, key)
  PROVE  /\ commands' \in Seq(CommandFiles)
         /\ \A i \in DOMAIN commands : i \in DOMAIN commands' /\ commands'[i] = commands[i]
         /\ \A i \in DOMAIN commands' \ DOMAIN commands :
              /\ i = Len(commands) + 1 /\ commands'[i].status = "pending"
              /\ commands'[i].kind = kind /\ commands'[i].run = run
         /\ Len(commands) + 1 \in DOMAIN commands' \ DOMAIN commands
<1>. DEFINE new == [kind |-> kind, run |-> run, key |-> key, status |-> "pending"]
<1>1. new \in CommandFiles
  BY DEF CommandFiles, CommandStatuses
<1>2. commands' = Append(commands, new)
  BY DEF Enqueue
<1>3. new.kind = kind /\ new.run = run /\ new.status = "pending"
  OBVIOUS
<1>. HIDE DEF new
<1>. QED  BY <1>1, <1>2, <1>3

\* A command that is marked is the same one.
LEMMA SetStatusFacts ==
  ASSUME commands \in Seq(CommandFiles), NEW i \in DOMAIN commands,
         NEW status \in CommandStatuses, SetStatus(i, status)
  PROVE  /\ commands' \in Seq(CommandFiles)
         /\ DOMAIN commands' = DOMAIN commands
         /\ \A k \in DOMAIN commands :
              /\ commands'[k].kind = commands[k].kind /\ commands'[k].run = commands[k].run
              /\ k # i => commands'[k] = commands[k]
         /\ commands'[i].status = status
<1>. DEFINE new == [commands[i] EXCEPT !.status = status]
<1>1. commands[i] \in CommandFiles /\ i \in 1 .. Len(commands)
  OBVIOUS
<1>2. /\ new \in CommandFiles /\ new.status = status
      /\ new.kind = commands[i].kind /\ new.run = commands[i].run
  BY <1>1 DEF CommandFiles
<1>3. commands' = [commands EXCEPT ![i] = new]
  BY DEF SetStatus
<1>. HIDE DEF new
<1>4. commands' \in Seq(CommandFiles) /\ Len(commands') = Len(commands)
  BY <1>1, <1>2, <1>3, ExceptSeq
<1>5. DOMAIN commands' = DOMAIN commands
  BY <1>3
<1>6. \A k \in DOMAIN commands : commands'[k] = IF k = i THEN new ELSE commands[k]
  BY <1>3
<1>. QED  BY <1>2, <1>4, <1>5, <1>6

-----------------------------------------------------------------------------
(* Type correctness.                                                       *)

\* The processes, apart and together.
LEMMA ProcsFacts ==
  /\ Requests \subseteq Procs /\ Stops \subseteq Procs /\ Workers \subseteq Procs
  /\ Recovery \in Procs
  /\ Requests \cap Stops = {} /\ Requests \cap Workers = {} /\ Stops \cap Workers = {}
  /\ Recovery \notin Requests \cup Stops \cup Workers
BY GatewayAssumption DEF Procs

\* The run that an update is about is a run.
LEMMA RunOfUpdate ==
  ASSUME Inv, NEW p \in Procs, pc[p] \in Updating
  PROVE  RunOf(p) \in Requests /\ to[p] \in Statuses
<1>1. to[p] \in Statuses
  BY DEF Inv, UpdatesOK, UpdateOK
<1>2. CASE p \in Requests
  BY <1>1, <1>2, RunOfs
<1>3. CASE p \in Stops \cup {Recovery}
  BY <1>1, <1>3, RunOfs DEF Inv, AboutsOK, AboutOK
<1>4. CASE p \in Workers
  <2>1. cur[p] \in DOMAIN commands
    BY <1>4 DEF Inv, WorkersOK, WorkerOK, Updating
  <2>2. commands \in Seq(CommandFiles)
    BY DEF Inv, TypeOK
  <2>3. commands[cur[p]] \in CommandFiles
    BY <2>1, <2>2
  <2>. QED  BY <1>1, <1>4, <2>3, RunOfs DEF CommandFiles
<1>. QED  BY <1>2, <1>3, <1>4 DEF Procs

\* A transition leads to a status, or from one.
LEMMA UpdateTypes ==
  ASSUME Inv, NEW p \in Procs, UpdateStep(p)
  PROVE  TypeOK'
<1>0. TypeOK /\ RequestsOK
  BY DEF Inv
<1>1. CASE Load(p)
  <2>0. RunOf(p) \in Requests /\ to[p] \in Statuses
    BY <1>1, RunOfUpdate DEF Load, Updating
  <2>1. UNCHANGED <<storeVars, commands, of, slot, plan, managed, restarts, faults>>
    BY <1>1 DEF Load
  <2>2. pc' \in [Procs -> PCs] /\ to' \in [Procs -> Statuses \cup {None}]
    BY <1>0, <1>1 DEF Load, Refused, TypeOK, Goto, Update, Leave, Reply, Exit, PCs, Statuses
  <2>3. answer' \in [Requests -> Requests \cup {None, "error"}]
    BY <1>0, <1>1 DEF Load, Refused, TypeOK, Reply
  <2>4. cur' \in [Workers -> Nat] /\ orphans' \subseteq Workers
    BY <1>0, <1>1 DEF Load, Refused, TypeOK, Exit
  <2>5. todo' \subseteq Requests \X (Statuses \cup {None}) /\ daemon' \in {"up", "recovering", "down"}
    BY <1>0, <1>1 DEF Load, Refused, TypeOK
  <2>. QED  BY <1>0, <2>1, <2>2, <2>3, <2>4, <2>5 DEF TypeOK, storeVars
<1>2. CASE Write(p)
  <2>0. RunOf(p) \in Requests /\ to[p] \in Statuses
    BY <1>2, RunOfUpdate DEF Write, Updating
  <2>1. meta' \in [Requests -> Statuses \cup {None}]
    BY <1>0, <1>2, <2>0 DEF Write, WriteMeta, TypeOK
  <2>2. pc' \in [Procs -> PCs]
    BY <1>0, <1>2 DEF Write, Goto, TypeOK, PCs
  <2>3. UNCHANGED <<index, dir, told, commands, to, apiVars, cur, supervisorVars>>
    BY <1>2 DEF Write
  <2>. QED  BY <1>0, <2>1, <2>2, <2>3 DEF TypeOK, apiVars, supervisorVars
<1>3. CASE Tell(p)
  <2>0. RunOf(p) \in Requests /\ to[p] \in Statuses
    BY <1>3, RunOfUpdate DEF Tell, Updating
  <2>1. told' \in [Requests -> SUBSET (Terminal \cup {"created"})]
    <3>1. told \in [Requests -> SUBSET (Terminal \cup {"created"})]
      BY <1>0 DEF TypeOK
    <3>. QED  BY <1>3, <2>0, <3>1 DEF Tell, AppendEvent
  <2>2. pc' \in [Procs -> PCs] /\ to' \in [Procs -> Statuses \cup {None}]
    BY <1>0, <1>3 DEF Tell, Updated, Reply, Leave, Goto, TypeOK, PCs
  <2>3. answer' \in [Requests -> Requests \cup {None, "error"}]
    BY <1>0, <1>3 DEF Tell, Updated, TypeOK, Reply
  <2>4. UNCHANGED <<index, dir, meta, commands, of, slot, plan, cur, supervisorVars>>
    BY <1>3 DEF Tell
  <2>. QED  BY <1>0, <2>1, <2>2, <2>3, <2>4 DEF TypeOK, supervisorVars
<1>. QED  BY <1>1, <1>2, <1>3 DEF UpdateStep

\* What a handler does before it updates a run.
LEMMA RequestTypes ==
  ASSUME Inv, NEW q \in Requests,
         \/ ReserveSlot(q) \/ AwaitRun(q) \/ CreateDir(q) \/ CreateMeta(q)
         \/ Decide(q) \/ FindCommand(q) \/ SendSubmit(q)
  PROVE  TypeOK'
<1>0. TypeOK /\ RequestOK(q) /\ q \in Procs
  BY ProcsFacts DEF Inv, RequestsOK
<1>1. CASE ReserveSlot(q)
  <2>1. Keyed(q)
    BY <1>0, <1>1 DEF ReserveSlot, RequestOK
  <2>2. index' \in [Slots -> Requests \cup {None}]
    BY <1>0, <1>1, <2>1 DEF ReserveSlot, Reserve, TypeOK, Keyed
  <2>3. pc' \in [Procs -> PCs]
    BY <1>0, <1>1 DEF ReserveSlot, Goto, TypeOK, PCs
  <2>. QED  BY <1>0, <1>1, <2>2, <2>3 DEF ReserveSlot, TypeOK, apiVars, supervisorVars
<1>2. CASE AwaitRun(q)
  <2>1. index[slot[q]] \in Requests
    BY <1>0, <1>2 DEF AwaitRun, RequestOK, Keyed, TypeOK
  <2>2. pc' \in [Procs -> PCs] /\ to' \in [Procs -> Statuses \cup {None}]
    BY <1>0, <1>2 DEF AwaitRun, Reply, Leave, Goto, TypeOK, PCs
  <2>3. answer' \in [Requests -> Requests \cup {None, "error"}]
    BY <1>0, <1>2, <2>1 DEF AwaitRun, Reply, TypeOK
  <2>4. plan' \in [Requests -> Plans \cup {None}]
    BY <1>0, <1>2 DEF AwaitRun, TypeOK
  <2>. QED  BY <1>0, <1>2, <2>2, <2>3, <2>4 DEF AwaitRun, TypeOK, storeVars, supervisorVars
<1>3. CASE CreateDir(q)
  <2>1. pc' \in [Procs -> PCs]
    BY <1>0, <1>3 DEF CreateDir, Goto, TypeOK, PCs
  <2>2. dir' \subseteq Requests
    BY <1>0, <1>3 DEF CreateDir, MakeDir, TypeOK
  <2>. QED  BY <1>0, <1>3, <2>1, <2>2 DEF CreateDir, TypeOK, apiVars, supervisorVars
<1>4. CASE CreateMeta(q)
  <2>1. pc' \in [Procs -> PCs]
    BY <1>0, <1>4 DEF CreateMeta, Goto, TypeOK, PCs
  <2>2. meta' \in [Requests -> Statuses \cup {None}]
    BY <1>0, <1>4 DEF CreateMeta, WriteMeta, TypeOK, Statuses
  <2>. QED  BY <1>0, <1>4, <2>1, <2>2 DEF CreateMeta, TypeOK, apiVars, supervisorVars
<1>5. CASE Decide(q)
  <2>1. pc' \in [Procs -> PCs] /\ to' \in [Procs -> Statuses \cup {None}]
    BY <1>0, <1>5 DEF Decide, Reply, Leave, Goto, Update, TypeOK, PCs, Statuses
  <2>2. told' \in [Requests -> SUBSET (Terminal \cup {"created"})]
    BY <1>0, <1>5 DEF Decide, AppendEvent, TypeOK
  <2>3. answer' \in [Requests -> Requests \cup {None, "error"}]
    BY <1>0, <1>5 DEF Decide, Reply, TypeOK
  <2>4. plan' \in [Requests -> Plans \cup {None}]
    BY <1>0, <1>5 DEF Decide, TypeOK
  <2>. QED  BY <1>0, <1>5, <2>1, <2>2, <2>3, <2>4 DEF Decide, TypeOK, supervisorVars
<1>6. CASE FindCommand(q)
  <2>1. pc' \in [Procs -> PCs] /\ to' \in [Procs -> Statuses \cup {None}]
    BY <1>0, <1>6 DEF FindCommand, Goto, Update, TypeOK, PCs, Statuses
  <2>. QED  BY <1>0, <1>6, <2>1 DEF FindCommand, TypeOK, storeVars, apiVars, supervisorVars
<1>7. CASE SendSubmit(q)
  <2>1. pc' \in [Procs -> PCs] /\ to' \in [Procs -> Statuses \cup {None}]
    BY <1>0, <1>7 DEF SendSubmit, Goto, Update, TypeOK, PCs, Statuses
  <2>2. Key(q) \in Keys \cup {NoKey}
    BY DEF Key, Keyed, Slots
  <2>3. commands' \in Seq(CommandFiles)
    BY <1>0, <1>7, <2>2, EnqueueFacts DEF SendSubmit, TypeOK, CommandKinds
  <2>. QED  BY <1>0, <1>7, <2>1, <2>3 DEF SendSubmit, TypeOK, storeVars, apiVars, supervisorVars
<1>. QED  BY <1>1, <1>2, <1>3, <1>4, <1>5, <1>6, <1>7

\* Requests that come, and aborts.
LEMMA ApiTypes ==
  ASSUME Inv,
         \/ \E q \in Requests, ask \in Asks : Submit(q, ask[1], ask[2])
         \/ \E s \in Stops, r \in Requests : StopRun(s, r)
         \/ \E p \in Requests \cup Stops : SendAbort(p)
  PROVE  TypeOK'
<1>0. TypeOK
  BY DEF Inv
<1>1. ASSUME NEW q \in Requests, NEW ask \in Asks, Submit(q, ask[1], ask[2])
      PROVE  TypeOK'
  <2>1. ask[1] \in Slots \cup {NoKey} /\ q \in Procs
    BY ProcsFacts, GatewayAssumption
  <2>2. slot' \in [Requests -> Slots \cup {NoKey, None}]
    BY <1>0, <1>1, <2>1 DEF Submit, TypeOK
  <2>3. pc' \in [Procs -> PCs]
    BY <1>0, <1>1, <2>1 DEF Submit, Goto, TypeOK, PCs
  <2>4. \A bp, n : /\ Decision(bp, n) \in Plans
                   /\ plan \in [Requests -> Plans \cup {None}]
          => [plan EXCEPT ![q] = Decision(bp, n)] \in [Requests -> Plans \cup {None}]
    OBVIOUS
  <2>5. ActiveSubmits \in Nat
    <3>1. commands \in Seq(CommandFiles)
      BY <1>0 DEF TypeOK
    <3>2. IsFiniteSet(DOMAIN commands)
      BY <3>1, FS_Interval
    <3>. QED  BY <3>2, FS_Subset, FS_CardinalityType DEF ActiveSubmits
  <2>6. ask[2] \in {"queue", "reject", "interrupt", "steer"}
    BY GatewayAssumption
  <2>7. \A n \in Nat : Decision(ask[2], n) \in Plans
    BY <2>6, GatewayAssumption DEF Decision, Plans
  <2>8. plan' \in [Requests -> Plans \cup {None}]
    <3>1. PICK n \in {ActiveSubmits, IF ActiveSubmits = 0 THEN 0 ELSE 1} :
            plan' = [plan EXCEPT ![q] = Decision(ask[2], n)]
      BY <1>1 DEF Submit
    <3>2. n \in Nat
      BY <2>5
    <3>. QED  BY <1>0, <2>4, <2>7, <3>1, <3>2 DEF TypeOK
  <2>. QED  BY <1>0, <1>1, <2>2, <2>3, <2>8 DEF Submit, TypeOK, storeVars, supervisorVars
<1>2. ASSUME NEW s \in Stops, NEW r \in Requests, StopRun(s, r) PROVE TypeOK'
  <2>1. pc' \in [Procs -> PCs]
    BY <1>0, <1>2, ProcsFacts DEF StopRun, Goto, TypeOK, PCs
  <2>2. of' \in [Stops \cup {Recovery} -> Requests \cup {None}]
    BY <1>0, <1>2 DEF StopRun, TypeOK
  <2>. QED  BY <1>0, <1>2, <2>1, <2>2 DEF StopRun, TypeOK, storeVars, supervisorVars
<1>3. ASSUME NEW p \in Requests \cup Stops, SendAbort(p) PROVE TypeOK'
  <2>1. RunOf(p) \in Requests
    BY <1>3, RunOfs DEF Inv, AboutsOK, AboutOK, SendAbort
  <2>2. pc' \in [Procs -> PCs] /\ to' \in [Procs -> Statuses \cup {None}]
    <3>1. p \in Procs /\ pc \in [Procs -> PCs] /\ to \in [Procs -> Statuses \cup {None}]
      BY <1>0, ProcsFacts DEF TypeOK
    <3>2. CASE Goto(p, "find") /\ UNCHANGED to
      BY <3>1, <3>2 DEF Goto, PCs
    <3>3. CASE Update(p, "cancelled")
      BY <3>1, <3>3 DEF Update, Goto, PCs, Statuses
    <3>. QED  BY <1>3, <3>2, <3>3 DEF SendAbort
  <2>3. commands' \in Seq(CommandFiles)
    BY <1>0, <1>3, <2>1, EnqueueFacts DEF SendAbort, TypeOK, CommandKinds
  <2>. QED  BY <1>0, <1>3, <2>2, <2>3 DEF SendAbort, TypeOK, storeVars, apiVars, supervisorVars
<1>. QED  BY <1>1, <1>2, <1>3

\* The steps of a worker, apart from its updates.
LEMMA WorkerTypes ==
  ASSUME Inv, NEW w \in Workers,
         ClaimRead(w) \/ ClaimWrite(w) \/ StreamEnds(w) \/ MarkDone(w) \/ WorkerDies(w)
  PROVE  TypeOK'
<1>0. TypeOK /\ WorkerOK(w) /\ w \in Procs /\ commands \in Seq(CommandFiles)
  BY ProcsFacts DEF Inv, WorkersOK, TypeOK
<1>p. pc \in [Procs -> PCs] /\ to \in [Procs -> Statuses \cup {None}] /\ cur \in [Workers -> Nat]
  BY <1>0 DEF TypeOK
<1>1. CASE ClaimRead(w)
  <2>1. pc' \in [Procs -> PCs]
    BY <1>p, <1>0, <1>1 DEF ClaimRead, Goto, PCs
  <2>2. NextPending \subseteq Nat
    BY <1>0 DEF NextPending
  <2>3. cur' \in [Workers -> Nat]
    BY <1>p, <1>1, <2>2 DEF ClaimRead
  <2>. QED  BY <1>0, <1>1, <2>1, <2>3 DEF ClaimRead, TypeOK, storeVars, apiVars, supervisorVars
<1>2. CASE ClaimWrite(w)
  <2>1. commands' \in Seq(CommandFiles)
    BY <1>0, <1>2, SetStatusFacts DEF ClaimWrite, WorkerOK, CommandStatuses
  <2>2. pc' \in [Procs -> PCs] /\ to' \in [Procs -> Statuses \cup {None}]
    BY <1>p, <1>0, <1>2 DEF ClaimWrite, Goto, Update, PCs, Statuses
  <2>. QED  BY <1>0, <1>2, <2>1, <2>2 DEF ClaimWrite, TypeOK, storeVars, apiVars, supervisorVars
<1>3. CASE StreamEnds(w)
  <2>1. pc' \in [Procs -> PCs] /\ to' \in [Procs -> Statuses \cup {None}]
    BY <1>p, <1>0, <1>3 DEF StreamEnds, Goto, Update, PCs, Statuses
  <2>. QED  BY <1>0, <1>3, <2>1 DEF StreamEnds, TypeOK, storeVars, apiVars, supervisorVars
<1>4. CASE MarkDone(w)
  <2>1. commands' \in Seq(CommandFiles)
    BY <1>0, <1>4, SetStatusFacts DEF MarkDone, WorkerOK, CommandStatuses
  <2>2. pc' \in [Procs -> PCs] /\ cur' \in [Workers -> Nat]
    BY <1>p, <1>0, <1>4 DEF MarkDone, Goto, PCs
  <2>. QED  BY <1>0, <1>4, <2>1, <2>2 DEF MarkDone, TypeOK, storeVars, apiVars, supervisorVars
<1>5. CASE WorkerDies(w)
  <2>1. pc' \in [Procs -> PCs] /\ to' \in [Procs -> Statuses \cup {None}]
    BY <1>p, <1>0, <1>5 DEF WorkerDies, Exit, Leave, Goto, PCs
  <2>2. cur' \in [Workers -> Nat] /\ orphans' \subseteq Workers
    BY <1>p, <1>0, <1>5 DEF WorkerDies, Exit, TypeOK
  <2>3. faults' \in 0 .. MaxFaults
    BY <1>0, <1>5, GatewayAssumption DEF WorkerDies, TypeOK
  <2>. QED  BY <1>0, <1>5, <2>1, <2>2, <2>3 DEF WorkerDies, TypeOK, storeVars, apiVars
<1>. QED  BY <1>1, <1>2, <1>3, <1>4, <1>5

\* The steps of the daemon, apart from its handlers.
LEMMA DaemonTypes ==
  ASSUME TypeOK,
         \/ \E w \in Workers : StartWorker(w)
         \/ Poll \/ DaemonCrashes \/ DaemonStops \/ DaemonStarts \/ Recovered
         \/ \E r \in Requests, st \in Statuses : Recover(r, st)
  PROVE  TypeOK'
<1>p. /\ pc \in [Procs -> PCs] /\ to \in [Procs -> Statuses \cup {None}]
      /\ cur \in [Workers -> Nat] /\ managed \in Workers \cup {"unstarted", "abandoned"}
      /\ restarts \in 0 .. MaxRestarts /\ faults \in 0 .. MaxFaults
      /\ MaxRestarts \in Nat /\ MaxFaults \in Nat
  BY GatewayAssumption DEF TypeOK
<1>b. ASSUME NEW w \in Workers, Begin(w)
      PROVE  pc' \in [Procs -> PCs] /\ managed' \in Workers
  BY <1>p, <1>b, ProcsFacts DEF Begin, PCs
<1>1. ASSUME NEW w \in Workers, StartWorker(w) PROVE TypeOK'
  <2>1. pc' \in [Procs -> PCs] /\ managed' \in Workers
    BY <1>b, <1>1 DEF StartWorker
  <2>. QED  BY <1>1, <2>1 DEF StartWorker, TypeOK, storeVars, apiVars
<1>2. CASE Poll
  <2>1. /\ pc' \in [Procs -> PCs] /\ managed' \in Workers \cup {"unstarted", "abandoned"}
        /\ restarts' \in 0 .. MaxRestarts
    <3>1. CASE restarts < MaxRestarts /\ restarts' = restarts + 1 /\ \E w \in Workers : Begin(w)
      BY <1>p, <1>b, <3>1
    <3>2. CASE managed' = "abandoned" /\ UNCHANGED <<restarts, pc>>
      BY <1>p, <3>2
    <3>. QED  BY <1>2, <3>1, <3>2 DEF Poll
  <2>. QED  BY <1>2, <2>1 DEF Poll, TypeOK, storeVars, apiVars
<1>3. ASSUME NEW killed \in SUBSET (Workers \cup {"abandoned"}), Ends(killed),
             orphans' \subseteq Workers
      PROVE  TypeOK'
  <2>1. pc' \in [Procs -> PCs]
    <3>1. \A p \in Procs : pc'[p] \in PCs
      BY <1>p, <1>3, ProcsFacts DEF Ends, PCs, Procs
    <3>. QED  BY <1>3, <3>1 DEF Ends
  <2>2. to' \in [Procs -> Statuses \cup {None}]
    BY <1>p, <1>3 DEF Ends
  <2>3. /\ of' \in [Stops \cup {Recovery} -> Requests \cup {None}]
        /\ plan' \in [Requests -> Plans \cup {None}]
        /\ cur' \in [Workers -> Nat]
    BY <1>p, <1>3 DEF Ends
  <2>4. restarts' \in 0 .. MaxRestarts /\ faults' \in 0 .. MaxFaults
    BY <1>p, <1>3 DEF Ends
  <2>. QED  BY <1>3, <2>1, <2>2, <2>3, <2>4 DEF Ends, TypeOK, storeVars
<1>4. CASE DaemonCrashes
  BY <1>3, <1>4 DEF DaemonCrashes, TypeOK
<1>5. CASE DaemonStops
  <2>1. PICK seen \in SUBSET orphans :
          Ends({managed} \cup seen) /\ orphans' = orphans \ seen
    BY <1>5 DEF DaemonStops
  <2>2. /\ {managed} \cup seen \in SUBSET (Workers \cup {"abandoned"})
        /\ orphans' \subseteq Workers
    BY <1>p, <1>5, <2>1 DEF DaemonStops, TypeOK
  <2>. QED  BY <1>3, <2>1, <2>2
<1>6. CASE DaemonStarts
  <2>1. pc' \in [Procs -> PCs]
    BY <1>p, <1>6, ProcsFacts DEF DaemonStarts, Goto, PCs
  <2>2. todo' \subseteq Requests \X (Statuses \cup {None})
    BY <1>6 DEF DaemonStarts, TypeOK
  <2>. QED  BY <1>6, <2>1, <2>2 DEF DaemonStarts, TypeOK, storeVars, apiVars
<1>7. CASE Recovered
  <2>1. pc' \in [Procs -> PCs]
    BY <1>p, <1>7, ProcsFacts DEF Recovered, Goto, PCs
  <2>. QED  BY <1>7, <2>1 DEF Recovered, TypeOK, storeVars, apiVars
<1>8. ASSUME NEW r \in Requests, NEW st \in Statuses, Recover(r, st) PROVE TypeOK'
  <2>1. pc' \in [Procs -> PCs] /\ to' \in [Procs -> Statuses \cup {None}]
    BY <1>p, <1>8, ProcsFacts DEF Recover, Goto, Update, PCs, Statuses
  <2>2. of' \in [Stops \cup {Recovery} -> Requests \cup {None}]
    BY <1>8 DEF Recover, TypeOK
  <2>3. todo' \subseteq Requests \X (Statuses \cup {None}) /\ daemon' \in {"up", "recovering", "down"}
    BY <1>8 DEF Recover, TypeOK
  <2>. QED  BY <1>8, <2>1, <2>2, <2>3 DEF Recover, TypeOK, storeVars
<1>. QED  BY <1>1, <1>2, <1>4, <1>5, <1>6, <1>7, <1>8

-----------------------------------------------------------------------------
(* What no step takes back, and who is concerned by a step.                *)

RequestStep(q) == \/ ReserveSlot(q) \/ AwaitRun(q) \/ CreateDir(q) \/ CreateMeta(q)
                  \/ Decide(q) \/ FindCommand(q) \/ SendSubmit(q)

WorkerStep(w) == ClaimRead(w) \/ ClaimWrite(w) \/ StreamEnds(w) \/ MarkDone(w) \/ WorkerDies(w)

RecoveryStep == DaemonStarts \/ Recovered \/ \E r \in Requests, st \in Statuses : Recover(r, st)

\* Every step is of one of these sorts.
LEMMA NextSorts ==
  ASSUME Next
  PROVE  \/ \E q \in Requests, ask \in Asks : Submit(q, ask[1], ask[2])
         \/ \E q \in Requests : RequestStep(q)
         \/ \E s \in Stops, r \in Requests : StopRun(s, r)
         \/ \E p \in Requests \cup Stops : SendAbort(p)
         \/ \E p \in Procs : UpdateStep(p)
         \/ \E w \in Workers : WorkerStep(w)
         \/ \E w \in Workers : StartWorker(w)
         \/ Poll \/ DaemonCrashes \/ DaemonStops \/ RecoveryStep
BY ProcsFacts DEF Next, Handler, Stopper, Worker, Supervisor, Recoverer,
                  RequestStep, WorkerStep, RecoveryStep

\* Types are kept by every step.
LEMMA NextTypes ==
  ASSUME Inv, Next
  PROVE  TypeOK'
<1>1. TypeOK
  BY DEF Inv
<1>. QED  BY <1>1, NextSorts, RequestTypes, ApiTypes, UpdateTypes, WorkerTypes, DaemonTypes
          DEF RequestStep, WorkerStep, RecoveryStep

\* Reservations, metadata, logs, slots and commands stay.
Grows ==
  /\ \A s \in Slots : index[s] # None => index'[s] = index[s]
  /\ \A r \in Requests : meta[r] # None => meta'[r] # None
  /\ \A r \in Requests : told[r] \subseteq told'[r]
  /\ \A q \in Requests : slot[q] # None => slot'[q] = slot[q]
  /\ \A i \in DOMAIN commands :
       /\ i \in DOMAIN commands'
       /\ commands'[i].kind = commands[i].kind /\ commands'[i].run = commands[i].run

\* No step takes any of these back.
LEMMA StepsGrow ==
  ASSUME Inv, Next
  PROVE  Grows
<1>0. TypeOK /\ commands \in Seq(CommandFiles) /\ RequestsOK /\ UpdatesOK /\ WorkersOK /\ AboutsOK
  BY DEF Inv, TypeOK
<1>1. ASSUME NEW q \in Requests, NEW ask \in Asks, Submit(q, ask[1], ask[2]) PROVE Grows
  <2>1. slot[q] = None
    BY <1>0, <1>1 DEF Submit, RequestsOK, RequestOK
  <2>2. \A o \in Requests : slot[o] # None => slot'[o] = slot[o]
    BY <1>0, <1>1, <2>1 DEF Submit, TypeOK
  <2>. QED  BY <1>1, <2>2 DEF Submit, storeVars, Grows
<1>2. ASSUME NEW q \in Requests, ReserveSlot(q) PROVE Grows
  BY <1>0, <1>2 DEF ReserveSlot, Reserve, apiVars, Grows, TypeOK
<1>3. ASSUME NEW q \in Requests, CreateMeta(q) PROVE Grows
  <2>1. "queued" # None
    BY GatewayAssumption DEF Statuses
  <2>. QED  BY <1>0, <1>3, <2>1 DEF CreateMeta, WriteMeta, apiVars, Grows, TypeOK
<1>4. ASSUME NEW q \in Requests, Decide(q) PROVE Grows
  BY <1>0, <1>4 DEF Decide, AppendEvent, Grows, TypeOK
<1>5. ASSUME NEW p \in Procs, Write(p) PROVE Grows
  <2>1. to[p] # None
    BY <1>0, <1>5, GatewayAssumption DEF UpdatesOK, UpdateOK, Write, Updating
  <2>. QED  BY <1>0, <1>5, <2>1 DEF Write, WriteMeta, apiVars, Grows, TypeOK
<1>6. ASSUME NEW p \in Procs, Tell(p) PROVE Grows
  BY <1>0, <1>6 DEF Tell, AppendEvent, Grows, TypeOK
<1>7. ASSUME NEW p \in Requests \cup Stops, SendAbort(p) PROVE Grows
  <2>1. RunOf(p) \in Requests
    BY <1>0, <1>7, RunOfs DEF AboutsOK, AboutOK, SendAbort
  <2>2. \A i \in DOMAIN commands : i \in DOMAIN commands' /\ commands'[i] = commands[i]
    BY <1>0, <1>7, <2>1, EnqueueFacts DEF SendAbort, CommandKinds
  <2>. QED  BY <1>7, <2>2 DEF SendAbort, storeVars, apiVars, Grows
<1>8. ASSUME NEW q \in Requests, SendSubmit(q) PROVE Grows
  <2>1. Key(q) \in Keys \cup {NoKey}
    BY DEF Key, Keyed, Slots
  <2>2. \A i \in DOMAIN commands : i \in DOMAIN commands' /\ commands'[i] = commands[i]
    BY <1>0, <1>8, <2>1, EnqueueFacts DEF SendSubmit, CommandKinds
  <2>. QED  BY <1>8, <2>2 DEF SendSubmit, storeVars, apiVars, Grows
<1>9. ASSUME NEW w \in Workers, ClaimWrite(w) \/ MarkDone(w) PROVE Grows
  <2>1. cur[w] \in DOMAIN commands
    BY <1>0, <1>9 DEF ClaimWrite, MarkDone, WorkersOK, WorkerOK
  <2>2. \E status \in CommandStatuses : SetStatus(cur[w], status)
    BY <1>9 DEF ClaimWrite, MarkDone, CommandStatuses
  <2>3. \A i \in DOMAIN commands :
          /\ i \in DOMAIN commands'
          /\ commands'[i].kind = commands[i].kind /\ commands'[i].run = commands[i].run
    BY <1>0, <2>1, <2>2, SetStatusFacts
  <2>. QED  BY <1>9, <2>3 DEF ClaimWrite, MarkDone, storeVars, apiVars, Grows
<1>10. CASE UNCHANGED <<storeVars, commands, slot>>
  BY <1>10 DEF storeVars, Grows
<1>11. ASSUME NEW q \in Requests, CreateDir(q) PROVE Grows
  BY <1>11 DEF CreateDir, apiVars, Grows
<1>12. ASSUME NEW q \in Requests, RequestStep(q) PROVE Grows
  <2>1. CASE AwaitRun(q) \/ FindCommand(q)
    BY <1>10, <2>1 DEF AwaitRun, FindCommand, apiVars
  <2>. QED  BY <1>12, <1>2, <1>3, <1>4, <1>8, <1>11, <2>1 DEF RequestStep
<1>13. ASSUME NEW p \in Procs, UpdateStep(p) PROVE Grows
  <2>1. CASE Load(p)
    BY <1>10, <2>1 DEF Load
  <2>. QED  BY <1>13, <1>5, <1>6, <2>1 DEF UpdateStep
<1>14. ASSUME NEW w \in Workers, WorkerStep(w) PROVE Grows
  <2>1. CASE ClaimRead(w) \/ StreamEnds(w) \/ WorkerDies(w)
    BY <1>10, <2>1 DEF ClaimRead, StreamEnds, WorkerDies, apiVars
  <2>. QED  BY <1>14, <1>9, <2>1 DEF WorkerStep
<1>15. ASSUME NEW s \in Stops, NEW r \in Requests, StopRun(s, r) PROVE Grows
  BY <1>10, <1>15 DEF StopRun
<1>16. CASE (\E w \in Workers : StartWorker(w)) \/ Poll \/ DaemonCrashes \/ DaemonStops
  BY <1>10, <1>16 DEF StartWorker, Poll, DaemonCrashes, DaemonStops, Ends, apiVars
<1>17. CASE RecoveryStep
  BY <1>10, <1>17 DEF RecoveryStep, DaemonStarts, Recovered, Recover, apiVars
<1>. QED  BY NextSorts, <1>1, <1>7, <1>12, <1>13, <1>14, <1>15, <1>16, <1>17

\* A process that a step does not concern.
Still(p) ==
  /\ pc'[p] = pc[p] /\ to'[p] = to[p]
  /\ p \in Requests => slot'[p] = slot[p] /\ answer'[p] = answer[p]
  /\ p \in Stops \cup {Recovery} => of'[p] = of[p]
  /\ p \in Workers => cur'[p] = cur[p]

\* Whatever a process takes for granted.
ProcOK(p) ==
  /\ UpdateOK(p)
  /\ p \in Requests => RequestOK(p)
  /\ p \in Stops \cup {Recovery} => AboutOK(p)
  /\ p \in Workers => WorkerOK(p)

\* Process by process, or sort by sort: it is the same invariant.
LEMMA ProcsOK ==
  /\ (\A p \in Procs : ProcOK(p)) <=> (RequestsOK /\ AboutsOK /\ WorkersOK /\ UpdatesOK)
  /\ (\A p \in Procs : ProcOK(p))' <=> (RequestsOK /\ AboutsOK /\ WorkersOK /\ UpdatesOK)'
BY ProcsFacts DEF ProcOK, RequestsOK, AboutsOK, WorkersOK, UpdatesOK

\* A command is about a run.
LEMMA RunsOfCommands ==
  ASSUME TypeOK, NEW i \in DOMAIN commands
  PROVE  commands[i] \in CommandFiles /\ commands[i].run \in Requests
<1>1. commands \in Seq(CommandFiles)
  BY DEF TypeOK
<1>2. commands[i] \in CommandFiles
  BY <1>1
<1>. QED  BY <1>2 DEF CommandFiles

\* What is bound stays bound.
LEMMA OwnsKept ==
  ASSUME TypeOK, Grows, NEW q \in Requests, OwnsRun(q)
  PROVE  OwnsRun(q)' /\ slot'[q] = slot[q]
<1>1. slot[q] # None
  BY GatewayAssumption DEF OwnsRun, Keyed, TypeOK
<1>2. slot'[q] = slot[q]
  BY <1>1 DEF Grows
<1>3. CASE slot[q] = NoKey
  BY <1>2, <1>3 DEF OwnsRun
<1>4. CASE Keyed(q) /\ index[slot[q]] = q
  <2>1. q # None
    BY GatewayAssumption
  <2>2. index'[slot[q]] = q
    BY <1>4, <2>1 DEF Keyed, Grows
  <2>. QED  BY <1>2, <1>4, <2>2 DEF OwnsRun, Keyed
<1>. QED  BY <1>3, <1>4 DEF OwnsRun

\* Such a process still may, whatever the others do.
LEMMA StillOK ==
  ASSUME TypeOK, Grows, NEW p \in Procs, ProcOK(p), Still(p)
  PROVE  ProcOK(p)'
<1>1. ASSUME p \in Requests PROVE RequestOK(p)'
  <2>0. RequestOK(p) /\ pc'[p] = pc[p] /\ slot'[p] = slot[p] /\ answer'[p] = answer[p]
    BY <1>1 DEF ProcOK, Still
  <2>1. pc[p] \in Bound => OwnsRun(p)'
    BY <1>1, <2>0, OwnsKept DEF RequestOK
  <2>2. pc[p] = "await" => index'[slot[p]] # None
    BY <1>1, <2>0 DEF RequestOK, Keyed, Grows
  <2>3. (meta[p] # None => meta'[p] # None) /\ (told[p] # {} => told'[p] # {})
    BY <1>1 DEF Grows
  <2>. QED  BY <2>0, <2>1, <2>2, <2>3 DEF RequestOK, Keyed
<1>2. ASSUME p \in Stops \cup {Recovery} PROVE AboutOK(p)'
  BY <1>2 DEF ProcOK, Still, AboutOK
<1>3. ASSUME p \in Workers PROVE WorkerOK(p)'
  <2>0. WorkerOK(p) /\ pc'[p] = pc[p] /\ cur'[p] = cur[p]
    BY <1>3 DEF ProcOK, Still
  <2>1. CASE pc[p] \in {"down", "idle"}
    BY <2>0, <2>1 DEF WorkerOK, Updating
  <2>2. CASE pc[p] \notin {"down", "idle"}
    <3>1. cur[p] \in DOMAIN commands
      BY <2>0, <2>2 DEF WorkerOK
    <3>2. /\ cur[p] \in DOMAIN commands'
          /\ commands'[cur[p]].kind = commands[cur[p]].kind
          /\ commands'[cur[p]].run = commands[cur[p]].run
      BY <3>1 DEF Grows
    <3>3. commands[cur[p]].run \in Requests
      BY <3>1, RunsOfCommands
    <3>4. told[commands[cur[p]].run] \subseteq told'[commands[cur[p]].run]
      BY <3>3 DEF Grows
    <3>. QED  BY <2>0, <3>1, <3>2, <3>4 DEF WorkerOK
  <2>. QED  BY <2>1, <2>2
<1>4. UpdateOK(p)'
  <2>0. UpdateOK(p) /\ pc'[p] = pc[p] /\ to'[p] = to[p]
    BY DEF ProcOK, Still
  <2>1. ASSUME pc[p] = "write" PROVE meta'[RunOf(p)'] # None
    <3>1. RunOf(p)' = RunOf(p) /\ RunOf(p) \in Requests
      <4>1. CASE p \in Requests
        BY <4>1, RunOfs
      <4>2. CASE p \in Stops \cup {Recovery}
        BY <4>2, <2>1, RunOfs DEF Still, ProcOK, AboutOK, Updating
      <4>3. CASE p \in Workers
        <5>1. cur[p] \in DOMAIN commands /\ cur'[p] = cur[p]
          BY <4>3, <2>1 DEF ProcOK, Still, WorkerOK
        <5>2. commands[cur[p]].run \in Requests
          BY <5>1, RunsOfCommands
        <5>. QED  BY <4>3, <5>1, <5>2, RunOfs DEF Grows
      <4>. QED  BY <4>1, <4>2, <4>3 DEF Procs
    <3>2. meta[RunOf(p)] # None
      BY <2>0, <2>1 DEF UpdateOK
    <3>. QED  BY <3>1, <3>2 DEF Grows
  <2>. QED  BY <2>0, <2>1 DEF UpdateOK
<1>. QED  BY <1>1, <1>2, <1>3, <1>4 DEF ProcOK

\* A step of p leaves the other processes still.
LEMMA OthersStill ==
  ASSUME TypeOK, NEW p \in Procs, NEW o \in Procs \ {p},
         \/ p \in Requests /\ (RequestStep(p) \/ \E ask \in Asks : Submit(p, ask[1], ask[2]))
         \/ p \in Requests \cup Stops /\ SendAbort(p)
         \/ p \in Stops /\ \E r \in Requests : StopRun(p, r)
         \/ UpdateStep(p)
         \/ p \in Workers /\ (WorkerStep(p) \/ StartWorker(p))
         \/ p = Recovery /\ RecoveryStep
  PROVE  Still(o)
<1>. USE DEF Still, Goto, Update, Leave, Reply
<1>0. /\ pc \in [Procs -> PCs] /\ to \in [Procs -> Statuses \cup {None}]
      /\ of \in [Stops \cup {Recovery} -> Requests \cup {None}]
      /\ slot \in [Requests -> Slots \cup {NoKey, None}]
      /\ answer \in [Requests -> Requests \cup {None, "error"}]
      /\ cur \in [Workers -> Nat]
  BY DEF TypeOK
<1>1. ASSUME p \in Requests, NEW ask \in Asks, Submit(p, ask[1], ask[2]) PROVE Still(o)
  BY <1>0, <1>1 DEF Submit
<1>2. ASSUME p \in Requests, RequestStep(p) PROVE Still(o)
  <2>1. CASE ReserveSlot(p) \/ CreateDir(p) \/ CreateMeta(p) \/ FindCommand(p) \/ SendSubmit(p)
    BY <1>0, <2>1 DEF ReserveSlot, CreateDir, CreateMeta, FindCommand, SendSubmit, apiVars
  <2>2. CASE AwaitRun(p)
    BY <1>0, <2>2 DEF AwaitRun
  <2>3. CASE Decide(p)
    BY <1>0, <2>3 DEF Decide
  <2>. QED  BY <1>2, <2>1, <2>2, <2>3 DEF RequestStep
<1>3. CASE SendAbort(p)
  <2>1. UNCHANGED <<of, slot, answer, cur>> /\ pc'[o] = pc[o] /\ to'[o] = to[o]
    BY <1>0, <1>3 DEF SendAbort, apiVars
  <2>. QED  BY <2>1
<1>4. ASSUME p \in Stops, NEW r \in Requests, StopRun(p, r) PROVE Still(o)
  BY <1>0, <1>4 DEF StopRun
<1>5. CASE Load(p)
  <2>1. UNCHANGED <<of, slot>> /\ pc'[o] = pc[o] /\ to'[o] = to[o]
    BY <1>0, <1>5 DEF Load, Refused, Exit
  <2>2. o \in Requests => answer'[o] = answer[o]
    BY <1>0, <1>5 DEF Load, Refused
  <2>3. o \in Workers => cur'[o] = cur[o]
    BY <1>0, <1>5 DEF Load, Refused, Exit
  <2>. QED  BY <2>1, <2>2, <2>3
<1>6. CASE Write(p)
  BY <1>0, <1>6 DEF Write, apiVars
<1>7. CASE Tell(p)
  <2>1. UNCHANGED <<of, slot, cur>> /\ pc'[o] = pc[o] /\ to'[o] = to[o]
    BY <1>0, <1>7 DEF Tell, Updated
  <2>2. o \in Requests => answer'[o] = answer[o]
    BY <1>0, <1>7 DEF Tell, Updated
  <2>. QED  BY <2>1, <2>2
<1>8. ASSUME p \in Workers, WorkerStep(p) PROVE Still(o)
  <2>1. CASE ClaimRead(p) \/ ClaimWrite(p) \/ StreamEnds(p)
    BY <1>0, <1>8, <2>1 DEF ClaimRead, ClaimWrite, StreamEnds, apiVars
  <2>2. CASE MarkDone(p) \/ WorkerDies(p)
    BY <1>0, <1>8, <2>2 DEF MarkDone, WorkerDies, Exit, apiVars
  <2>. QED  BY <1>8, <2>1, <2>2 DEF WorkerStep
<1>9. ASSUME p \in Workers, StartWorker(p) PROVE Still(o)
  BY <1>0, <1>9 DEF StartWorker, Begin, apiVars
<1>10. ASSUME p = Recovery, RecoveryStep PROVE Still(o)
  <2>1. CASE DaemonStarts \/ Recovered
    BY <1>0, <1>10, <2>1 DEF DaemonStarts, Recovered, apiVars
  <2>2. ASSUME NEW r \in Requests, NEW st \in Statuses, Recover(r, st) PROVE Still(o)
    BY <1>0, <1>10, <2>2 DEF Recover
  <2>. QED  BY <1>10, <2>1, <2>2 DEF RecoveryStep
<1>. QED  BY <1>1, <1>2, <1>3, <1>4, <1>5, <1>6, <1>7, <1>8, <1>9, <1>10 DEF UpdateStep

\* A transition starts from a status that is there.
LEMMA LoadFinds ==
  ASSUME Inv, NEW p \in Procs, Load(p), CanTransition(meta[RunOf(p)], to[p])
  PROVE  meta[RunOf(p)] # None
<1>1. to[p] \in Statuses /\ None \notin Statuses
  BY RunOfUpdate, GatewayAssumption DEF Load, Updating
<1>. QED  BY <1>1 DEF CanTransition, Statuses, Waiting

\* A submission that moves has what its next step takes for granted.
LEMMA RequestMoves ==
  ASSUME Inv, Grows, NEW q \in Requests,
         \/ \E ask \in Asks : Submit(q, ask[1], ask[2])
         \/ RequestStep(q) \/ SendAbort(q) \/ UpdateStep(q)
  PROVE  ProcOK(q)'
<1>. USE DEF Goto, Update, Leave, Reply
<1>0. /\ TypeOK /\ RequestOK(q) /\ UpdateOK(q) /\ q \in Procs
      /\ q \notin Stops \cup {Recovery} /\ q \notin Workers
  BY ProcsFacts DEF Inv, RequestsOK, UpdatesOK
<1>p. /\ pc \in [Procs -> PCs] /\ to \in [Procs -> Statuses \cup {None}]
      /\ index \in [Slots -> Requests \cup {None}]
      /\ meta \in [Requests -> Statuses \cup {None}]
      /\ told \in [Requests -> SUBSET (Terminal \cup {"created"})]
      /\ slot \in [Requests -> Slots \cup {NoKey, None}]
      /\ answer \in [Requests -> Requests \cup {None, "error"}]
  BY <1>0 DEF TypeOK
<1>o. OwnsRun(q) => OwnsRun(q)' /\ slot'[q] = slot[q]
  BY <1>0, OwnsKept
<1>g. (meta[q] # None => meta'[q] # None) /\ (told[q] # {} => told'[q] # {})
  BY DEF Grows
<1>r. RunOf(q) = q /\ RunOf(q)' = q
  BY RunOfs
<1>s. ASSUME RequestOK(q)', pc'[q] \in Updating => to'[q] \in Statuses
      PROVE  ProcOK(q)'
  <2>1. pc'[q] = "write" => meta'[RunOf(q)'] # None
    BY <1>s, <1>r DEF RequestOK, Visible, Updating
  <2>. QED  BY <1>0, <1>s, <2>1 DEF ProcOK, UpdateOK
<1>1. ASSUME NEW ask \in Asks, Submit(q, ask[1], ask[2]) PROVE ProcOK(q)'
  <2>1. ask[1] \in Slots \cup {NoKey} /\ None \notin Slots \cup {NoKey} /\ NoKey \notin Slots
    BY GatewayAssumption
  <2>2. slot'[q] = ask[1] /\ answer'[q] = None /\ UNCHANGED <<index, to>>
    BY <1>0, <1>p, <1>1 DEF Submit, storeVars, RequestOK
  <2>3. \/ ask[1] = NoKey /\ pc'[q] = "mkdir"
        \/ ask[1] \in Slots /\ index[ask[1]] # None /\ pc'[q] = "await"
        \/ ask[1] \in Slots /\ pc'[q] = "reserve"
    BY <1>0, <1>p, <1>1 DEF Submit
  <2>4. RequestOK(q)'
    BY <2>1, <2>2, <2>3 DEF RequestOK, Keyed, OwnsRun, Bound, Visible, Logged, Updating
  <2>. QED  BY <1>s, <2>3, <2>4 DEF Updating
<1>2. CASE ReserveSlot(q)
  <2>1. Keyed(q) /\ slot'[q] = slot[q] /\ answer'[q] = None /\ slot[q] # None
    BY <1>0, <1>p, <1>2 DEF ReserveSlot, RequestOK, apiVars, Bound
  <2>2. \/ pc'[q] = "mkdir" /\ index'[slot[q]] = q
        \/ pc'[q] = "await" /\ index'[slot[q]] # None
    BY <1>0, <1>p, <1>2, <2>1 DEF ReserveSlot, Reserve, Keyed
  <2>3. RequestOK(q)'
    BY <2>1, <2>2 DEF RequestOK, Keyed, OwnsRun, Bound, Visible, Logged, Updating
  <2>. QED  BY <1>s, <2>2, <2>3 DEF Updating
<1>3. ASSUME slot'[q] = slot[q], slot[q] # None,
             pc'[q] = "done" \/ (pc'[q] = "lost" /\ answer'[q] = None)
      PROVE  ProcOK(q)'
  <2>1. RequestOK(q)'
    BY <1>3 DEF RequestOK, Bound, Visible, Logged, Updating
  <2>. QED  BY <1>s, <1>3, <2>1 DEF Updating
<1>4. CASE AwaitRun(q)
  BY <1>0, <1>p, <1>3, <1>4 DEF AwaitRun, RequestOK
<1>5. CASE CreateDir(q) \/ CreateMeta(q)
  <2>1. OwnsRun(q) /\ answer'[q] = None /\ slot[q] # None
    BY <1>0, <1>p, <1>5 DEF CreateDir, CreateMeta, RequestOK, apiVars, Bound
  <2>2. pc'[q] = "meta" \/ (pc'[q] = "created" /\ meta'[q] # None)
    <3>1. "queued" # None
      BY GatewayAssumption DEF Statuses
    <3>. QED  BY <1>0, <1>p, <1>5, <3>1 DEF CreateDir, CreateMeta, WriteMeta
  <2>3. RequestOK(q)'
    BY <1>o, <2>1, <2>2 DEF RequestOK, Bound, Visible, Logged, Updating
  <2>. QED  BY <1>s, <2>2, <2>3 DEF Updating
<1>6. CASE Decide(q)
  <2>1. OwnsRun(q) /\ answer[q] = None /\ slot[q] # None /\ meta[q] # None
    BY <1>0, <1>6 DEF Decide, RequestOK, Bound, Visible
  <2>2. told'[q] # {}
    BY <1>p, <1>6 DEF Decide, AppendEvent
  <2>3. \/ pc'[q] = "done"
        \/ pc'[q] \in {"find", "load", "abort"} /\ answer'[q] = None /\ UNCHANGED to
        \/ pc'[q] \in {"find", "load", "abort"} /\ answer'[q] = None /\ to'[q] = "failed"
    BY <1>0, <1>p, <1>6, <2>1 DEF Decide
  <2>4. slot'[q] = slot[q] /\ (pc'[q] = "load" => to'[q] \in Statuses)
    BY <1>0, <1>p, <1>6, <1>o, <2>1 DEF Decide, Statuses
  <2>5. CASE pc'[q] \in {"find", "load", "abort"} /\ answer'[q] = None
    <3>1. RequestOK(q)'
      BY <1>o, <1>g, <2>1, <2>2, <2>4, <2>5 DEF RequestOK, Bound, Visible, Logged, Updating
    <3>. QED  BY <1>s, <2>4, <2>5, <3>1 DEF Updating
  <2>. QED  BY <1>3, <2>1, <2>3, <2>4, <2>5
<1>7. CASE SendAbort(q) \/ FindCommand(q) \/ SendSubmit(q)
  <2>1. OwnsRun(q) /\ answer[q] = None /\ slot[q] # None /\ meta[q] # None /\ told[q] # {}
    BY <1>0, <1>7 DEF SendAbort, FindCommand, SendSubmit, RequestOK, Bound, Visible, Logged
  <2>2. answer'[q] = None
    BY <1>7, <2>1 DEF SendAbort, FindCommand, SendSubmit, apiVars
  <2>3. pc'[q] \in {"find", "send"} \/ (pc'[q] = "load" /\ to'[q] = "running")
    BY <1>0, <1>p, <1>7 DEF SendAbort, FindCommand, SendSubmit
  <2>4. RequestOK(q)'
    BY <1>o, <1>g, <2>1, <2>2, <2>3 DEF RequestOK, Bound, Visible, Logged, Updating
  <2>. QED  BY <1>s, <2>3, <2>4 DEF Updating, Statuses
<1>8. CASE UpdateStep(q)
  <2>1. /\ OwnsRun(q) /\ answer[q] = None /\ slot[q] # None /\ meta[q] # None
        /\ told[q] # {} /\ to[q] \in Statuses
    BY <1>0, <1>8 DEF UpdateStep, Load, Write, Tell, RequestOK, UpdateOK,
                      Bound, Visible, Logged, Updating
  <2>2. \/ pc'[q] = "done"
        \/ pc'[q] \in {"write", "tell"} /\ to'[q] = to[q] /\ answer'[q] = None
    <3>1. CASE Load(q)
      BY <1>0, <1>p, <2>1, <3>1 DEF Load, Refused
    <3>2. CASE Write(q)
      BY <1>0, <1>p, <2>1, <3>2 DEF Write, apiVars
    <3>3. CASE Tell(q)
      BY <1>0, <1>p, <2>1, <3>3 DEF Tell, Updated
    <3>. QED  BY <1>8, <3>1, <3>2, <3>3 DEF UpdateStep
  <2>3. CASE pc'[q] \in {"write", "tell"} /\ to'[q] = to[q] /\ answer'[q] = None
    <3>1. RequestOK(q)'
      BY <1>o, <1>g, <2>1, <2>3 DEF RequestOK, Bound, Visible, Logged, Updating
    <3>. QED  BY <1>s, <2>1, <2>3, <3>1
  <2>. QED  BY <1>3, <1>o, <2>1, <2>2, <2>3
<1>. QED  BY <1>1, <1>2, <1>4, <1>5, <1>6, <1>7, <1>8 DEF RequestStep

\* So have a stop and the recovery ...
LEMMA AboutMoves ==
  ASSUME Inv, Grows, NEW p \in Stops \cup {Recovery},
         \/ p \in Stops /\ \E r \in Requests : StopRun(p, r)
         \/ p \in Stops /\ SendAbort(p)
         \/ UpdateStep(p)
         \/ p = Recovery /\ RecoveryStep
  PROVE  ProcOK(p)'
<1>. USE DEF Goto, Update, Leave, Reply
<1>0. /\ TypeOK /\ AboutOK(p) /\ UpdateOK(p) /\ ProcOK(p) /\ p \in Procs
      /\ p \notin Requests /\ p \notin Workers
  BY ProcsFacts DEF Inv, AboutsOK, UpdatesOK, ProcOK
<1>p. /\ pc \in [Procs -> PCs] /\ to \in [Procs -> Statuses \cup {None}]
      /\ of \in [Stops \cup {Recovery} -> Requests \cup {None}]
      /\ meta \in [Requests -> Statuses \cup {None}]
  BY <1>0 DEF TypeOK
<1>r. RunOf(p) = of[p] /\ RunOf(p)' = of'[p]
  BY RunOfs
<1>s. ASSUME AboutOK(p)', pc'[p] \in Updating => to'[p] \in Statuses,
             pc'[p] = "write" => meta'[of'[p]] # None
      PROVE  ProcOK(p)'
  BY <1>0, <1>r, <1>s DEF ProcOK, UpdateOK
<1>t. Still(p) => ProcOK(p)'
  BY <1>0, StillOK
<1>1. ASSUME p \in Stops, NEW r \in Requests, StopRun(p, r) PROVE ProcOK(p)'
  <2>1. pc'[p] = "abort" /\ of'[p] = r
    BY <1>0, <1>p, <1>1 DEF StopRun
  <2>. QED  BY <1>s, <2>1 DEF AboutOK, Updating
<1>2. ASSUME p \in Stops, SendAbort(p) PROVE ProcOK(p)'
  <2>1. pc'[p] = "load" /\ to'[p] = "cancelled" /\ of'[p] = of[p] /\ of[p] \in Requests
    BY <1>0, <1>p, <1>2 DEF SendAbort, AboutOK, apiVars
  <2>. QED  BY <1>s, <2>1 DEF AboutOK, Updating, Statuses
<1>3. CASE Load(p)
  <2>1. of[p] \in Requests /\ to[p] \in Statuses /\ of' = of /\ meta' = meta
    BY <1>0, <1>3 DEF Load, AboutOK, UpdateOK, Updating, storeVars
  <2>2. \/ pc'[p] = "write" /\ to'[p] = to[p] /\ CanTransition(meta[RunOf(p)], to[p])
        \/ pc'[p] = "done"
    BY <1>0, <1>p, <1>3 DEF Load, Refused
  <2>3. CASE pc'[p] = "done"
    BY <1>s, <2>3 DEF AboutOK, Updating
  <2>4. CASE pc'[p] = "write" /\ to'[p] = to[p] /\ CanTransition(meta[RunOf(p)], to[p])
    BY <1>0, <1>3, <1>r, <1>s, <2>1, <2>4, LoadFinds DEF AboutOK, Updating
  <2>. QED  BY <2>2, <2>3, <2>4
<1>4. CASE Write(p)
  <2>1. of[p] \in Requests /\ to[p] \in Statuses /\ of'[p] = of[p]
        /\ to'[p] = to[p] /\ pc'[p] = "tell"
    BY <1>0, <1>p, <1>4 DEF Write, AboutOK, UpdateOK, Updating, apiVars
  <2>. QED  BY <1>s, <2>1 DEF AboutOK, Updating
<1>5. CASE Tell(p)
  <2>1. pc'[p] \in {"done", "scan"}
    BY <1>0, <1>p, <1>5 DEF Tell, Updated
  <2>. QED  BY <1>s, <2>1 DEF AboutOK, Updating
<1>6. ASSUME p = Recovery, RecoveryStep PROVE ProcOK(p)'
  <2>1. CASE pc'[p] \in {"scan", "done"}
    BY <1>s, <2>1 DEF AboutOK, Updating
  <2>2. CASE DaemonStarts \/ Recovered
    <3>1. pc'[p] \in {"scan", "done"} \/ Still(p)
      BY <1>0, <1>p, <1>6, <2>2 DEF DaemonStarts, Recovered, Still, apiVars
    <3>. QED  BY <1>t, <2>1, <3>1
  <2>3. ASSUME NEW r \in Requests, NEW st \in Statuses, Recover(r, st) PROVE ProcOK(p)'
    <3>1. \/ pc'[p] = "load" /\ to'[p] = "recoverable" /\ of'[p] = r
          \/ pc'[p] \in {"scan", "done"}
      BY <1>0, <1>p, <1>6, <2>3 DEF Recover
    <3>2. CASE pc'[p] = "load" /\ to'[p] = "recoverable" /\ of'[p] = r
      BY <1>s, <3>2 DEF AboutOK, Updating, Statuses
    <3>. QED  BY <2>1, <3>1, <3>2
  <2>. QED  BY <1>6, <2>2, <2>3 DEF RecoveryStep
<1>. QED  BY <1>1, <1>2, <1>3, <1>4, <1>5, <1>6 DEF UpdateStep

\* ... and a worker.
LEMMA WorkerMoves ==
  ASSUME Inv, Grows, NEW w \in Workers,
         \/ WorkerStep(w) \/ UpdateStep(w)
         \/ Begin(w) /\ to' = to
  PROVE  ProcOK(w)'
<1>. USE DEF Goto, Update, Leave, Reply
<1>0. /\ TypeOK /\ WorkerOK(w) /\ UpdateOK(w) /\ w \in Procs
      /\ w \notin Requests /\ w \notin Stops \cup {Recovery}
  BY ProcsFacts DEF Inv, WorkersOK, UpdatesOK
<1>p. /\ pc \in [Procs -> PCs] /\ to \in [Procs -> Statuses \cup {None}]
      /\ cur \in [Workers -> Nat] /\ commands \in Seq(CommandFiles)
      /\ told \in [Requests -> SUBSET (Terminal \cup {"created"})]
  BY <1>0 DEF TypeOK
<1>r. RunOf(w) = commands[cur[w]].run /\ RunOf(w)' = commands'[cur'[w]].run
  BY RunOfs
<1>s. ASSUME WorkerOK(w)', pc'[w] \in Updating => to'[w] \in Statuses,
             pc'[w] = "write" => meta'[commands'[cur'[w]].run] # None
      PROVE  ProcOK(w)'
  BY <1>0, <1>r, <1>s DEF ProcOK, UpdateOK
<1>1. CASE pc'[w] \in {"down", "idle"}
  BY <1>1, <1>s DEF WorkerOK, Updating
<1>2. CASE MarkDone(w) \/ WorkerDies(w) \/ (Begin(w) /\ to' = to)
  <2>1. pc'[w] \in {"down", "idle"}
    BY <1>0, <1>p, <1>2 DEF MarkDone, WorkerDies, Exit, Begin
  <2>. QED  BY <1>1, <2>1
<1>3. CASE ClaimRead(w)
  <2>1. pc'[w] = "claim" /\ cur'[w] \in NextPending /\ commands' = commands
    BY <1>0, <1>p, <1>3 DEF ClaimRead
  <2>2. cur'[w] \in DOMAIN commands'
    BY <2>1 DEF NextPending
  <2>. QED  BY <1>s, <2>1, <2>2 DEF WorkerOK, Updating
<1>c. pc[w] \notin {"down", "idle"} =>
        /\ cur[w] \in DOMAIN commands' /\ commands[cur[w]].run \in Requests
        /\ commands'[cur[w]].kind = commands[cur[w]].kind
        /\ commands'[cur[w]].run = commands[cur[w]].run
        /\ commands[cur[w]].kind \in CommandKinds
  BY <1>0, RunsOfCommands DEF WorkerOK, Grows, CommandFiles
<1>4. CASE ClaimWrite(w)
  <2>1. cur'[w] = cur[w] /\ pc[w] = "claim"
    BY <1>4 DEF ClaimWrite
  <2>2. \/ pc'[w] = "load" /\ to'[w] = "running" /\ commands[cur[w]].kind = "submit"
        \/ pc'[w] = "handled" /\ commands[cur[w]].kind = "abort"
    BY <1>0, <1>p, <1>4 DEF ClaimWrite
  <2>. QED  BY <1>s, <1>c, <2>1, <2>2 DEF WorkerOK, Updating, Statuses
<1>5. CASE StreamEnds(w)
  <2>1. /\ cur'[w] = cur[w] /\ commands[cur[w]].kind = "submit" /\ pc[w] = "stream"
        /\ pc'[w] = "load" /\ to'[w] = "completed"
    BY <1>0, <1>p, <1>5 DEF StreamEnds, WorkerOK
  <2>. QED  BY <1>s, <1>c, <2>1 DEF WorkerOK, Updating, Statuses
<1>6. CASE UpdateStep(w)
  <2>1. pc[w] \in Updating /\ commands[cur[w]].kind = "submit" /\ to[w] \in Statuses
    BY <1>0, <1>6 DEF UpdateStep, Load, Write, Tell, WorkerOK, UpdateOK, Updating
  <2>2. CASE Load(w)
    <3>1. \/ pc'[w] = "down"
          \/ pc'[w] = "load" /\ to'[w] = "failed" /\ cur'[w] = cur[w]
          \/ /\ pc'[w] = "write" /\ to'[w] = to[w] /\ cur'[w] = cur[w]
             /\ CanTransition(meta[RunOf(w)], to[w])
      BY <1>0, <1>p, <2>2 DEF Load, Refused, Exit
    <3>2. CASE pc'[w] = "load" /\ to'[w] = "failed" /\ cur'[w] = cur[w]
      BY <1>s, <1>c, <2>1, <3>2 DEF WorkerOK, Updating, Statuses
    <3>3. CASE /\ pc'[w] = "write" /\ to'[w] = to[w] /\ cur'[w] = cur[w]
               /\ CanTransition(meta[RunOf(w)], to[w])
      <4>1. meta'[commands'[cur'[w]].run] # None
        BY <1>0, <1>r, <1>c, <2>1, <2>2, <3>3, LoadFinds DEF Grows, Updating
      <4>. QED  BY <1>s, <1>c, <2>1, <3>3, <4>1 DEF WorkerOK, Updating
    <3>. QED  BY <1>1, <3>1, <3>2, <3>3
  <2>3. CASE Write(w)
    <3>1. pc'[w] = "tell" /\ to'[w] = to[w] /\ cur'[w] = cur[w]
      BY <1>0, <1>p, <2>3 DEF Write
    <3>. QED  BY <1>s, <1>c, <2>1, <3>1 DEF WorkerOK, Updating
  <2>4. CASE Tell(w)
    <3>1. /\ cur' = cur /\ commands' = commands
          /\ \/ to[w] = "running" /\ pc'[w] = "stream"
             \/ to[w] \in {"completed", "failed"}
                /\ pc'[w] = (IF to[w] = "completed" THEN "handled" ELSE "failed")
      BY <1>0, <1>p, <2>4 DEF Tell, Updated
    <3>2. CASE to[w] = "running" /\ pc'[w] = "stream"
      BY <1>s, <1>c, <2>1, <3>1, <3>2 DEF WorkerOK, Updating
    <3>3. CASE to[w] \in {"completed", "failed"}
               /\ pc'[w] = (IF to[w] = "completed" THEN "handled" ELSE "failed")
      <4>1. HasLog(RunOf(w))
        <5>1. SubmitsOf(RunOf(w)) # {}
          BY <1>0, <1>r, <2>1 DEF WorkerOK, SubmitsOf, Updating
        <5>. QED  BY <1>r, <1>c, <2>1, <5>1 DEF Inv, SentsOK, SentOK, HasLog, Updating
      <4>2. to[w] \in told'[commands[cur[w]].run]
        BY <1>p, <1>r, <1>c, <2>1, <2>4, <3>3, <4>1 DEF Tell, AppendEvent, Terminal, Updating
      <4>. QED  BY <1>s, <1>c, <2>1, <3>1, <3>3, <4>2 DEF WorkerOK, Updating
    <3>. QED  BY <3>1, <3>2, <3>3
  <2>. QED  BY <1>6, <2>2, <2>3, <2>4 DEF UpdateStep
<1>. QED  BY <1>2, <1>3, <1>4, <1>5, <1>6 DEF WorkerStep

\* The end of a daemon leaves the workers alone that it does not kill.
LEMMA EndsMoves ==
  ASSUME Inv, Grows, NEW killed, Ends(killed), NEW p \in Procs
  PROVE  ProcOK(p)'
<1>0. TypeOK /\ ProcOK(p)
  BY ProcsOK DEF Inv
<1>1. CASE p \in Requests \cup Stops
  <2>1. pc'[p] = IF pc[p] \in {"new", "done"} THEN pc[p] ELSE "lost"
    BY <1>1, GatewayAssumption DEF Ends, Procs
  <2>2. p \in Requests => slot' = slot /\ answer' = answer
    BY DEF Ends
  <2>3. p \in Requests => RequestOK(p)'
    BY <1>0, <2>1, <2>2 DEF ProcOK, RequestOK, Bound, Visible, Logged, Updating
  <2>4. p \in Stops \cup {Recovery} => AboutOK(p)'
    BY <1>1, <2>1 DEF AboutOK, Updating
  <2>5. UpdateOK(p)'
    BY <2>1 DEF UpdateOK, Updating
  <2>. QED  BY <1>1, <2>3, <2>4, <2>5, ProcsFacts DEF ProcOK
<1>2. CASE p = Recovery
  <2>1. pc'[p] = "done"
    BY <1>2, GatewayAssumption DEF Ends, Procs
  <2>. QED  BY <1>2, <2>1, ProcsFacts DEF ProcOK, AboutOK, UpdateOK, Updating
<1>3. CASE p \in Workers
  <2>0. p \notin Requests \cup Stops \cup {Recovery}
    BY <1>3, ProcsFacts
  <2>1. pc'[p] = IF p \in killed THEN "down" ELSE pc[p]
    BY <1>3, <2>0 DEF Ends
  <2>2. p \notin killed => to'[p] = to[p] /\ cur'[p] = cur[p]
    BY <1>3 DEF Ends
  <2>3. CASE p \in killed
    BY <2>0, <2>1, <2>3 DEF ProcOK, WorkerOK, UpdateOK, Updating
  <2>4. CASE p \notin killed
    BY <1>0, <2>0, <2>1, <2>2, <2>4, StillOK DEF Still
  <2>. QED  BY <2>3, <2>4
<1>. QED  BY <1>1, <1>2, <1>3 DEF Procs

\* Every process may what it is about to do, whoever has moved.
LEMMA ProcsKept ==
  ASSUME Inv, Next
  PROVE  (RequestsOK /\ AboutsOK /\ WorkersOK /\ UpdatesOK)'
<1>. SUFFICES \A o \in Procs : ProcOK(o)'
  BY ProcsOK
<1>0. TypeOK /\ TypeOK' /\ Grows /\ \A p \in Procs : ProcOK(p)
  BY NextTypes, StepsGrow, ProcsOK DEF Inv
<1>m. ASSUME NEW p \in Procs, ProcOK(p)', \A o \in Procs \ {p} : Still(o)
      PROVE  \A o \in Procs : ProcOK(o)'
  BY <1>0, <1>m, StillOK
<1>1. ASSUME NEW q \in Requests, NEW ask \in Asks, Submit(q, ask[1], ask[2])
      PROVE  \A o \in Procs : ProcOK(o)'
  BY <1>0, <1>1, <1>m, OthersStill, RequestMoves, ProcsFacts
<1>2. ASSUME NEW q \in Requests, RequestStep(q) PROVE \A o \in Procs : ProcOK(o)'
  BY <1>0, <1>2, <1>m, OthersStill, RequestMoves, ProcsFacts
<1>3. ASSUME NEW s \in Stops, NEW r \in Requests, StopRun(s, r)
      PROVE  \A o \in Procs : ProcOK(o)'
  BY <1>0, <1>3, <1>m, OthersStill, AboutMoves, ProcsFacts
<1>4. ASSUME NEW p \in Requests \cup Stops, SendAbort(p) PROVE \A o \in Procs : ProcOK(o)'
  <2>1. ProcOK(p)'
    BY <1>0, <1>4, RequestMoves, AboutMoves
  <2>2. \A o \in Procs \ {p} : Still(o)
    BY <1>0, <1>4, OthersStill, ProcsFacts
  <2>. QED  BY <1>m, <2>1, <2>2, ProcsFacts
<1>5. ASSUME NEW p \in Procs, UpdateStep(p) PROVE \A o \in Procs : ProcOK(o)'
  <2>1. ProcOK(p)'
    <3>1. CASE p \in Requests
      BY <1>0, <1>5, <3>1, RequestMoves
    <3>2. CASE p \in Stops \cup {Recovery}
      BY <1>0, <1>5, <3>2, AboutMoves
    <3>3. CASE p \in Workers
      BY <1>0, <1>5, <3>3, WorkerMoves
    <3>. QED  BY <3>1, <3>2, <3>3 DEF Procs
  <2>2. \A o \in Procs \ {p} : Still(o)
    BY <1>0, <1>5, OthersStill
  <2>. QED  BY <1>m, <2>1, <2>2
<1>6. ASSUME NEW w \in Workers, WorkerStep(w) PROVE \A o \in Procs : ProcOK(o)'
  <2>1. ProcOK(w)'
    BY <1>0, <1>6, WorkerMoves
  <2>2. \A o \in Procs \ {w} : Still(o)
    BY <1>0, <1>6, OthersStill, ProcsFacts
  <2>. QED  BY <1>m, <2>1, <2>2, ProcsFacts
<1>7. ASSUME NEW w \in Workers, StartWorker(w) PROVE \A o \in Procs : ProcOK(o)'
  <2>1. Begin(w) /\ to' = to
    BY <1>7 DEF StartWorker
  <2>. QED  BY <1>0, <1>7, <1>m, <2>1, OthersStill, WorkerMoves, ProcsFacts
<1>8. CASE Poll
  <2>0. /\ UNCHANGED <<to, slot, answer, of, cur>> /\ pc \in [Procs -> PCs]
    BY <1>0, <1>8 DEF Poll, apiVars, TypeOK
  <2>1. ASSUME NEW w \in Workers, Begin(w) PROVE \A o \in Procs : ProcOK(o)'
    <3>1. \A o \in Procs \ {w} : Still(o)
      BY <2>0, <2>1 DEF Begin, Still
    <3>. QED  BY <1>0, <1>m, <2>0, <2>1, <3>1, WorkerMoves, ProcsFacts
  <2>2. CASE pc' = pc
    <3>1. \A o \in Procs : Still(o)
      BY <2>0, <2>2 DEF Still
    <3>. QED  BY <1>0, <3>1, StillOK
  <2>. QED  BY <1>8, <2>1, <2>2 DEF Poll
<1>9. CASE DaemonCrashes \/ DaemonStops
  BY <1>0, <1>9, EndsMoves DEF DaemonCrashes, DaemonStops
<1>10. CASE RecoveryStep
  BY <1>0, <1>10, <1>m, OthersStill, AboutMoves, ProcsFacts
<1>. QED  BY NextSorts, <1>1, <1>2, <1>3, <1>4, <1>5, <1>6, <1>7, <1>8, <1>9, <1>10

-----------------------------------------------------------------------------
(* The commands.                                                           *)

\* The steps that write a command.
LEMMA CommandSteps ==
  ASSUME Next
  PROVE  \/ UNCHANGED commands
         \/ \E p \in Requests \cup Stops : SendAbort(p)
         \/ \E q \in Requests : SendSubmit(q)
         \/ \E w \in Workers : ClaimWrite(w) \/ MarkDone(w)
<1>1. ASSUME NEW q \in Requests, NEW ask \in Asks, Submit(q, ask[1], ask[2])
      PROVE  UNCHANGED commands
  BY <1>1 DEF Submit
<1>2. ASSUME NEW q \in Requests, RequestStep(q)
      PROVE  UNCHANGED commands \/ SendSubmit(q)
  BY <1>2 DEF RequestStep, ReserveSlot, AwaitRun, CreateDir, CreateMeta, Decide, FindCommand
<1>3. ASSUME NEW s \in Stops, NEW r \in Requests, StopRun(s, r) PROVE UNCHANGED commands
  BY <1>3 DEF StopRun
<1>4. ASSUME NEW p \in Procs, UpdateStep(p) PROVE UNCHANGED commands
  BY <1>4 DEF UpdateStep, Load, Write, Tell
<1>5. ASSUME NEW w \in Workers, WorkerStep(w)
      PROVE  UNCHANGED commands \/ ClaimWrite(w) \/ MarkDone(w)
  BY <1>5 DEF WorkerStep, ClaimRead, StreamEnds, WorkerDies
<1>6. CASE (\E w \in Workers : StartWorker(w)) \/ Poll \/ DaemonCrashes \/ DaemonStops
  BY <1>6 DEF StartWorker, Poll, DaemonCrashes, DaemonStops, Ends
<1>7. CASE RecoveryStep
  BY <1>7 DEF RecoveryStep, DaemonStarts, Recovered, Recover
<1>. QED  BY NextSorts, <1>1, <1>2, <1>3, <1>4, <1>5, <1>6, <1>7

\* A new command is pending, and a submit is for the run whose handler sends it.
LEMMA NewCommands ==
  ASSUME Inv, Next, NEW i \in DOMAIN commands' \ DOMAIN commands
  PROVE  /\ commands'[i].status = "pending" /\ i = Len(commands) + 1
         /\ commands'[i].kind = "submit" =>
              \E q \in Requests : SendSubmit(q) /\ commands'[i].run = q
<1>0. commands \in Seq(CommandFiles)
  BY DEF Inv, TypeOK
<1>1. ASSUME NEW p \in Requests \cup Stops, SendAbort(p)
      PROVE  /\ commands'[i].status = "pending" /\ i = Len(commands) + 1
             /\ commands'[i].kind = "abort"
  <2>1. RunOf(p) \in Requests
    BY <1>1, RunOfs DEF Inv, AboutsOK, AboutOK, SendAbort
  <2>. QED  BY <1>0, <1>1, <2>1, EnqueueFacts DEF SendAbort, CommandKinds
<1>2. ASSUME NEW q \in Requests, SendSubmit(q)
      PROVE  /\ commands'[i].status = "pending" /\ i = Len(commands) + 1
             /\ commands'[i].run = q
  <2>1. Key(q) \in Keys \cup {NoKey}
    BY DEF Key, Keyed, Slots
  <2>. QED  BY <1>0, <1>2, <2>1, EnqueueFacts DEF SendSubmit, CommandKinds
<1>3. ASSUME NEW w \in Workers, ClaimWrite(w) \/ MarkDone(w) PROVE FALSE
  <2>1. cur[w] \in DOMAIN commands
    BY <1>3 DEF ClaimWrite, MarkDone, Inv, WorkersOK, WorkerOK
  <2>2. \E status \in CommandStatuses : SetStatus(cur[w], status)
    BY <1>3 DEF ClaimWrite, MarkDone, CommandStatuses
  <2>. QED  BY <1>0, <2>1, <2>2, SetStatusFacts
<1>. QED  BY CommandSteps, <1>1, <1>2, <1>3

\* A command is marked by the worker that holds it.
LEMMA MarkSteps ==
  ASSUME Inv, Next, NEW i \in DOMAIN commands, commands'[i].status \in {"handled", "failed"}
  PROVE  \/ commands'[i].status = commands[i].status
         \/ \E w \in Workers : MarkDone(w) /\ cur[w] = i /\ commands'[i].status = pc[w]
<1>0. commands \in Seq(CommandFiles)
  BY DEF Inv, TypeOK
<1>1. ASSUME NEW p \in Requests \cup Stops, SendAbort(p)
      PROVE  commands'[i] = commands[i]
  <2>1. RunOf(p) \in Requests
    BY <1>1, RunOfs DEF Inv, AboutsOK, AboutOK, SendAbort
  <2>. QED  BY <1>0, <1>1, <2>1, EnqueueFacts DEF SendAbort, CommandKinds
<1>2. ASSUME NEW q \in Requests, SendSubmit(q)
      PROVE  commands'[i] = commands[i]
  <2>1. Key(q) \in Keys \cup {NoKey}
    BY DEF Key, Keyed, Slots
  <2>. QED  BY <1>0, <1>2, <2>1, EnqueueFacts DEF SendSubmit, CommandKinds
<1>3. ASSUME NEW w \in Workers, ClaimWrite(w) \/ MarkDone(w)
      PROVE  \/ commands'[i].status = commands[i].status
             \/ MarkDone(w) /\ cur[w] = i /\ commands'[i].status = pc[w]
  <2>1. cur[w] \in DOMAIN commands
    BY <1>3 DEF ClaimWrite, MarkDone, Inv, WorkersOK, WorkerOK
  <2>2. CASE ClaimWrite(w)
    BY <1>0, <2>1, <2>2, SetStatusFacts DEF ClaimWrite, CommandStatuses
  <2>3. CASE MarkDone(w)
    BY <1>0, <2>1, <2>3, SetStatusFacts DEF MarkDone, CommandStatuses
  <2>. QED  BY <1>3, <2>2, <2>3
<1>. QED  BY CommandSteps, <1>1, <1>2, <1>3

\* What has a submit and has not been sent just now had one before.
LEMMA SubmitsGrow ==
  ASSUME Inv, Next, NEW q \in Requests, SubmitsOf(q)' # {}
  PROVE  SubmitsOf(q) # {} \/ SendSubmit(q)
<1>1. PICK i \in DOMAIN commands' : commands'[i].kind = "submit" /\ commands'[i].run = q
  BY DEF SubmitsOf
<1>2. CASE i \in DOMAIN commands
  BY <1>1, <1>2, StepsGrow DEF Grows, SubmitsOf
<1>3. CASE i \notin DOMAIN commands
  BY <1>1, <1>3, NewCommands
<1>. QED  BY <1>2, <1>3

\* A handler that has sent its run does not do so again.
LEMMA SentsKept ==
  ASSUME Inv, Next
  PROVE  SentsOK'
<1>. SUFFICES ASSUME NEW q \in Requests, SubmitsOf(q)' # {} PROVE SentOK(q)'
  BY DEF SentsOK, SentOK
<1>. USE DEF Goto, Update, Leave, Reply
<1>0. /\ TypeOK /\ Grows /\ RequestOK(q) /\ q \in Procs
      /\ pc \in [Procs -> PCs]
  BY StepsGrow, ProcsFacts DEF Inv, RequestsOK, TypeOK
<1>1. CASE SendSubmit(q)
  <2>1. OwnsRun(q) /\ meta[q] # None /\ told[q] # {}
    BY <1>0, <1>1 DEF SendSubmit, RequestOK, Bound, Visible, Logged
  <2>2. pc'[q] = "load"
    BY <1>0, <1>1 DEF SendSubmit
  <2>. QED  BY <1>0, <2>1, <2>2, OwnsKept DEF SentOK, Grows, Updating
<1>2. CASE SubmitsOf(q) # {}
  <2>0. /\ pc[q] \in Updating \cup {"done", "lost"} /\ OwnsRun(q)
        /\ meta[q] # None /\ told[q] # {}
    BY <1>2 DEF Inv, SentsOK, SentOK
  <2>s. ASSUME pc'[q] \in Updating \cup {"done", "lost"} PROVE SentOK(q)'
    BY <1>0, <2>0, <2>s, OwnsKept DEF SentOK, Grows
  <2>t. ASSUME Still(q) PROVE SentOK(q)'
    BY <2>0, <2>s, <2>t DEF Still
  <2>1. ASSUME NEW o \in Requests, NEW ask \in Asks, Submit(o, ask[1], ask[2])
        PROVE  SentOK(q)'
    <3>1. o # q
      BY <2>0, <2>1 DEF Submit, Updating
    <3>. QED  BY <1>0, <2>1, <2>t, <3>1, OthersStill, ProcsFacts
  <2>2. ASSUME NEW o \in Requests, RequestStep(o) PROVE SentOK(q)'
    <3>1. o # q
      BY <2>0, <2>2 DEF RequestStep, ReserveSlot, AwaitRun, CreateDir, CreateMeta, Decide,
                        FindCommand, SendSubmit, Updating
    <3>. QED  BY <1>0, <2>2, <2>t, <3>1, OthersStill, ProcsFacts
  <2>3. ASSUME NEW s \in Stops, NEW r \in Requests, StopRun(s, r) PROVE SentOK(q)'
    BY <1>0, <2>3, <2>t, OthersStill, ProcsFacts
  <2>4. ASSUME NEW p \in Requests \cup Stops, SendAbort(p) PROVE SentOK(q)'
    <3>1. p # q
      BY <2>0, <2>4 DEF SendAbort, Updating
    <3>. QED  BY <1>0, <2>4, <2>t, <3>1, OthersStill, ProcsFacts
  <2>5. ASSUME NEW p \in Procs, UpdateStep(p) PROVE SentOK(q)'
    <3>1. CASE p = q
      <4>1. pc'[q] \in {"write", "tell", "done"}
        BY <1>0, <2>5, <3>1, ProcsFacts DEF UpdateStep, Load, Refused, Write, Tell, Updated
      <4>. QED  BY <2>s, <4>1 DEF Updating
    <3>2. CASE p # q
      BY <1>0, <2>5, <2>t, <3>2, OthersStill
    <3>. QED  BY <3>1, <3>2
  <2>6. ASSUME NEW w \in Workers, WorkerStep(w) \/ StartWorker(w) PROVE SentOK(q)'
    BY <1>0, <2>6, <2>t, OthersStill, ProcsFacts
  <2>7. CASE Poll
    <3>1. pc'[q] = pc[q]
      BY <1>0, <2>7, ProcsFacts DEF Poll, Begin
    <3>. QED  BY <2>0, <2>s, <3>1
  <2>8. CASE DaemonCrashes \/ DaemonStops
    <3>1. pc'[q] = IF pc[q] \in {"new", "done"} THEN pc[q] ELSE "lost"
      BY <2>8, GatewayAssumption DEF DaemonCrashes, DaemonStops, Ends, Procs
    <3>. QED  BY <2>0, <2>s, <3>1 DEF Updating
  <2>9. CASE RecoveryStep
    BY <1>0, <2>9, <2>t, OthersStill, ProcsFacts
  <2>. QED  BY NextSorts, <2>1, <2>2, <2>3, <2>4, <2>5, <2>6, <2>7, <2>8, <2>9
<1>. QED  BY <1>1, <1>2, SubmitsGrow

\* No run is sent twice.
LEMMA DiffersKept ==
  ASSUME Inv, Next
  PROVE  SubmitsDiffer'
<1>. SUFFICES ASSUME NEW i \in DOMAIN commands', NEW j \in DOMAIN commands', i # j,
                     commands'[i].kind = "submit", commands'[j].kind = "submit"
              PROVE  commands'[i].run # commands'[j].run
  BY DEF SubmitsDiffer
<1>1. CASE i \in DOMAIN commands /\ j \in DOMAIN commands
  BY <1>1, StepsGrow DEF Grows, Inv, SubmitsDiffer
<1>2. ASSUME NEW k \in DOMAIN commands, NEW n \in DOMAIN commands' \ DOMAIN commands,
             commands'[k].kind = "submit", commands'[n].kind = "submit"
      PROVE  commands'[k].run # commands'[n].run
  <2>1. PICK q \in Requests : SendSubmit(q) /\ commands'[n].run = q
    BY <1>2, NewCommands
  <2>2. SubmitsOf(q) = {}
    BY <2>1 DEF SendSubmit, Inv, SentsOK, SentOK, Updating
  <2>3. commands[k].run # q
    BY <1>2, <2>2, StepsGrow DEF SubmitsOf, Grows
  <2>. QED  BY <1>2, <2>1, <2>3, StepsGrow DEF Grows
<1>3. ~(i \notin DOMAIN commands /\ j \notin DOMAIN commands)
  BY NewCommands
<1>. QED  BY <1>1, <1>2, <1>3

\* A command is marked once the end of its run is in the log.
LEMMA MarkedKept ==
  ASSUME Inv, Next
  PROVE  MarkedAfterTheEnd'
<1>. SUFFICES ASSUME NEW r \in Requests, NEW i \in SubmitsOf(r)'
              PROVE  /\ commands'[i].status = "handled" => "completed" \in told'[r]
                     /\ commands'[i].status = "failed" => "failed" \in told'[r]
  BY DEF MarkedAfterTheEnd
<1>0. /\ i \in DOMAIN commands' /\ commands'[i].kind = "submit" /\ commands'[i].run = r
      /\ told[r] \subseteq told'[r]
  BY StepsGrow DEF SubmitsOf, Grows
<1>1. CASE i \notin DOMAIN commands
  BY <1>0, <1>1, NewCommands
<1>2. CASE i \in DOMAIN commands /\ commands'[i].status = commands[i].status
  <2>1. i \in SubmitsOf(r)
    BY <1>0, <1>2, StepsGrow DEF SubmitsOf, Grows
  <2>. QED  BY <1>0, <1>2, <2>1 DEF Inv, MarkedAfterTheEnd
<1>3. ASSUME NEW w \in Workers, i \in DOMAIN commands,
             MarkDone(w), cur[w] = i, commands'[i].status = pc[w]
      PROVE  /\ commands'[i].status = "handled" => "completed" \in told'[r]
             /\ commands'[i].status = "failed" => "failed" \in told'[r]
  <2>1. commands[i].kind = "submit" /\ commands[i].run = r
    BY <1>0, <1>3, StepsGrow DEF Grows
  <2>. QED  BY <1>0, <1>3, <2>1 DEF Inv, WorkersOK, WorkerOK
<1>. QED  BY <1>1, <1>2, <1>3, MarkSteps

-----------------------------------------------------------------------------
(* The workers.                                                            *)

\* Nobody starts a worker beside one that the daemon supervises.
LEMMA OneKept ==
  ASSUME Inv, Next
  PROVE  OneExecutor'
<1>. USE DEF Goto, Update, Leave, Reply, Running
<1>0. /\ TypeOK /\ OneExecutor /\ pc \in [Procs -> PCs]
      /\ "unstarted" \notin Workers
  BY GatewayAssumption DEF Inv, TypeOK
<1>f. ASSUME managed' = managed,
             \A w \in Workers : pc'[w] # "down" =>
               pc[w] # "down" /\ (w \in orphans => w \in orphans')
      PROVE  OneExecutor'
  BY <1>0, <1>f DEF OneExecutor
<1>1. ASSUME NEW q \in Requests, NEW ask \in Asks, Submit(q, ask[1], ask[2])
      PROVE  OneExecutor'
  BY <1>0, <1>1, <1>f, ProcsFacts DEF Submit, supervisorVars
<1>2. ASSUME NEW q \in Requests, RequestStep(q) PROVE OneExecutor'
  <2>1. UNCHANGED <<managed, orphans>>
    BY <1>2 DEF RequestStep, ReserveSlot, AwaitRun, CreateDir, CreateMeta, Decide,
                FindCommand, SendSubmit, supervisorVars
  <2>2. \A w \in Workers : Still(w)
    BY <1>0, <1>2, OthersStill, ProcsFacts
  <2>. QED  BY <1>f, <2>1, <2>2 DEF Still
<1>3. ASSUME NEW s \in Stops, NEW r \in Requests, StopRun(s, r) PROVE OneExecutor'
  BY <1>0, <1>3, <1>f, ProcsFacts DEF StopRun, supervisorVars
<1>4. ASSUME NEW p \in Requests \cup Stops, SendAbort(p) PROVE OneExecutor'
  BY <1>0, <1>4, <1>f, ProcsFacts DEF SendAbort, supervisorVars
<1>5. ASSUME NEW p \in Procs, UpdateStep(p) PROVE OneExecutor'
  <2>1. CASE Write(p) \/ Tell(p)
    <3>1. UNCHANGED <<managed, orphans>>
      BY <2>1 DEF Write, Tell, supervisorVars
    <3>2. \A w \in Workers : pc'[w] # "down" => pc[w] # "down"
      BY <1>0, <2>1, ProcsFacts DEF Write, Tell, Updated
    <3>. QED  BY <1>f, <3>1, <3>2
  <2>2. CASE Load(p)
    <3>1. managed' = managed
      BY <2>2 DEF Load
    <3>2. \A w \in Workers : pc'[w] # "down" =>
            pc[w] # "down" /\ (w \in orphans => w \in orphans')
      <4>1. CASE p \in Workers /\ Exit(p)
        BY <1>0, <2>2, <4>1, ProcsFacts DEF Load, Exit
      <4>2. CASE ~(p \in Workers /\ Exit(p))
        BY <1>0, <2>2, <4>2, ProcsFacts DEF Load, Refused
      <4>. QED  BY <4>1, <4>2
    <3>. QED  BY <1>f, <3>1, <3>2
  <2>. QED  BY <1>5, <2>1, <2>2 DEF UpdateStep
<1>6. ASSUME NEW w \in Workers, WorkerStep(w) PROVE OneExecutor'
  <2>1. CASE ClaimRead(w) \/ ClaimWrite(w) \/ StreamEnds(w) \/ MarkDone(w)
    BY <1>0, <1>f, <2>1, ProcsFacts
       DEF ClaimRead, ClaimWrite, StreamEnds, MarkDone, supervisorVars
  <2>2. CASE WorkerDies(w)
    BY <1>0, <1>f, <2>2, ProcsFacts DEF WorkerDies, Exit
  <2>. QED  BY <1>6, <2>1, <2>2 DEF WorkerStep
<1>7. ASSUME NEW w \in Workers, StartWorker(w) PROVE OneExecutor'
  BY <1>0, <1>7, ProcsFacts DEF StartWorker, Begin, OneExecutor
<1>8. CASE Poll
  <2>1. ASSUME NEW w \in Workers, Begin(w) PROVE OneExecutor'
    BY <1>0, <1>8, <2>1, ProcsFacts DEF Poll, Begin, OneExecutor
  <2>2. CASE pc' = pc
    BY <1>0, <1>8, <2>2 DEF Poll, OneExecutor
  <2>. QED  BY <1>8, <2>1, <2>2 DEF Poll
<1>9. ASSUME NEW killed, Ends(killed), NEW w \in Workers, pc'[w] # "down"
      PROVE  pc[w] # "down" /\ w \notin killed
  BY <1>9, ProcsFacts DEF Ends
<1>10. CASE DaemonCrashes
  BY <1>9, <1>10 DEF DaemonCrashes, OneExecutor
<1>11. CASE DaemonStops
  <2>1. PICK seen \in SUBSET orphans :
          Ends({managed} \cup seen) /\ orphans' = orphans \ seen
    BY <1>11 DEF DaemonStops
  <2>. QED  BY <1>0, <1>9, <2>1 DEF OneExecutor
<1>12. CASE RecoveryStep
  <2>1. UNCHANGED <<managed, orphans>>
    BY <1>12 DEF RecoveryStep, DaemonStarts, Recovered, Recover
  <2>2. \A w \in Workers : Still(w)
    BY <1>0, <1>12, OthersStill, ProcsFacts
  <2>. QED  BY <1>f, <2>1, <2>2 DEF Still
<1>. QED  BY NextSorts, <1>1, <1>2, <1>3, <1>4, <1>5, <1>6, <1>7, <1>8, <1>10, <1>11, <1>12

-----------------------------------------------------------------------------
(* The invariant, and what follows from it.                                *)

\* At first there are no files, and the invariant is about nothing.
LEMMA InitInv ==
  ASSUME Init
  PROVE  Inv
<1>0. /\ commands = <<>> /\ \A r \in Requests : SubmitsOf(r) = {}
  BY DEF Init, CommandsInit, SubmitsOf
<1>1. TypeOK
  <2>1. pc \in [Procs -> PCs]
    <3>1. \A p \in Procs : pc[p] \in {"idle", "down", "done", "new"}
      BY GatewayAssumption DEF Init, Procs
    <3>. QED  BY <3>1 DEF Init, PCs
  <2>2. commands \in Seq(CommandFiles)
    BY <1>0
  <2>3. restarts \in 0 .. MaxRestarts /\ faults \in 0 .. MaxFaults
    BY GatewayAssumption DEF Init
  <2>. QED  BY <2>1, <2>2, <2>3 DEF Init, StoreInit, TypeOK, Statuses
<1>2. /\ \A q \in Requests : pc[q] = "new" /\ slot[q] = None /\ answer[q] = None
      /\ \A s \in Stops : pc[s] = "new"
      /\ pc[Recovery] = "done"
      /\ \A w \in Workers : pc[w] \in {"idle", "down"} /\ (pc[w] = "idle" => w = managed)
  BY ProcsFacts DEF Init
<1>3. RequestsOK
  BY <1>2 DEF RequestsOK, RequestOK, Bound, Visible, Logged, Updating
<1>4. SentsOK
  BY <1>0 DEF SentsOK, SentOK
<1>5. AboutsOK
  BY <1>2 DEF AboutsOK, AboutOK, Updating
<1>6. WorkersOK
  BY <1>2 DEF WorkersOK, WorkerOK, Updating
<1>7. UpdatesOK
  BY <1>2 DEF UpdatesOK, UpdateOK, Updating, Procs
<1>8. SubmitsDiffer /\ MarkedAfterTheEnd
  BY <1>0 DEF SubmitsDiffer, MarkedAfterTheEnd
<1>9. OneExecutor
  BY <1>2 DEF OneExecutor, Running
<1>. QED  BY <1>1, <1>3, <1>4, <1>5, <1>6, <1>7, <1>8, <1>9 DEF Inv

\* Every step keeps the invariant.
LEMMA NextInv ==
  ASSUME Inv, Next
  PROVE  Inv'
BY NextTypes, ProcsKept, SentsKept, DiffersKept, MarkedKept, OneKept DEF Inv

\* A step that changes nothing keeps it too.
LEMMA StutterInv ==
  ASSUME Inv, UNCHANGED vars
  PROVE  Inv'
<1>. USE DEF vars, storeVars, apiVars, supervisorVars
<1>1. TypeOK'
  BY DEF Inv, TypeOK
<1>2. Grows
  BY DEF Grows
<1>3. \A p \in Procs : Still(p)
  BY DEF Still
<1>4. (RequestsOK /\ AboutsOK /\ WorkersOK /\ UpdatesOK)'
  BY <1>2, <1>3, StillOK, ProcsOK DEF Inv
<1>5. SentsOK'
  BY DEF Inv, SentsOK, SentOK, SubmitsOf, OwnsRun, Keyed
<1>6. SubmitsDiffer' /\ MarkedAfterTheEnd' /\ OneExecutor'
  BY DEF Inv, SubmitsDiffer, MarkedAfterTheEnd, SubmitsOf, OneExecutor, Running
<1>. QED  BY <1>1, <1>4, <1>5, <1>6 DEF Inv

\* What every process takes for granted holds in every state, whichever of
\* them die between two of their steps.
THEOREM Invariant == Spec => []Inv
<1>1. Init => Inv
  BY InitInv
<1>2. Inv /\ [Next]_vars => Inv'
  BY NextInv, StutterInv
<1>. QED  BY <1>1, <1>2, PTL DEF Spec

\* The files and the processes have the types that the code gives them; the
\* restarts of a worker stay within the policy of the supervisor.
THEOREM GatewayTypeCorrect == Spec => []TypeOK
<1>1. Inv => TypeOK
  BY DEF Inv
<1>. QED  BY <1>1, Invariant, PTL

\* What has one source and one key is written once for the worker, whatever
\* the number of requests, webhooks, restarts and crashes.
THEOREM SubmittedOnce == Spec => []SentOnce
<1>1. Inv => SentOnce
  <2>. SUFFICES ASSUME Inv, NEW i \in DOMAIN commands, NEW j \in DOMAIN commands, i # j,
                       commands[i].kind = "submit", commands[j].kind = "submit"
                PROVE  /\ commands[i].run # commands[j].run
                       /\ slot[commands[i].run] = slot[commands[j].run] =>
                            slot[commands[i].run] = NoKey
    BY DEF SentOnce
  <2>1. commands[i].run # commands[j].run
    BY DEF Inv, SubmitsDiffer
  <2>2. commands[i].run \in Requests /\ commands[j].run \in Requests
    BY RunsOfCommands DEF Inv
  <2>3. OwnsRun(commands[i].run) /\ OwnsRun(commands[j].run)
    <3>1. SubmitsOf(commands[i].run) # {} /\ SubmitsOf(commands[j].run) # {}
      BY DEF SubmitsOf
    <3>. QED  BY <2>2, <3>1 DEF Inv, SentsOK, SentOK
  <2>. QED  BY <2>1, <2>3 DEF OwnsRun
<1>. QED  BY <1>1, Invariant, PTL

\* A command is marked as handled or failed after its run's end is in the log,
\* although a worker may die between the two writes.
THEOREM EndsBeforeMarks == Spec => []MarkedAfterTheEnd
<1>1. Inv => MarkedAfterTheEnd
  BY DEF Inv
<1>. QED  BY <1>1, Invariant, PTL

\* Beside the workers that crashed daemons left behind there is one worker.
THEOREM SupervisorHasOneWorker == Spec => []OneExecutor
<1>1. Inv => OneExecutor
  BY DEF Inv
<1>. QED  BY <1>1, Invariant, PTL

-----------------------------------------------------------------------------
(* What a status says has happened.                                        *)

Claimed(r)   == \E i \in SubmitsOf(r) : commands[i].status # "pending"
AbortSent(r) == \E i \in DOMAIN commands :
                  commands[i].kind = "abort" /\ commands[i].run = r
RunSent(r)   == SubmitsOf(r) # {} \/ (Keyed(r) /\ HasCommand(Key(r)))

\* The commands allow the run to have the status.
CauseOf(r, st) ==
  /\ st = "completed" => Claimed(r)
  /\ st = "cancelled" => AbortSent(r)
  /\ st = "running" => RunSent(r)

\* Whoever updates a run has a cause for the status before it writes it; and what
\* a worker executes it has claimed.
UpdateCaused(p) == pc[p] \in Updating => CauseOf(RunOf(p), to[p])

HasClaimed(w) ==
  pc[w] \in Updating \cup {"stream"} => commands[cur[w]].status # "pending"

Caused(p) == UpdateCaused(p) /\ (p \in Workers => HasClaimed(p))

CauseInv ==
  /\ \A r \in Requests : CauseOf(r, meta[r])
  /\ \A p \in Procs : Caused(p)

\* A command keeps its key, and is never pending again.
Later ==
  \A i \in DOMAIN commands :
    /\ commands'[i].key = commands[i].key
    /\ commands[i].status # "pending" => commands'[i].status # "pending"

LEMMA MarkedLater ==
  ASSUME commands \in Seq(CommandFiles), NEW i \in DOMAIN commands,
         NEW status \in {"acked", "handled", "failed"}, SetStatus(i, status)
  PROVE  Later /\ commands'[i].status # "pending"
<1>1. i \in 1 .. Len(commands) /\ \A k \in DOMAIN commands : commands[k] \in CommandFiles
  OBVIOUS
<1>2. \A k \in DOMAIN commands :
        commands'[k] = IF k = i THEN [commands[i] EXCEPT !.status = status] ELSE commands[k]
  BY <1>1 DEF SetStatus
<1>3. /\ [commands[i] EXCEPT !.status = status].key = commands[i].key
      /\ [commands[i] EXCEPT !.status = status].status = status
  BY <1>1 DEF CommandFiles
<1>. QED  BY <1>2, <1>3 DEF Later

LEMMA StepsLater ==
  ASSUME Inv, Next
  PROVE  Later
<1>0. commands \in Seq(CommandFiles)
  BY DEF Inv, TypeOK
<1>1. ASSUME NEW p \in Requests \cup Stops, SendAbort(p) PROVE Later
  <2>1. RunOf(p) \in Requests
    BY <1>1, RunOfs DEF Inv, AboutsOK, AboutOK, SendAbort
  <2>2. \A i \in DOMAIN commands : commands'[i] = commands[i]
    BY <1>0, <1>1, <2>1, EnqueueFacts DEF SendAbort, CommandKinds
  <2>. QED  BY <2>2 DEF Later
<1>2. ASSUME NEW q \in Requests, SendSubmit(q) PROVE Later
  <2>1. Key(q) \in Keys \cup {NoKey}
    BY DEF Key, Keyed, Slots
  <2>2. \A i \in DOMAIN commands : commands'[i] = commands[i]
    BY <1>0, <1>2, <2>1, EnqueueFacts DEF SendSubmit, CommandKinds
  <2>. QED  BY <2>2 DEF Later
<1>3. ASSUME NEW w \in Workers, ClaimWrite(w) \/ MarkDone(w) PROVE Later
  <2>1. cur[w] \in DOMAIN commands
    BY <1>3 DEF ClaimWrite, MarkDone, Inv, WorkersOK, WorkerOK
  <2>2. \E status \in {"acked", "handled", "failed"} : SetStatus(cur[w], status)
    BY <1>3 DEF ClaimWrite, MarkDone
  <2>. QED  BY <1>0, <2>1, <2>2, MarkedLater
<1>4. CASE UNCHANGED commands
  BY <1>4 DEF Later
<1>. QED  BY CommandSteps, <1>1, <1>2, <1>3, <1>4

\* A cause stays one.
LEMMA CauseStays ==
  ASSUME TypeOK, Grows, Later, NEW r \in Requests, NEW st, CauseOf(r, st)
  PROVE  CauseOf(r, st)'
<1>1. Claimed(r) => Claimed(r)'
  BY DEF Claimed, SubmitsOf, Grows, Later
<1>2. AbortSent(r) => AbortSent(r)'
  BY DEF AbortSent, Grows
<1>3. SubmitsOf(r) # {} => SubmitsOf(r)' # {}
  BY DEF SubmitsOf, Grows
<1>4. ASSUME Keyed(r), HasCommand(Key(r)) PROVE Keyed(r)' /\ HasCommand(Key(r))'
  <2>1. slot[r] # None
    BY <1>4, GatewayAssumption DEF Keyed
  <2>2. slot'[r] = slot[r]
    BY <2>1 DEF Grows
  <2>3. Keyed(r)' /\ Key(r)' = Key(r)
    BY <1>4, <2>2 DEF Keyed, Key
  <2>4. PICK i \in DOMAIN commands : commands[i].key = Key(r)
    BY <1>4 DEF HasCommand
  <2>5. i \in DOMAIN commands' /\ commands'[i].key = Key(r)'
    BY <2>3, <2>4 DEF Grows, Later
  <2>. QED  BY <2>3, <2>5 DEF HasCommand
<1>5. RunSent(r) => RunSent(r)'
  BY <1>3, <1>4 DEF RunSent
<1>. QED  BY <1>1, <1>2, <1>5 DEF CauseOf

\* A process that is still updates the run that it did.
LEMMA StillRun ==
  ASSUME Inv, Grows, NEW p \in Procs, Still(p), pc[p] \in Updating
  PROVE  RunOf(p)' = RunOf(p) /\ RunOf(p) \in Requests
<1>1. RunOf(p) \in Requests
  BY RunOfUpdate
<1>2. CASE p \in Requests
  BY <1>2, RunOfs
<1>3. CASE p \in Stops \cup {Recovery}
  BY <1>1, <1>3, RunOfs DEF Still
<1>4. CASE p \in Workers
  <2>1. cur[p] \in DOMAIN commands
    BY <1>4 DEF Inv, WorkersOK, WorkerOK, Updating
  <2>. QED  BY <1>1, <1>4, <2>1, RunOfs DEF Still, Grows
<1>. QED  BY <1>1, <1>2, <1>3, <1>4 DEF Procs

LEMMA StillCaused ==
  ASSUME Inv, Grows, Later, NEW p \in Procs, Still(p), Caused(p)
  PROVE  Caused(p)'
<1>1. UpdateCaused(p)'
  <2>. SUFFICES ASSUME pc'[p] \in Updating PROVE CauseOf(RunOf(p), to[p])'
    BY DEF UpdateCaused
  <2>1. pc[p] \in Updating /\ to'[p] = to[p]
    BY DEF Still
  <2>2. RunOf(p)' = RunOf(p) /\ RunOf(p) \in Requests
    BY <2>1, StillRun
  <2>3. CauseOf(RunOf(p), to[p])
    BY <2>1 DEF Caused, UpdateCaused
  <2>4. \A r \in Requests : \A st : CauseOf(r, st) => CauseOf(r, st)'
    BY CauseStays DEF Inv
  <2>. QED
    BY <2>1, <2>2, <2>3, <2>4
    DEF CauseOf, Claimed, AbortSent, RunSent, SubmitsOf, HasCommand, Keyed, Key
<1>2. ASSUME p \in Workers PROVE HasClaimed(p)'
  <2>. SUFFICES ASSUME pc'[p] \in Updating \cup {"stream"}
                PROVE  commands'[cur'[p]].status # "pending"
    BY DEF HasClaimed
  <2>1. pc[p] \in Updating \cup {"stream"} /\ cur'[p] = cur[p]
    BY <1>2 DEF Still
  <2>2. cur[p] \in DOMAIN commands
    BY <1>2, <2>1 DEF Inv, WorkersOK, WorkerOK, Updating
  <2>3. commands[cur[p]].status # "pending"
    BY <1>2, <2>1 DEF Caused, HasClaimed
  <2>. QED  BY <2>1, <2>2, <2>3 DEF Later
<1>. QED  BY <1>1, <1>2 DEF Caused

\* Loading and writing are about the same run and status.
LEMMA GoesOnCaused ==
  ASSUME Inv, Grows, Later, NEW p \in Procs, pc[p] \in Updating, Caused(p),
         to'[p] = to[p],
         p \in Stops \cup {Recovery} => of'[p] = of[p],
         p \in Workers => cur'[p] = cur[p]
  PROVE  CauseOf(RunOf(p), to[p])' /\ (p \in Workers => commands'[cur'[p]].status # "pending")
<1>1. RunOf(p)' = RunOf(p) /\ RunOf(p) \in Requests
  <2>1. RunOf(p) \in Requests
    BY RunOfUpdate
  <2>2. CASE p \in Requests
    BY <2>2, RunOfs
  <2>3. CASE p \in Stops \cup {Recovery}
    BY <2>1, <2>3, RunOfs
  <2>4. CASE p \in Workers
    <3>1. cur[p] \in DOMAIN commands
      BY <2>4 DEF Inv, WorkersOK, WorkerOK, Updating
    <3>. QED  BY <2>1, <2>4, <3>1, RunOfs DEF Grows
  <2>. QED  BY <2>1, <2>2, <2>3, <2>4 DEF Procs
<1>2. CauseOf(RunOf(p), to[p])
  BY DEF Caused, UpdateCaused
<1>3. \A r \in Requests : \A st : CauseOf(r, st) => CauseOf(r, st)'
  BY CauseStays DEF Inv
<1>4. CauseOf(RunOf(p), to[p])'
  BY <1>1, <1>2, <1>3
  DEF CauseOf, Claimed, AbortSent, RunSent, SubmitsOf, HasCommand, Keyed, Key
<1>5. ASSUME p \in Workers PROVE commands'[cur'[p]].status # "pending"
  <2>1. cur[p] \in DOMAIN commands /\ commands[cur[p]].status # "pending"
    BY <1>5 DEF Inv, WorkersOK, WorkerOK, Updating, Caused, HasClaimed
  <2>. QED  BY <1>5, <2>1 DEF Later
<1>. QED  BY <1>4, <1>5

\* A status that needs no cause.
LEMMA NoCause ==
  ASSUME NEW p \in Procs, p \notin Workers,
         pc'[p] \notin Updating \/ to'[p] \in {"failed", "recoverable"}
  PROVE  Caused(p)'
BY DEF Caused, UpdateCaused, CauseOf

\* A submission that gives its run a status has the cause.
LEMMA RequestCaused ==
  ASSUME Inv, Next, Grows, Later, NEW q \in Requests, Caused(q),
         \/ \E ask \in Asks : Submit(q, ask[1], ask[2])
         \/ RequestStep(q) \/ SendAbort(q) \/ UpdateStep(q)
  PROVE  Caused(q)'
<1>. USE DEF Goto, Update, Leave, Reply
<1>0. /\ TypeOK /\ q \in Procs /\ q \notin Workers /\ q \notin Stops \cup {Recovery}
      /\ pc \in [Procs -> PCs] /\ to \in [Procs -> Statuses \cup {None}]
  BY ProcsFacts DEF Inv, TypeOK
<1>r. RunOf(q) = q /\ RunOf(q)' = q
  BY RunOfs
<1>n. pc'[q] \notin Updating \/ to'[q] \in {"failed", "recoverable"} => Caused(q)'
  BY <1>0, NoCause
<1>c. RunSent(q)' /\ to'[q] = "running" => Caused(q)'
  BY <1>0, <1>r DEF Caused, UpdateCaused, CauseOf
<1>1. ASSUME NEW ask \in Asks, Submit(q, ask[1], ask[2]) PROVE Caused(q)'
  BY <1>0, <1>1, <1>n DEF Submit, Updating
<1>2. CASE ReserveSlot(q) \/ CreateDir(q) \/ CreateMeta(q)
  BY <1>0, <1>2, <1>n DEF ReserveSlot, CreateDir, CreateMeta, Updating
<1>3. CASE AwaitRun(q)
  BY <1>0, <1>3, <1>n DEF AwaitRun, Updating
<1>4. CASE Decide(q)
  <2>1. pc'[q] \in {"find", "done", "abort"} \/ to'[q] = "failed"
    BY <1>0, <1>4 DEF Decide
  <2>. QED  BY <2>1, <1>n DEF Updating
<1>5. CASE SendAbort(q)
  BY <1>0, <1>5, <1>n DEF SendAbort, Updating
<1>6. CASE FindCommand(q)
  <2>1. CASE Keyed(q) /\ HasCommand(Key(q)) /\ Update(q, "running")
    <3>1. UNCHANGED <<commands, slot>>
      BY <1>6 DEF FindCommand, apiVars
    <3>2. RunSent(q)'
      BY <2>1, <3>1 DEF RunSent, Keyed, Key, HasCommand
    <3>3. to'[q] = "running"
      BY <1>0, <2>1
    <3>. QED  BY <1>c, <3>2, <3>3
  <2>2. CASE Goto(q, "send")
    BY <1>0, <1>n, <2>2 DEF Updating
  <2>. QED  BY <1>6, <2>1, <2>2 DEF FindCommand
<1>7. CASE SendSubmit(q)
  <2>1. Key(q) \in Keys \cup {NoKey} /\ commands \in Seq(CommandFiles)
    BY <1>0 DEF Key, Keyed, Slots, TypeOK
  <2>2. /\ Len(commands) + 1 \in DOMAIN commands'
        /\ commands'[Len(commands) + 1].kind = "submit"
        /\ commands'[Len(commands) + 1].run = q
    BY <1>7, <2>1, EnqueueFacts DEF SendSubmit, CommandKinds
  <2>3. RunSent(q)'
    BY <2>2 DEF RunSent, SubmitsOf
  <2>4. to'[q] = "running"
    BY <1>0, <1>7 DEF SendSubmit
  <2>. QED  BY <1>c, <2>3, <2>4
<1>8. CASE Load(q)
  <2>1. CASE Goto(q, "write") /\ UNCHANGED to
    <3>1. CauseOf(RunOf(q), to[q])'
      BY <1>0, <1>8, <2>1, GoesOnCaused DEF Load, Updating
    <3>. QED  BY <1>0, <3>1 DEF Caused, UpdateCaused
  <2>2. CASE Reply(q, "error")
    BY <1>0, <1>n, <2>2 DEF Updating
  <2>. QED  BY <1>0, <1>8, <2>1, <2>2 DEF Load, Refused
<1>9. CASE Write(q)
  <2>1. CauseOf(RunOf(q), to[q])'
    BY <1>0, <1>9, GoesOnCaused DEF Write, Updating
  <2>. QED  BY <1>0, <2>1 DEF Caused, UpdateCaused
<1>10. CASE Tell(q)
  <2>1. pc'[q] = "done"
    BY <1>0, <1>10 DEF Tell, Updated
  <2>. QED  BY <1>n, <2>1 DEF Updating
<1>. QED  BY <1>1, <1>2, <1>3, <1>4, <1>5, <1>6, <1>7, <1>8, <1>9, <1>10
          DEF RequestStep, UpdateStep

\* So has a stop, which has sent its abort; the recovery needs none.
LEMMA AboutCaused ==
  ASSUME Inv, Next, Grows, Later, NEW p \in Stops \cup {Recovery}, Caused(p),
         \/ p \in Stops /\ (SendAbort(p) \/ \E r \in Requests : StopRun(p, r))
         \/ UpdateStep(p)
         \/ p = Recovery /\ RecoveryStep
  PROVE  Caused(p)'
<1>. USE DEF Goto, Update, Leave
<1>0. /\ TypeOK /\ AboutOK(p) /\ p \in Procs /\ p \notin Requests /\ p \notin Workers
      /\ pc \in [Procs -> PCs] /\ to \in [Procs -> Statuses \cup {None}]
  BY ProcsFacts DEF Inv, TypeOK, AboutsOK
<1>r. RunOf(p) = of[p] /\ RunOf(p)' = of'[p]
  BY RunOfs
<1>n. pc'[p] \notin Updating \/ to'[p] \in {"failed", "recoverable"} => Caused(p)'
  BY <1>0, NoCause
<1>1. ASSUME NEW r \in Requests, StopRun(p, r) PROVE Caused(p)'
  BY <1>0, <1>1, <1>n DEF StopRun, Updating
<1>2. CASE p \in Stops /\ SendAbort(p)
  <2>1. of[p] \in Requests /\ of' = of
    BY <1>0, <1>2 DEF AboutOK, SendAbort, apiVars
  <2>2. Enqueue("abort", of[p], NoKey) /\ commands \in Seq(CommandFiles)
    BY <1>0, <1>2, <1>r DEF SendAbort, TypeOK
  <2>3. /\ Len(commands) + 1 \in DOMAIN commands'
        /\ commands'[Len(commands) + 1].kind = "abort"
        /\ commands'[Len(commands) + 1].run = of[p]
    BY <2>1, <2>2, EnqueueFacts DEF CommandKinds
  <2>4. AbortSent(of[p])'
    BY <2>1, <2>3 DEF AbortSent
  <2>5. to'[p] = "cancelled"
    BY <1>0, <1>2 DEF SendAbort
  <2>. QED  BY <1>0, <1>r, <2>1, <2>4, <2>5 DEF Caused, UpdateCaused, CauseOf
<1>3. CASE Load(p)
  <2>1. CASE Goto(p, "write") /\ UNCHANGED to
    <3>1. CauseOf(RunOf(p), to[p])'
      BY <1>0, <1>3, <2>1, GoesOnCaused DEF Load, Updating
    <3>. QED  BY <1>0, <3>1 DEF Caused, UpdateCaused
  <2>2. CASE Leave(p, "done")
    BY <1>0, <1>n, <2>2 DEF Updating
  <2>. QED  BY <1>0, <1>3, <2>1, <2>2 DEF Load, Refused
<1>4. CASE Write(p)
  <2>1. CauseOf(RunOf(p), to[p])'
    BY <1>0, <1>4, GoesOnCaused DEF Write, Updating, apiVars
  <2>. QED  BY <1>0, <2>1 DEF Caused, UpdateCaused
<1>5. CASE Tell(p)
  <2>1. pc'[p] \in {"done", "scan"}
    BY <1>0, <1>5 DEF Tell, Updated
  <2>. QED  BY <1>n, <2>1 DEF Updating
<1>6. CASE p = Recovery /\ RecoveryStep
  <2>1. CASE DaemonStarts \/ Recovered
    <3>1. pc'[p] \in {"scan", "done"} \/ UNCHANGED pc
      BY <1>0, <1>6, <2>1 DEF DaemonStarts, Recovered
    <3>2. CASE pc'[p] \in {"scan", "done"}
      BY <1>n, <3>2 DEF Updating
    <3>3. CASE UNCHANGED pc
      <4>1. to' = to /\ of' = of
        BY <2>1 DEF DaemonStarts, Recovered, apiVars
      <4>2. Still(p)
        BY <1>0, <3>3, <4>1 DEF Still
      <4>. QED  BY <1>0, <4>2, StillCaused
    <3>. QED  BY <3>1, <3>2, <3>3
  <2>2. ASSUME NEW r \in Requests, NEW st \in Statuses, Recover(r, st) PROVE Caused(p)'
    <3>1. pc[p] = "scan" /\ (pc'[p] \in {"scan", "done"} \/ to'[p] = "recoverable")
      BY <1>0, <1>6, <2>2 DEF Recover
    <3>. QED  BY <1>n, <3>1 DEF Updating
  <2>. QED  BY <1>6, <2>1, <2>2 DEF RecoveryStep
<1>. QED  BY <1>1, <1>2, <1>3, <1>4, <1>5, <1>6 DEF UpdateStep

\* A worker has claimed the command whose run it starts and ends.
LEMMA WorkerCaused ==
  ASSUME Inv, Next, Grows, Later, NEW w \in Workers, Caused(w),
         \/ WorkerStep(w) \/ UpdateStep(w) \/ (Begin(w) /\ to' = to)
  PROVE  Caused(w)'
<1>. USE DEF Goto, Update, Leave
<1>0. /\ TypeOK /\ WorkerOK(w) /\ w \in Procs
      /\ w \notin Requests \cup Stops \cup {Recovery}
      /\ pc \in [Procs -> PCs] /\ to \in [Procs -> Statuses \cup {None}]
      /\ commands \in Seq(CommandFiles) /\ cur \in [Workers -> Nat]
  BY ProcsFacts DEF Inv, TypeOK, WorkersOK
<1>n. pc'[w] \notin Updating \cup {"stream"} => Caused(w)'
  BY DEF Caused, UpdateCaused, HasClaimed
<1>r. RunOf(w)' = commands'[cur'[w]].run
  BY RunOfs
<1>s. ASSUME cur'[w] = cur[w], cur[w] \in DOMAIN commands, commands[cur[w]].kind = "submit",
             commands'[cur[w]].status # "pending",
             pc'[w] \in Updating => to'[w] \in {"running", "completed", "failed"}
      PROVE  Caused(w)'
  <2>1. cur[w] \in SubmitsOf(RunOf(w))'
    BY <1>r, <1>s DEF SubmitsOf, Grows
  <2>2. Claimed(RunOf(w))' /\ RunSent(RunOf(w))'
    BY <1>s, <2>1 DEF Claimed, RunSent
  <2>. QED  BY <1>s, <2>2 DEF Caused, UpdateCaused, HasClaimed, CauseOf
<1>1. CASE ClaimRead(w) \/ MarkDone(w) \/ WorkerDies(w)
  <2>1. pc'[w] \in {"claim", "idle", "down"}
    BY <1>0, <1>1 DEF ClaimRead, MarkDone, WorkerDies, Exit
  <2>. QED  BY <1>n, <2>1 DEF Updating
<1>2. CASE ClaimWrite(w)
  <2>1. cur[w] \in DOMAIN commands /\ cur' = cur
    BY <1>0, <1>2 DEF ClaimWrite, WorkerOK
  <2>2. commands'[cur[w]].status # "pending"
    BY <1>0, <1>2, <2>1, MarkedLater DEF ClaimWrite
  <2>3. CASE commands[cur[w]].kind = "submit" /\ Update(w, "running")
    BY <1>0, <1>s, <2>1, <2>2, <2>3
  <2>4. CASE Goto(w, "handled")
    BY <1>0, <1>n, <2>4 DEF Updating
  <2>. QED  BY <1>2, <2>3, <2>4 DEF ClaimWrite
<1>3. CASE StreamEnds(w)
  <2>1. /\ cur[w] \in DOMAIN commands /\ commands[cur[w]].kind = "submit"
        /\ commands[cur[w]].status # "pending"
    BY <1>0, <1>3 DEF StreamEnds, WorkerOK, Caused, HasClaimed
  <2>2. commands' = commands /\ cur' = cur /\ to'[w] = "completed"
    BY <1>0, <1>3 DEF StreamEnds
  <2>. QED  BY <1>s, <2>1, <2>2
<1>4. ASSUME pc[w] \in Updating, commands' = commands, cur'[w] = cur[w],
             pc'[w] \in Updating => (to'[w] = to[w] \/ to'[w] = "failed")
      PROVE  Caused(w)'
  <2>1. commands[cur[w]].status # "pending" /\ CauseOf(RunOf(w), to[w])
    BY <1>4 DEF Caused, HasClaimed, UpdateCaused
  <2>2. HasClaimed(w)'
    BY <1>4, <2>1 DEF HasClaimed
  <2>3. UpdateCaused(w)'
    <3>. SUFFICES ASSUME pc'[w] \in Updating PROVE CauseOf(RunOf(w), to[w])'
      BY DEF UpdateCaused
    <3>1. CASE to'[w] = "failed"
      BY <3>1 DEF CauseOf
    <3>2. CASE to'[w] = to[w]
      BY <1>0, <1>4, <3>2, GoesOnCaused
    <3>. QED  BY <1>4, <3>1, <3>2
  <2>. QED  BY <2>2, <2>3 DEF Caused
<1>5. CASE Load(w)
  <2>0. pc[w] \in Updating /\ commands' = commands
    BY <1>5 DEF Load, Updating
  <2>1. CASE Goto(w, "write") /\ UNCHANGED <<to, cur>>
    BY <1>4, <2>0, <2>1
  <2>2. CASE Update(w, "failed") /\ UNCHANGED cur
    BY <1>0, <1>4, <2>0, <2>2
  <2>3. CASE Exit(w)
    BY <1>0, <1>n, <2>3 DEF Exit, Updating
  <2>. QED  BY <1>0, <1>5, <2>1, <2>2, <2>3 DEF Load, Refused
<1>6. CASE Write(w)
  BY <1>4, <1>6 DEF Write, Updating
<1>7. CASE Tell(w)
  <2>1. pc'[w] \notin Updating /\ commands' = commands /\ cur' = cur /\ pc[w] \in Updating
    BY <1>0, <1>7 DEF Tell, Updated, Updating
  <2>. QED  BY <1>4, <2>1
<1>8. CASE Begin(w)
  BY <1>0, <1>8, <1>n DEF Begin, Updating
<1>. QED  BY <1>1, <1>2, <1>3, <1>5, <1>6, <1>7, <1>8 DEF WorkerStep, UpdateStep

\* Every process has the cause it needs, whoever has moved.
LEMMA CausesKept ==
  ASSUME Inv, Next, CauseInv
  PROVE  \A p \in Procs : Caused(p)'
<1>0. TypeOK /\ Grows /\ Later /\ \A p \in Procs : Caused(p)
  BY StepsGrow, StepsLater DEF Inv, CauseInv
<1>m. ASSUME NEW p \in Procs, Caused(p)', \A o \in Procs \ {p} : Still(o)
      PROVE  \A o \in Procs : Caused(o)'
  BY <1>0, <1>m, StillCaused
<1>1. ASSUME NEW q \in Requests, NEW ask \in Asks, Submit(q, ask[1], ask[2])
      PROVE  \A o \in Procs : Caused(o)'
  BY <1>0, <1>1, <1>m, OthersStill, RequestCaused, ProcsFacts
<1>2. ASSUME NEW q \in Requests, RequestStep(q) PROVE \A o \in Procs : Caused(o)'
  BY <1>0, <1>2, <1>m, OthersStill, RequestCaused, ProcsFacts
<1>3. ASSUME NEW s \in Stops, NEW r \in Requests, StopRun(s, r)
      PROVE  \A o \in Procs : Caused(o)'
  BY <1>0, <1>3, <1>m, OthersStill, AboutCaused, ProcsFacts
<1>4. ASSUME NEW p \in Requests \cup Stops, SendAbort(p) PROVE \A o \in Procs : Caused(o)'
  <2>1. Caused(p)'
    BY <1>0, <1>4, RequestCaused, AboutCaused, ProcsFacts
  <2>2. \A o \in Procs \ {p} : Still(o)
    BY <1>0, <1>4, OthersStill, ProcsFacts
  <2>. QED  BY <1>m, <2>1, <2>2, ProcsFacts
<1>5. ASSUME NEW p \in Procs, UpdateStep(p) PROVE \A o \in Procs : Caused(o)'
  <2>1. Caused(p)'
    <3>1. CASE p \in Requests
      BY <1>0, <1>5, <3>1, RequestCaused
    <3>2. CASE p \in Stops \cup {Recovery}
      BY <1>0, <1>5, <3>2, AboutCaused
    <3>3. CASE p \in Workers
      BY <1>0, <1>5, <3>3, WorkerCaused
    <3>. QED  BY <3>1, <3>2, <3>3 DEF Procs
  <2>2. \A o \in Procs \ {p} : Still(o)
    BY <1>0, <1>5, OthersStill
  <2>. QED  BY <1>m, <2>1, <2>2
<1>6. ASSUME NEW w \in Workers, WorkerStep(w) PROVE \A o \in Procs : Caused(o)'
  <2>1. Caused(w)'
    BY <1>0, <1>6, WorkerCaused, ProcsFacts
  <2>2. \A o \in Procs \ {w} : Still(o)
    BY <1>0, <1>6, OthersStill, ProcsFacts
  <2>. QED  BY <1>m, <2>1, <2>2, ProcsFacts
<1>7. ASSUME NEW w \in Workers, StartWorker(w) PROVE \A o \in Procs : Caused(o)'
  <2>1. Begin(w) /\ to' = to
    BY <1>7 DEF StartWorker
  <2>. QED  BY <1>0, <1>7, <1>m, <2>1, OthersStill, WorkerCaused, ProcsFacts
<1>8. CASE Poll
  <2>0. UNCHANGED <<to, slot, answer, of, cur>> /\ pc \in [Procs -> PCs]
    BY <1>0, <1>8 DEF Poll, apiVars, TypeOK
  <2>1. ASSUME NEW w \in Workers, Begin(w) PROVE \A o \in Procs : Caused(o)'
    <3>1. \A o \in Procs \ {w} : Still(o)
      BY <2>0, <2>1 DEF Begin, Still
    <3>. QED  BY <1>0, <1>m, <2>0, <2>1, <3>1, WorkerCaused, ProcsFacts
  <2>2. CASE pc' = pc
    <3>1. \A o \in Procs : Still(o)
      BY <2>0, <2>2 DEF Still
    <3>. QED  BY <1>0, <3>1, StillCaused
  <2>. QED  BY <1>8, <2>1, <2>2 DEF Poll
<1>9. ASSUME NEW killed, Ends(killed), NEW p \in Procs PROVE Caused(p)'
  <2>1. CASE p \notin Workers
    <3>1. pc'[p] \in {"lost", "new", "done"}
      BY <1>9, <2>1, GatewayAssumption DEF Ends, Procs
    <3>. QED  BY <2>1, <3>1, NoCause DEF Updating
  <2>2. CASE p \in Workers
    <3>0. p \notin Requests \cup Stops \cup {Recovery}
      BY <2>2, ProcsFacts
    <3>1. pc'[p] = IF p \in killed THEN "down" ELSE pc[p]
      BY <1>9, <2>2, <3>0 DEF Ends
    <3>2. p \notin killed => to'[p] = to[p] /\ cur'[p] = cur[p]
      BY <1>9, <2>2 DEF Ends
    <3>3. CASE p \in killed
      BY <3>1, <3>3 DEF Caused, UpdateCaused, HasClaimed, Updating
    <3>4. CASE p \notin killed
      BY <1>0, <3>0, <3>1, <3>2, <3>4, StillCaused DEF Still
    <3>. QED  BY <3>3, <3>4
  <2>. QED  BY <2>1, <2>2
<1>10. CASE DaemonCrashes \/ DaemonStops
  BY <1>9, <1>10 DEF DaemonCrashes, DaemonStops
<1>11. CASE RecoveryStep
  BY <1>0, <1>11, <1>m, OthersStill, AboutCaused, ProcsFacts
<1>. QED  BY NextSorts, <1>1, <1>2, <1>3, <1>4, <1>5, <1>6, <1>7, <1>8, <1>10, <1>11

\* The steps that write a status.
LEMMA StatusSteps ==
  ASSUME Next
  PROVE  \/ UNCHANGED meta
         \/ \E q \in Requests : CreateMeta(q)
         \/ \E p \in Procs : Write(p)
<1>1. ASSUME NEW q \in Requests, NEW ask \in Asks, Submit(q, ask[1], ask[2])
      PROVE  UNCHANGED meta
  BY <1>1 DEF Submit, storeVars
<1>2. ASSUME NEW q \in Requests, RequestStep(q)
      PROVE  UNCHANGED meta \/ CreateMeta(q)
  BY <1>2
  DEF RequestStep, ReserveSlot, AwaitRun, CreateDir, Decide, FindCommand, SendSubmit, storeVars
<1>3. ASSUME NEW s \in Stops, NEW r \in Requests, StopRun(s, r) PROVE UNCHANGED meta
  BY <1>3 DEF StopRun, storeVars
<1>4. ASSUME NEW p \in Requests \cup Stops, SendAbort(p) PROVE UNCHANGED meta
  BY <1>4 DEF SendAbort, storeVars
<1>5. ASSUME NEW p \in Procs, UpdateStep(p) PROVE UNCHANGED meta \/ Write(p)
  BY <1>5 DEF UpdateStep, Load, Tell, storeVars
<1>6. ASSUME NEW w \in Workers, WorkerStep(w) PROVE UNCHANGED meta
  BY <1>6 DEF WorkerStep, ClaimRead, ClaimWrite, StreamEnds, MarkDone, WorkerDies, storeVars
<1>7. CASE (\E w \in Workers : StartWorker(w)) \/ Poll \/ DaemonCrashes \/ DaemonStops
  BY <1>7 DEF StartWorker, Poll, DaemonCrashes, DaemonStops, Ends, storeVars
<1>8. CASE RecoveryStep
  BY <1>8 DEF RecoveryStep, DaemonStarts, Recovered, Recover, storeVars
<1>. QED  BY NextSorts, <1>1, <1>2, <1>3, <1>4, <1>5, <1>6, <1>7, <1>8

LEMMA CauseStep ==
  ASSUME Inv, Next, CauseInv
  PROVE  CauseInv'
<1>1. \A p \in Procs : Caused(p)'
  BY CausesKept
<1>2. ASSUME NEW r \in Requests PROVE CauseOf(r, meta[r])'
  <2>0. /\ TypeOK /\ Grows /\ Later /\ meta \in [Requests -> Statuses \cup {None}]
    BY StepsGrow, StepsLater DEF Inv, TypeOK
  <2>1. CASE meta'[r] = meta[r]
    <3>1. CauseOf(r, meta[r])
      BY DEF CauseInv
    <3>2. \A st : CauseOf(r, st) => CauseOf(r, st)'
      BY <2>0, CauseStays
    <3>. QED
      BY <2>1, <3>1, <3>2
      DEF CauseOf, Claimed, AbortSent, RunSent, SubmitsOf, HasCommand, Keyed, Key
  <2>2. ASSUME NEW q \in Requests, CreateMeta(q), meta'[r] # meta[r] PROVE CauseOf(r, meta[r])'
    <3>1. meta'[r] = "queued"
      BY <2>0, <2>2 DEF CreateMeta, WriteMeta
    <3>. QED  BY <3>1 DEF CauseOf
  <2>3. ASSUME NEW p \in Procs, Write(p), meta'[r] # meta[r] PROVE CauseOf(r, meta[r])'
    <3>0. pc \in [Procs -> PCs] /\ pc[p] \in Updating /\ pc'[p] \in Updating
      BY <2>0, <2>3 DEF Write, Goto, TypeOK, Updating
    <3>1. r = RunOf(p) /\ meta'[r] = to[p]
      BY <2>0, <2>3, <3>0, RunOfUpdate DEF Write, WriteMeta
    <3>2. CauseOf(RunOf(p), to[p])'
      <4>1. to'[p] = to[p] /\ UNCHANGED <<of, cur>>
        BY <2>3 DEF Write, apiVars
      <4>2. Caused(p)
        BY DEF CauseInv
      <4>. QED  BY <2>0, <3>0, <4>1, <4>2, GoesOnCaused
    <3>3. RunOf(p)' = RunOf(p) /\ to'[p] = to[p]
      <4>1. UNCHANGED <<commands, cur, of, to>>
        BY <2>3 DEF Write, apiVars
      <4>. QED  BY <4>1 DEF RunOf
    <3>. QED
      BY <3>1, <3>2, <3>3
      DEF CauseOf, Claimed, AbortSent, RunSent, SubmitsOf, HasCommand, Keyed, Key
  <2>. QED  BY <2>1, <2>2, <2>3, StatusSteps
<1>. QED  BY <1>1, <1>2 DEF CauseInv

\* A status has its cause before anybody writes it.
THEOREM CausesCorrect == Spec => []CauseInv
<1>1. Init => CauseInv
  <2> SUFFICES ASSUME Init PROVE CauseInv  OBVIOUS
  <2>1. \A r \in Requests : meta[r] = None
    BY DEF Init, StoreInit
  <2>2. \A r \in Requests : CauseOf(r, meta[r])
    BY <2>1, GatewayAssumption DEF CauseOf, Statuses
  <2>3. \A p \in Procs : pc[p] \in {"idle", "down", "done", "new"}
    BY GatewayAssumption DEF Init, Procs
  <2>4. \A p \in Procs : Caused(p)
    BY <2>3 DEF Caused, UpdateCaused, HasClaimed, Updating
  <2>. QED  BY <2>2, <2>4 DEF CauseInv
<1>2. Inv /\ CauseInv /\ [Next]_vars => CauseInv'
  <2> SUFFICES ASSUME Inv, CauseInv, UNCHANGED vars PROVE CauseInv'
    BY CauseStep
  <2>1. UNCHANGED <<commands, meta, slot, pc, to, of, cur>>
    BY DEF vars, storeVars, apiVars
  <2>2. \A r, st : CauseOf(r, st)' = CauseOf(r, st)
    BY <2>1 DEF CauseOf, Claimed, AbortSent, RunSent, SubmitsOf, HasCommand, Keyed, Key
  <2>3. \A r \in Requests : CauseOf(r, meta[r])'
    BY <2>1 DEF CauseInv, CauseOf, Claimed, AbortSent, RunSent, SubmitsOf, HasCommand, Keyed, Key
  <2>4. ASSUME NEW p \in Procs PROVE Caused(p)'
    <3>1. RunOf(p)' = RunOf(p)
      BY <2>1 DEF RunOf
    <3>. QED
      BY <2>1, <3>1
      DEF CauseInv, Caused, UpdateCaused, HasClaimed,
          CauseOf, Claimed, AbortSent, RunSent, SubmitsOf, HasCommand, Keyed, Key
  <2>. QED  BY <2>3, <2>4 DEF CauseInv
<1>. QED  BY <1>1, <1>2, Invariant, PTL DEF Spec

\* StatusesHaveCauses for any number of submissions, stops, workers and faults:
\* no run completes that no worker has claimed, none is cancelled unasked and none
\* runs that was not sent (update_status, stop_run, start_run).
THEOREM NoStatusWithoutCause == Spec => []StatusesHaveCauses
<1>1. CauseInv => StatusesHaveCauses
  BY DEF CauseInv, CauseOf, Claimed, AbortSent, RunSent, StatusesHaveCauses
<1>. QED  BY <1>1, CausesCorrect, PTL

-----------------------------------------------------------------------------
(* The gateway implements the registry of its runs.                        *)

Published == {r \in Requests : meta[r] # None}
Sent == {r \in Requests : SubmitsOf(r) # {}}

\* Of the registry's state a step changes what it changes here.
LEMMA RegistryStutters ==
  ASSUME UNCHANGED <<slot, index, answer>>, Published' = Published, Sent' = Sent
  PROVE  UNCHANGED Registry!vars
BY DEF Registry!vars, Published, Sent

\* Only SendSubmit sends.
LEMMA SentSame ==
  ASSUME Inv, Next, \A q \in Requests : ~SendSubmit(q)
  PROVE  Sent' = Sent
<1>1. ASSUME NEW q \in Requests, SubmitsOf(q) # {} PROVE SubmitsOf(q)' # {}
  BY <1>1, StepsGrow DEF Grows, SubmitsOf
<1>2. ASSUME NEW q \in Requests, SubmitsOf(q)' # {} PROVE SubmitsOf(q) # {}
  BY <1>2, SubmitsGrow
<1>. QED  BY <1>1, <1>2 DEF Sent

\* Where a handler is, its run is the one that its slot stands for.
LEMMA RegistryOwns ==
  ASSUME Inv, NEW q \in Requests, pc[q] \in Bound
  PROVE  Registry!Owns(q) /\ answer[q] = None /\ slot[q] # None
BY DEF Inv, RequestsOK, RequestOK, OwnsRun, Keyed, Registry!Owns, Bound, Updating

\* A submission takes one step of the registry, or none.
LEMMA RequestMaps ==
  ASSUME Inv, Next, NEW q \in Requests,
         \/ \E ask \in Asks : Submit(q, ask[1], ask[2])
         \/ RequestStep(q) \/ SendAbort(q) \/ UpdateStep(q)
  PROVE  Registry!Next \/ UNCHANGED Registry!vars
<1>. USE DEF Goto, Update, Leave, Reply
<1>0. /\ TypeOK /\ RequestOK(q) /\ q \in Procs /\ Grows
      /\ q \notin Stops \cup {Recovery} /\ q \notin Workers
  BY ProcsFacts, StepsGrow DEF Inv, RequestsOK
<1>p. /\ pc \in [Procs -> PCs]
      /\ index \in [Slots -> Requests \cup {None}]
      /\ meta \in [Requests -> Statuses \cup {None}]
      /\ slot \in [Requests -> Slots \cup {NoKey, None}]
      /\ answer \in [Requests -> Requests \cup {None, "error"}]
  BY <1>0 DEF TypeOK
<1>m. meta' = meta => Published' = Published
  BY DEF Published
<1>s. pc[q] # "send" => Sent' = Sent
  <2>1. ASSUME pc[q] # "send", NEW o \in Requests, SendSubmit(o) PROVE FALSE
    <3>1. o # q /\ pc'[o] = "load" /\ pc[o] = "send" /\ o \in Procs
      BY <1>p, <2>1, ProcsFacts DEF SendSubmit
    <3>2. Still(o)
      BY <1>0, <3>1, OthersStill
    <3>. QED  BY <3>1, <3>2 DEF Still
  <2>. QED  BY <2>1, SentSame
<1>1. ASSUME NEW ask \in Asks, Submit(q, ask[1], ask[2]) PROVE Registry!Next
  <2>1. ask[1] \in Slots \cup {NoKey}
    BY GatewayAssumption
  <2>2. slot[q] = None /\ slot' = [slot EXCEPT ![q] = ask[1]] /\ UNCHANGED <<index, answer, meta>>
    BY <1>0, <1>1 DEF Submit, RequestOK, storeVars
  <2>3. Sent' = Sent /\ Published' = Published
    BY <1>1, <1>s, <1>m, <2>2 DEF Submit
  <2>4. Registry!Ask(q, ask[1])
    BY <2>2, <2>3 DEF Registry!Ask, Sent, Published
  <2>. QED  BY <2>1, <2>4 DEF Registry!Next
<1>2. CASE ReserveSlot(q)
  <2>1. Sent' = Sent /\ Published' = Published /\ UNCHANGED <<slot, answer>> /\ slot[q] \in Slots
    BY <1>0, <1>2, <1>s, <1>m DEF ReserveSlot, apiVars, RequestOK, Keyed
  <2>2. CASE Reserve(slot[q], q)
    <3>1. Registry!Bind(q)
      BY <2>1, <2>2 DEF Reserve, Registry!Bind, Sent, Published
    <3>. QED  BY <3>1 DEF Registry!Next
  <2>3. CASE UNCHANGED index
    BY <2>1, <2>3, RegistryStutters
  <2>. QED  BY <1>2, <2>2, <2>3 DEF ReserveSlot
<1>3. CASE AwaitRun(q)
  <2>1. /\ Sent' = Sent /\ Published' = Published /\ UNCHANGED <<slot, index>>
        /\ slot[q] \in Slots /\ slot[q] # None /\ index[slot[q]] \in Requests /\ answer[q] = None
    <3>1. Sent' = Sent /\ Published' = Published /\ UNCHANGED <<slot, index>>
      BY <1>3, <1>s, <1>m DEF AwaitRun, storeVars
    <3>. QED  BY <1>0, <1>p, <1>3, <3>1 DEF AwaitRun, RequestOK, Keyed, Bound
  <2>2. CASE meta[index[slot[q]]] # None /\ Reply(q, index[slot[q]])
    <3>1. Registry!Answer(q, index[slot[q]])
      BY <2>1, <2>2 DEF Registry!Answer, Sent, Published
    <3>. QED  BY <2>1, <3>1 DEF Registry!Next
  <2>3. CASE Reply(q, "error")
    <3>1. Registry!Refuse(q)
      BY <2>1, <2>3 DEF Registry!Refuse, Sent, Published
    <3>. QED  BY <3>1 DEF Registry!Next
  <2>. QED  BY <1>3, <2>2, <2>3 DEF AwaitRun
<1>4. CASE CreateDir(q) \/ FindCommand(q) \/ SendAbort(q)
  <2>1. UNCHANGED <<slot, index, answer, meta>> /\ pc[q] # "send"
    BY <1>4 DEF CreateDir, FindCommand, SendAbort, apiVars, storeVars
  <2>. QED  BY <1>m, <1>s, <2>1, RegistryStutters
<1>5. CASE CreateMeta(q)
  <2>1. Sent' = Sent /\ UNCHANGED <<slot, index, answer>> /\ Registry!Owns(q)
    BY <1>5, <1>s, RegistryOwns DEF CreateMeta, apiVars, Bound
  <2>2. Published' = Published \cup {q}
    <3>1. "queued" # None
      BY GatewayAssumption DEF Statuses
    <3>. QED  BY <1>p, <1>5, <3>1 DEF CreateMeta, WriteMeta, Published
  <2>3. Registry!Publish(q)
    BY <2>1, <2>2 DEF Registry!Publish, Sent, Published
  <2>. QED  BY <2>3 DEF Registry!Next
<1>6. ASSUME pc[q] \in Visible \ {"send"}, UNCHANGED <<slot, index, meta>>,
             answer' = answer \/ answer' = [answer EXCEPT ![q] = q]
               \/ answer' = [answer EXCEPT ![q] = "error"]
      PROVE  Registry!Next \/ UNCHANGED Registry!vars
  <2>1. /\ Sent' = Sent /\ Published' = Published
        /\ Registry!Owns(q) /\ q \in Published /\ answer[q] = None /\ slot[q] # None
    BY <1>0, <1>6, <1>m, <1>s, RegistryOwns DEF RequestOK, Published, Visible, Bound, Updating
  <2>2. CASE answer' = answer
    BY <1>6, <2>1, <2>2, RegistryStutters
  <2>3. CASE answer' = [answer EXCEPT ![q] = q]
    <3>1. Registry!Answer(q, q)
      BY <1>6, <2>1, <2>3 DEF Registry!Answer, Sent, Published
    <3>. QED  BY <3>1 DEF Registry!Next
  <2>4. CASE answer' = [answer EXCEPT ![q] = "error"]
    <3>1. Registry!Refuse(q)
      BY <1>6, <2>1, <2>4 DEF Registry!Refuse, Sent, Published
    <3>. QED  BY <3>1 DEF Registry!Next
  <2>. QED  BY <1>6, <2>2, <2>3, <2>4
<1>7. CASE Decide(q)
  BY <1>6, <1>7 DEF Decide, Visible
<1>8. CASE SendSubmit(q)
  <2>1. UNCHANGED <<slot, index, answer, meta>> /\ q \in Published \ Sent
    BY <1>0, <1>8 DEF SendSubmit, apiVars, storeVars, Published, Sent, RequestOK, Visible,
                      Updating, Inv, SentsOK, SentOK
  <2>2. Sent' = Sent \cup {q}
    <3>1. SubmitsOf(q)' # {}
      <4>1. Key(q) \in Keys \cup {NoKey} /\ commands \in Seq(CommandFiles)
        BY <1>0 DEF Key, Keyed, Slots, TypeOK
      <4>2. Len(commands) + 1 \in DOMAIN commands' /\
            commands'[Len(commands) + 1].kind = "submit" /\ commands'[Len(commands) + 1].run = q
        BY <1>8, <4>1, EnqueueFacts DEF SendSubmit, CommandKinds
      <4>. QED  BY <4>2 DEF SubmitsOf
    <3>2. ASSUME NEW r \in Requests, r # q PROVE SubmitsOf(r)' # {} <=> SubmitsOf(r) # {}
      <4>1. ~SendSubmit(r)
        <5>1. Still(r) /\ r \in Procs
          BY <1>0, <1>8, <3>2, OthersStill, ProcsFacts DEF RequestStep
        <5>. QED  BY <1>p, <5>1 DEF SendSubmit, Still
      <4>. QED  BY <4>1, SubmitsGrow, StepsGrow DEF Grows, SubmitsOf
    <3>. QED  BY <3>1, <3>2 DEF Sent
  <2>3. Registry!Send(q)
    BY <1>m, <2>1, <2>2 DEF Registry!Send, Sent, Published
  <2>. QED  BY <2>3 DEF Registry!Next
<1>9. CASE Load(q)
  <2>1. UNCHANGED <<slot, index, meta>> /\ pc[q] \in Visible \ {"send"}
    BY <1>9 DEF Load, storeVars, Visible, Updating
  <2>2. answer' = answer \/ answer' = [answer EXCEPT ![q] = "error"]
    BY <1>0, <1>9 DEF Load, Refused
  <2>. QED  BY <1>6, <2>1, <2>2
<1>10. CASE Write(q)
  <2>1. UNCHANGED <<slot, index, answer>> /\ pc[q] = "write"
    BY <1>10 DEF Write, apiVars
  <2>2. Published' = Published
    <3>1. meta[q] # None /\ \A r \in Requests \ {q} : meta'[r] = meta[r]
      BY <1>0, <1>p, <1>10, RunOfs DEF Write, WriteMeta, RequestOK, Visible, Updating
    <3>. QED  BY <1>0, <3>1 DEF Published, Grows
  <2>. QED  BY <1>s, <2>1, <2>2, RegistryStutters
<1>11. CASE Tell(q)
  BY <1>0, <1>6, <1>11 DEF Tell, Updated, Visible, Updating
<1>. QED  BY <1>1, <1>2, <1>3, <1>4, <1>5, <1>7, <1>8, <1>9, <1>10, <1>11
          DEF RequestStep, UpdateStep

\* The other processes take none.
LEMMA OthersMap ==
  ASSUME Inv, Next, NEW p \in Procs \ Requests,
         \/ p \in Stops /\ (SendAbort(p) \/ \E r \in Requests : StopRun(p, r))
         \/ UpdateStep(p)
         \/ p \in Workers /\ (WorkerStep(p) \/ StartWorker(p))
         \/ p = Recovery /\ RecoveryStep
  PROVE  UNCHANGED Registry!vars
<1>0. TypeOK /\ Grows /\ meta \in [Requests -> Statuses \cup {None}]
  BY StepsGrow DEF Inv, TypeOK
<1>1. Sent' = Sent
  <2>1. ASSUME NEW q \in Requests, SendSubmit(q) PROVE FALSE
    <3>1. Still(q) /\ q \in Procs /\ pc \in [Procs -> PCs]
      BY <1>0, OthersStill, ProcsFacts DEF TypeOK
    <3>. QED  BY <2>1, <3>1 DEF SendSubmit, Still, Update, Goto
  <2>. QED  BY <2>1, SentSame
<1>2. ASSUME UNCHANGED <<slot, index, answer, meta>> PROVE UNCHANGED Registry!vars
  BY <1>1, <1>2, RegistryStutters DEF Published
<1>3. CASE p \in Stops /\ (SendAbort(p) \/ \E r \in Requests : StopRun(p, r))
  BY <1>2, <1>3 DEF SendAbort, StopRun, storeVars, apiVars
<1>4. CASE Load(p) \/ Tell(p)
  BY <1>2, <1>4 DEF Load, Refused, Tell, Updated, storeVars
<1>5. CASE Write(p)
  <2>1. UNCHANGED <<slot, index, answer>>
    BY <1>5 DEF Write, apiVars
  <2>2. RunOf(p) \in Requests /\ meta[RunOf(p)] # None
    BY <1>5, RunOfUpdate DEF Write, Updating, Inv, UpdatesOK, UpdateOK
  <2>3. Published' = Published
    <3>1. \A r \in Requests \ {RunOf(p)} : meta'[r] = meta[r]
      BY <1>0, <1>5, <2>2 DEF Write, WriteMeta
    <3>. QED  BY <1>0, <2>2, <3>1 DEF Published, Grows
  <2>. QED  BY <1>1, <2>1, <2>3, RegistryStutters
<1>6. CASE p \in Workers /\ (WorkerStep(p) \/ StartWorker(p))
  BY <1>2, <1>6 DEF WorkerStep, ClaimRead, ClaimWrite, StreamEnds, MarkDone, WorkerDies,
                    StartWorker, storeVars, apiVars
<1>7. CASE RecoveryStep
  BY <1>2, <1>7 DEF RecoveryStep, DaemonStarts, Recovered, Recover, storeVars, apiVars
<1>. QED  BY <1>3, <1>4, <1>5, <1>6, <1>7 DEF UpdateStep

\* Every step of the gateway is one of the registry, or none.
LEMMA StepMaps ==
  ASSUME Inv, Next
  PROVE  Registry!Next \/ UNCHANGED Registry!vars
<1>1. CASE Poll \/ DaemonCrashes \/ DaemonStops
  <2>1. UNCHANGED <<slot, index, answer, meta, commands>>
    BY <1>1 DEF Poll, DaemonCrashes, DaemonStops, Ends, storeVars, apiVars
  <2>. QED  BY <2>1, RegistryStutters DEF Published, Sent, SubmitsOf
<1>. QED  BY NextSorts, <1>1, RequestMaps, OthersMap, ProcsFacts DEF Procs

\* What clients were told of keys and runs holds of the whole gateway, with
\* its store, its commands, its worker and every crash of one of them.
THEOREM GatewayImplementsRegistry == Spec => ImplementsRegistry
<1>1. Init => Registry!Init
  BY DEF Init, StoreInit, CommandsInit, SubmitsOf, Registry!Init
<1>2. Inv /\ [Next]_vars => [Registry!Next]_(Registry!vars)
  <2>1. ASSUME UNCHANGED vars PROVE UNCHANGED Registry!vars
    BY <2>1 DEF vars, storeVars, apiVars, Registry!vars, SubmitsOf
  <2>. QED  BY <2>1, StepMaps
<1>. QED  BY <1>1, <1>2, Invariant, PTL DEF Spec, ImplementsRegistry, Registry!Spec
=============================================================================
