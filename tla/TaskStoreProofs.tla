--------------------------- MODULE TaskStoreProofs ---------------------------
(***************************************************************************)
(* Proofs about TaskStore, for every value of its constants.               *)
(***************************************************************************)
EXTENDS TaskStore, WellFoundedInduction, TLAPS

-----------------------------------------------------------------------------
(* Identifiers.                                                            *)

\* A bounded set of numbers has a greatest member.
LEMMA MaxOfBounded ==
  ASSUME NEW N \in Nat, NEW S \in SUBSET (0 .. N), S # {}
  PROVE  Max(S) \in S /\ \A n \in S : n <= Max(S)
<1>. DEFINE Gaps == {N - n : n \in S}
<1>1. Gaps \subseteq Nat /\ Gaps # {}
  <2>1. \A n \in S : N - n \in Nat
    OBVIOUS
  <2>2. PICK n \in S : TRUE
    OBVIOUS
  <2>3. N - n \in Gaps
    BY <2>2
  <2>. QED  BY <2>1, <2>3
<1>2. PICK g \in Gaps : \A h \in Gaps : ~ (<<h, g>> \in OpToRel(<, Nat))
  BY <1>1, NatLessThanWellFounded, WFMin, Zenon
<1>3. \A h \in Gaps : g <= h
  <2>. SUFFICES ASSUME NEW h \in Gaps, h < g
                PROVE  FALSE
    BY <1>1
  <2>1. <<h, g>> \in OpToRel(<, Nat)
    BY <1>1 DEF OpToRel
  <2>. QED  BY <1>2, <2>1
<1>4. N - g \in S /\ \A n \in S : n <= N - g
  BY <1>3
<1>. QED  BY <1>4 DEF Max

\* reserve_next_task_id gives an identifier above the high-water mark.
LEMMA NextIdAbove ==
  ASSUME watermark \in 0 .. MaxTasks
  PROVE  NextId \in Nat /\ watermark < NextId
<1>. DEFINE Seen == Existing \cup {watermark}
<1>1. MaxTasks \in Nat
  BY TaskStoreAssumption
<1>2. Seen \in SUBSET (0 .. MaxTasks) /\ Seen # {}
  BY <1>1 DEF Existing, TaskIds
<1>3. Max(Seen) \in Seen /\ \A n \in Seen : n <= Max(Seen)
  BY <1>1, <1>2, MaxOfBounded, Zenon
<1>4. Max(Seen) \in Nat /\ watermark <= Max(Seen)
  BY <1>1, <1>2, <1>3
<1>. QED  BY <1>4 DEF NextId

-----------------------------------------------------------------------------
(* Type correctness.                                                       *)

\* The bounds on what happens.
Uses == [ops : Nat, crashes : Nat, starts : Nat, failures : Nat, reviews : Nat]

\* A bound that is counted up is still a number.
LEMMA UsesCount ==
  ASSUME NEW u \in Uses
  PROVE  /\ [u EXCEPT !.ops = @ + 1] \in Uses
         /\ [u EXCEPT !.crashes = @ + 1] \in Uses
         /\ [u EXCEPT !.starts = @ + 1] \in Uses
         /\ [u EXCEPT !.failures = @ + 1] \in Uses
         /\ [u EXCEPT !.reviews = @ + 1] \in Uses
<1>1. [u EXCEPT !.ops = @ + 1] \in Uses       BY DEF Uses
<1>2. [u EXCEPT !.crashes = @ + 1] \in Uses   BY DEF Uses
<1>3. [u EXCEPT !.starts = @ + 1] \in Uses    BY DEF Uses
<1>4. [u EXCEPT !.failures = @ + 1] \in Uses  BY DEF Uses
<1>5. [u EXCEPT !.reviews = @ + 1] \in Uses   BY DEF Uses
<1>. QED  BY <1>1, <1>2, <1>3, <1>4, <1>5

\* A task with another status is a task.
LEMMA StatusUpdate ==
  ASSUME NEW e \in Entries, NEW s \in Active \cup Terminal
  PROVE  [e EXCEPT !.status = s] \in Entries
BY DEF Entries

\* What the operations make of a task is a task.
LEMMA EntryUpdates ==
  ASSUME NEW e \in Entries, NEW s \in Active \cup Terminal,
         NEW o \in Owners \cup {NoOwner}, NEW d \in SUBSET TaskIds
  PROVE  /\ [e EXCEPT !.deps = d] \in Entries
         /\ [e EXCEPT !.status = s, !.owner = o] \in Entries
         /\ [e EXCEPT !.owner = o, !.deps = d] \in Entries
         /\ [status |-> s, owner |-> o, deps |-> d] \in Entries
<1>2. [e EXCEPT !.deps = d] \in Entries                   BY DEF Entries
<1>3. [e EXCEPT !.status = s, !.owner = o] \in Entries    BY DEF Entries
<1>4. [e EXCEPT !.owner = o, !.deps = d] \in Entries      BY DEF Entries
<1>5. [status |-> s, owner |-> o, deps |-> d] \in Entries BY DEF Entries
<1>. QED  BY <1>2, <1>3, <1>4, <1>5

\* No file at all is a task that is absent.
LEMMA AbsentType == Absent \in Entries /\ NoTasks \in [TaskIds -> Entries]
<1>1. Absent \in Entries
  BY DEF Absent, Entries
<1>. QED  BY <1>1 DEF NoTasks

\* The initial state is typed.
LEMMA TypeInit == Init => TypeOK
<1>. SUFFICES ASSUME Init PROVE TypeOK
  OBVIOUS
<1>1. remote \in SUBSET TaskIds /\ file \in [TaskIds -> Entries]
  BY AbsentType DEF Init
<1>2. watermark \in 0 .. MaxTasks /\ lock \in Procs \cup {"free", "stale"}
  BY TaskStoreAssumption DEF Init
<1>3. at \in [Procs -> Places] /\ tasks \in [Procs -> [TaskIds -> Entries]]
  BY AbsentType DEF Init, Places
<1>4. first \in [Procs -> SUBSET TaskIds] /\ last \in [Procs -> SUBSET TaskIds]
  BY DEF Init
<1>5. unread \in [Procs -> SUBSET TaskIds]
  BY DEF Init
<1>6. /\ working \in [TaskIds -> SUBSET (Procs \X Owners)]
      /\ born \in [TaskIds -> Nat] /\ unchecked \in BOOLEAN
  BY DEF Init
<1>7. used \in [ops : Nat, crashes : Nat, starts : Nat, failures : Nat, reviews : Nat]
  BY DEF Init
<1>. QED  BY <1>1, <1>2, <1>3, <1>4, <1>5, <1>6, <1>7 DEF TypeOK

\* An operation under the lock is typed if the tasks it wants to write are.
LEMMA LockedStepType ==
  ASSUME TypeOK, NEW p \in Procs, NEW doing \in Places, NEW new \in [TaskIds -> Entries],
         NEW before \in SUBSET TaskIds, NEW after \in SUBSET TaskIds,
         LockedStep(p, doing, new, before, after), UNCHANGED remote,
         watermark' \in 0 .. MaxTasks, born' \in [TaskIds -> Nat], unchecked' \in BOOLEAN
  PROVE  TypeOK'
<1>1. lock' \in Procs \cup {"free", "stale"} /\ at' \in [Procs -> Places]
  BY DEF TypeOK, LockedStep
<1>2. tasks' \in [Procs -> [TaskIds -> Entries]]
  BY DEF TypeOK, LockedStep
<1>3. first' \in [Procs -> SUBSET TaskIds] /\ last' \in [Procs -> SUBSET TaskIds]
  BY DEF TypeOK, LockedStep
<1>4. used' \in Uses
  BY UsesCount DEF TypeOK, LockedStep, Uses
<1>5. UNCHANGED <<remote, file, unread, working>>
  BY DEF LockedStep
<1>. QED  BY <1>1, <1>2, <1>3, <1>4, <1>5 DEF TypeOK, Uses

\* An operation that writes, and leaves no task with an agent that did not have
\* it, unless it is marked as unchecked.
Writes(p) ==
  \E new \in [TaskIds -> Entries], before, after \in SUBSET TaskIds :
    /\ LockedStep(p, "writing", new, before, after)
    /\ ~unchecked' =>
         /\ ~unchecked
         /\ \A t \in TaskIds : new[t].status \in Active /\ new[t].owner # NoOwner =>
              file[t].status \in Active /\ file[t].owner = new[t].owner

\* An operation that promises a task to an agent.
Promises(p) ==
  \E new \in [TaskIds -> Entries], t \in TaskIds, o \in Owners :
    /\ LockedStep(p, "claiming", new, {t}, {})
    /\ file[t].status \in Active /\ file[t].owner \in {NoOwner, o}
    /\ new[t].status = "in_progress" /\ new[t].owner = o
    /\ ~Blocked(file[t]) /\ new[t].deps = file[t].deps
    /\ \A u \in TaskIds \ {t} : new[u] = file[u]
    /\ ~unchecked' => ~unchecked /\ ~Busy(o, t)

\* Every operation under the lock is of one of these two sorts.
LEMMA OperationSorts ==
  ASSUME TypeOK, NEW p \in Procs, Operation(p)
  PROVE  Writes(p) \/ Promises(p)
<1>0. file \in [TaskIds -> Entries] /\ unchecked \in BOOLEAN
  BY DEF TypeOK
<1>1. ASSUME NEW owner \in Owners \cup {NoOwner}, NEW deps \in SomeTasks, Create(p, owner, deps)
      PROVE  Writes(p)
  <2>. DEFINE t == NextId
              task == [status |-> "pending", owner |-> owner, deps |-> deps]
              new == [file EXCEPT ![t] = task]
  <2>1. t \in TaskIds /\ LockedStep(p, "writing", new, {t}, {})
    BY <1>1 DEF Create
  <2>2. ~unchecked' => ~unchecked /\ owner = NoOwner
    BY <1>1 DEF Create
  <2>. HIDE DEF t
  <2>3. new \in [TaskIds -> Entries]
    <3>1. deps \in SUBSET TaskIds /\ "pending" \in Active \cup Terminal
      BY DEF SomeTasks, Active
    <3>2. task \in Entries
      BY <3>1 DEF Entries
    <3>. QED  BY <1>0, <2>1, <3>2
  <2>4. owner = NoOwner => \A u \in TaskIds : new[u].owner # NoOwner => new[u] = file[u]
    BY <1>0, <2>1
  <2>. HIDE DEF new
  <2>. QED  BY <2>1, <2>2, <2>3, <2>4 DEF Writes
<1>2. ASSUME NEW t \in TaskIds, NEW o \in Owners, NEW checkBusy \in BOOLEAN,
             Claim(p, t, o, checkBusy)
      PROVE  Promises(p)
  <2>. DEFINE claimed == [file[t] EXCEPT !.status = "in_progress", !.owner = o]
              new == [file EXCEPT ![t].status = "in_progress", ![t].owner = o]
  <2>1. LockedStep(p, "claiming", new, {t}, {})
    BY <1>2 DEF Claim
  <2>2. /\ file[t].status \in Active /\ file[t].owner \in {NoOwner, o}
        /\ ~Blocked(file[t])
        /\ ~unchecked' => ~unchecked /\ ~Busy(o, t)
    BY <1>2 DEF Claim
  <2>3. claimed \in Entries
    BY <1>0, EntryUpdates, Zenon DEF Active
  <2>4. new = [file EXCEPT ![t] = claimed]
    BY <1>0
  <2>5. /\ claimed.status = "in_progress" /\ claimed.owner = o
        /\ claimed.deps = file[t].deps
    BY <1>0 DEF Entries
  <2>. HIDE DEF claimed, new
  <2>6. /\ new \in [TaskIds -> Entries] /\ new[t] = claimed
        /\ \A u \in TaskIds \ {t} : new[u] = file[u]
    BY <1>0, <2>3, <2>4
  <2>. QED  BY <2>1, <2>2, <2>5, <2>6 DEF Promises
<1>3. ASSUME NEW t \in TaskIds, NEW status \in NewStatuses, SetStatus(p, t, status)
      PROVE  Writes(p)
  <2>. DEFINE new == [file EXCEPT ![t].status = status]
  <2>1. LockedStep(p, "writing", new, {t}, {})
    BY <1>3 DEF SetStatus
  <2>2. ~unchecked' => ~unchecked /\ (status \in Active => file[t].status \in Active)
    BY <1>3 DEF SetStatus
  <2>3. new = [file EXCEPT ![t] = [file[t] EXCEPT !.status = status]]
    BY <1>0
  <2>4. /\ [file[t] EXCEPT !.status = status] \in Entries
        /\ [file[t] EXCEPT !.status = status].status = status
        /\ [file[t] EXCEPT !.status = status].owner = file[t].owner
    BY <1>0 DEF Entries, NewStatuses, Active, Terminal
  <2>. HIDE DEF new
  <2>5. new \in [TaskIds -> Entries] /\ \A u \in TaskIds \ {t} : new[u] = file[u]
    BY <1>0, <2>3, <2>4
  <2>6. new[t].status = status /\ new[t].owner = file[t].owner
    BY <1>0, <2>3, <2>4
  <2>7. ~unchecked' =>
          /\ ~unchecked
          /\ \A u \in TaskIds : new[u].status \in Active /\ new[u].owner # NoOwner =>
               file[u].status \in Active /\ file[u].owner = new[u].owner
    BY <2>2, <2>5, <2>6
  <2>. QED  BY <2>1, <2>5, <2>7 DEF Writes
<1>4. ASSUME NEW t \in TaskIds, NEW c \in FieldChanges(t), SetFields(p, t, c[1], c[2], c[3])
      PROVE  Writes(p)
  <2>. DEFINE waiting == {u \in c[3] \ {t} : file[u] # Absent /\ t \notin file[u].deps}
              changed == [file[t] EXCEPT !.owner = c[1], !.deps = @ \cup (c[2] \ {t})]
              new == [u \in TaskIds |->
                 CASE u = t -> [file[t] EXCEPT !.owner = c[1], !.deps = @ \cup (c[2] \ {t})]
                   [] u \in waiting -> [file[u] EXCEPT !.deps = @ \cup {t}]
                   [] OTHER -> file[u]]
  <2>0. c[1] \in Owners \cup {NoOwner} /\ c[2] \in SUBSET TaskIds /\ c[3] \in SUBSET TaskIds
    BY <1>0 DEF FieldChanges, Entries
  <2>1. LockedStep(p, "writing", new, waiting, {t})
    BY <1>4 DEF SetFields
  <2>2. ~unchecked' => ~unchecked /\ c[1] = file[t].owner
    BY <1>4 DEF SetFields
  <2>3. changed \in Entries
    <3>1. file[t].deps \cup (c[2] \ {t}) \in SUBSET TaskIds /\ file[t] \in Entries
      BY <1>0, <2>0 DEF Entries
    <3>. QED  BY <2>0, <3>1, EntryUpdates, Zenon DEF Active
  <2>4. changed.status = file[t].status /\ changed.owner = c[1]
    BY <1>0 DEF Entries
  <2>5. \A u \in TaskIds : /\ [file[u] EXCEPT !.deps = @ \cup {t}] \in Entries
                           /\ [file[u] EXCEPT !.deps = @ \cup {t}].status = file[u].status
                           /\ [file[u] EXCEPT !.deps = @ \cup {t}].owner = file[u].owner
    BY <1>0 DEF Entries
  <2>6. \A u \in TaskIds \ {t} : /\ new[u] \in Entries
                                 /\ new[u].status = file[u].status
                                 /\ new[u].owner = file[u].owner
    BY <1>0, <2>5
  <2>7. new[t] = changed
    OBVIOUS
  <2>8. new \in [TaskIds -> Entries]
    BY <2>3, <2>6, <2>7
  <2>9. waiting \in SUBSET TaskIds
    BY <2>0
  <2>. HIDE DEF new, waiting, changed
  <2>10. ~unchecked' =>
           /\ ~unchecked
           /\ \A u \in TaskIds : new[u].status \in Active /\ new[u].owner # NoOwner =>
                file[u].status \in Active /\ file[u].owner = new[u].owner
    BY <2>2, <2>4, <2>6, <2>7
  <2>. QED  BY <2>1, <2>8, <2>9, <2>10 DEF Writes
<1>5. ASSUME NEW t \in TaskIds, Delete(p, t)
      PROVE  Writes(p)
  <2>. DEFINE dependent == {u \in TaskIds \ {t} : t \in file[u].deps}
              new == [u \in TaskIds |-> IF u = t THEN Absent
                                        ELSE [file[u] EXCEPT !.deps = @ \ {t}]]
  <2>1. LockedStep(p, "writing", new, {t}, dependent) /\ UNCHANGED unchecked
    BY <1>5 DEF Delete
  <2>2. \A u \in TaskIds : /\ [file[u] EXCEPT !.deps = @ \ {t}] \in Entries
                           /\ [file[u] EXCEPT !.deps = @ \ {t}].status = file[u].status
                           /\ [file[u] EXCEPT !.deps = @ \ {t}].owner = file[u].owner
    BY <1>0 DEF Entries
  <2>3. new \in [TaskIds -> Entries]
    BY <2>2, AbsentType
  <2>4. new[t].owner = NoOwner
    BY DEF Absent
  <2>5. \A u \in TaskIds \ {t} : new[u].status = file[u].status /\ new[u].owner = file[u].owner
    BY <2>2
  <2>. HIDE DEF new
  <2>. QED  BY <2>1, <2>3, <2>4, <2>5 DEF Writes
<1>6. ASSUME NEW o \in Owners, Unassign(p, o)
      PROVE  Writes(p)
  <2>. DEFINE released == {t \in TaskIds : file[t].owner = o /\ file[t].status \in Active}
              free(t) == [file[t] EXCEPT !.status = "pending", !.owner = NoOwner]
              new == [t \in TaskIds |-> IF t \in released
                 THEN [file[t] EXCEPT !.status = "pending", !.owner = NoOwner] ELSE file[t]]
  <2>1. LockedStep(p, "writing", new, released, {}) /\ UNCHANGED unchecked
    BY <1>6 DEF Unassign
  <2>2. \A t \in TaskIds : free(t) \in Entries
    BY <1>0, EntryUpdates, Zenon DEF Active
  <2>3. \A t \in TaskIds : free(t).owner = NoOwner
    BY <1>0 DEF Entries
  <2>4. \A t \in TaskIds : new[t] = free(t) \/ new[t] = file[t]
    OBVIOUS
  <2>. HIDE DEF free
  <2>5. \A t \in TaskIds : new[t] \in Entries
    BY <1>0, <2>2, <2>4
  <2>6. new \in [TaskIds -> Entries]
    BY <2>5
  <2>. HIDE DEF new
  <2>. QED  BY <2>1, <2>3, <2>4, <2>6 DEF Writes
<1>. QED  BY <1>1, <1>2, <1>3, <1>4, <1>5, <1>6 DEF Operation

\* Every operation under the lock keeps the types.
LEMMA OperationType ==
  ASSUME TypeOK, NEW p \in Procs, Operation(p), UNCHANGED remote
  PROVE  TypeOK'
<1>. DEFINE Typed == /\ watermark' \in 0 .. MaxTasks /\ born' \in [TaskIds -> Nat]
                    /\ unchecked' \in BOOLEAN
<1>1. Typed
  <2>0. /\ watermark \in 0 .. MaxTasks /\ born \in [TaskIds -> Nat] /\ unchecked \in BOOLEAN
        /\ TaskIds \subseteq 0 .. MaxTasks
    BY TaskStoreAssumption DEF TypeOK, TaskIds
  <2>1. ASSUME NEW owner \in Owners \cup {NoOwner}, NEW deps \in SomeTasks,
               Create(p, owner, deps)
        PROVE  Typed
    <3>1. NextId \in TaskIds /\ watermark' = NextId
      BY <2>1 DEF Create
    <3>2. born' = [born EXCEPT ![NextId] = @ + 1] /\ unchecked' \in BOOLEAN
      BY <2>1 DEF Create
    <3>. QED  BY <2>0, <3>1, <3>2
  <2>2. ASSUME UNCHANGED <<watermark, born>>, unchecked' \in BOOLEAN
        PROVE  Typed
    BY <2>0, <2>2
  <2>3. ASSUME NEW t \in TaskIds, NEW o \in Owners, NEW checkBusy \in BOOLEAN,
               Claim(p, t, o, checkBusy)
        PROVE  Typed
    BY <2>2, <2>3 DEF Claim
  <2>4. ASSUME NEW t \in TaskIds, NEW status \in NewStatuses, SetStatus(p, t, status)
        PROVE  Typed
    BY <2>2, <2>4 DEF SetStatus
  <2>5. ASSUME NEW t \in TaskIds, NEW c \in FieldChanges(t),
               SetFields(p, t, c[1], c[2], c[3])
        PROVE  Typed
    BY <2>2, <2>5 DEF SetFields
  <2>6. ASSUME NEW t \in TaskIds, Delete(p, t) PROVE Typed
    BY <2>0, <2>6 DEF Delete
  <2>7. ASSUME NEW o \in Owners, Unassign(p, o) PROVE Typed
    BY <2>0, <2>7 DEF Unassign
  <2>. QED  BY <2>1, <2>3, <2>4, <2>5, <2>6, <2>7 DEF Operation
<1>2. {"writing", "claiming"} \subseteq Places
  BY DEF Places
<1>3. CASE Writes(p)
  BY <1>1, <1>2, <1>3, LockedStepType DEF Writes
<1>4. CASE Promises(p)
  BY <1>1, <1>2, <1>4, LockedStepType DEF Promises
<1>. QED  BY <1>3, <1>4, OperationSorts

\* Who works on a task is typed after a write.
LEMMA WorkingAfterType ==
  ASSUME TypeOK, NEW p \in Procs, NEW t \in TaskIds,
         at[p] = "claiming" => tasks[p][t].owner \in Owners
  PROVE  WorkingAfter(p, t) \in SUBSET (Procs \X Owners)
<1>1. working[t] \in SUBSET (Procs \X Owners)
  BY DEF TypeOK
<1>2. CASE at[p] = "claiming"
  BY <1>1, <1>2 DEF WorkingAfter
<1>3. CASE at[p] # "claiming"
  BY <1>1, <1>3 DEF WorkingAfter
<1>. QED  BY <1>2, <1>3

\* The lock is held by who works under it; the others have nothing to write
\* but what they recover or expire.
Writers ==
  \A p \in Procs :
    /\ lock = p <=> at[p] \in {"writing", "claiming"}
    /\ at[p] \in {"ready", "down"} => first[p] = {}
    /\ at[p] # "writing" => last[p] = {}

\* What a process that claims has to write is a claim.
Claims ==
  \A p \in Procs : at[p] = "claiming" =>
    \A t \in first[p] : tasks[p][t].status = "in_progress" /\ tasks[p][t].owner \in Owners

\* What is written without the lock ends a local task.
Endings ==
  \A p \in Procs : at[p] \in {"loading", "checking"} =>
    \A t \in first[p] \ remote : tasks[p][t].status \notin Active

\* Every step of a process keeps the types.
LEMMA ProcessType ==
  ASSUME TypeOK, Claims, Writers, NEW p \in Procs, Process(p), UNCHANGED remote
  PROVE  TypeOK'
<1>0. /\ file \in [TaskIds -> Entries] /\ at \in [Procs -> Places]
      /\ tasks \in [Procs -> [TaskIds -> Entries]]
      /\ first \in [Procs -> SUBSET TaskIds] /\ last \in [Procs -> SUBSET TaskIds]
      /\ unread \in [Procs -> SUBSET TaskIds]
      /\ working \in [TaskIds -> SUBSET (Procs \X Owners)] /\ used \in Uses
      /\ lock \in Procs \cup {"free", "stale"}
  BY DEF TypeOK, Uses
<1>1. CASE Operation(p)
  BY <1>1, OperationType
<1>2. ASSUME NEW t \in TaskIds, Write(p, t)
      PROVE  TypeOK'
  <2>1. UNCHANGED <<watermark, lock, at, tasks, unread, born, unchecked, used>>
    BY <1>2 DEF Write
  <2>2. file' \in [TaskIds -> Entries]
    BY <1>0, <1>2 DEF Write
  <2>3. first' \in [Procs -> SUBSET TaskIds]
    BY <1>0, <1>2 DEF Write
  <2>4. last' \in [Procs -> SUBSET TaskIds]
    BY <1>0, <1>2 DEF Write
  <2>5. working' \in [TaskIds -> SUBSET (Procs \X Owners)]
    <3>1. at[p] = "claiming" => tasks[p][t].owner \in Owners
      BY <1>2 DEF Write, Claims, Writers
    <3>2. WorkingAfter(p, t) \in SUBSET (Procs \X Owners)
      BY <3>1, WorkingAfterType
    <3>3. working' = [working EXCEPT ![t] = WorkingAfter(p, t)]
      BY <1>2 DEF Write
    <3>. QED  BY <1>0, <3>2, <3>3
  <2>. QED  BY <2>1, <2>2, <2>3, <2>4, <2>5 DEF TypeOK
<1>3. CASE WriteFails(p)
  <2>1. UNCHANGED <<file, watermark, lock, at, tasks, unread, born, unchecked>>
    BY <1>3 DEF WriteFails, diskVars
  <2>2. first' \in [Procs -> SUBSET TaskIds] /\ last' \in [Procs -> SUBSET TaskIds]
    BY <1>0, <1>3 DEF WriteFails
  <2>3. used' \in Uses
    BY <1>0, <1>3, UsesCount DEF WriteFails
  <2>4. working' \in [TaskIds -> SUBSET (Procs \X Owners)]
    <3>1. \A t \in TaskIds : at[p] = "claiming" /\ t \in first[p] => tasks[p][t].owner \in Owners
      BY DEF Claims
    <3>2. \A t \in TaskIds : at[p] = "claiming" /\ t \in first[p] =>
            working[t] \cup {<<p, tasks[p][t].owner>>} \in SUBSET (Procs \X Owners)
      BY <1>0, <3>1
    <3>3. \A t \in TaskIds : working[t] \in SUBSET (Procs \X Owners)
      BY <1>0
    <3>. QED  BY <1>3, <3>2, <3>3 DEF WriteFails
  <2>. QED  BY <2>1, <2>2, <2>3, <2>4 DEF TypeOK, Uses
<1>4. CASE Finish(p)
  <2>1. UNCHANGED <<file, watermark, first, last, unread, working, born, unchecked, used>>
    BY <1>4 DEF Finish, histVars
  <2>2. at' \in [Procs -> Places] /\ lock' \in Procs \cup {"free", "stale"}
    BY <1>0, <1>4 DEF Finish, Places
  <2>3. tasks' \in [Procs -> [TaskIds -> Entries]]
    BY <1>0, <1>4, AbsentType DEF Finish
  <2>. QED  BY <2>1, <2>2, <2>3 DEF TypeOK
<1>5. ASSUME NEW reviews \in SUBSET TaskIds, Expire(p, reviews)
      PROVE  TypeOK'
  <2>1. UNCHANGED <<file, watermark, lock, last, unread, working, born, unchecked>>
    BY <1>5 DEF Expire, diskVars, histVars
  <2>2. at' \in [Procs -> Places] /\ first' \in [Procs -> SUBSET TaskIds]
    BY <1>0, <1>5 DEF Expire, Places
  <2>3. used' \in Uses
    BY <1>0, <1>5, UsesCount DEF Expire
  <2>4. tasks' \in [Procs -> [TaskIds -> Entries]]
    <3>. DEFINE new == [t \in TaskIds |-> IF t \in reviews
                          THEN [file[t] EXCEPT !.status = "failed"] ELSE file[t]]
    <3>0. "failed" \in Active \cup Terminal
      BY DEF Terminal
    <3>1. \A t \in TaskIds : [file[t] EXCEPT !.status = "failed"] \in Entries
      BY <1>0, <3>0, StatusUpdate
    <3>2. new \in [TaskIds -> Entries]
      BY <1>0, <3>1
    <3>3. tasks' = [tasks EXCEPT ![p] = new]
      BY <1>5 DEF Expire
    <3>. HIDE DEF new
    <3>. QED  BY <1>0, <3>2, <3>3
  <2>. QED  BY <2>1, <2>2, <2>3, <2>4 DEF TypeOK, Uses
<1>6. CASE Start(p)
  <2>1. UNCHANGED <<file, watermark, lock, tasks, first, last, working, born, unchecked>>
    BY <1>6 DEF Start, diskVars, histVars
  <2>2. at' \in [Procs -> Places] /\ unread' \in [Procs -> SUBSET TaskIds]
    BY <1>0, <1>6 DEF Start, Places, Existing
  <2>3. used' \in Uses
    BY <1>0, <1>6, UsesCount DEF Start
  <2>. QED  BY <2>1, <2>2, <2>3 DEF TypeOK, Uses
<1>7. ASSUME NEW t \in TaskIds, Load(p, t)
      PROVE  TypeOK'
  <2>1. UNCHANGED <<file, watermark, lock, at, last, working, born, unchecked, used>>
    BY <1>7 DEF Load, diskVars, histVars
  <2>2. unread' \in [Procs -> SUBSET TaskIds]
    BY <1>0, <1>7 DEF Load
  <2>4. first' \in [Procs -> SUBSET TaskIds]
    <3>1. first' = first \/ first' = [first EXCEPT ![p] = {t}]
      BY <1>7 DEF Load
    <3>. QED  BY <1>0, <3>1
  <2>3. tasks' \in [Procs -> [TaskIds -> Entries]]
    <3>1. Recovered(t) \in Entries
      <4>1. {"recoverable", "interrupted"} \subseteq Active \cup Terminal
        BY DEF Active, Terminal
      <4>. QED  BY <1>0, <4>1, StatusUpdate DEF Recovered
    <3>2. [NoTasks EXCEPT ![t] = Recovered(t)] \in [TaskIds -> Entries]
      BY <3>1, AbsentType
    <3>. QED  BY <1>0, <1>7, <3>2 DEF Load
  <2>. QED  BY <2>1, <2>2, <2>3, <2>4 DEF TypeOK
<1>8. CASE Started(p)
  <2>1. UNCHANGED <<file, watermark, lock, first, last, unread, working, born, unchecked, used>>
    BY <1>8 DEF Started, diskVars, histVars
  <2>2. at' \in [Procs -> Places]
    BY <1>0, <1>8 DEF Started, Places
  <2>3. tasks' \in [Procs -> [TaskIds -> Entries]]
    BY <1>0, <1>8, AbsentType DEF Started
  <2>. QED  BY <2>1, <2>2, <2>3 DEF TypeOK
<1>9. CASE Crash(p)
  <2>1. UNCHANGED <<file, watermark, born, unchecked>>
    BY <1>9 DEF Crash
  <2>2. at' \in [Procs -> Places] /\ lock' \in Procs \cup {"free", "stale"}
    BY <1>0, <1>9 DEF Crash, Places
  <2>3. tasks' \in [Procs -> [TaskIds -> Entries]]
    BY <1>0, <1>9, AbsentType DEF Crash
  <2>4. first' \in [Procs -> SUBSET TaskIds] /\ last' \in [Procs -> SUBSET TaskIds]
    BY <1>0, <1>9 DEF Crash
  <2>5. unread' \in [Procs -> SUBSET TaskIds]
    BY <1>0, <1>9 DEF Crash
  <2>6. working' \in [TaskIds -> SUBSET (Procs \X Owners)]
    BY <1>0, <1>9 DEF Crash
  <2>7. used' \in Uses
    BY <1>0, <1>9, UsesCount DEF Crash
  <2>. QED  BY <2>1, <2>2, <2>3, <2>4, <2>5, <2>6, <2>7 DEF TypeOK, Uses
<1>. QED  BY <1>1, <1>2, <1>3, <1>4, <1>5, <1>6, <1>7, <1>8, <1>9 DEF Process

-----------------------------------------------------------------------------
(* Who may write what.                                                     *)

\* A step of p leaves the other processes alone.
LEMMA OthersKept ==
  ASSUME TypeOK, NEW p \in Procs, Process(p), NEW q \in Procs \ {p}
  PROVE  /\ at'[q] = at[q] /\ tasks'[q] = tasks[q]
         /\ first'[q] = first[q] /\ last'[q] = last[q]
<1>. DEFINE Kept == /\ at'[q] = at[q] /\ tasks'[q] = tasks[q]
                    /\ first'[q] = first[q] /\ last'[q] = last[q]
<1>0. at \in [Procs -> Places] /\ tasks \in [Procs -> [TaskIds -> Entries]]
      /\ first \in [Procs -> SUBSET TaskIds] /\ last \in [Procs -> SUBSET TaskIds]
  BY DEF TypeOK
<1>1. CASE Operation(p)
  <2>1. ASSUME NEW doing, NEW new, NEW before, NEW after,
               LockedStep(p, doing, new, before, after)
        PROVE  Kept
    BY <1>0, <2>1 DEF LockedStep
  <2>. QED  BY <1>1, <2>1, OperationSorts DEF Writes, Promises
<1>2. ASSUME NEW t \in TaskIds, Write(p, t) PROVE Kept
  BY <1>0, <1>2 DEF Write
<1>3. CASE WriteFails(p)
  BY <1>0, <1>3 DEF WriteFails
<1>4. CASE Finish(p)
  BY <1>0, <1>4 DEF Finish
<1>5. ASSUME NEW reviews \in SUBSET TaskIds, Expire(p, reviews) PROVE Kept
  BY <1>0, <1>5 DEF Expire
<1>6. CASE Start(p)
  BY <1>0, <1>6 DEF Start
<1>7. ASSUME NEW t \in TaskIds, Load(p, t) PROVE Kept
  <2>1. at'[q] = at[q] /\ last'[q] = last[q]
    BY <1>0, <1>7 DEF Load
  <2>2. CASE file[t].status \in Active
    <3>1. tasks'[q] = tasks[q]
      BY <1>0, <1>7, <2>2 DEF Load
    <3>2. first'[q] = first[q]
      BY <1>0, <1>7, <2>2 DEF Load
    <3>. QED  BY <2>1, <3>1, <3>2
  <2>3. CASE file[t].status \notin Active
    BY <1>7, <2>1, <2>3 DEF Load
  <2>. QED  BY <2>2, <2>3
<1>8. CASE Started(p)
  BY <1>0, <1>8 DEF Started
<1>9. CASE Crash(p)
  BY <1>0, <1>9 DEF Crash
<1>. QED  BY <1>1, <1>2, <1>3, <1>4, <1>5, <1>6, <1>7, <1>8, <1>9 DEF Process

\* The lock and what is left to write go together.
LEMMA WritersKept ==
  ASSUME TypeOK, Writers, NEW p \in Procs, Process(p)
  PROVE  Writers'
<1>. DEFINE Good(q) == /\ lock' = q <=> at'[q] \in {"writing", "claiming"}
                       /\ at'[q] \in {"ready", "down"} => first'[q] = {}
                       /\ at'[q] # "writing" => last'[q] = {}
<1>0. at \in [Procs -> Places] /\ tasks \in [Procs -> [TaskIds -> Entries]]
      /\ first \in [Procs -> SUBSET TaskIds] /\ last \in [Procs -> SUBSET TaskIds]
      /\ p \notin {"free", "stale"} /\ {"free", "stale"} \cap Procs = {}
  BY TaskStoreAssumption DEF TypeOK
<1>w. /\ lock = p <=> at[p] \in {"writing", "claiming"}
      /\ at[p] \in {"ready", "down"} => first[p] = {}
      /\ at[p] # "writing" => last[p] = {}
  BY DEF Writers
<1>1. CASE Operation(p)
  <2>1. ASSUME NEW doing \in {"writing", "claiming"}, NEW new, NEW before, NEW after,
               LockedStep(p, doing, new, before, after), doing = "claiming" => after = {}
        PROVE  Good(p) /\ lock = "free" /\ lock' = p
    BY <1>0, <1>w, <2>1 DEF LockedStep
  <2>2. Good(p) /\ lock = "free" /\ lock' = p
    BY <1>1, <2>1, OperationSorts DEF Writes, Promises
  <2>. QED  BY <1>0, <2>2, OthersKept DEF Writers
<1>2. ASSUME NEW t \in TaskIds, Write(p, t) PROVE Writers'
  <2>1. Good(p) /\ UNCHANGED lock
    BY <1>0, <1>w, <1>2 DEF Write
  <2>. QED  BY <2>1, OthersKept DEF Writers
<1>3. CASE WriteFails(p)
  <2>1. Good(p) /\ UNCHANGED lock
    BY <1>0, <1>w, <1>3 DEF WriteFails, diskVars
  <2>. QED  BY <2>1, OthersKept DEF Writers
<1>4. CASE Finish(p)
  <2>1. Good(p) /\ lock' = IF lock = p THEN "free" ELSE lock
    BY <1>0, <1>w, <1>4 DEF Finish
  <2>. QED  BY <1>0, <2>1, OthersKept DEF Writers
<1>5. ASSUME NEW reviews \in SUBSET TaskIds, Expire(p, reviews) PROVE Writers'
  <2>1. Good(p) /\ UNCHANGED lock
    BY <1>0, <1>w, <1>5 DEF Expire, diskVars
  <2>. QED  BY <2>1, OthersKept DEF Writers
<1>6. CASE Start(p)
  <2>1. Good(p) /\ UNCHANGED lock
    BY <1>0, <1>w, <1>6 DEF Start, diskVars
  <2>. QED  BY <2>1, OthersKept DEF Writers
<1>7. ASSUME NEW t \in TaskIds, Load(p, t) PROVE Writers'
  <2>1. Good(p) /\ UNCHANGED lock
    BY <1>0, <1>w, <1>7 DEF Load, diskVars
  <2>. QED  BY <2>1, OthersKept DEF Writers
<1>8. CASE Started(p)
  <2>1. Good(p) /\ UNCHANGED lock
    BY <1>0, <1>w, <1>8 DEF Started, diskVars
  <2>. QED  BY <2>1, OthersKept DEF Writers
<1>9. CASE Crash(p)
  <2>1. Good(p) /\ lock' = IF lock = p THEN "stale" ELSE lock
    BY <1>0, <1>w, <1>9 DEF Crash
  <2>. QED  BY <1>0, <2>1, OthersKept DEF Writers
<1>. QED  BY <1>1, <1>2, <1>3, <1>4, <1>5, <1>6, <1>7, <1>8, <1>9 DEF Process

\* What is left to a process that claims is a claim, after every step.
LEMMA ClaimsKept ==
  ASSUME TypeOK, Writers, Claims, NEW p \in Procs, Process(p)
  PROVE  Claims'
<1>. DEFINE Good(q) == at'[q] = "claiming" =>
              \A t \in first'[q] : /\ tasks'[q][t].status = "in_progress"
                                   /\ tasks'[q][t].owner \in Owners
<1>0. at \in [Procs -> Places] /\ tasks \in [Procs -> [TaskIds -> Entries]]
      /\ first \in [Procs -> SUBSET TaskIds]
  BY DEF TypeOK
<1>w. /\ at[p] = "claiming" => \A t \in first[p] : /\ tasks[p][t].status = "in_progress"
                                                   /\ tasks[p][t].owner \in Owners
  BY DEF Claims
<1>q. Good(p) => Claims'
  BY OthersKept DEF Claims
<1>1. CASE Operation(p)
  <2>1. CASE Writes(p)
    <3>1. at'[p] = "writing"
      BY <1>0, <2>1 DEF Writes, LockedStep
    <3>. QED  BY <1>q, <3>1
  <2>2. CASE Promises(p)
    <3>1. PICK new \in [TaskIds -> Entries], t \in TaskIds, o \in Owners :
            /\ LockedStep(p, "claiming", new, {t}, {})
            /\ new[t].status = "in_progress" /\ new[t].owner = o
      BY <2>2 DEF Promises
    <3>2. tasks'[p] = new /\ first'[p] = {t}
      BY <1>0, <3>1 DEF LockedStep
    <3>. QED  BY <1>q, <3>1, <3>2
  <2>. QED  BY <1>1, <2>1, <2>2, OperationSorts
<1>2. ASSUME NEW t \in TaskIds, Write(p, t) PROVE Claims'
  BY <1>0, <1>w, <1>q, <1>2 DEF Write
<1>3. CASE WriteFails(p)
  BY <1>0, <1>q, <1>3 DEF WriteFails
<1>4. CASE Finish(p)
  BY <1>0, <1>q, <1>4 DEF Finish
<1>5. ASSUME NEW reviews \in SUBSET TaskIds, Expire(p, reviews) PROVE Claims'
  BY <1>0, <1>q, <1>5 DEF Expire
<1>6. CASE Start(p)
  BY <1>0, <1>q, <1>6 DEF Start
<1>7. ASSUME NEW t \in TaskIds, Load(p, t) PROVE Claims'
  BY <1>0, <1>q, <1>7 DEF Load
<1>8. CASE Started(p)
  BY <1>0, <1>q, <1>8 DEF Started
<1>9. CASE Crash(p)
  BY <1>0, <1>q, <1>9 DEF Crash
<1>. QED  BY <1>1, <1>2, <1>3, <1>4, <1>5, <1>6, <1>7, <1>8, <1>9 DEF Process

\* What is written without the lock ends a local task, after every step.
LEMMA EndingsKept ==
  ASSUME TypeOK, Writers, Endings, NEW p \in Procs, Process(p), UNCHANGED remote
  PROVE  Endings'
<1>. DEFINE Good(q) == at'[q] \in {"loading", "checking"} =>
              \A t \in first'[q] \ remote : tasks'[q][t].status \notin Active
<1>0. at \in [Procs -> Places] /\ tasks \in [Procs -> [TaskIds -> Entries]]
      /\ first \in [Procs -> SUBSET TaskIds] /\ file \in [TaskIds -> Entries]
  BY DEF TypeOK
<1>w. /\ at[p] \in {"loading", "checking"} =>
           \A t \in first[p] \ remote : tasks[p][t].status \notin Active
      /\ at[p] \in {"ready", "down"} => first[p] = {}
  BY DEF Endings, Writers
<1>q. Good(p) => Endings'
  BY OthersKept DEF Endings
<1>1. CASE Operation(p)
  <2>1. ASSUME NEW doing \in {"writing", "claiming"}, NEW new, NEW before, NEW after,
               LockedStep(p, doing, new, before, after)
        PROVE  at'[p] = doing
    BY <1>0, <2>1 DEF LockedStep
  <2>2. at'[p] \in {"writing", "claiming"}
    BY <1>1, <2>1, OperationSorts DEF Writes, Promises
  <2>. QED  BY <1>q, <2>2
<1>2. ASSUME NEW t \in TaskIds, Write(p, t) PROVE Endings'
  BY <1>0, <1>w, <1>q, <1>2 DEF Write
<1>3. CASE WriteFails(p)
  BY <1>0, <1>q, <1>3 DEF WriteFails
<1>4. CASE Finish(p)
  BY <1>0, <1>q, <1>4 DEF Finish
<1>5. ASSUME NEW reviews \in SUBSET TaskIds, Expire(p, reviews) PROVE Endings'
  <2>1. first'[p] = reviews
    BY <1>0, <1>5 DEF Expire
  <2>2. tasks'[p] = [t \in TaskIds |-> IF t \in reviews
                       THEN [file[t] EXCEPT !.status = "failed"] ELSE file[t]]
    BY <1>0, <1>5 DEF Expire
  <2>3. \A t \in TaskIds : [file[t] EXCEPT !.status = "failed"].status = "failed"
    BY <1>0 DEF Entries
  <2>4. \A t \in reviews : tasks'[p][t].status = "failed"
    BY <2>2, <2>3
  <2>5. "failed" \notin Active
    BY DEF Active
  <2>. QED  BY <1>q, <2>1, <2>4, <2>5
<1>6. CASE Start(p)
  BY <1>0, <1>w, <1>q, <1>6 DEF Start
<1>7. ASSUME NEW t \in TaskIds, Load(p, t) PROVE Endings'
  <2>1. CASE file[t].status \in Active
    <3>1. first'[p] = {t}
      BY <1>0, <1>7, <2>1 DEF Load
    <3>2. tasks'[p] = [NoTasks EXCEPT ![t] = Recovered(t)]
      BY <1>0, <1>7, <2>1 DEF Load
    <3>3. tasks'[p][t] = Recovered(t)
      BY <3>2, AbsentType
    <3>4. t \notin remote => Recovered(t).status = "interrupted"
      BY <1>0 DEF Recovered, Entries
    <3>5. "interrupted" \notin Active
      BY DEF Active
    <3>. QED  BY <1>q, <3>1, <3>3, <3>4, <3>5
  <2>2. CASE file[t].status \notin Active
    BY <1>q, <1>w, <1>7, <2>2 DEF Load
  <2>. QED  BY <2>1, <2>2
<1>8. CASE Started(p)
  BY <1>0, <1>q, <1>8 DEF Started
<1>9. CASE Crash(p)
  BY <1>0, <1>q, <1>9 DEF Crash
<1>. QED  BY <1>1, <1>2, <1>3, <1>4, <1>5, <1>6, <1>7, <1>8, <1>9 DEF Process

-----------------------------------------------------------------------------
(* Types and writers together: the invariant the others rest on.           *)

WritersInv == TypeOK /\ Writers /\ Claims /\ Endings

LEMMA WritersInvInit == Init => WritersInv
<1>1. Init => TypeOK
  BY TypeInit
<1>2. Init => Writers
  BY TaskStoreAssumption DEF Init, Writers
<1>3. Init => Claims /\ Endings
  BY DEF Init, Claims, Endings
<1>. QED  BY <1>1, <1>2, <1>3 DEF WritersInv

LEMMA WritersInvNext == WritersInv /\ [Next]_vars => WritersInv'
<1>1. ASSUME WritersInv, NEW p \in Procs, Process(p), UNCHANGED remote
      PROVE  WritersInv'
  <2>1. TypeOK'
    BY <1>1, ProcessType DEF WritersInv
  <2>2. Writers'
    BY <1>1, WritersKept DEF WritersInv
  <2>3. Claims'
    BY <1>1, ClaimsKept DEF WritersInv
  <2>4. Endings'
    BY <1>1, EndingsKept DEF WritersInv
  <2>. QED  BY <2>1, <2>2, <2>3, <2>4 DEF WritersInv
<1>2. ASSUME WritersInv, UNCHANGED vars
      PROVE  WritersInv'
  <2>1. TypeOK'
    BY <1>2 DEF WritersInv, TypeOK, vars, diskVars, procVars, histVars
  <2>2. Writers'
    BY <1>2 DEF WritersInv, Writers, vars, diskVars, procVars
  <2>3. Claims' /\ Endings'
    BY <1>2 DEF WritersInv, Claims, Endings, vars, diskVars, procVars
  <2>. QED  BY <2>1, <2>2, <2>3 DEF WritersInv
<1>. QED  BY <1>1, <1>2 DEF Next

\* Every variable of the task list keeps its type, whatever the processes do
\* and whenever they crash (the invariant TypeOK of the runs).
THEOREM TypeCorrect == Spec => []TypeOK
<1>1. WritersInv => TypeOK
  BY DEF WritersInv
<1>. QED  BY <1>1, WritersInvInit, WritersInvNext, PTL DEF Spec

-----------------------------------------------------------------------------
(* Identifiers are given away once.                                        *)

\* An identifier that has been given away is below the high-water mark.
IdsInv == \A t \in TaskIds : born[t] # 0 => born[t] = 1 /\ t <= watermark

\* Only Create gives an identifier away.
LEMMA OnlyCreateReserves ==
  ASSUME NEW p \in Procs, Process(p)
  PROVE  \/ \E owner \in Owners \cup {NoOwner}, deps \in SomeTasks : Create(p, owner, deps)
         \/ UNCHANGED <<born, watermark>>
<1>1. CASE Operation(p)
  BY <1>1 DEF Operation, Claim, SetStatus, SetFields, Delete, Unassign
<1>2. ASSUME NEW t \in TaskIds, Write(p, t) PROVE UNCHANGED <<born, watermark>>
  BY <1>2 DEF Write
<1>3. CASE WriteFails(p) \/ Finish(p) \/ Start(p) \/ Started(p) \/ Crash(p)
  BY <1>3 DEF WriteFails, Finish, Start, Started, Crash, diskVars, histVars
<1>4. ASSUME NEW reviews \in SUBSET TaskIds, Expire(p, reviews)
      PROVE  UNCHANGED <<born, watermark>>
  BY <1>4 DEF Expire, diskVars, histVars
<1>5. ASSUME NEW t \in TaskIds, Load(p, t) PROVE UNCHANGED <<born, watermark>>
  BY <1>5 DEF Load, diskVars, histVars
<1>. QED  BY <1>1, <1>2, <1>3, <1>4, <1>5 DEF Process

LEMMA IdsInvKept ==
  ASSUME TypeOK, IdsInv, NEW p \in Procs, Process(p)
  PROVE  IdsInv'
<1>0. /\ watermark \in 0 .. MaxTasks /\ born \in [TaskIds -> Nat]
      /\ TaskIds \subseteq Nat /\ MaxTasks \in Nat
  BY TaskStoreAssumption DEF TypeOK, TaskIds
<1>1. ASSUME NEW owner \in Owners \cup {NoOwner}, NEW deps \in SomeTasks, Create(p, owner, deps)
      PROVE  IdsInv'
  <2>. DEFINE n == NextId
  <2>1. n \in TaskIds /\ watermark' = n /\ born' = [born EXCEPT ![n] = @ + 1]
    BY <1>1 DEF Create
  <2>2. n \in Nat /\ watermark < n
    BY <1>0, NextIdAbove
  <2>. HIDE DEF n
  <2>3. born[n] = 0
    BY <1>0, <2>1, <2>2 DEF IdsInv
  <2>4. \A t \in TaskIds \ {n} : born'[t] = born[t] /\ (t <= watermark => t <= watermark')
    BY <1>0, <2>1, <2>2
  <2>5. born'[n] = 1 /\ n <= watermark'
    BY <1>0, <2>1, <2>2, <2>3
  <2>. QED  BY <2>4, <2>5 DEF IdsInv
<1>2. CASE UNCHANGED <<born, watermark>>
  BY <1>2 DEF IdsInv
<1>. QED  BY <1>1, <1>2, OnlyCreateReserves

\* No identifier is given away twice, whatever is deleted, and whichever
\* processes crash or start (the invariant IdsNeverReused of the runs).
THEOREM IdsUnique == Spec => []IdsNeverReused
<1>. DEFINE Inv == WritersInv /\ IdsInv
<1>1. Init => Inv
  <2>1. Init => IdsInv
    <3>1. Init => \A t \in TaskIds : born[t] = 0
      BY DEF Init
    <3>. QED  BY <3>1 DEF IdsInv
  <2>. QED  BY <2>1, WritersInvInit
<1>2. Inv /\ [Next]_vars => Inv'
  <2>1. ASSUME Inv, NEW p \in Procs, Process(p) PROVE IdsInv'
    BY <2>1, IdsInvKept DEF WritersInv
  <2>2. ASSUME Inv, UNCHANGED vars PROVE IdsInv'
    BY <2>2 DEF IdsInv, vars, diskVars, histVars
  <2>. QED  BY <2>1, <2>2, WritersInvNext DEF Next
<1>3. Inv => IdsNeverReused
  BY DEF IdsInv, IdsNeverReused
<1>. QED  BY <1>1, <1>2, <1>3, PTL DEF Spec

-----------------------------------------------------------------------------
(* A task is promised to one agent.                                        *)

\* As long as no write fails, a promise to work on a local task names the owner
\* in its file, and the claim that is being written names him too; a task that
\* has ended is promised to nobody.
Promised ==
  used.failures = 0 =>
    \A t \in TaskIds \ remote :
      /\ file[t].status \notin Active => working[t] = {}
      /\ \A w \in working[t] : w[2] = file[t].owner
      /\ \A p \in Procs : at[p] = "claiming" /\ t \in first[p] =>
           \A w \in working[t] : w[2] = tasks[p][t].owner

\* Only a failed write counts as one, and it never counts back.
LEMMA FailuresCount ==
  ASSUME TypeOK, NEW p \in Procs, Process(p), used'.failures = 0
  PROVE  ~ WriteFails(p) /\ used.failures = 0
<1>0. used \in Uses
  BY DEF TypeOK, Uses
<1>1. ASSUME WriteFails(p) PROVE FALSE
  BY <1>0, <1>1 DEF WriteFails, Uses
<1>2. CASE Operation(p)
  <2>1. ASSUME NEW doing, NEW new, NEW before, NEW after,
               LockedStep(p, doing, new, before, after)
        PROVE  used'.failures = used.failures
    BY <1>0, <2>1 DEF LockedStep, Uses
  <2>. QED  BY <1>1, <1>2, <2>1, OperationSorts DEF Writes, Promises
<1>3. ASSUME NEW t \in TaskIds, Write(p, t) PROVE used'.failures = used.failures
  BY <1>3 DEF Write
<1>4. ASSUME NEW t \in TaskIds, Load(p, t) PROVE used'.failures = used.failures
  BY <1>4 DEF Load
<1>5. ASSUME NEW reviews \in SUBSET TaskIds, Expire(p, reviews)
      PROVE  used'.failures = used.failures
  BY <1>0, <1>5 DEF Expire, Uses
<1>6. CASE Finish(p) \/ Started(p)
  BY <1>1, <1>6 DEF Finish, Started
<1>7. CASE Start(p)
  BY <1>0, <1>1, <1>7 DEF Start, Uses
<1>8. CASE Crash(p)
  BY <1>0, <1>1, <1>8 DEF Crash, Uses
<1>. QED  BY <1>1, <1>2, <1>3, <1>4, <1>5, <1>6, <1>7, <1>8 DEF Process

\* A write keeps the promises.
LEMMA PromisedWrite ==
  ASSUME WritersInv, Promised, used.failures = 0, NEW p \in Procs, NEW u \in TaskIds,
         Write(p, u), UNCHANGED remote
  PROVE  Promised'
<1>0. /\ file \in [TaskIds -> Entries] /\ tasks \in [Procs -> [TaskIds -> Entries]]
      /\ first \in [Procs -> SUBSET TaskIds] /\ at \in [Procs -> Places]
      /\ working \in [TaskIds -> SUBSET (Procs \X Owners)]
  BY DEF WritersInv, TypeOK
<1>1. /\ file' = [file EXCEPT ![u] = tasks[p][u]]
      /\ working' = [working EXCEPT ![u] = WorkingAfter(p, u)]
      /\ first' = [first EXCEPT ![p] = @ \ {u}] /\ UNCHANGED <<at, tasks, lock>>
      /\ u \in first[p] \/ (first[p] = {} /\ u \in last[p])
  BY DEF Write
<1>. SUFFICES ASSUME NEW t \in TaskIds \ remote
              PROVE  /\ file'[t].status \notin Active => working'[t] = {}
                     /\ \A w \in working'[t] : w[2] = file'[t].owner
                     /\ \A q \in Procs : at'[q] = "claiming" /\ t \in first'[q] =>
                          \A w \in working'[t] : w[2] = tasks'[q][t].owner
  BY DEF Promised
<1>2. /\ file[t].status \notin Active => working[t] = {}
      /\ \A w \in working[t] : w[2] = file[t].owner
      /\ \A q \in Procs : at[q] = "claiming" /\ t \in first[q] =>
           \A w \in working[t] : w[2] = tasks[q][t].owner
  BY DEF Promised
<1>3. \A q \in Procs : first'[q] \subseteq first[q]
  BY <1>0, <1>1
<1>4. CASE t # u
  BY <1>0, <1>1, <1>2, <1>3, <1>4
<1>5. CASE t = u
  <2>1. file'[t] = tasks[p][t] /\ working'[t] = WorkingAfter(p, t)
    BY <1>0, <1>1, <1>5
  <2>2. CASE at[p] = "claiming"
    <3>1. t \in first[p] /\ lock = p
      BY <1>1, <1>5, <2>2 DEF WritersInv, Writers
    <3>2. \A q \in Procs : at[q] = "claiming" => q = p
      BY <3>1 DEF WritersInv, Writers
    <3>3. tasks[p][t].status \in Active
      BY <2>2, <3>1 DEF WritersInv, Claims, Active
    <3>4. working'[t] = working[t] \cup {<<p, tasks[p][t].owner>>}
      BY <2>1, <2>2 DEF WorkingAfter
    <3>5. \A w \in working'[t] : w[2] = file'[t].owner
      BY <1>2, <2>1, <2>2, <3>1, <3>4
    <3>6. t \notin first'[p]
      BY <1>0, <1>1, <1>5
    <3>. QED  BY <1>1, <2>1, <3>2, <3>3, <3>5, <3>6
  <2>3. CASE at[p] = "writing"
    <3>1. \A q \in Procs : at[q] # "claiming"
      BY <2>3 DEF WritersInv, Writers
    <3>2. CASE tasks[p][t].status \notin Active \/ tasks[p][t].owner # file[t].owner
      <4>1. working'[t] = {}
        BY <2>1, <2>3, <3>2 DEF WorkingAfter
      <4>. QED  BY <4>1
    <3>3. CASE tasks[p][t].status \in Active /\ tasks[p][t].owner = file[t].owner
      <4>1. working'[t] = working[t]
        BY <2>1, <2>3, <3>3 DEF WorkingAfter
      <4>. QED  BY <1>1, <1>2, <2>1, <3>1, <3>3, <4>1
    <3>. QED  BY <3>2, <3>3
  <2>4. CASE at[p] \in {"loading", "checking"}
    <3>1. t \in first[p]
      BY <1>1, <1>5, <2>4 DEF WritersInv, Writers
    <3>2. tasks[p][t].status \notin Active
      BY <2>4, <3>1 DEF WritersInv, Endings
    <3>3. working'[t] = {}
      BY <2>1, <2>4, <3>2 DEF WorkingAfter
    <3>. QED  BY <3>3
  <2>5. CASE at[p] \in {"ready", "down"}
    BY <1>1, <2>5 DEF WritersInv, Writers
  <2>. QED  BY <1>0, <2>2, <2>3, <2>4, <2>5 DEF Places
<1>. QED  BY <1>4, <1>5

\* Every step that is not a failed write keeps the promises.
LEMMA PromisedKept ==
  ASSUME WritersInv, Promised, NEW p \in Procs, Process(p), UNCHANGED remote
  PROVE  Promised'
<1>0. /\ file \in [TaskIds -> Entries] /\ at \in [Procs -> Places]
      /\ first \in [Procs -> SUBSET TaskIds] /\ tasks \in [Procs -> [TaskIds -> Entries]]
      /\ working \in [TaskIds -> SUBSET (Procs \X Owners)] /\ TypeOK
  BY DEF WritersInv, TypeOK
<1>. SUFFICES ASSUME used'.failures = 0
              PROVE  Promised'
  BY DEF Promised
<1>f. ~ WriteFails(p) /\ used.failures = 0
  BY <1>0, FailuresCount
<1>p. \A t \in TaskIds \ remote :
        /\ file[t].status \notin Active => working[t] = {}
        /\ \A w \in working[t] : w[2] = file[t].owner
        /\ \A q \in Procs : at[q] = "claiming" /\ t \in first[q] =>
             \A w \in working[t] : w[2] = tasks[q][t].owner
  BY <1>f DEF Promised
<1>o. \A q \in Procs \ {p} : /\ at'[q] = at[q] /\ tasks'[q] = tasks[q]
                             /\ first'[q] = first[q]
  BY <1>0, OthersKept
\* A step that promises nothing and writes nothing.
<1>q. ASSUME UNCHANGED file, \A t \in TaskIds : working'[t] \subseteq working[t],
             at'[p] # "claiming"
      PROVE  Promised'
  BY <1>p, <1>o, <1>q DEF Promised
<1>1. CASE Operation(p)
  <2>1. CASE Writes(p)
    <3>1. at'[p] = "writing" /\ UNCHANGED <<file, working>>
      BY <1>0, <2>1 DEF Writes, LockedStep
    <3>. QED  BY <1>q, <3>1
  <2>2. CASE Promises(p)
    <3>1. PICK new \in [TaskIds -> Entries], u \in TaskIds, o \in Owners :
            /\ LockedStep(p, "claiming", new, {u}, {})
            /\ file[u].owner \in {NoOwner, o} /\ new[u].owner = o
      BY <2>2 DEF Promises
    <3>2. /\ tasks'[p] = new /\ first'[p] = {u} /\ lock = "free"
          /\ UNCHANGED <<file, working>>
      BY <1>0, <3>1 DEF LockedStep
    <3>3. \A w \in working[u] : u \notin remote => w[2] = o
      BY <1>0, <1>p, <3>1, TaskStoreAssumption
    <3>4. ASSUME NEW t \in TaskIds \ remote, NEW q \in Procs,
                 at'[q] = "claiming", t \in first'[q], NEW w \in working[t]
          PROVE  w[2] = tasks'[q][t].owner
      <4>1. CASE q = p
        BY <3>1, <3>2, <3>3, <3>4, <4>1
      <4>2. CASE q # p
        BY <1>o, <1>p, <3>4, <4>2
      <4>. QED  BY <4>1, <4>2
    <3>. QED  BY <1>p, <3>2, <3>4 DEF Promised
  <2>. QED  BY <1>0, <1>1, <2>1, <2>2, OperationSorts
<1>2. ASSUME NEW t \in TaskIds, Write(p, t) PROVE Promised'
  BY <1>f, <1>2, PromisedWrite
<1>4. CASE Finish(p)
  <2>1. at'[p] = "ready" /\ UNCHANGED <<file, working>>
    BY <1>0, <1>4 DEF Finish, histVars
  <2>. QED  BY <1>q, <2>1
<1>5. ASSUME NEW reviews \in SUBSET TaskIds, Expire(p, reviews) PROVE Promised'
  <2>1. at'[p] = "checking" /\ UNCHANGED <<file, working>>
    BY <1>0, <1>5 DEF Expire, diskVars, histVars
  <2>. QED  BY <1>q, <2>1
<1>6. CASE Start(p)
  <2>1. at'[p] = "loading" /\ UNCHANGED <<file, working>>
    BY <1>0, <1>6 DEF Start, diskVars, histVars
  <2>. QED  BY <1>q, <2>1
<1>7. ASSUME NEW t \in TaskIds, Load(p, t) PROVE Promised'
  <2>1. at'[p] = "loading" /\ UNCHANGED <<file, working>>
    BY <1>0, <1>7 DEF Load, diskVars, histVars
  <2>. QED  BY <1>q, <2>1
<1>8. CASE Started(p)
  <2>1. at'[p] = "ready" /\ UNCHANGED <<file, working>>
    BY <1>0, <1>8 DEF Started, diskVars, histVars
  <2>. QED  BY <1>q, <2>1
<1>9. CASE Crash(p)
  <2>1. at'[p] = "down" /\ UNCHANGED file
    BY <1>0, <1>9 DEF Crash
  <2>2. \A t \in TaskIds : working'[t] \subseteq working[t]
    BY <1>0, <1>9 DEF Crash
  <2>. QED  BY <1>q, <2>1, <2>2
<1>. QED  BY <1>f, <1>1, <1>2, <1>4, <1>5, <1>6, <1>7, <1>8, <1>9 DEF Process

\* As long as no write fails, a local task that runs has been promised to one
\* agent only, with any number of processes that start, recover, expire and
\* crash (the invariant ClaimsExclusive of the runs).
THEOREM ClaimsAreExclusive == Spec => []ClaimsExclusive
<1>. DEFINE Inv == WritersInv /\ Promised
<1>1. Init => Inv
  <2>1. Init => Promised
    <3>1. Init => \A t \in TaskIds : working[t] = {}
      BY DEF Init
    <3>. QED  BY <3>1 DEF Promised
  <2>. QED  BY <2>1, WritersInvInit
<1>2. Inv /\ [Next]_vars => Inv'
  <2>1. ASSUME Inv, NEW p \in Procs, Process(p), UNCHANGED remote PROVE Promised'
    BY <2>1, PromisedKept
  <2>2. ASSUME Inv, UNCHANGED vars PROVE Promised'
    BY <2>2 DEF Promised, vars, diskVars, procVars, histVars
  <2>. QED  BY <2>1, <2>2, WritersInvNext DEF Next
<1>3. Inv => ClaimsExclusive
  BY DEF Promised, ClaimsExclusive
<1>. QED  BY <1>1, <1>2, <1>3, PTL DEF Spec

-----------------------------------------------------------------------------
(* An agent has one task.                                                  *)

\* o has task t, or will have it once the lock's holder has written.
Has(o, t) ==
  \/ file[t].status \in Active /\ file[t].owner = o
  \/ \E p \in Procs : /\ lock = p /\ t \in first[p] \cup last[p]
                      /\ tasks[p][t].status \in Active /\ tasks[p][t].owner = o

OneEach ==
  ~unchecked => \A o \in Owners : \A s, t \in TaskIds \ remote :
    Has(o, s) /\ Has(o, t) => s = t

\* A step that is no operation gives no agent a task that it had not.
LEMMA HasKept ==
  ASSUME WritersInv, NEW p \in Procs, Process(p), ~ Operation(p), UNCHANGED remote,
         NEW o \in Owners, NEW t \in TaskIds \ remote, Has(o, t)'
  PROVE  Has(o, t)
<1>0. /\ file \in [TaskIds -> Entries] /\ at \in [Procs -> Places]
      /\ first \in [Procs -> SUBSET TaskIds] /\ last \in [Procs -> SUBSET TaskIds]
      /\ tasks \in [Procs -> [TaskIds -> Entries]] /\ TypeOK
      /\ {"free", "stale"} \cap Procs = {}
  BY TaskStoreAssumption DEF WritersInv, TypeOK
<1>w. /\ lock = p <=> at[p] \in {"writing", "claiming"}
      /\ at[p] \in {"ready", "down"} => first[p] = {}
      /\ at[p] # "writing" => last[p] = {}
  BY DEF WritersInv, Writers
<1>o. \A q \in Procs \ {p} : /\ tasks'[q] = tasks[q] /\ first'[q] = first[q]
                             /\ last'[q] = last[q]
  BY <1>0, OthersKept
\* A step after which p has no lock.
<1>q. ASSUME UNCHANGED file, lock' # p, lock' \in {lock, "free", "stale"}
      PROVE  Has(o, t)
  BY <1>0, <1>o, <1>q DEF Has
<1>2. ASSUME NEW u \in TaskIds, Write(p, u) PROVE Has(o, t)
  <2>1. /\ file' = [file EXCEPT ![u] = tasks[p][u]] /\ UNCHANGED <<lock, tasks>>
        /\ u \in first[p] \cup last[p]
    BY <1>2 DEF Write
  <2>2. \A q \in Procs : first'[q] \subseteq first[q] /\ last'[q] \subseteq last[q]
    BY <1>0, <1>2 DEF Write
  <2>3. CASE t # u
    <3>1. file'[t] = file[t]
      BY <1>0, <2>1, <2>3
    <3>. QED  BY <2>1, <2>2, <3>1 DEF Has
  <2>4. CASE t = u /\ lock = p
    <3>1. file'[t] = tasks[p][t]
      BY <1>0, <2>1, <2>4
    <3>. QED  BY <2>1, <2>2, <2>4, <3>1 DEF Has
  <2>5. CASE t = u /\ lock # p
    <3>1. file'[t] = tasks[p][t]
      BY <1>0, <2>1, <2>5
    <3>2. at[p] \in {"loading", "checking"} /\ t \in first[p]
      BY <1>0, <1>w, <2>1, <2>5 DEF Places
    <3>3. file'[t].status \notin Active
      BY <3>1, <3>2 DEF WritersInv, Endings
    <3>. QED  BY <2>1, <2>2, <3>3 DEF Has
  <2>. QED  BY <2>3, <2>4, <2>5
<1>3. CASE WriteFails(p)
  <2>1. UNCHANGED <<file, lock, tasks>>
    BY <1>3 DEF WriteFails, diskVars
  <2>2. \A q \in Procs : first'[q] \subseteq first[q] /\ last'[q] \subseteq last[q]
    BY <1>0, <1>3 DEF WriteFails
  <2>. QED  BY <2>1, <2>2 DEF Has
<1>4. CASE Finish(p)
  BY <1>0, <1>q, <1>4 DEF Finish
<1>5. ASSUME NEW reviews \in SUBSET TaskIds, Expire(p, reviews) PROVE Has(o, t)
  BY <1>w, <1>q, <1>5 DEF Expire, diskVars
<1>6. CASE Start(p)
  BY <1>w, <1>q, <1>6 DEF Start, diskVars
<1>7. ASSUME NEW u \in TaskIds, Load(p, u) PROVE Has(o, t)
  BY <1>w, <1>q, <1>7 DEF Load, diskVars
<1>8. CASE Started(p)
  BY <1>w, <1>q, <1>8 DEF Started, diskVars
<1>9. CASE Crash(p)
  BY <1>0, <1>q, <1>9 DEF Crash
<1>. QED  BY <1>2, <1>3, <1>4, <1>5, <1>6, <1>7, <1>8, <1>9 DEF Process

\* Only an operation marks a task as unchecked.
LEMMA UncheckedKept ==
  ASSUME NEW p \in Procs, Process(p), ~ Operation(p)
  PROVE  UNCHANGED unchecked
BY DEF Process, Write, WriteFails, Finish, Expire, Start, Load, Started, Crash, histVars

\* Under the lock, what o will have is what is in the files or about to be.
LEMMA HasLocked ==
  ASSUME WritersInv, NEW p \in Procs, NEW doing, NEW new, NEW before, NEW after,
         LockedStep(p, doing, new, before, after), NEW o \in Owners, NEW t \in TaskIds,
         Has(o, t)'
  PROVE  \/ Has(o, t)
         \/ t \in before \cup after /\ new[t].status \in Active /\ new[t].owner = o
<1>1. /\ first \in [Procs -> SUBSET TaskIds] /\ last \in [Procs -> SUBSET TaskIds]
      /\ tasks \in [Procs -> [TaskIds -> Entries]]
  BY DEF WritersInv, TypeOK
<1>2. UNCHANGED file /\ lock' = p
  BY DEF LockedStep
<1>3. first'[p] = before /\ last'[p] = after /\ tasks'[p] = new
  BY <1>1 DEF LockedStep
<1>. QED  BY <1>2, <1>3 DEF Has

\* Every step leaves an agent with at most one task.
LEMMA OneEachKept ==
  ASSUME WritersInv, OneEach, NEW p \in Procs, Process(p), UNCHANGED remote
  PROVE  OneEach'
<1>. SUFFICES ASSUME ~unchecked', NEW o \in Owners,
                     NEW s \in TaskIds \ remote, NEW t \in TaskIds \ remote,
                     Has(o, s)', Has(o, t)'
              PROVE  s = t
  BY DEF OneEach
<1>1. CASE ~ Operation(p)
  <2>1. ~unchecked
    BY <1>1, UncheckedKept
  <2>2. Has(o, s) /\ Has(o, t)
    BY <1>1, HasKept
  <2>. QED  BY <2>1, <2>2 DEF OneEach
<1>2. CASE Writes(p)
  <2>1. PICK new \in [TaskIds -> Entries], before \in SUBSET TaskIds, after \in SUBSET TaskIds :
          /\ LockedStep(p, "writing", new, before, after)
          /\ ~unchecked
          /\ \A u \in TaskIds : new[u].status \in Active /\ new[u].owner # NoOwner =>
               file[u].status \in Active /\ file[u].owner = new[u].owner
    BY <1>2 DEF Writes
  <2>2. \A u \in TaskIds : new[u].status \in Active /\ new[u].owner = o => Has(o, u)
    BY <2>1, TaskStoreAssumption DEF Has
  <2>3. Has(o, s) /\ Has(o, t)
    BY <2>1, <2>2, HasLocked
  <2>. QED  BY <2>1, <2>3 DEF OneEach
<1>3. CASE Promises(p)
  <2>1. PICK new \in [TaskIds -> Entries], c \in TaskIds, claimer \in Owners :
          /\ LockedStep(p, "claiming", new, {c}, {})
          /\ new[c].owner = claimer /\ ~unchecked /\ ~Busy(claimer, c)
    BY <1>3 DEF Promises
  <2>2. lock = "free" /\ {"free"} \cap Procs = {}
    BY <2>1, TaskStoreAssumption DEF LockedStep
  <2>3. \A u \in TaskIds : Has(o, u) => file[u].status \in Active /\ file[u].owner = o
    BY <2>2 DEF Has
  <2>4. \A u \in {s, t} : Has(o, u) \/ (u = c /\ o = claimer)
    BY <2>1, HasLocked
  <2>5. o = claimer => \A u \in {s, t} : Has(o, u) => u = c
    BY <2>1, <2>3 DEF Busy
  <2>. QED  BY <2>1, <2>4, <2>5 DEF OneEach
<1>. QED  BY <1>1, <1>2, <1>3, OperationSorts DEF WritersInv

\* An agent whose tasks all come from claims with the busy check has at most one
\* unfinished local task, for any number of processes, agents and tasks, and
\* whichever crash (the invariant OneTaskPerOwner of the runs).
THEOREM OneTaskEach == Spec => []OneTaskPerOwner
<1>. DEFINE Inv == WritersInv /\ OneEach
<1>1. Init => Inv
  <2>1. ASSUME Init PROVE OneEach
    <3>1. \A t \in TaskIds : file[t].status \notin Active
      BY <2>1 DEF Init, NoTasks, Absent, Active
    <3>2. \A p \in Procs : lock # p
      BY <2>1, TaskStoreAssumption DEF Init
    <3>. QED  BY <3>1, <3>2 DEF OneEach, Has
  <2>. QED  BY <2>1, WritersInvInit
<1>2. Inv /\ [Next]_vars => Inv'
  <2>1. ASSUME Inv, NEW p \in Procs, Process(p), UNCHANGED remote PROVE OneEach'
    BY <2>1, OneEachKept
  <2>2. ASSUME Inv, UNCHANGED vars PROVE OneEach'
    BY <2>2 DEF OneEach, Has, vars, diskVars, procVars, histVars
  <2>. QED  BY <2>1, <2>2, WritersInvNext DEF Next
<1>3. Inv => OneTaskPerOwner
  <2>1. ASSUME Inv, ~unchecked, NEW s \in TaskIds \ remote, NEW t \in TaskIds \ remote,
               file[s].status \in Active, file[t].status \in Active,
               file[s].owner = file[t].owner, file[s].owner # NoOwner
        PROVE  s = t
    <3>1. file[s].owner \in Owners
      BY <2>1 DEF WritersInv, TypeOK, Entries
    <3>2. Has(file[s].owner, s) /\ Has(file[s].owner, t)
      BY <2>1 DEF Has
    <3>. QED  BY <2>1, <3>1, <3>2 DEF OneEach
  <2>. QED  BY <2>1 DEF OneTaskPerOwner
<1>. QED  BY <1>1, <1>2, <1>3, PTL DEF Spec

-----------------------------------------------------------------------------
(* A task is promised when what it waits for is completed.                 *)

\* Nobody has started or found a review timed out: all writes are locked.
Locked == used.starts = 0 /\ used.reviews = 0

\* A process that claims a task has one to write, with the dependencies of its
\* file, which are completed; the task is not among them.
Ready ==
  Locked =>
    \A p \in Procs :
      /\ at[p] \notin {"loading", "checking"}
      /\ at[p] = "claiming" =>
           \A t \in first[p] :
             /\ first[p] = {t} /\ tasks[p][t].deps = file[t].deps
             /\ \A d \in file[t].deps : d # t /\ file[d].status = "completed"

\* Starts and expired reviews are counted, and never back.
LEMMA LockedCount ==
  ASSUME TypeOK, NEW p \in Procs, Process(p), Locked'
  PROVE  Locked /\ ~Start(p) /\ \A reviews \in SUBSET TaskIds : ~Expire(p, reviews)
<1>. DEFINE Same == used'.starts = used.starts /\ used'.reviews = used.reviews
<1>0. used \in Uses
  BY DEF TypeOK, Uses
<1>1. ASSUME Start(p) PROVE FALSE
  BY <1>0, <1>1 DEF Start, Uses, Locked
<1>2. ASSUME NEW reviews \in SUBSET TaskIds, Expire(p, reviews) PROVE FALSE
  BY <1>0, <1>2 DEF Expire, Uses, Locked
<1>3. CASE Operation(p)
  <2>1. ASSUME NEW doing, NEW new, NEW before, NEW after,
               LockedStep(p, doing, new, before, after)
        PROVE  Same
    BY <1>0, <2>1 DEF LockedStep, Uses
  <2>2. Same
    BY <1>3, <2>1, OperationSorts DEF Writes, Promises
  <2>. QED  BY <1>1, <1>2, <2>2 DEF Locked
<1>4. ASSUME NEW t \in TaskIds, Write(p, t) PROVE Same
  BY <1>4 DEF Write
<1>5. ASSUME NEW t \in TaskIds, Load(p, t) PROVE Same
  BY <1>5 DEF Load
<1>6. CASE Finish(p) \/ Started(p)
  <2>1. Same
    BY <1>6 DEF Finish, Started
  <2>. QED  BY <1>1, <1>2, <2>1 DEF Locked
<1>7. CASE WriteFails(p) \/ Crash(p)
  <2>1. Same
    BY <1>0, <1>7 DEF WriteFails, Crash, Uses
  <2>. QED  BY <1>1, <1>2, <2>1 DEF Locked
<1>. QED  BY <1>1, <1>2, <1>3, <1>4, <1>5, <1>6, <1>7 DEF Process, Locked

\* While a process claims, no other one writes.
LEMMA ClaimerWritesAlone ==
  ASSUME WritersInv, Ready, Locked, NEW p \in Procs, NEW q \in Procs, at[q] = "claiming",
         NEW t \in TaskIds, Write(p, t)
  PROVE  p = q
<1>1. first[p] \cup last[p] # {}
  BY DEF Write
<1>2. at[p] \in Places
  BY DEF WritersInv, TypeOK
<1>3. at[p] \notin {"ready", "down", "loading", "checking"}
  BY <1>1 DEF WritersInv, Writers, Ready
<1>4. lock = p /\ lock = q
  BY <1>2, <1>3 DEF WritersInv, Writers, Places
<1>. QED  BY <1>4

\* Every step keeps it.
LEMMA ReadyKept ==
  ASSUME WritersInv, Ready, NEW p \in Procs, Process(p)
  PROVE  Ready'
<1>0. /\ TypeOK /\ file \in [TaskIds -> Entries] /\ at \in [Procs -> Places]
      /\ first \in [Procs -> SUBSET TaskIds] /\ tasks \in [Procs -> [TaskIds -> Entries]]
  BY DEF WritersInv, TypeOK
<1>. SUFFICES ASSUME Locked'
              PROVE  Ready'
  BY DEF Ready
<1>l. Locked /\ ~Start(p) /\ \A reviews \in SUBSET TaskIds : ~Expire(p, reviews)
  BY <1>0, LockedCount
<1>. DEFINE Good(q) == /\ at'[q] \notin {"loading", "checking"}
                       /\ at'[q] = "claiming" =>
                            \A t \in first'[q] :
                              /\ first'[q] = {t} /\ tasks'[q][t].deps = file'[t].deps
                              /\ \A d \in file'[t].deps :
                                   d # t /\ file'[d].status = "completed"
<1>r. \A q \in Procs :
        /\ at[q] \notin {"loading", "checking"}
        /\ at[q] = "claiming" =>
             \A t \in first[q] :
               /\ first[q] = {t} /\ tasks[q][t].deps = file[t].deps
               /\ \A d \in file[t].deps : d # t /\ file[d].status = "completed"
  BY <1>l DEF Ready
<1>o. \A q \in Procs \ {p} : /\ at'[q] = at[q] /\ tasks'[q] = tasks[q]
                             /\ first'[q] = first[q]
  BY <1>0, OthersKept
\* A step that writes nothing.
<1>q. ASSUME UNCHANGED file, Good(p)
      PROVE  Ready'
  <2>1. \A q \in Procs \ {p} : Good(q)
    BY <1>r, <1>o, <1>q
  <2>. QED  BY <1>q, <2>1 DEF Ready
<1>1. CASE Operation(p)
  <2>1. CASE Writes(p)
    <3>1. at'[p] = "writing" /\ UNCHANGED file
      BY <1>0, <2>1 DEF Writes, LockedStep
    <3>. QED  BY <1>q, <3>1
  <2>2. CASE Promises(p)
    <3>1. PICK new \in [TaskIds -> Entries], u \in TaskIds, o \in Owners :
            /\ LockedStep(p, "claiming", new, {u}, {})
            /\ file[u].status \in Active
            /\ ~Blocked(file[u]) /\ new[u].deps = file[u].deps
      BY <2>2 DEF Promises
    <3>2. /\ tasks'[p] = new /\ first'[p] = {u} /\ at'[p] = "claiming"
          /\ UNCHANGED file
      BY <1>0, <3>1 DEF LockedStep
    <3>3. \A d \in file[u].deps : file[d].status = "completed"
      BY <3>1 DEF Blocked
    <3>4. u \notin file[u].deps
      BY <3>1, <3>3 DEF Active
    <3>5. Good(p)
      BY <3>1, <3>2, <3>3, <3>4
    <3>. QED  BY <1>q, <3>2, <3>5
  <2>. QED  BY <1>0, <1>1, <2>1, <2>2, OperationSorts
<1>2. ASSUME NEW t \in TaskIds, Write(p, t) PROVE Ready'
  <2>1. \A q \in Procs : at[q] = "claiming" => q = p
    BY <1>l, <1>2, ClaimerWritesAlone
  <2>2. UNCHANGED <<at, tasks>> /\ first'[p] = first[p] \ {t}
        /\ t \in (IF first[p] # {} THEN first[p] ELSE last[p])
    BY <1>0, <1>2 DEF Write
  <2>3. at[p] = "claiming" => first'[p] = {}
    <3>1. at[p] = "claiming" => last[p] = {}
      BY DEF WritersInv, Writers
    <3>. QED  BY <1>r, <2>2, <3>1
  <2>. QED  BY <1>r, <2>1, <2>2, <2>3 DEF Ready
<1>3. CASE WriteFails(p)
  <2>1. UNCHANGED <<file, at>> /\ first'[p] = {}
    BY <1>0, <1>3 DEF WriteFails, diskVars
  <2>. QED  BY <1>q, <1>r, <2>1
<1>4. CASE Finish(p)
  <2>1. at'[p] = "ready" /\ UNCHANGED file
    BY <1>0, <1>4 DEF Finish
  <2>. QED  BY <1>q, <2>1
<1>5. ASSUME NEW t \in TaskIds, Load(p, t) PROVE FALSE
  BY <1>r, <1>5 DEF Load
<1>6. CASE Started(p)
  BY <1>r, <1>6 DEF Started
<1>7. CASE Crash(p)
  <2>1. at'[p] = "down" /\ UNCHANGED file
    BY <1>0, <1>7 DEF Crash
  <2>. QED  BY <1>q, <2>1
<1>. QED  BY <1>l, <1>1, <1>2, <1>3, <1>4, <1>5, <1>6, <1>7 DEF Process

\* Only a claim that is written, or that fails to be, promises a task.
LEMMA PromisesAreReady ==
  ASSUME WritersInv, Ready, NEW p \in Procs, Process(p), Locked',
         NEW t \in TaskIds, working'[t] \ working[t] # {}, NEW d \in file'[t].deps
  PROVE  file'[d].status = "completed"
<1>0. /\ TypeOK /\ file \in [TaskIds -> Entries] /\ tasks \in [Procs -> [TaskIds -> Entries]]
      /\ working \in [TaskIds -> SUBSET (Procs \X Owners)]
  BY DEF WritersInv, TypeOK
<1>l. Locked /\ ~Start(p) /\ \A reviews \in SUBSET TaskIds : ~Expire(p, reviews)
  BY <1>0, LockedCount
<1>r. /\ at[p] \notin {"loading", "checking"}
      /\ at[p] = "claiming" =>
           \A u \in first[p] :
             /\ first[p] = {u} /\ tasks[p][u].deps = file[u].deps
             /\ \A e \in file[u].deps : e # u /\ file[e].status = "completed"
  BY <1>l DEF Ready
<1>1. CASE Operation(p)
  <2>1. ASSUME NEW doing, NEW new, NEW before, NEW after,
               LockedStep(p, doing, new, before, after)
        PROVE  UNCHANGED working
    BY <2>1 DEF LockedStep
  <2>2. UNCHANGED working
    BY <1>0, <1>1, <2>1, OperationSorts DEF Writes, Promises
  <2>. QED  BY <2>2
<1>2. ASSUME NEW u \in TaskIds, Write(p, u) PROVE file'[d].status = "completed"
  <2>1. /\ working' = [working EXCEPT ![u] = WorkingAfter(p, u)]
        /\ file' = [file EXCEPT ![u] = tasks[p][u]]
        /\ u \in (IF first[p] # {} THEN first[p] ELSE last[p])
    BY <1>2 DEF Write
  <2>2. u = t
    BY <1>0, <2>1
  <2>3. at[p] = "claiming"
    BY <1>0, <2>1, <2>2 DEF WorkingAfter
  <2>4. last[p] = {}
    BY <2>3 DEF WritersInv, Writers
  <2>5. t \in first[p] /\ file'[t] = tasks[p][t]
    BY <1>0, <2>1, <2>2, <2>4
  <2>6. d # t /\ file[d].status = "completed"
    BY <1>r, <2>3, <2>5
  <2>7. file'[d] = file[d]
    BY <1>0, <2>1, <2>2, <2>6
  <2>. QED  BY <2>6, <2>7
<1>3. CASE WriteFails(p)
  <2>1. at[p] = "claiming" /\ t \in first[p] /\ UNCHANGED file
    BY <1>0, <1>3 DEF WriteFails, diskVars
  <2>. QED  BY <1>r, <2>1
<1>4. CASE Finish(p) \/ Started(p)
  BY <1>4 DEF Finish, Started, histVars
<1>5. ASSUME NEW u \in TaskIds, Load(p, u) PROVE FALSE
  BY <1>r, <1>5 DEF Load
<1>6. CASE Crash(p)
  BY <1>0, <1>6 DEF Crash
<1>. QED  BY <1>l, <1>1, <1>2, <1>3, <1>4, <1>5, <1>6 DEF Process

\* An agent is told that a task is his only when all that the task waits for is
\* completed, whichever processes meanwhile reopen, delete or crash (the property
\* ClaimsWaitForDependencies of the runs).
THEOREM ClaimsWait == Spec => ClaimsWaitForDependencies
<1>. DEFINE Inv == WritersInv /\ Ready
            Waits == Locked' => \A t \in TaskIds :
                       working'[t] \ working[t] # {} =>
                         \A d \in file'[t].deps : file'[d].status = "completed"
<1>1. Init => Inv
  <2>1. ASSUME Init, NEW p \in Procs PROVE at[p] \in {"ready", "down"}
    BY <2>1 DEF Init
  <2>2. Init => Ready
    BY <2>1 DEF Ready
  <2>. QED  BY <2>2, WritersInvInit
<1>2. Inv /\ [Next]_vars => Inv'
  <2>1. ASSUME Inv, NEW p \in Procs, Process(p), UNCHANGED remote PROVE Ready'
    BY <2>1, ReadyKept
  <2>2. ASSUME Inv, UNCHANGED vars PROVE Ready'
    BY <2>2 DEF Ready, Locked, vars, diskVars, procVars
  <2>. QED  BY <2>1, <2>2, WritersInvNext DEF Next
<1>3. Inv /\ [Next]_vars => [Waits]_vars
  <2>1. ASSUME Inv, NEW p \in Procs, Process(p) PROVE Waits
    BY <2>1, PromisesAreReady
  <2>. QED  BY <2>1 DEF Next
<1>4. Waits <=> (used'.starts = 0 /\ used'.reviews = 0 =>
                   \A t \in TaskIds :
                     working'[t] \ working[t] # {} =>
                       \A d \in file'[t].deps : file'[d].status = "completed")
  BY DEF Locked
<1>. QED  BY <1>1, <1>2, <1>3, <1>4, PTL DEF Spec, ClaimsWaitForDependencies

=============================================================================
