------------------------------ MODULE TaskStore ------------------------------
(***************************************************************************)
(* The task list of crates/cc-tasks: a directory with a file per task, a   *)
(* high-water mark for identifiers and a lock file, which the processes of *)
(* a team share (store.rs, repository.rs, lists.rs, lifecycle.rs).         *)
(*                                                                         *)
(* An operation that changes tasks takes the lock, reads the directory,    *)
(* decides (in one step here), and writes the changed files one by one.    *)
(* Two things write without the lock: the recovery a process runs as it    *)
(* starts, and the timeout of a remote review that a reader notices.  A    *)
(* process may crash between any two writes.  The files are of the current *)
(* schema: a third write without the lock, in which whoever loads a file   *)
(* of an older one converts it, is left out.                               *)
(*                                                                         *)
(* A process runs one operation at a time.  The copy of the list it keeps  *)
(* between operations is refreshed before it is used, and is left out.  An *)
(* operation that is refused changes nothing and is left out, and so are   *)
(* texts, retained output, times and the fallback to random identifiers.   *)
(***************************************************************************)
EXTENDS Naturals, FiniteSetsExt

CONSTANTS
  Procs,    \* the processes that share the list
  Owners,   \* the agents that claim tasks
  NoOwner,  \* an unclaimed task's owner
  MaxTasks, \* bound: identifiers that may be given away
  MaxOps,   \* bound: operations under the lock
  MaxCrashes, MaxStarts, MaxFailures, MaxReviews   \* bounds on the rest

ASSUME TaskStoreAssumption ==
  /\ NoOwner \notin Owners /\ {"free", "stale"} \cap Procs = {}
  /\ MaxTasks \in Nat /\ MaxOps \in Nat /\ MaxCrashes \in Nat
  /\ MaxStarts \in Nat /\ MaxFailures \in Nat /\ MaxReviews \in Nat

VARIABLES
  remote,    \* which tasks are remote agents: known beforehand, never changed
  file,      \* the task files
  watermark, \* .highwatermark: the highest identifier given away
  lock,      \* .lock: whose it is, "free", or "stale" when its owner is dead
  at,        \* what each process is doing
  tasks,     \* the tasks each process has read and changed, to be written
  first,     \* the tasks a process has yet to write ...
  last,      \* ... and those it writes after them
  unread,    \* the files a starting process has yet to read
  working,   \* who has been told that a task is his (a history variable)
  born,      \* how often an identifier was given away (a history variable)
  unchecked, \* a task was taken without the busy check (a history variable)
  used       \* how much of the bounds is used up

diskVars == <<file, watermark, lock>>
procVars == <<at, tasks, first, last, unread>>
histVars == <<working, born, unchecked>>
vars == <<remote, diskVars, procVars, histVars, used>>

TaskIds == 1 .. MaxTasks

-----------------------------------------------------------------------------
(* Tasks.                                                                  *)

Active   == {"pending", "in_progress", "recoverable"}
Terminal == {"completed", "failed", "cancelled", "interrupted"}

Entries == [status : Active \cup Terminal \cup {"absent"},
            owner : Owners \cup {NoOwner}, deps : SUBSET TaskIds]

Absent == [status |-> "absent", owner |-> NoOwner, deps |-> {}]
NoTasks == [t \in TaskIds |-> Absent]

\* A variant that gives a recovered task back to whoever asks.
RecoveredAnew(t) == [file[t] EXCEPT !.status = "pending", !.owner = NoOwner]

\* recover_task_after_restart
Recovered(t) ==
  [file[t] EXCEPT !.status = IF t \in remote THEN "recoverable" ELSE "interrupted"]

\* highest_numeric_task_id
Existing == {t \in TaskIds : file[t] # Absent}

\* A variant that forgets identifiers whose tasks are deleted.
NextIdOfFiles == Max(Existing \cup {0}) + 1

\* reserve_next_task_id
NextId == Max(Existing \cup {watermark}) + 1

\* blocked_dependencies_with_tasks: a task that does not exist blocks too.
Blocked(task) == \E d \in task.deps : file[d].status # "completed"

\* claim_task's agent_busy
Busy(o, t) ==
  \E u \in TaskIds \ {t} : file[u].status \in Active /\ file[u].owner = o

Init ==
  /\ remote \in SUBSET TaskIds
  /\ file = NoTasks /\ watermark = 0 /\ lock = "free"
  /\ at \in [Procs -> {"ready", "down"}]   \* who has started is open
  /\ tasks = [p \in Procs |-> NoTasks]
  /\ first = [p \in Procs |-> {}] /\ last = [p \in Procs |-> {}]
  /\ unread = [p \in Procs |-> {}]
  /\ working = [t \in TaskIds |-> {}] /\ born = [t \in TaskIds |-> 0]
  /\ unchecked = FALSE
  /\ used = [ops |-> 0, crashes |-> 0, starts |-> 0, failures |-> 0, reviews |-> 0]

-----------------------------------------------------------------------------
(* Operations under the lock.  The step that takes the lock also reads the *)
(* directory and decides; the writes follow in steps of their own.         *)

\* A variant that does not take the lock.
UnlockedStep(p, doing, new, before, after) ==
  /\ at[p] = "ready" /\ used.ops < MaxOps
  /\ at' = [at EXCEPT ![p] = doing]
  /\ tasks' = [tasks EXCEPT ![p] = new]
  /\ first' = [first EXCEPT ![p] = before] /\ last' = [last EXCEPT ![p] = after]
  /\ used' = [used EXCEPT !.ops = @ + 1]
  /\ UNCHANGED <<file, lock, unread, working>>

\* p takes the lock to turn the tasks it reads into others, of which it writes
\* those in before, in any order, and then those in after.
LockedStep(p, doing, new, before, after) ==
  /\ at[p] = "ready" /\ lock = "free" /\ used.ops < MaxOps
  /\ lock' = p
  /\ at' = [at EXCEPT ![p] = doing]
  /\ tasks' = [tasks EXCEPT ![p] = new]
  /\ first' = [first EXCEPT ![p] = before] /\ last' = [last EXCEPT ![p] = after]
  /\ used' = [used EXCEPT !.ops = @ + 1]
  /\ UNCHANGED <<file, unread, working>>

Create(p, owner, deps) ==
  LET t == NextId
      task == [status |-> "pending", owner |-> owner, deps |-> deps]
  IN
  /\ t \in TaskIds
  /\ LockedStep(p, "writing", [file EXCEPT ![t] = task], {t}, {})
  /\ watermark' = t
  /\ born' = [born EXCEPT ![t] = @ + 1]
  /\ unchecked' = (unchecked \/ owner # NoOwner)

\* claim_task
Claim(p, t, o, checkBusy) ==
  /\ file[t].status \in Active /\ file[t].owner \in {NoOwner, o}
  /\ ~Blocked(file[t])
  /\ checkBusy => ~Busy(o, t)
  /\ LockedStep(p, "claiming",
                [file EXCEPT ![t].status = "in_progress", ![t].owner = o], {t}, {})
  /\ unchecked' = (unchecked \/ ~checkBusy)
  /\ UNCHANGED <<watermark, born>>

\* try_update_status, and try_stop with "cancelled": whatever the task was.
SetStatus(p, t, status) ==
  /\ file[t] # Absent
  /\ LockedStep(p, "writing", [file EXCEPT ![t].status = status], {t}, {})
  /\ unchecked' = (unchecked \/ (status \in Active /\ file[t].status \notin Active))
  /\ UNCHANGED <<watermark, born>>

\* try_update_fields: another owner, tasks t waits for, tasks that wait for t.
\* append_output too writes the task back as it was read.
SetFields(p, t, owner, blockedBy, blocks) ==
  LET waiting == {u \in blocks \ {t} : file[u] # Absent /\ t \notin file[u].deps}
  IN
  /\ file[t] # Absent
  /\ LockedStep(p, "writing",
       [u \in TaskIds |->
          CASE u = t -> [file[t] EXCEPT !.owner = owner,
                                        !.deps = @ \cup (blockedBy \ {t})]
            [] u \in waiting -> [file[u] EXCEPT !.deps = @ \cup {t}]
            [] OTHER -> file[u]],
       waiting, {t})
  /\ unchecked' = (unchecked \/ owner # file[t].owner)
  /\ UNCHANGED <<watermark, born>>

\* try_delete: the file goes, then the dependencies on it.
Delete(p, t) ==
  LET dependent == {u \in TaskIds \ {t} : t \in file[u].deps}
  IN
  /\ file[t] # Absent
  /\ LockedStep(p, "writing",
       [u \in TaskIds |-> IF u = t THEN Absent ELSE [file[u] EXCEPT !.deps = @ \ {t}]],
       {t}, dependent)
  /\ UNCHANGED <<watermark, born, unchecked>>

\* try_unassign_teammate_tasks
Unassign(p, o) ==
  LET released == {t \in TaskIds : file[t].owner = o /\ file[t].status \in Active}
  IN
  /\ released # {}
  /\ LockedStep(p, "writing",
       [t \in TaskIds |-> IF t \in released
                          THEN [file[t] EXCEPT !.status = "pending", !.owner = NoOwner]
                          ELSE file[t]],
       released, {})
  /\ UNCHANGED <<watermark, born, unchecked>>

-----------------------------------------------------------------------------
(* Writing.                                                                *)

\* A variant that remembers the process only.
WorkingProcesses(p, t) == IF at[p] = "claiming" THEN working[t] \cup {p} ELSE {}

\* Who works on t once p has written it: a claim adds its owner; an end and a
\* change of owner by an operation take the task away.
WorkingAfter(p, t) ==
  IF at[p] = "claiming" THEN working[t] \cup {<<p, tasks[p][t].owner>>}
  ELSE IF \/ tasks[p][t].status \notin Active
          \/ at[p] = "writing" /\ tasks[p][t].owner # file[t].owner
       THEN {} ELSE working[t]

\* persist_entry, or delete for a task that is gone: the file is replaced.
Write(p, t) ==
  /\ t \in (IF first[p] # {} THEN first[p] ELSE last[p])
  /\ file' = [file EXCEPT ![t] = tasks[p][t]]
  /\ working' = [working EXCEPT ![t] = WorkingAfter(p, t)]
  /\ first' = [first EXCEPT ![p] = @ \ {t}]
  /\ last' = [last EXCEPT ![p] = IF first[p] # {} THEN @ ELSE @ \ {t}]
  /\ UNCHANGED <<watermark, lock, at, tasks, unread, born, unchecked, used>>

\* A write fails: the rest is not written.  claim_task only warns, and grants
\* the task.
WriteFails(p) ==
  /\ first[p] \cup last[p] # {} /\ used.failures < MaxFailures
  /\ used' = [used EXCEPT !.failures = @ + 1]
  /\ first' = [first EXCEPT ![p] = {}] /\ last' = [last EXCEPT ![p] = {}]
  /\ working' = [t \in TaskIds |->
       IF at[p] = "claiming" /\ t \in first[p]
       THEN working[t] \cup {<<p, tasks[p][t].owner>>} ELSE working[t]]
  /\ UNCHANGED <<diskVars, at, tasks, unread, born, unchecked>>

\* The guard is dropped and the lock file removed.
Finish(p) ==
  /\ at[p] \in {"writing", "claiming", "checking"} /\ first[p] \cup last[p] = {}
  /\ at' = [at EXCEPT ![p] = "ready"]
  /\ lock' = IF lock = p THEN "free" ELSE lock
  /\ tasks' = [tasks EXCEPT ![p] = NoTasks]
  /\ UNCHANGED <<file, watermark, first, last, unread, histVars, used>>

-----------------------------------------------------------------------------
(* Writes without the lock.                                                *)

\* get and list: refresh_remote_review_timeout finds reviews that have been
\* waiting for more than REMOTE_REVIEW_TIMEOUT_MS.  Its metadata can make any
\* task a review, also one that recovery does not take for remote.
Expire(p, reviews) ==
  /\ at[p] = "ready" /\ used.reviews < MaxReviews
  /\ reviews # {} /\ \A t \in reviews : file[t].status \in Active
  /\ used' = [used EXCEPT !.reviews = @ + 1]
  /\ at' = [at EXCEPT ![p] = "checking"]
  /\ tasks' = [tasks EXCEPT ![p] =
       [t \in TaskIds |-> IF t \in reviews THEN [file[t] EXCEPT !.status = "failed"]
                          ELSE file[t]]]
  /\ first' = [first EXCEPT ![p] = reviews]
  /\ UNCHANGED <<diskVars, last, unread, histVars>>

\* with_dir: a process starts and lists the directory.
Start(p) ==
  /\ at[p] = "down" /\ used.starts < MaxStarts
  /\ used' = [used EXCEPT !.starts = @ + 1]
  /\ at' = [at EXCEPT ![p] = "loading"]
  /\ unread' = [unread EXCEPT ![p] = Existing]
  /\ UNCHANGED <<diskVars, tasks, first, last, histVars>>

\* load_entry reads a file; an active task is recovered and written back.
Load(p, t) ==
  /\ at[p] = "loading" /\ first[p] = {} /\ t \in unread[p]
  /\ unread' = [unread EXCEPT ![p] = @ \ {t}]
  /\ IF file[t].status \in Active
     THEN /\ tasks' = [tasks EXCEPT ![p] = [NoTasks EXCEPT ![t] = Recovered(t)]]
          /\ first' = [first EXCEPT ![p] = {t}]
     ELSE UNCHANGED <<tasks, first>>
  /\ UNCHANGED <<diskVars, at, last, histVars, used>>

Started(p) ==
  /\ at[p] = "loading" /\ first[p] = {} /\ unread[p] = {}
  /\ at' = [at EXCEPT ![p] = "ready"]
  /\ tasks' = [tasks EXCEPT ![p] = NoTasks]
  /\ UNCHANGED <<diskVars, first, last, unread, histVars, used>>

\* A process dies, and whoever works in it; its lock file stays.
Crash(p) ==
  /\ at[p] # "down" /\ used.crashes < MaxCrashes
  /\ used' = [used EXCEPT !.crashes = @ + 1]
  /\ at' = [at EXCEPT ![p] = "down"]
  /\ lock' = IF lock = p THEN "stale" ELSE lock
  /\ tasks' = [tasks EXCEPT ![p] = NoTasks]
  /\ first' = [first EXCEPT ![p] = {}] /\ last' = [last EXCEPT ![p] = {}]
  /\ unread' = [unread EXCEPT ![p] = {}]
  /\ working' = [t \in TaskIds |-> {w \in working[t] : w[1] # p}]
  /\ UNCHANGED <<file, watermark, born, unchecked>>

-----------------------------------------------------------------------------
(* The specification.  Of the statuses an operation may set, one of each   *)
(* sort: unfinished, finished with success, finished without it.           *)

NewStatuses == {"pending", "completed", "cancelled"}
SomeTasks == {{}} \cup {{t} : t \in TaskIds}

\* What try_update_fields may be asked for, one field at a time.
FieldChanges(t) ==
  {<<o, {}, {}>> : o \in Owners \cup {NoOwner}}
    \cup {<<file[t].owner, {u}, {}>> : u \in TaskIds \ {t}}
    \cup {<<file[t].owner, {}, {u}>> : u \in TaskIds \ {t}}

Operation(p) ==
  \/ \E owner \in Owners \cup {NoOwner}, deps \in SomeTasks : Create(p, owner, deps)
  \/ \E t \in TaskIds, o \in Owners, checkBusy \in BOOLEAN : Claim(p, t, o, checkBusy)
  \/ \E t \in TaskIds, status \in NewStatuses : SetStatus(p, t, status)
  \/ \E t \in TaskIds : \E c \in FieldChanges(t) : SetFields(p, t, c[1], c[2], c[3])
  \/ \E t \in TaskIds : Delete(p, t)
  \/ \E o \in Owners : Unassign(p, o)

Process(p) ==
  \/ Operation(p)
  \/ \E t \in TaskIds : Write(p, t)
  \/ WriteFails(p)
  \/ Finish(p)
  \/ \E reviews \in SUBSET TaskIds : Expire(p, reviews)
  \/ Start(p) \/ (\E t \in TaskIds : Load(p, t)) \/ Started(p)
  \/ Crash(p)

Next == (\E p \in Procs : Process(p)) /\ UNCHANGED remote

Spec == Init /\ [][Next]_vars

-----------------------------------------------------------------------------
(* What the list promises.                                                 *)

Places == {"down", "loading", "ready", "writing", "claiming", "checking"}

\* Every variable has its type.
TypeOK ==
  /\ remote \in SUBSET TaskIds
  /\ file \in [TaskIds -> Entries] /\ watermark \in 0 .. MaxTasks
  /\ lock \in Procs \cup {"free", "stale"}
  /\ at \in [Procs -> Places] /\ tasks \in [Procs -> [TaskIds -> Entries]]
  /\ first \in [Procs -> SUBSET TaskIds] /\ last \in [Procs -> SUBSET TaskIds]
  /\ unread \in [Procs -> SUBSET TaskIds]
  /\ working \in [TaskIds -> SUBSET (Procs \X Owners)]
  /\ born \in [TaskIds -> Nat] /\ unchecked \in BOOLEAN
  /\ used \in [ops : Nat, crashes : Nat, starts : Nat, failures : Nat, reviews : Nat]

\* An identifier is given away once, whatever is deleted, crashes or starts.
IdsNeverReused == \A t \in TaskIds : born[t] <= 1

\* As long as no write fails, a local task that runs in some process has been
\* promised to one agent only, although processes start, recover and expire
\* tasks without the lock.
ClaimsExclusive ==
  used.failures = 0 =>
    \A t \in TaskIds \ remote : \A v, w \in working[t] : v[2] = w[2]

\* An agent whose tasks all come from claims with the busy check has at most one
\* unfinished local task, across all processes.
OneTaskPerOwner ==
  ~unchecked =>
    \A s, t \in TaskIds \ remote :
      /\ file[s].status \in Active /\ file[t].status \in Active
      /\ file[s].owner = file[t].owner /\ file[s].owner # NoOwner
      => s = t

\* A task is promised only once all it waits for is completed, and until it is
\* promised nobody reopens or deletes one of these.  Starts and review timeouts,
\* which write without the lock what they have read before, may.
ClaimsWaitForDependencies ==
  [][used'.starts = 0 /\ used'.reviews = 0 =>
       \A t \in TaskIds :
         working'[t] \ working[t] # {} =>
           \A d \in file'[t].deps : file'[d].status = "completed"]_vars

\* A task is interrupted only when no live process works on it.
InterruptedWithoutWorker ==
  [][\A t \in TaskIds :
       file[t].status = "in_progress" /\ file'[t].status = "interrupted" =>
         working[t] = {}]_vars

=============================================================================
