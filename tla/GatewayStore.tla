---------------------------- MODULE GatewayStore ----------------------------
(***************************************************************************)
(* The durable runs of crates/gateway: for every run a directory with      *)
(* meta.json and events.ndjson, and an index from idempotency keys to      *)
(* runs (store.rs, store/recovery.rs, run.rs).  The store has no lock:     *)
(* each definition here is one write that other processes may precede or   *)
(* follow, and GatewayRuns puts them in order.                             *)
(*                                                                         *)
(* A run has the name of the request that created it.  Of the events only  *)
(* the first and those of a terminal status are kept: the code reads       *)
(* whether there is a log, and whether it tells of the run's end.          *)
(***************************************************************************)
EXTENDS Naturals, Sequences

CONSTANTS
  Requests,  \* the submissions, and the runs created for them
  Sources,   \* where submissions come from
  Keys,      \* the idempotency keys that clients choose
  NoKey,     \* the submission carries none, and is like no other
  None       \* no run, no answer, no slot

VARIABLES
  index,     \* the idempotency directory: the run that a slot is reserved for
  dir,       \* the runs that have a directory
  meta,      \* the status in each run's meta.json, None if there is no file
  told       \* what each run's events.ndjson reports; {} if there is no file

storeVars == <<index, dir, meta, told>>

\* idempotency_hash: the source is part of the name of the index file.
Slots == Sources \X Keys

Statuses == {"queued", "running", "waiting_approval", "waiting_user",
             "completed", "failed", "cancelled", "recoverable"}
Terminal == {"completed", "failed", "cancelled"}
Waiting  == {"waiting_approval", "waiting_user"}

CanTransition(from, to) ==
  \/ from = to
  \/ from = "queued" /\ to \in {"running", "cancelled", "failed"}
  \/ from = "running" /\ to \in Waiting \cup Terminal \cup {"recoverable"}
  \/ from \in Waiting /\ to \in {"running", "recoverable"} \cup Terminal
  \/ from = "recoverable" /\ to \in {"queued", "running", "failed", "cancelled"}

StoreInit ==
  /\ index = [s \in Slots |-> None]
  /\ dir = {}
  /\ meta = [r \in Requests |-> None]
  /\ told = [r \in Requests |-> {}]

\* A variant that renames the new index file over an old one.
ReserveOver(s, r) == index' = [index EXCEPT ![s] = r]

\* hard_link of the temporary file: it fails when the index file exists.
Reserve(s, r) ==
  /\ index[s] = None
  /\ index' = [index EXCEPT ![s] = r]

MakeDir(r) == dir' = dir \cup {r}

\* write_meta: the new file replaces the old one in one rename.
WriteMeta(r, status) == meta' = [meta EXCEPT ![r] = status]

\* append_event, for the event a run starts with and for a new status.  Its
\* writes are one step here: lines of two processes are not mixed.
AppendEvent(r, event) ==
  told' = [told EXCEPT ![r] = @ \cup ({event} \cap (Terminal \cup {"created"}))]

\* next_sequence reads the log first, which fails when there is none.
HasLog(r) == told[r] # {}

\* has_terminal_status_event
ToldTheEnd(r) == told[r] \cap Terminal # {}

\* list_runs: it loads the metadata behind every directory or fails.
Listable == \A r \in dir : meta[r] # None
=============================================================================
