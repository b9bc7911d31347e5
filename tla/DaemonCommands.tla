--------------------------- MODULE DaemonCommands ---------------------------
(***************************************************************************)
(* The command files through which crates/cc-daemon's HTTP server asks its *)
(* worker to do something (protocol.rs).  A file per command, read in the  *)
(* order of their creation; nothing is ever removed and nothing is locked. *)
(***************************************************************************)
EXTENDS Naturals, Sequences, FiniteSets

VARIABLE commands   \* the command files of the worker, oldest first

CommandKinds == {"submit", "abort"}
CommandStatuses == {"pending", "acked", "handled", "failed"}

CommandsInit == commands = <<>>

\* enqueue_command, after its search for the key
Enqueue(kind, run, key) ==
  commands' = Append(commands,
                     [kind |-> kind, run |-> run, key |-> key, status |-> "pending"])

\* find_command_by_idempotency_key: the key alone, not where it came from.
HasCommand(key) == \E i \in DOMAIN commands : commands[i].key = key

\* A variant that waits for the end of the command before.
NextInOrder == {i \in DOMAIN commands :
                  /\ commands[i].status = "pending"
                  /\ \A j \in 1 .. i - 1 : commands[j].status \in {"handled", "failed"}}

\* claim_next_pending_command reads the directory: the oldest pending one.
NextPending == {i \in DOMAIN commands :
                  /\ commands[i].status = "pending"
                  /\ \A j \in 1 .. i - 1 : commands[j].status # "pending"}

\* transition_command and write_command: whatever the status was.
SetStatus(i, status) == commands' = [commands EXCEPT ![i].status = status]

\* What the busy snapshot counts.
ActiveSubmits == Cardinality({i \in DOMAIN commands :
                                /\ commands[i].kind = "submit"
                                /\ commands[i].status \in {"pending", "acked"}})
=============================================================================
