----------------------------- MODULE McpClient -----------------------------
(***************************************************************************)
(* Tool calls to an MCP server over stdio (crates/cc-mcp): requests with   *)
(* identifiers, the task that reads the answers, and the manager whose     *)
(* mutex a call holds from beginning to end and under which the server is  *)
(* connected again or dropped.                                             *)
(*                                                                         *)
(* A request is a process.  Those of a connection are the two of its       *)
(* handshake and the calls that are made over it.  A step ends where the   *)
(* request awaits: a call is a tool's task, and dropped there when the     *)
(* response it belongs to is given up (QueryLoop).                         *)
(***************************************************************************)
EXTENDS Naturals, Sequences

CONSTANTS
  Calls,       \* the tool calls
  Initialize,  \* the first request of a connection
  ListTools,   \* the second one
  Manager,     \* who connects and disconnects
  NoOne,       \* nobody, or nothing
  Closed,      \* what a request gets when its connection is closed
  Null,        \* what it gets from a line that has its number and no result
  ServerIds,   \* the numbers that the server gives its own requests
  Attempts,    \* CONNECT_RETRY_ATTEMPTS
  MaxOps       \* how often the user asks to connect or disconnect

Handshake == {Initialize, ListTools}
Requests  == Calls \cup Handshake

ASSUME McpAssumption ==
  /\ Handshake \cap Calls = {} /\ Initialize # ListTools
  /\ Manager \notin Requests
  /\ NoOne \notin Requests \cup {Manager} /\ Closed \notin Requests \cup {NoOne}
  /\ Null \notin Requests \cup {NoOne, Closed} /\ ServerIds \subseteq Nat
  /\ Attempts \in Nat \ {0} /\ MaxOps \in Nat

VARIABLES
  lock,      \* who holds the manager's mutex
  known,     \* the manager has a client for the server
  man,       \* where the manager's operation is
  wish,      \* what it is to do
  tries,     \* how often it has failed to connect
  ops,       \* how many operations there have been
  next,      \* next_id
  pending,   \* identifiers, and the requests that wait for their answers
  at,        \* where each request is
  id,        \* its identifier
  mail,      \* what its channel holds: nothing, Closed, Null, or whose answer
  line,      \* whose texts the server has got since the last end of a line
  served,    \* the requests that the server has read
  alive,     \* the server's process
  reading,   \* the task that reads the answers
  answered   \* requests whose answer it has read (a history variable)

manVars  == <<man, wish, tries, ops>>
pipeVars == <<line, served, alive, reading>>
vars == <<lock, known, manVars, next, pending, at, id, mail, pipeVars, answered>>

Entries == [id : Nat, of : Requests]
Writing == {"write", "torn", "flush"}
Active  == Writing \cup {"wait", "broken", "late"}
Ended   == {"ok", "failed", "dropped"}
Places  == {"new", "lock", "ready"} \cup Active \cup Ended
Stages  == {"idle", "lock", "drop", "connect", "initialize", "notify", "list"}

\* Start-up has connected the server and found its tools.
Init ==
  /\ lock = NoOne /\ known = TRUE
  /\ man = "idle" /\ wish = "connect" /\ tries = 0 /\ ops = 0
  /\ at = [r \in Requests |-> IF r \in Handshake THEN "ok" ELSE "new"]
  /\ id = [r \in Requests |-> IF r = Initialize THEN 1 ELSE IF r = ListTools THEN 2 ELSE 0]
  /\ mail = [r \in Requests |-> IF r \in Handshake THEN r ELSE NoOne]
  /\ next = 3 /\ pending = {}
  /\ line = <<>> /\ served = {[id |-> id[r], of |-> r] : r \in Handshake}
  /\ alive = TRUE /\ reading = TRUE
  /\ answered = Handshake

GoOn(r, l) == at' = [at EXCEPT ![r] = l]

\* A request ends; a call gives the mutex back.
End(r, l) ==
  /\ GoOn(r, l)
  /\ lock' = IF r \in Calls THEN NoOne ELSE lock

Entry(r)  == [id |-> id[r], of |-> r]
Forget(r) == pending' = {e \in pending : e.id # id[r]}

\* What those get who wait when the connection is closed.
CloseMail == mail' = [r \in Requests |-> IF \E e \in pending : e.of = r THEN Closed ELSE mail[r]]

-----------------------------------------------------------------------------
(* A call, and send_request_with_timeout.                                  *)

\* The tool's task waits for the mutex.
Call(c) ==
  /\ at[c] = "new"
  /\ GoOn(c, "lock")
  /\ UNCHANGED <<lock, known, manVars, next, pending, id, mail, pipeVars, answered>>

TakeLock(c) ==
  /\ at[c] = "lock" /\ lock = NoOne
  /\ IF known THEN GoOn(c, "ready") /\ lock' = c
              ELSE GoOn(c, "failed") /\ UNCHANGED lock
  /\ UNCHANGED <<known, manVars, next, pending, id, mail, pipeVars, answered>>

\* A variant that uses the next identifier without counting on.
RegisterAgain(r) ==
  /\ at[r] = "ready"
  /\ id' = [id EXCEPT ![r] = next]
  /\ pending' = {e \in pending : e.id # next} \cup {[id |-> next, of |-> r]}
  /\ GoOn(r, "write")
  /\ UNCHANGED <<lock, known, manVars, next, mail, pipeVars, answered>>

\* The request is known to the reader before it is sent.
Register(r) ==
  /\ at[r] = "ready"
  /\ id' = [id EXCEPT ![r] = next]
  /\ next' = next + 1
  /\ pending' = {e \in pending : e.id # next} \cup {[id |-> next, of |-> r]}
  /\ GoOn(r, "write")
  /\ UNCHANGED <<lock, known, manVars, mail, pipeVars, answered>>

\* write_all to a pipe that is full by now, or takes it all.
BeginLine(r) ==
  /\ at[r] = "write" /\ alive
  /\ line' = Append(line, r)
  /\ GoOn(r, "torn")
  /\ UNCHANGED <<lock, known, manVars, next, pending, id, mail, served, alive, reading, answered>>

\* The rest, and the end of the line.  The server makes nothing of a line with
\* another text before this one.
EndLine(r) ==
  /\ at[r] = "torn" /\ alive
  /\ served' = IF line = <<r>> THEN served \cup {Entry(r)} ELSE served
  /\ line' = <<>>
  /\ GoOn(r, "flush")
  /\ UNCHANGED <<lock, known, manVars, next, pending, id, mail, alive, reading, answered>>

Flush(r) ==
  /\ at[r] = "flush" /\ alive
  /\ GoOn(r, "wait")
  /\ UNCHANGED <<lock, known, manVars, next, pending, id, mail, pipeVars, answered>>

WriteFails(r) ==
  /\ at[r] \in Writing /\ ~alive
  /\ GoOn(r, "broken")
  /\ UNCHANGED <<lock, known, manVars, next, pending, id, mail, pipeVars, answered>>

\* The timeout is for the answer, and not for the write.
TimeOut(r) ==
  /\ at[r] = "wait"
  /\ GoOn(r, "late")
  /\ UNCHANGED <<lock, known, manVars, next, pending, id, mail, pipeVars, answered>>

GiveUp(r) ==
  /\ at[r] \in {"broken", "late"}
  /\ Forget(r)
  /\ End(r, "failed")
  /\ UNCHANGED <<known, manVars, next, id, mail, pipeVars, answered>>

\* The answer may be an error, or not what is expected, as Null never is.
Receive(r) ==
  /\ at[r] = "wait" /\ mail[r] # NoOne
  /\ \/ mail[r] \notin {Closed, Null} /\ End(r, "ok")
     \/ End(r, "failed")
  /\ UNCHANGED <<known, manVars, next, pending, id, mail, pipeVars, answered>>

\* The tool's task is dropped where it awaits.  Its entry stays, and so does
\* what it has written of a line.
Drop(c) ==
  /\ at[c] \in {"lock", "ready"} \cup Active
  /\ IF at[c] = "lock" THEN GoOn(c, "dropped") /\ UNCHANGED lock ELSE End(c, "dropped")
  /\ UNCHANGED <<known, manVars, next, pending, id, mail, pipeVars, answered>>

-----------------------------------------------------------------------------
(* The server, and reader_loop.                                            *)

\* A line with a number is for whoever waits under this number: dispatch_response
\* sees neither the line's method nor that it may have no result.
Deliver(n, m) ==
  /\ reading
  /\ mail' = [r \in Requests |->
                IF \E p \in pending : p.id = n /\ p.of = r THEN m ELSE mail[r]]
  /\ pending' = {p \in pending : p.id # n}
  /\ UNCHANGED <<lock, known, manVars, next, at, id, pipeVars>>

\* The server answers what it has read, in any order, twice or never.
Dispatch(e) ==
  /\ e \in served
  /\ Deliver(e.id, e.of)
  /\ answered' = answered \cup {e.of}

\* It makes requests too, such as ping or the roots/list that initialize invites,
\* with numbers of its own.  The reader takes them for answers.
DispatchRequest(n) ==
  /\ Deliver(n, Null)
  /\ UNCHANGED answered

ServerDies ==
  /\ alive
  /\ alive' = FALSE
  /\ UNCHANGED <<lock, known, manVars, next, pending, at, id, mail, line, served, reading,
                 answered>>

\* The end of the output, or a line that is not UTF-8.
ReaderExits ==
  /\ reading
  /\ reading' = FALSE
  /\ CloseMail
  /\ pending' = {}
  /\ UNCHANGED <<lock, known, manVars, next, at, id, line, served, alive, answered>>

-----------------------------------------------------------------------------
(* The manager: /mcp connect, reconnect and disconnect.                    *)

Ask(w) ==
  /\ man = "idle" /\ ops < MaxOps
  /\ ops' = ops + 1
  /\ wish' = w /\ man' = "lock"
  /\ UNCHANGED <<lock, known, tries, next, pending, at, id, mail, pipeVars, answered>>

ManagerLocks ==
  /\ man = "lock" /\ lock = NoOne
  /\ lock' = Manager
  /\ man' = "drop" /\ tries' = 0
  /\ UNCHANGED <<known, wish, ops, next, pending, at, id, mail, pipeVars, answered>>

\* McpClient::disconnect: the pipes and the process go, and so does the client.
Disconnect ==
  /\ CloseMail
  /\ pending' = {}
  /\ line' = <<>> /\ served' = {} /\ alive' = FALSE /\ reading' = FALSE

\* Whatever is to come, the client of before is dropped.
DropClient ==
  /\ man = "drop"
  /\ known' = FALSE
  /\ Disconnect
  /\ IF wish = "connect" THEN man' = "connect" /\ UNCHANGED lock
                         ELSE man' = "idle" /\ lock' = NoOne
  /\ UNCHANGED <<wish, tries, ops, next, at, id, answered>>

\* A new client counts from one; its first request is under way.
Connect ==
  /\ man = "connect"
  /\ next' = 1
  /\ at' = [at EXCEPT ![Initialize] = "ready", ![ListTools] = "new"]
  /\ mail' = [mail EXCEPT ![Initialize] = NoOne, ![ListTools] = NoOne]
  /\ answered' = answered \ Handshake
  /\ alive' = TRUE /\ reading' = TRUE
  /\ man' = "initialize"
  /\ UNCHANGED <<lock, known, wish, tries, ops, pending, id, line, served>>

\* The server cannot be started, or does not initialize.
ConnectFails ==
  /\ \/ man = "connect"
     \/ man = "initialize" /\ at[Initialize] = "failed"
     \/ man = "notify" /\ ~alive
  /\ tries' = tries + 1
  /\ Disconnect
  /\ IF tries + 1 < Attempts THEN man' = "connect" /\ UNCHANGED lock
                             ELSE man' = "idle" /\ lock' = NoOne
  /\ UNCHANGED <<known, wish, ops, next, at, id, answered>>

Initialized ==
  /\ man = "initialize" /\ at[Initialize] = "ok"
  /\ man' = "notify"
  /\ UNCHANGED <<lock, known, wish, tries, ops, next, pending, at, id, mail, pipeVars, answered>>

\* notifications/initialized is written, and the tools are asked for if there are
\* any.
Notify ==
  /\ man = "notify" /\ alive
  /\ GoOn(ListTools, "ready") \/ GoOn(ListTools, "ok")
  /\ man' = "list"
  /\ UNCHANGED <<lock, known, wish, tries, ops, next, pending, id, mail, pipeVars, answered>>

\* The client is kept, with its tools or without.
Connected ==
  /\ man = "list" /\ at[ListTools] \in Ended
  /\ known' = TRUE
  /\ man' = "idle" /\ lock' = NoOne
  /\ UNCHANGED <<wish, tries, ops, next, pending, at, id, mail, pipeVars, answered>>

-----------------------------------------------------------------------------
\* A variant without a timeout for the answer.
AwaitedForEver(r) == Register(r) \/ WriteFails(r) \/ GiveUp(r) \/ Receive(r)

Awaited(r) == Register(r) \/ WriteFails(r) \/ TimeOut(r) \/ GiveUp(r) \/ Receive(r)
Write(r) == BeginLine(r) \/ EndLine(r) \/ Flush(r)
Connecting == DropClient \/ Connect \/ ConnectFails \/ Initialized \/ Connected

Next ==
  \/ \E c \in Calls : Call(c) \/ TakeLock(c) \/ Drop(c)
  \/ \E r \in Requests : Awaited(r) \/ Write(r)
  \/ \E e \in served : Dispatch(e)
  \/ \E n \in ServerIds : DispatchRequest(n)
  \/ ServerDies \/ ReaderExits
  \/ \E w \in {"connect", "disconnect"} : Ask(w)
  \/ ManagerLocks \/ Connecting \/ Notify

\* What is awaited is polled, and the mutex is given in the order in which it is
\* asked for.  Nothing is asked of the server: it need not read what is written.
Fairness ==
  /\ \A r \in Requests : WF_vars(Awaited(r))
  /\ \A c \in Calls : SF_vars(TakeLock(c))
  /\ SF_vars(ManagerLocks) /\ WF_vars(Connecting)

Spec == Init /\ [][Next]_vars /\ Fairness

-----------------------------------------------------------------------------
(* The state is of its type.                                               *)
TypeOK ==
  /\ lock \in Calls \cup {Manager, NoOne} /\ known \in BOOLEAN
  /\ man \in Stages /\ wish \in {"connect", "disconnect"}
  /\ tries \in Nat /\ ops \in 0 .. MaxOps
  /\ next \in Nat /\ pending \subseteq Entries
  /\ at \in [Requests -> Places] /\ id \in [Requests -> Nat]
  /\ mail \in [Requests -> Requests \cup {NoOne, Closed, Null}]
  /\ line \in Seq(Requests) /\ served \subseteq Entries
  /\ alive \in BOOLEAN /\ reading \in BOOLEAN
  /\ answered \subseteq Requests

(* A request never gets another one's answer, though answers come in any   *)
(* order, twice, or when the request was given up or dropped, and          *)
(* identifiers begin again with every connection.  It gets what is none,   *)
(* a request of the server's, only if the server uses its number too.  And *)
(* while it waits it misses nothing: when its answer was read, if only     *)
(* before it began to wait, something has come for it (dispatch_response   *)
(* and the order of send_request_with_timeout).                            *)
AnswersAreOwn ==
  \A r \in Requests :
    /\ mail[r] \in Requests => mail[r] = r
    /\ at[r] \in Active /\ mail[r] = Null => id[r] \in ServerIds
    /\ r \in answered /\ at[r] \in Active => mail[r] # NoOne

(* A call that waits for the manager's mutex ends, in the end, as long as  *)
(* the server reads what is written to it: whatever it answers, whenever   *)
(* it dies, and though every call holds the mutex until it is over (the    *)
(* timeouts of send_request_with_timeout and the retries of                *)
(* connect_ready_client_with_retries).                                     *)
CallsEnd ==
  ([]<>(man # "notify" /\ \A r \in Requests : at[r] \notin Writing)) =>
    \A c \in Calls : at[c] = "lock" ~> at[c] \in Ended
=============================================================================
