----------------------------- MODULE RunRegistry -----------------------------
(***************************************************************************)
(* What a client of the remote-control gateway may rely on, whatever       *)
(* happens to the processes behind it: a request that carries an           *)
(* idempotency key is bound to one run, the first of its key, for good;    *)
(* only that run is ever published and sent to the worker, at most once;   *)
(* and every request that is answered with a run is answered with it.      *)
(*                                                                         *)
(* A run has the name of the request it was created for.  The module says  *)
(* nothing of files, processes or crashes: GatewayRuns implements it.      *)
(***************************************************************************)
CONSTANTS
  Requests,  \* the submissions, and the runs created for them
  Slots,     \* what identifies a submission: its source and its key
  NoKey,     \* the submission has no key
  None       \* no run, no answer, no submission yet

VARIABLES
  asked,     \* the slot of each submission, NoKey or None
  owner,     \* the run that each slot is bound to, or None
  published, \* the runs a client can see
  sent,      \* the runs whose prompt was sent to the worker
  answer     \* what each submission was answered: a run, None or "error"

vars == <<asked, owner, published, sent, answer>>

TypeOK ==
  /\ asked \in [Requests -> Slots \cup {NoKey, None}]
  /\ owner \in [Slots -> Requests \cup {None}]
  /\ published \subseteq Requests
  /\ sent \subseteq Requests
  /\ answer \in [Requests -> Requests \cup {None, "error"}]

Init ==
  /\ asked = [q \in Requests |-> None]
  /\ owner = [s \in Slots |-> None]
  /\ published = {}
  /\ sent = {}
  /\ answer = [q \in Requests |-> None]

\* The run of q is the one its slot stands for.
Owns(q) == \/ asked[q] = NoKey
           \/ asked[q] \in Slots /\ owner[asked[q]] = q

Ask(q, s) ==
  /\ asked[q] = None
  /\ asked' = [asked EXCEPT ![q] = s]
  /\ UNCHANGED <<owner, published, sent, answer>>

Bind(q) ==
  /\ asked[q] \in Slots
  /\ owner[asked[q]] = None
  /\ owner' = [owner EXCEPT ![asked[q]] = q]
  /\ UNCHANGED <<asked, published, sent, answer>>

Publish(q) ==
  /\ Owns(q)
  /\ published' = published \cup {q}
  /\ UNCHANGED <<asked, owner, sent, answer>>

Send(q) ==
  /\ q \in published \ sent
  /\ sent' = sent \cup {q}
  /\ UNCHANGED <<asked, owner, published, answer>>

\* The answer to q is its slot's run, which the client can see.
Answer(q, r) ==
  /\ answer[q] = None
  /\ r \in published
  /\ \/ r = q /\ Owns(q)
     \/ asked[q] \in Slots /\ owner[asked[q]] = r
  /\ answer' = [answer EXCEPT ![q] = r]
  /\ UNCHANGED <<asked, owner, published, sent>>

Refuse(q) ==
  /\ answer[q] = None
  /\ asked[q] # None
  /\ answer' = [answer EXCEPT ![q] = "error"]
  /\ UNCHANGED <<asked, owner, published, sent>>

Next ==
  \E q \in Requests :
    \/ \E s \in Slots \cup {NoKey} : Ask(q, s)
    \/ Bind(q)
    \/ Publish(q)
    \/ Send(q)
    \/ \E r \in Requests : Answer(q, r)
    \/ Refuse(q)

Spec == Init /\ [][Next]_vars

=============================================================================
