---------------------------- MODULE MCGatewayRuns ----------------------------
(***************************************************************************)
(* GatewayRuns for TLC.                                                    *)
(***************************************************************************)
EXTENDS GatewayRuns

Policies == {"queue", "reject", "interrupt", "steer"}

\* Whatever a client may ask for.
Anything == (Slots \cup {NoKey}) \X Policies

\* Nothing tells a request, a source or a worker from another one: the first
\* request comes first and from one source, the other worker is the spare one.
First == CHOOSE q \in Requests : TRUE
Home  == CHOOSE s \in Sources : TRUE
Spare == Workers \ {CHOOSE w \in Workers : TRUE}

Ordered ==
  /\ \A q \in Requests : pc[q] # "new" => pc[First] # "new"
  /\ Keyed(First) => slot[First][1] = Home
  /\ restarts + faults = 0 => \A w \in Spare : ~Running(w)

\* A second request comes beside no stop, and beside a fault only with the first
\* one's key: with more there are too many states.
Mixed ==
  \A q \in Requests \ {First} : pc[q] # "new" =>
    /\ \A s \in Stops : pc[s] = "new"
    /\ faults > 0 => Keyed(q) /\ slot[q] = slot[First]
=============================================================================
