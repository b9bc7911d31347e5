---------------------------- MODULE MCMcpClient ----------------------------
(***************************************************************************)
(* McpClient for TLC.                                                      *)
(***************************************************************************)
EXTENDS McpClient, FiniteSets

\* Nothing tells a call from another one: they begin in this order.
Order ==
  CHOOSE s \in [1 .. Cardinality(Calls) -> Calls] : {s[i] : i \in DOMAIN s} = Calls

Ordered ==
  \A i \in DOMAIN Order : i > 1 /\ at[Order[i]] # "new" => at[Order[i - 1]] # "new"

\* One operation of the user comes beside a call that a request of the server's
\* has answered: that is enough to connect again after it.
Beside == ops > 1 => \A c \in Calls : mail[c] # Null

Bounded == Ordered /\ Beside
=============================================================================
