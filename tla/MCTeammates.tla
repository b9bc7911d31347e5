----------------------------- MODULE MCTeammates -----------------------------
(***************************************************************************)
(* Teammates for TLC.                                                      *)
(***************************************************************************)
EXTENDS Teammates, FiniteSets

\* The messages differ by their kind only, those that change nothing come beside a
\* plain one, and the policy matters to requests to shut down.
First == CHOOSE m \in Messages : TRUE
Rank  == [plain |-> 1, shutdown |-> 2, approval |-> 3, other |-> 4]

Ordered ==
  /\ \A m \in Messages : Rank[kind[First]] <= Rank[kind[m]]
  /\ \A m \in Messages : kind[m] = "other" => kind[First] = "plain"
  /\ approves => \E m \in Messages : kind[m] = "shutdown"

\* While a tool runs or a kill is under way only one message is sent, and no lock
\* grows old but that of plain ones: with more there are too many states.
Mixed ==
  /\ killer # "new" \/ tool # "none" \/ owns \/ kept =>
       aged = 0 /\ Cardinality({m \in Messages : at[m] # "out"}) <= 1
  /\ aged > 0 => \A m \in Messages : kind[m] = "plain"
=============================================================================
