----------------------------- MODULE MCTaskStore -----------------------------
(***************************************************************************)
(* TaskStore for TLC.  Processes and agents are interchangeable.           *)
(***************************************************************************)
EXTENDS TaskStore, TLC

\* Once a process has started or a review expired there is one task, no write
\* fails, and six things happen at most: with two tasks there are too many states.
Mixed ==
  used.starts + used.reviews > 0 =>
    watermark <= 1 /\ used.failures = 0 /\ used.ops + used.starts + used.reviews <= 6

Symmetry == Permutations(Procs) \cup Permutations(Owners)
=============================================================================
