------------------------------- MODULE Filters -------------------------------
(***************************************************************************)
(* Filtering a sequence: what SelectSeq does by a test is done by a set,   *)
(* in a recursive function of the length, which a proof can unfold.        *)
(***************************************************************************)
EXTENDS Integers, Sequences

\* The elements of s that are in T, in their order.
Those(s, T) ==
  LET upTo[n \in 0 .. Len(s)] ==
        IF n = 0 THEN <<>>
        ELSE IF s[n] \in T THEN Append(upTo[n - 1], s[n]) ELSE upTo[n - 1]
  IN  upTo[Len(s)]

\* One sequence has elements of another, in the same order.
InOrderOf(u, r) ==
  \A i, j \in DOMAIN u :
    i <= j => \E k, l \in DOMAIN r :
                /\ k <= l /\ (i < j => k < l)
                /\ r[k] = u[i] /\ r[l] = u[j]
=============================================================================
