------------------------------- MODULE Lists -------------------------------
(***************************************************************************)
(* What the modules ask of a list: the elements that stay when the others  *)
(* are dropped, the `retain` and the `filter` of the code, over a set of   *)
(* elements; what the numbers in it add up to, its `sum`; and the lists in *)
(* it put one after the other.  They are written as recursive functions,   *)
(* so that proofs can reason about them (module ListProofs).               *)
(***************************************************************************)
EXTENDS Integers, Sequences

\* The elements of s that are in keep, in the order of s.
Sift(s, keep) ==
    LET kept[n \in 0..Len(s)] ==
            IF n = 0 THEN <<>>
            ELSE IF s[n] \in keep THEN Append(kept[n - 1], s[n]) ELSE kept[n - 1]
    IN  kept[Len(s)]

\* What the numbers in s add up to.
Total(s) ==
    LET sum[n \in 0..Len(s)] == IF n = 0 THEN 0 ELSE sum[n - 1] + s[n]
    IN  sum[Len(s)]

\* The lists in s, one after the other.
Chained(s) ==
    LET chain[n \in 0..Len(s)] == IF n = 0 THEN <<>> ELSE chain[n - 1] \o s[n]
    IN  chain[Len(s)]
=============================================================================
