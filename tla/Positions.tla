------------------------------ MODULE Positions ------------------------------
(***************************************************************************)
(* Some of the positions of a sequence, and what stands there, in order.   *)
(***************************************************************************)
EXTENDS Integers, SequencesExt

\* The members of S up to n, in order.
Ordered(S, n) == FlattenSeq([i \in 1 .. n |-> IF i \in S THEN <<i>> ELSE << >>])

\* What s has at some of its positions.
Picked(s, at) == FlattenSeq([i \in DOMAIN s |-> IF i \in at THEN <<s[i]>> ELSE << >>])
=============================================================================
