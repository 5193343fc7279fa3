--------------------------------- MODULE Words ---------------------------------
(***************************************************************************)
(* Selection from a sequence by a set, as a function that goes through it  *)
(* from left to right: SelectSeq takes an operator, which no lemma can be  *)
(* stated about.                                                           *)
(***************************************************************************)
EXTENDS Naturals, Sequences

\* The elements of s that are in S, in their order.
Only(s, S) ==
  LET at[i \in 0..Len(s)] ==
        IF i = 0 THEN <<>> ELSE IF s[i] \in S THEN Append(at[i - 1], s[i]) ELSE at[i - 1]
  IN at[Len(s)]
=============================================================================
