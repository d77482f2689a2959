---------------------------- MODULE Subsequences ----------------------------
(***************************************************************************)
(* The part of a sequence at some of its positions, in order: SelectSeq    *)
(* for a set of positions in place of a predicate.  What a property says   *)
(* of one kind of message of a stream is said with it.                     *)
(***************************************************************************)
EXTENDS Naturals, Sequences

\* n |-> the elements selected from the first n of s
Taken(s, K) ==
  LET taken[n \in Nat] ==
        IF n = 0 THEN <<>>
        ELSE IF n \in K THEN Append(taken[n - 1], s[n]) ELSE taken[n - 1]
  IN  taken

SelectAt(s, K) == Taken(s, K)[Len(s)]
=============================================================================
