------------------------------ MODULE Selection ------------------------------
(***************************************************************************)
(* The elements of a sequence that are in a set, in order: what a loop     *)
(* that skips some elements appends.  SelectSeq takes the test as an       *)
(* operator, which the provers cannot look into.                           *)
(***************************************************************************)
EXTENDS Naturals, Sequences

\* What there is of them up to each place.
OnlyTo(s, S) ==
    LET upTo[n \in 0..Len(s)] ==
          IF n = 0 THEN <<>>
          ELSE IF s[n] \in S THEN Append(upTo[n - 1], s[n]) ELSE upTo[n - 1]
    IN  upTo

Only(s, S) == OnlyTo(s, S)[Len(s)]
=============================================================================
