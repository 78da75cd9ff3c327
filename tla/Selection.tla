------------------------------ MODULE Selection ------------------------------
(***************************************************************************)
(* SelectSeq for a test that is membership in a set, as a recursive        *)
(* function: the provers can reason about one, and not about an operator   *)
(* that takes the test as a parameter.                                     *)
(***************************************************************************)
EXTENDS Integers, Sequences

\* The elements of s that are in S, in their order.
Only(s, S) ==
  LET upto[i \in 0 .. Len(s)] ==
        IF i = 0 THEN <<>>
        ELSE IF s[i] \in S THEN Append(upto[i - 1], s[i]) ELSE upto[i - 1]
  IN  upto[Len(s)]

=============================================================================
