-------------------------------- MODULE Lists --------------------------------
(***************************************************************************)
(* Selecting some positions of a list and keeping their order: what a loop *)
(* that erases or skips elements leaves.  It is SelectSeq by positions,    *)
(* written as a recursive function, so that its properties can be proved.  *)
(***************************************************************************)
EXTENDS Integers, Sequences

Selected(s, keep) ==
  LET sel[n \in 0..Len(s)] ==
        IF n = 0 THEN <<>>
        ELSE IF n \in keep THEN Append(sel[n - 1], s[n]) ELSE sel[n - 1]
  IN sel[Len(s)]
=============================================================================
