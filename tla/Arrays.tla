------------------------------- MODULE Arrays -------------------------------
(***************************************************************************)
(* filter, as the code calls it on its arrays of nodes and edges: the      *)
(* elements that pass, in their order.  It is a recursive function of the  *)
(* length that has been looked at, so that theorems can be proved of it.   *)
(***************************************************************************)
EXTENDS Integers, Sequences

\* s.filter, with the set of the elements that pass.
Keep(s, passing) ==
  LET kept[i \in 0..Len(s)] ==
        IF i = 0 THEN <<>>
        ELSE IF s[i] \in passing THEN Append(kept[i - 1], s[i]) ELSE kept[i - 1]
  IN kept[Len(s)]

=============================================================================
