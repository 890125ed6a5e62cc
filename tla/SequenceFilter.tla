--------------------------- MODULE SequenceFilter ---------------------------
(***************************************************************************)
(* The loop that the code filters its lists with: what is wanted of a      *)
(* slice is appended to a new one, in order.                               *)
(***************************************************************************)
EXTENDS Naturals, Sequences

\* The elements of s that are in Q, in the order they have in s.
Keep(s, Q) ==
  LET kept[i \in 0 .. Len(s)] ==
        IF i = 0 THEN <<>>
        ELSE IF s[i] \in Q THEN Append(kept[i - 1], s[i]) ELSE kept[i - 1]
  IN  kept[Len(s)]

=============================================================================
