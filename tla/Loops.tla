-------------------------------- MODULE Loops --------------------------------
(***************************************************************************)
(* The one loop that three functions of the program share: it goes over a  *)
(* slice, skips some elements and appends the others to a new slice.       *)
(***************************************************************************)
EXTENDS Naturals, Sequences

(* The elements of s that are not in Skipped, after the last turn.          *)
Without(s, Skipped) ==
  LET slice[i \in 0 .. Len(s)] ==
        IF i = 0 THEN <<>>
        ELSE IF s[i] \in Skipped THEN slice[i - 1]
        ELSE Append(slice[i - 1], s[i])
  IN slice[Len(s)]
==============================================================================
