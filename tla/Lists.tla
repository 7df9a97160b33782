--------------------------------- MODULE Lists ---------------------------------
(***************************************************************************)
(* Filtered lists.  Kept(seq, S) is SelectSeq(seq, LAMBDA x : x \in S); it *)
(* is written as a recursive function so that it can be reasoned about.    *)
(***************************************************************************)
EXTENDS Naturals, Sequences

\* The members of seq that are in S, in their order.
Kept(seq, S) ==
    LET kept[i \in 0 .. Len(seq)] ==
          IF i = 0 THEN <<>>
          ELSE IF seq[i] \in S THEN Append(kept[i - 1], seq[i]) ELSE kept[i - 1]
    IN  kept[Len(seq)]
=============================================================================
