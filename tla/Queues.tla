------------------------------- MODULE Queues -------------------------------
(* Loops that keep some members of a sequence, and that turn it round.     *)
EXTENDS Naturals, SequencesExt

(* The first i members of s that are in keep, for every i, in their order *)
Kept(s, keep) ==
    LET kept[i \in 0 .. Len(s)] ==
          IF i = 0 THEN <<>>
          ELSE IF s[i] \in keep THEN Append(kept[i - 1], s[i]) ELSE kept[i - 1]
    IN  kept

Filter(s, keep) == Kept(s, keep)[Len(s)]

(* The members before member i follow the others. *)
Rotated(s, i) == SubSeq(s, i, Len(s)) \o SubSeq(s, 1, i - 1)
=============================================================================
