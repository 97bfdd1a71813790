---------------------------- MODULE Subsequences ----------------------------
(***************************************************************************)
(* A loop that goes once over an array and keeps some of its entries: what   *)
(* SelectSeq does, by the indices of the entries and as a recursive         *)
(* function, so that it can be reasoned about.                             *)
(***************************************************************************)
EXTENDS Integers, Sequences

\* What is kept after the first i entries of s, for every i.
KeptUpTo(s, at) ==
    LET kept[i \in 0..Len(s)] ==
            IF i = 0 THEN <<>>
            ELSE IF i \in at THEN Append(kept[i - 1], s[i]) ELSE kept[i - 1]
    IN  kept

\* The entries of s at the indices in at, in their order.
Selected(s, at) == KeptUpTo(s, at)[Len(s)]

=============================================================================
