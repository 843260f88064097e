------------------------------- MODULE Lists -------------------------------
(***************************************************************************)
(* The operators on sequences that the dispatch tables and the stacks of    *)
(* activations need.  They are those of SequencesExt, which the proofs      *)
(* cannot afford: through Bags it brings every theorem library into the     *)
(* context of every proof obligation.                                       *)
(***************************************************************************)
EXTENDS Integers, Sequences, FiniteSetsExt

Last(s) == s[Len(s)]
Front(s) == SubSeq(s, 1, Len(s) - 1)

\* e comes to position i, and the element at position i goes.
InsertAt(s, i, e) == SubSeq(s, 1, i - 1) \o <<e>> \o SubSeq(s, i, Len(s))
RemoveAt(s, i) == SubSeq(s, 1, i - 1) \o SubSeq(s, i + 1, Len(s))

\* The first and the last position of an element with a property, or 0.
SelectInSeq(s, P(_)) ==
    LET I == { i \in 1 .. Len(s) : P(s[i]) } IN IF I # {} THEN Min(I) ELSE 0
SelectLastInSeq(s, P(_)) ==
    LET I == { i \in 1 .. Len(s) : P(s[i]) } IN IF I # {} THEN Max(I) ELSE 0

=============================================================================
