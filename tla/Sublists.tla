------------------------------ MODULE Sublists --------------------------------
(* A sequence without some of its elements.                                     *)
EXTENDS Naturals, Sequences, FiniteSets

\* What is left of s when only elements of W are kept, in their order: its j-th element is the one
\* with j - 1 others before it.
Sublist(s, W) ==
    LET kept == {i \in DOMAIN s : s[i] \in W} IN
    [j \in 1..Cardinality(kept) |-> s[CHOOSE i \in kept : Cardinality({k \in kept : k < i}) = j - 1]]
==============================================================================
