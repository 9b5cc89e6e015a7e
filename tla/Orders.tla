------------------------------- MODULE Orders -------------------------------
(***************************************************************************)
(* What a loop over a list keeps of it: the chosen indices in their order. *)
(***************************************************************************)
EXTENDS Naturals, Sequences, FiniteSets

Smaller(m, n) == IF m < n THEN m ELSE n

\* The least of a set of indices, at most n of them, in their order.
InOrder(indices, n) ==
    [k \in 1..Smaller(Cardinality(indices), n) |->
        CHOOSE i \in indices : Cardinality({j \in indices : j <= i}) = k]

\* The members of a list that are in a set, in their order.
Selected(seq, kept) ==
    LET order == InOrder({i \in DOMAIN seq : seq[i] \in kept}, Len(seq))
    IN  [k \in DOMAIN order |-> seq[order[k]]]
=============================================================================
