-------------------------------- MODULE Orders --------------------------------
(***************************************************************************)
(* The rows that a statement reads, in the order it asks for.              *)
(***************************************************************************)
EXTENDS Integers, FiniteSets

\* ORDER BY, for an order that is total on S: the k-th row has k - 1 before it.
InOrder(S, Before(_, _)) ==
    [k \in 1..Cardinality(S) |->
        CHOOSE x \in S : Cardinality({y \in S : Before(y, x)}) = k - 1]

=============================================================================
