------------------------------ MODULE Ordering ------------------------------
(***************************************************************************)
(* sorted() and a comprehension with a condition, as the measurements and  *)
(* the timeline use them.  A selection is made by the places of its        *)
(* entries, so that what it keeps can be reasoned about.                   *)
(***************************************************************************)
EXTENDS Integers, Sequences, FiniteSetsExt

\* A set as a sequence in some total order.
InOrder(S, before(_, _)) ==
  [k \in 1..Cardinality(S) |-> CHOOSE s \in S : Cardinality({t \in S : before(t, s)}) = k - 1]

\* The entries of a sequence at some of its places, in their order.
At(seq, places) ==
  LET order == InOrder(places, <) IN [k \in 1..Cardinality(places) |-> seq[order[k]]]

=============================================================================
