--------------------------------- MODULE Lists --------------------------------
(***************************************************************************)
(* Parts of lists, defined by positions: a part of a list is its elements  *)
(* at a set of positions, as std::copy_if and std::erase_if leave them.    *)
(* (Unlike that of SelectSeq, this definition can be reasoned about.)      *)
(***************************************************************************)
EXTENDS Naturals, Sequences, FiniteSets

\* How many of the positions are not after i.
Rank(I, i) == Cardinality({j \in I : j <= i})

\* The elements of s at the positions I, in their order.
Sublist(s, I) ==
  [k \in 1 .. Cardinality(I) |-> s[CHOOSE i \in I : Rank(I, i) = k]]
===============================================================================
