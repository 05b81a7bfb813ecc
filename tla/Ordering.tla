------------------------------ MODULE Ordering ------------------------------
(***************************************************************************)
(* What Array.prototype.sort leaves when the comparator orders any two     *)
(* different elements, as every comparator of packages/context does: they  *)
(* all end in the path or the id.                                          *)
(***************************************************************************)
EXTENDS Integers, FiniteSets

(* The elements of a finite set, each after those that come before it;     *)
(* `before` is a set of pairs.                                             *)
InOrder(S, before) ==
    [n \in 1 .. Cardinality(S) |->
        CHOOSE x \in S : Cardinality({y \in S : <<y, x>> \in before}) = n - 1]

=============================================================================
