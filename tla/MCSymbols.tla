------------------------------ MODULE MCSymbols ------------------------------
(* Instances of Symbols for TLC. *)
EXTENDS Symbols, TLC

CONSTANTS s1, s2, h1, h2

Symmetry == Permutations(Names) \cup Permutations(Handlers)

=============================================================================
