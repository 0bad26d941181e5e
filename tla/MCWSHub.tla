------------------------------- MODULE MCWSHub -------------------------------
(* Instances of WSHub for TLC. *)
EXTENDS WSHub

CONSTANTS c1, c2, alice, bob, engine

\* Every connection is alice's; bob has none, and gets messages all the same.
OneUser == [c \in Conns |-> alice]

=============================================================================
