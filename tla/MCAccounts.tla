----------------------------- MODULE MCAccounts -----------------------------
(* Instances of Accounts for TLC. *)
EXTENDS Accounts, TLC

CONSTANTS r1, r2, r3, n1, n2, e1, e2

\* Requests, names and emails are interchangeable, and every property is a
\* safety property.
Symmetry == Permutations(Requests) \cup Permutations(Names) \cup Permutations(Emails)

=============================================================================
