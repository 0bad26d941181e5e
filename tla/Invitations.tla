----------------------------- MODULE Invitations -----------------------------
(***************************************************************************)
(* What registration with an access code promises, without tables,         *)
(* statements, faults or restarts: a code is redeemed at most once, for an *)
(* account of its own, and a client that is told of an account is told of  *)
(* the one its code was redeemed for.                                      *)
(***************************************************************************)
EXTENDS Naturals, Sequences

CONSTANT Requests

VARIABLES
    holder,  \* for each code made so far the account it gave, 0 before
    member   \* for each request the account its client was told of, or 0

Init ==
    /\ holder = <<>>
    /\ member = [r \in Requests |-> 0]

Invite ==
    /\ holder' = Append(holder, 0)
    /\ UNCHANGED member

\* The account is a new one; its number is not chosen here.  The client may
\* not get to know.
Redeem(r, c) ==
    LET u == holder'[c]
    IN /\ holder[c] = 0
       /\ u # 0
       /\ \A d \in DOMAIN holder : holder[d] # u
       /\ holder' = [holder EXCEPT ![c] = u]
       /\ member[r] = 0
       /\ \/ member' = [member EXCEPT ![r] = u]
          \/ UNCHANGED member

Next == Invite \/ \E r \in Requests, c \in DOMAIN holder : Redeem(r, c)

Spec == Init /\ [][Next]_<<holder, member>>

=============================================================================
