---------------------------- MODULE OrderService ----------------------------
(***************************************************************************)
(* What the order routes promise of each request, without channels, timers *)
(* or goroutines: it is decided at most once, what is accepted is carried  *)
(* out once, and an answer other than "busy" is the truth.  A request that *)
(* is refused (by a check before the order engine, or because the engine's *)
(* channel stayed full) is never decided.                                  *)
(***************************************************************************)
CONSTANT Requests

VARIABLES
    outcome,   \* "none", "accepted" or "rejected" by the order engine
    executed,  \* the requests whose effect is in the order book
    reply      \* "none", "refused", "busy", "success", "failure"

vars == <<outcome, executed, reply>>

Init ==
    /\ outcome = [r \in Requests |-> "none"]
    /\ executed = {}
    /\ reply = [r \in Requests |-> "none"]

Decide(r) ==
    /\ outcome[r] = "none"
    /\ reply[r] # "refused"
    /\ outcome' \in {[outcome EXCEPT ![r] = o] : o \in {"accepted", "rejected"}}
    /\ UNCHANGED <<executed, reply>>

Execute(r) ==
    /\ outcome[r] = "accepted"
    /\ r \notin executed
    /\ executed' = executed \cup {r}
    /\ UNCHANGED <<outcome, reply>>

Truthful(r, answer) ==
    /\ answer = "refused" => outcome[r] = "none"
    /\ answer = "success" => outcome[r] = "accepted"
    /\ answer = "failure" => outcome[r] = "rejected"

Reply(r) ==
    /\ reply[r] = "none"
    /\ \E answer \in {"refused", "busy", "success", "failure"} :
          /\ Truthful(r, answer)
          /\ reply' = [reply EXCEPT ![r] = answer]
    /\ UNCHANGED <<outcome, executed>>

Next == \E r \in Requests : Decide(r) \/ Execute(r) \/ Reply(r)

Spec == Init /\ [][Next]_vars

=============================================================================
