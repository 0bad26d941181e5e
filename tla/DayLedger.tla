------------------------------ MODULE DayLedger ------------------------------
(***************************************************************************)
(* What the rest of the server may think of the ledgers: one list of       *)
(* prices for each symbol, to which the engine adds one at a time, and     *)
(* which are all emptied together.                                         *)
(***************************************************************************)
EXTENDS Sequences

CONSTANTS Symbols, Prices

VARIABLE log

Init == log = [s \in Symbols |-> <<>>]

Trade(s, p) == log' = [log EXCEPT ![s] = Append(@, p)]

Empty == log' = [s \in Symbols |-> <<>>]

Next == Empty \/ \E s \in Symbols, p \in Prices : Trade(s, p)

Spec == Init /\ [][Next]_log

=============================================================================
