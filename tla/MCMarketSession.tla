-------------------------- MODULE MCMarketSession --------------------------
(* Instances of MarketSession for TLC. *)
EXTENDS MarketSession, TLC

CONSTANTS u, w1, w2, w3

\* A weekday of PJSe.json with every minute at which nothing happens left out.
Weekday == [pre |-> <<3, 4>>, regular |-> <<4, 5>>, post |-> <<5, 6>>]
WeekdayLead == [r \in Reminders |->
    CASE r = "pre-30m" -> 3 [] r = "pre-5m" -> 2 [] r = "pre-1m" -> 1]

\* The "24H Testing" anniversary: the market opens at midnight.
AllDay == [pre |-> <<0, 1>>, regular |-> <<1, 7>>, post |-> <<7, 8>>]

Interchangeable == Permutations(Workers)

=============================================================================
