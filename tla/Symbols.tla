------------------------------- MODULE Symbols -------------------------------
(***************************************************************************)
(* Symbols and their ledgers of the day: the table of symbols and the      *)
(* administrators' routes that change it (databases/postgresql/            *)
(* symbolDB.go, routes/api/v1/admin/symbols.go), the routes and            *)
(* middlewares that look at it (routes/api/v1/market/symbols.go,           *)
(* middlewares/symbol), and the map of ledgers, which the order engine     *)
(* reads and writes, the session clock replaces and a route reads, all     *)
(* without a lock (routes/ws/ledger.go, exchanges/channels/                *)
(* processOrders.go processOrder and broadcastTrade, workerPool.go).       *)
(*                                                                         *)
(* An SQL statement and an access to the map are one step each.  What the  *)
(* engine trades is MatchingEngine's subject: here an order finds the      *)
(* current price and then trades any number of times at any prices.  The   *)
(* price header of enableTradeSymbol is looked for among the headers of    *)
(* the answer, where it never is: that branch is left out, and so are the  *)
(* columns that no check reads, setTickSizeSymbol and                      *)
(* setMinimumOrderQuantitySymbol with them.                                *)
(***************************************************************************)
EXTENDS ChunkedStore

CONSTANTS
    Names,       \* of symbols
    Handlers,    \* calls of symbolListing
    Prices,      \* at which an order trades
    IPOPrice,    \* of every symbol; no route changes it
    MaxTrades,   \* bound: trades
    MaxFaults,   \* bound: statements that fail
    MaxStops     \* bound: stops of the process from outside

ASSUME SymbolsAssumption ==
    /\ Prices \subseteq Nat
    /\ IPOPrice \in Nat
    /\ MaxTrades \in Nat
    /\ MaxFaults \in Nat
    /\ MaxStops \in Nat

VARIABLES
    table,       \* table symbols: a function from the symbols listed to rows
    pc,          \* where a call of symbolListing is
    form,        \* the symbol in its body
    reply,       \* its answer, "none" before
    open,        \* exchanges.MarketStatus # "closed"
    TempLedger,  \* a function from the symbols that have a ledger to stores
    at,          \* where the engine is
    sym,         \* orderReq.Symbol, or the one it was
    price,       \* currentPrice until the first trade, then a trade's price
                 \* until it is recorded; IPOPrice when it is not read again
    told,        \* history: the price last broadcast and whether ledgers
                 \* were emptied since
    process,     \* "up", or "panicked"
    trades,      \* bookkeeping of the bounds
    faults,
    stops

adminVars == <<table, pc, form, reply>>
engineVars == <<at, sym, price, told, trades>>
vars == <<adminVars, open, TempLedger, engineVars, process, faults, stops>>

Statuses == {"init", "inactive", "active", "suspended", "delisted"}

Positions == {"idle", "lookup", "size", "recent", "ipo", "match", "record",
              "create", "append"}

Outcomes == {"done"} \cup IF faults < MaxFaults THEN {"failed", "unsure"} ELSE {}

Counted(outcome) == faults' = IF outcome = "done" THEN faults ELSE faults + 1

\* The table or map f with the entry x for the key k.
With(f, k, x) == [l \in DOMAIN f \cup {k} |-> IF l = k THEN x ELSE f[l]]

NoTrade == [price |-> IPOPrice, emptied |-> TRUE]

-----------------------------------------------------------------------------
Init ==
    /\ table = [s \in {} |-> 0]
    /\ pc = [h \in Handlers |-> "idle"]
    /\ form \in [Handlers -> Names]
    /\ reply = [h \in Handlers |-> "none"]
    /\ open \in BOOLEAN
    /\ TempLedger = [s \in {} |-> NewChunkedStore]
    /\ at = "idle"
    /\ sym \in Names
    /\ price = IPOPrice
    /\ told = [s \in Names |-> NoTrade]
    /\ process = "up"
    /\ trades = 0
    /\ faults = 0
    /\ stops = 0

Up == process = "up"

-----------------------------------------------------------------------------
(* Administrators. *)
Goes(h, to) ==
    /\ pc' = [pc EXCEPT ![h] = to]
    /\ UNCHANGED reply

Returns(h, text) ==
    /\ pc' = [pc EXCEPT ![h] = "returned"]
    /\ reply' = [reply EXCEPT ![h] = text]

ListingRest == UNCHANGED <<form, open, TempLedger, engineVars, process, stops>>

\* An incomplete body is answered at once, and is the same as no request.
CheckExists(h) ==
    /\ Up
    /\ pc[h] = "idle"
    /\ \E outcome \in Outcomes \ {"unsure"} :
          /\ Counted(outcome)
          /\ IF outcome = "failed" \/ form[h] \in DOMAIN table
             THEN Returns(h, "failed")
             ELSE Goes(h, "insert")
    /\ UNCHANGED table
    /\ ListingRest

\* Whatever status the body asks for, the row gets "init".
Row(h) == [lister |-> h, status |-> "init"]

\* Mutant: a second row takes the place of the first.
Upsert(h) ==
    /\ Up
    /\ pc[h] = "insert"
    /\ table' = With(table, form[h], Row(h))
    /\ Returns(h, "created")
    /\ UNCHANGED faults
    /\ ListingRest

\* symbol is UNIQUE in the table's definition.
Insert(h) ==
    /\ Up
    /\ pc[h] = "insert"
    /\ \E outcome \in Outcomes :
          /\ Counted(outcome)
          /\ LET inserted == outcome # "failed" /\ form[h] \notin DOMAIN table
             IN /\ table' = IF inserted THEN With(table, form[h], Row(h)) ELSE table
                /\ Returns(h, IF inserted /\ outcome = "done" THEN "created" ELSE "failed")
    /\ ListingRest

AdminRest == UNCHANGED <<pc, form, reply, open, TempLedger, engineVars, process, stops>>

\* Mutant: the statement inserts a row where there is none.
UpdatesOrInserts(s, status, outcome) ==
    /\ Up
    /\ Counted(outcome)
    /\ table' = IF outcome = "failed" THEN table
                ELSE With(table, s, [status |-> status])
    /\ AdminRest

\* UPDATE symbols ... WHERE symbol = s, with or without such a row.
Updates(s, status, outcome) ==
    /\ Up
    /\ Counted(outcome)
    /\ table' = IF outcome # "failed" /\ s \in DOMAIN table
                THEN [table EXCEPT ![s].status = status] ELSE table
    /\ AdminRest

\* readyTradeSymbol, enableTradeSymbol, disableTradeSymbol and
\* symbolDelisting, from whatever status.
UpdateSymbolStatus(s) ==
    \E status \in Statuses \ {"init"}, outcome \in Outcomes : Updates(s, status, outcome)

\* enableTradeSymbol ignores the error.
StatusAnswer(status, outcome) ==
    IF outcome = "done" \/ status = "active" THEN "ok" ELSE "error"

-----------------------------------------------------------------------------
(* Those who look. *)

\* The middleware in front of symbolDetail and symbolNow.
IsViewable(s) == s \in DOMAIN table /\ table[s].status \notin {"delisted", "init"}

\* symbolNow looks for a parameter that its route does not have: it finds no
\* ledger and no row of the symbol "", and always fails.  Its look at the map
\* ends the process when the engine is writing to it.
SymbolNow(s) ==
    /\ Up
    /\ IsViewable(s)
    /\ at = "create"
    /\ process' = "panicked"
    /\ UNCHANGED <<adminVars, open, TempLedger, engineVars, faults, stops>>

-----------------------------------------------------------------------------
(* Orders and the engine. *)
EngineRest == UNCHANGED <<adminVars, open, stops>>

IsTradable(s) == s \in DOMAIN table /\ table[s].status = "active"

Moves(from, to) ==
    /\ Up
    /\ at = from
    /\ at' = to
    /\ UNCHANGED process

\* A call of a method of the ledger that was there: a nil pointer when the
\* map was replaced meanwhile, which no one recovers from.
Uses(from, to) ==
    /\ Up
    /\ at = from
    /\ IF sym \in DOMAIN TempLedger
       THEN at' = to /\ UNCHANGED process
       ELSE process' = "panicked" /\ UNCHANGED at

\* An order that passed the middlewares; on its way to the engine, and while
\* it is carried out, the symbol and the market may change (OrderGateway).
TakeOrder(s) ==
    /\ Moves("idle", "lookup")
    /\ open
    /\ IsTradable(s)
    /\ sym' = s
    /\ UNCHANGED <<TempLedger, price, told, trades, faults>>
    /\ EngineRest

Lookup ==
    /\ Moves("lookup", IF sym \in DOMAIN TempLedger THEN "size" ELSE "ipo")
    /\ UNCHANGED <<TempLedger, sym, price, told, trades, faults>>
    /\ EngineRest

HasTrades ==
    /\ Uses("size", IF Size(TempLedger[sym]) = 0 THEN "ipo" ELSE "recent")
    /\ UNCHANGED <<TempLedger, sym, price, told, trades, faults>>
    /\ EngineRest

MostRecent ==
    /\ Uses("recent", "match")
    /\ price' = IF sym \in DOMAIN TempLedger THEN GetMostRecent(TempLedger[sym])
                                             ELSE price
    /\ UNCHANGED <<TempLedger, sym, told, trades, faults>>
    /\ EngineRest

\* The order is dropped when the query fails.
GetIPOPrice ==
    /\ \/ /\ Moves("ipo", "match")
          /\ price' = IPOPrice
          /\ UNCHANGED faults
       \/ /\ Moves("ipo", "idle")
          /\ faults < MaxFaults
          /\ faults' = faults + 1
          /\ UNCHANGED price
    /\ UNCHANGED <<TempLedger, sym, told, trades>>
    /\ EngineRest

\* The trade is broadcast before it is recorded.
BroadcastTrade ==
    /\ Moves("match", "record")
    /\ trades < MaxTrades
    /\ trades' = trades + 1
    /\ price' \in Prices
    /\ told' = [told EXCEPT ![sym] = [price |-> price', emptied |-> FALSE]]
    /\ UNCHANGED <<TempLedger, sym, faults>>
    /\ EngineRest

EndOfOrder ==
    /\ Moves("match", "idle")
    /\ price' = IPOPrice
    /\ UNCHANGED <<TempLedger, sym, told, trades, faults>>
    /\ EngineRest

Record ==
    /\ Moves("record", IF sym \in DOMAIN TempLedger THEN "append" ELSE "create")
    /\ UNCHANGED <<TempLedger, sym, price, told, trades, faults>>
    /\ EngineRest

Create ==
    /\ Moves("create", "append")
    /\ TempLedger' = With(TempLedger, sym, NewChunkedStore)
    /\ UNCHANGED <<sym, price, told, trades, faults>>
    /\ EngineRest

\* The order may trade again.
AppendTrade ==
    /\ Uses("append", "match")
    /\ TempLedger' = IF sym \in DOMAIN TempLedger
                     THEN [TempLedger EXCEPT ![sym] = Appended(@, price)]
                     ELSE TempLedger
    /\ price' = IPOPrice
    /\ UNCHANGED <<sym, told, trades, faults>>
    /\ EngineRest

Engine ==
    \/ \E s \in Names : TakeOrder(s)
    \/ Lookup
    \/ HasTrades
    \/ MostRecent
    \/ GetIPOPrice
    \/ BroadcastTrade
    \/ EndOfOrder
    \/ Record
    \/ Create
    \/ AppendTrade

-----------------------------------------------------------------------------
(* The session clock, and the end of the process. *)
UpdateMarketStatus ==
    /\ Up
    /\ open' = ~open
    /\ UNCHANGED <<adminVars, TempLedger, engineVars, process, faults, stops>>

Emptied == told' = [s \in Names |-> [told[s] EXCEPT !.emptied = TRUE]]

\* Half an hour before the market opens; an order of the day before may
\* still wait for the database.
ClearTempLedgerData ==
    /\ Up
    /\ ~open
    /\ TempLedger' = [s \in {} |-> NewChunkedStore]
    /\ Emptied
    /\ UNCHANGED <<adminVars, open, at, sym, price, trades, process, faults,
                   stops>>

\* The table is what remains.
Restart ==
    /\ IF Up THEN stops < MaxStops /\ stops' = stops + 1
             ELSE UNCHANGED stops
    /\ process' = "up"
    /\ pc' = [h \in Handlers |-> IF pc[h] = "insert" THEN "returned" ELSE pc[h]]
    /\ TempLedger' = [s \in {} |-> NewChunkedStore]
    /\ Emptied
    /\ at' = "idle"
    /\ price' = IPOPrice
    /\ UNCHANGED <<table, form, reply, open, sym, trades, faults>>

Next ==
    \/ \E h \in Handlers : CheckExists(h) \/ Insert(h)
    \/ \E s \in Names :
          \/ UpdateSymbolStatus(s)
          \/ SymbolNow(s)
    \/ Engine
    \/ UpdateMarketStatus
    \/ ClearTempLedgerData
    \/ Restart

Spec == Init /\ [][Next]_vars

-----------------------------------------------------------------------------
(* Types: the table, the routes, the ledgers and the engine.               *)
SymbolRow == [lister : Handlers, status : Statuses]

TypeOK ==
    /\ DOMAIN table \subseteq Names
    /\ table \in [DOMAIN table -> SymbolRow]
    /\ pc \in [Handlers -> {"idle", "insert", "returned"}]
    /\ form \in [Handlers -> Names]
    /\ reply \in [Handlers -> {"none", "created", "failed"}]
    /\ open \in BOOLEAN
    /\ DOMAIN TempLedger \subseteq Names
    /\ TempLedger \in [DOMAIN TempLedger -> Stores(Prices)]
    /\ at \in Positions
    /\ sym \in Names
    /\ price \in Prices \cup {IPOPrice}
    /\ told \in [Names -> [price : Prices \cup {IPOPrice}, emptied : BOOLEAN]]
    /\ process \in {"up", "panicked"}
    /\ trades \in 0 .. MaxTrades
    /\ faults \in 0 .. MaxFaults
    /\ stops \in 0 .. MaxStops

(* Of two administrators who list a symbol at the same time one is told    *)
(* that he did, and the row is the one he asked for, now and later.        *)
ListedAsAsked ==
    \A h \in Handlers : reply[h] = "created" =>
        form[h] \in DOMAIN table /\ table[form[h]].lister = h

(* The current price is the last trade's, "then the previous day's close,  *)
(* then the issue price" (processOrders.go:482, market/symbols.go:98).  Of *)
(* that the first step is kept: while the day's ledgers stay, an order     *)
(* starts from the price the subscribers were told last, not from another  *)
(* symbol's or an older one.  Once they are emptied the issue price may    *)
(* come before the previous close: LastCloseBeforeIssuePrice.  Nothing is  *)
(* said of an order that finds no store any more: NeverPanics.             *)
StartsFromLastPrice ==
    [][at' = "match" /\ at \in {"recent", "ipo"} =>
          \/ price' = told[sym].price
          \/ price' = IPOPrice /\ told[sym].emptied]_vars

(* The methods that read a store agree with what was put into it.          *)
StoreReads ==
    \A s \in DOMAIN TempLedger :
        LET cs == TempLedger[s]
            all == Contents(cs)
            n == Size(cs)
        IN /\ getAllData(cs) = all
           /\ n > 0 => GetMostRecent(cs) = Last(all)
           /\ \A count \in 0 .. n + 1 :
                 GetLatest(cs, count) = IF count >= n THEN all
                                        ELSE Reverse(SubSeq(all, n - count + 1, n))
           /\ \A start, end \in -1 .. n + 1 :
                 GetRange(cs, start, end) =
                    IF start \in 0 .. n - 1
                    THEN SubSeq(all, start + 1, Shorter(end, n)) ELSE <<>>

(* The map of chunked stores is a list of prices for each symbol.          *)
Ledger == INSTANCE DayLedger WITH
    Symbols <- Names,
    log <- [s \in Names |-> IF s \in DOMAIN TempLedger
                            THEN Contents(TempLedger[s]) ELSE <<>>]

ImplementsDayLedger == Ledger!Spec

(* processOrders.go:488 has the previous day's close as a TODO and calls   *)
(* the issue price a mere fallback, which the code "will probably never    *)
(* come to" (490, market/symbols.go:106): a symbol that has been traded    *)
(* starts from a trade's price.  But the ledgers are emptied every morning *)
(* and by a restart, and the next order starts from the issue price.       *)
LastCloseBeforeIssuePrice ==
    [][at' = "match" /\ at \in {"recent", "ipo"} => price' = told[sym].price]_vars

(* "If successful, the status change message": an administrator who is     *)
(* answered so has changed the status (admin/symbols.go).                  *)
StatusAnswerTrue ==
    [][\A s \in Names, status \in Statuses \ {"init"}, outcome \in Outcomes :
          Updates(s, status, outcome) /\ StatusAnswer(status, outcome) = "ok" =>
              s \in DOMAIN table' /\ table'[s].status = status]_vars

(* The map of ledgers does not bring the process down.                     *)
NeverPanics == process = "up"

=============================================================================
