--------------------------- MODULE MatchingEngine ---------------------------
(***************************************************************************)
(* The order engine of exchanges/channels/processOrders.go for one symbol. *)
(* A single goroutine (ProcessOrders.Create) takes order requests from a   *)
(* channel, changes the order book and matches; nothing else writes the    *)
(* book while a request is processed.  What other goroutines see are the   *)
(* depth updates, the trades and the notifications it sends meanwhile, so  *)
(* the processing of a request is split at every execution: control points *)
(* ("pc") are idle, match (processOrder), walk (the levels visited by      *)
(* buyMarketOrder / sellMarketOrder), own (buyLimitOrder / sellLimitOrder) *)
(* and finish.  "panicked" is the state after a Go panic: the goroutine    *)
(* has no recover, so the whole process dies.                              *)
(*                                                                         *)
(* Left out: the wording of replies and messages, timestamps, execution    *)
(* identifiers, the name of the symbol (the books of two symbols share     *)
(* nothing).  The channel and the HTTP handlers that fill it are not here: *)
(* a request is an input of the action that accepts or rejects it.         *)
(***************************************************************************)
EXTENDS Integers, Sequences, FiniteSets, FiniteSetsExt, SequencesExt

CONSTANTS
    Ids,         \* order identifiers (a uuid per new order)
    NoId,        \* not an order identifier
    Users,       \* user identifiers
    Owner,       \* the user whose request creates each order
    Prices,      \* prices of limit orders
    MaxPrice,    \* the largest of them
    MaxQty,      \* bound: the largest quantity a request asks for
    IpoPrice,    \* what GetIPOPrice returns
    FokCap,      \* the 1e10 of DescendLessOrEqual in the FOK check of a sell
    MaxQueue,    \* bound: requests are accepted while every queue is shorter
    MaxOverfill, \* bound: ... and no order was executed that far beyond "due"
    MaxLeft,     \* bound: ... and no more market orders are left at price 0
    Deviations   \* what the environment may do beyond well-formed requests

\* Kinds of deviation: a PATCH or DELETE sent to the route of the other side,
\* a cancel whose body carries "type":"market", an error of GetIPOPrice.
AllDeviations == {"other_side", "typed_cancel", "ipo_error"}

ASSUME ConstantsAssumption ==
    /\ Owner \in [Ids -> Users]
    /\ NoId \notin Ids
    /\ MaxPrice \in Nat
    /\ Prices \subseteq 1 .. MaxPrice
    /\ MaxQty \in Nat
    /\ IpoPrice \in Nat
    /\ FokCap \in Nat
    /\ MaxQueue \in Nat
    /\ MaxOverfill \in Nat /\ MaxLeft \in Nat
    /\ Deviations \subseteq AllDeviations

\* An identifier is a uuid, so there are finitely many (sums over orders exist).
ASSUME FinitelyManyOrders == IsFiniteSet(Ids)

MarketPrice == 0            \* the price a market order is stored at
Levels == Prices \cup {MarketPrice}
Side == {"bids", "asks"}
Opp(s) == IF s = "bids" THEN "asks" ELSE "bids"

NoOrder == -1               \* the order is not in this level's map
NoEntry == [side |-> "none", price |-> MarketPrice, quantity |-> 0]
NoPrice == -1               \* empty ledger; no slippage bound

VARIABLES
    book,       \* depth, queues, index and overlap tree (see EmptyBook)
    lastPrice,  \* price of the most recent trade in TempLedger, or NoPrice
    pc,         \* control point of the engine
    req,        \* the request being processed
    rem,        \* remainingQuantity
    walk,       \* levels of the cloned tree that are still to be visited
    feed,       \* per level, the last total broadcast to depth subscribers
    told,       \* per order, the last status its owner was notified of
    due,        \* history: what the owner ordered and was not yet traded
    deal        \* the trade broadcast by the last step, or NoDeal

vars == <<book, lastPrice, pc, req, rem, walk, feed, told, due, deal>>

----------------------------------------------------------------------------
(* The book.  A Go map of a level exists exactly while it holds an order,   *)
(* and a total that is deleted reads as 0.                                  *)

EmptyBook ==
    [orders  |-> [s \in Side |-> [p \in Levels |-> [id \in Ids |-> NoOrder]]],
     total   |-> [s \in Side |-> [p \in Levels |-> 0]],
     tree    |-> [s \in Side |-> {}],
     seq     |-> [s \in Side |-> [p \in Levels |-> <<>>]],
     index   |-> [id \in Ids |-> NoEntry],
     overlap |-> {}]

HasLevel(orders, s, p) == \E id \in Ids : orders[s][p][id] # NoOrder

\* Reading an absent order yields the zero value of Order: quantity 0.
OrderQty(b, s, p, id) == IF b.orders[s][p][id] = NoOrder
                         THEN 0 ELSE b.orders[s][p][id]

Indexed(b, id) == b.index[id] # NoEntry

\* Mutant: the mark is forgotten.
OverlapForgotten(b, orders, s, p) == b.overlap

\* A price is marked when the other side has a level there.
OverlapWith(b, orders, s, p) ==
    IF HasLevel(orders, Opp(s), p) THEN b.overlap \cup {p} ELSE b.overlap

\* Mutant: a cancel removes whatever is at the front.
RemoveFront(q, id) == Tail(q)

\* Queue.RemoveValue: the first occurrence goes.
RemoveValue(q, id) ==
    IF id \in ToSet(q) THEN RemoveAt(q, Min({i \in DOMAIN q : q[i] = id})) ELSE q

\* A total that is not positive is deleted.
TotalWithout(total, quantity) ==
    IF total - quantity <= 0 THEN 0 ELSE total - quantity

\* processOpen: r names the order, its side, price and quantity.
ProcessOpen(b, r) ==
    LET s == r.side
        p == r.price
        orders == [b.orders EXCEPT ![s][p][r.id] = r.quantity]
    IN [orders  |-> orders,
        total   |-> [b.total EXCEPT ![s][p] = @ + r.quantity],
        tree    |-> [b.tree EXCEPT ![s] = @ \cup {p}],
        seq     |-> [b.seq EXCEPT ![s][p] = Append(@, r.id)],
        index   |-> [b.index EXCEPT ![r.id] =
                        [side |-> s, price |-> p, quantity |-> r.quantity]],
        overlap |-> OverlapWith(b, orders, s, p)]

\* processCancel: the level is looked up at the indexed price but on the side
\* of the request; the index entry goes in any case.
ProcessCancel(b, r) ==
    LET s == r.side
        p == b.index[r.id].price
        orders == [b.orders EXCEPT ![s][p][r.id] = NoOrder]
        index == [b.index EXCEPT ![r.id] = NoEntry]
        gone == IF HasLevel(orders, s, p) THEN {} ELSE {p}
    IN CASE ~Indexed(b, r.id) -> b
         [] Indexed(b, r.id) /\ ~HasLevel(b.orders, s, p) ->
                [b EXCEPT !.index = index]
         [] OTHER ->
                [orders  |-> orders,
                 total   |-> [b.total EXCEPT ![s][p] =
                                TotalWithout(@, b.index[r.id].quantity)],
                 tree    |-> [b.tree EXCEPT ![s] = @ \ gone],
                 seq     |-> [b.seq EXCEPT ![s][p] = RemoveValue(@, r.id)],
                 index   |-> index,
                 overlap |-> b.overlap \ gone]

\* Mutant: less at the same price goes to the end of the queue as well.
ModifyReopens(b, r) == ProcessOpen(ProcessCancel(b, r), r)

\* Mutant: a new price cancels the order and nothing opens it again.
ModifyOnlyCancels(b, r) ==
    IF r.price = b.index[r.id].price
    THEN ProcessOpen(ProcessCancel(b, r), r) ELSE ProcessCancel(b, r)

\* processModify of an indexed order: less at the same price keeps the place in
\* the queue, anything else is a cancel and a new order at the end.
ProcessModify(b, r) ==
    LET e == b.index[r.id]
        s == r.side
        p == e.price
        index == [b.index EXCEPT ![r.id].quantity = r.quantity]
    IN IF r.quantity < e.quantity /\ r.price = p
       THEN IF HasLevel(b.orders, s, p)
            THEN [b EXCEPT !.orders[s][p][r.id] = r.quantity,
                           !.total[s][p] = @ - e.quantity + r.quantity,
                           !.index = index]
            ELSE [b EXCEPT !.index = index]
       ELSE ProcessOpen(ProcessCancel(b, r), r)

----------------------------------------------------------------------------
(* Prices as one side's btree orders them.                                  *)

\* p is met before q when the orders resting on side s are walked.
Better(s, p, q) == IF s = "asks" THEN p < q ELSE p > q

Best(s, T) == CHOOSE p \in T : \A q \in T \ {p} : Better(s, p, q)

\* A limit order of side s at "limit" may trade at the opposite price p.
Crosses(s, limit, p) == p = limit \/ Better(Opp(s), p, limit)

\* Levels the FOK check of an order of side s adds up.
FokLevels(b, s) == IF s = "bids"
                   THEN b.tree["asks"]
                   ELSE {p \in b.tree["bids"] : p <= FokCap}

FokSum(b, s, p) == SumFunctionOnSet(b.total[Opp(s)],
                       {q \in FokLevels(b, s) : q = p \/ Better(Opp(s), q, p)})

\* Mutant: one unit too few is enough.
FokAvailableOffByOne(b, s, quantity) ==
    \E p \in FokLevels(b, s) : quantity <= FokSum(b, s, p) + 1

\* The FOK walk stops at the first level that makes the sum sufficient.
FokAvailable(b, s, quantity) ==
    \E p \in FokLevels(b, s) : quantity <= FokSum(b, s, p)

----------------------------------------------------------------------------
(* Requests.  The route sets side and status, the user is the one that      *)
(* authenticated, and a new order gets an identifier nobody has used.       *)

NoRequest == [id |-> NoId, side |-> "bids", status |-> "none", type |-> "none",
              fok |-> FALSE, bound |-> NoPrice,
              price |-> MarketPrice, quantity |-> 0]

Request ==
    [id : Ids \cup {NoId}, side : Side,
     status : {"none", "open", "modified", "canceled"},
     type : {"none", "limit", "market"}, fok : BOOLEAN,
     bound : Prices \cup {NoPrice}, price : Levels, quantity : Nat]

\* FOK and slippage are optional fields of market orders.
MarketFields == [fok : BOOLEAN, bound : Prices \cup {NoPrice}]
NoMarketFields == [fok |-> FALSE, bound |-> NoPrice]
FieldsOf(type) == IF type = "market" THEN MarketFields ELSE {NoMarketFields}

MkRequest(id, side, status, type, f, price, quantity) ==
    [id |-> id, side |-> side, status |-> status, type |-> type,
     fok |-> f.fok, bound |-> f.bound, price |-> price, quantity |-> quantity]

\* The side of the route a modify or cancel is sent to.
RouteSides(id) == IF "other_side" \in Deviations THEN Side
                  ELSE IF Indexed(book, id) THEN {book.index[id].side} ELSE Side

CancelTypes == {"none", "limit"} \cup
               (IF "typed_cancel" \in Deviations THEN {"market"} ELSE {})

\* The checks of processOrderRequest, each of which answers 400.
Valid(user, r) ==
    /\ r.status # "open" => Indexed(book, r.id) /\ Owner[r.id] = user
    /\ r.status = "open" => r.type \in {"limit", "market"}
    /\ r.price > 0 \/ r.type = "market" \/ r.status = "canceled"
    /\ r.quantity > 0 \/ r.status = "canceled"

\* What processOrderRequest rewrites in a request that passed those checks.
Normalised(r) ==
    LET e == book.index[r.id]
        type == IF r.status = "open" \/ r.type # "none" THEN r.type
                ELSE IF e.price = MarketPrice THEN "market" ELSE "limit"
        price == IF r.status = "canceled" THEN e.price
                 ELSE IF type = "market" THEN MarketPrice ELSE r.price
        quantity == IF r.status = "canceled" THEN e.quantity ELSE r.quantity
    IN [r EXCEPT !.type = type, !.price = price, !.quantity = quantity]

\* A modify that changes neither price nor quantity answers 400 too.
Changes(r) == r.status = "modified" =>
    r.price # book.index[r.id].price \/ r.quantity # book.index[r.id].quantity

----------------------------------------------------------------------------
(* processOrderRequest.                                                     *)

NoDeal == [taker |-> NoId, maker |-> NoId, price |-> NoPrice, quantity |-> 0]

Init ==
    /\ book = EmptyBook
    /\ lastPrice = NoPrice
    /\ pc = "idle"
    /\ req = NoRequest
    /\ rem = 0
    /\ walk = {}
    /\ feed = [s \in Side |-> [p \in Levels |-> 0]]
    /\ told = [id \in Ids |-> "none"]
    /\ due = [id \in Ids |-> 0]
    /\ deal = NoDeal

\* The engine goes back to its channel.
Return ==
    /\ pc' = "idle"
    /\ req' = NoRequest
    /\ rem' = 0
    /\ walk' = {}
    /\ deal' = NoDeal

Reject(user, r) ==
    /\ pc = "idle"
    /\ ~(Valid(user, r) /\ Changes(Normalised(r)))
    /\ UNCHANGED vars

\* Mutant: the level a modified order leaves is not broadcast.
FeedNothing(r) == feed

\* The depth update of the level a modified order leaves.
FeedLeftLevel(r) ==
    LET e == book.index[r.id]
    IN IF r.status = "modified" /\ r.price # e.price
       THEN [feed EXCEPT ![r.side][e.price] =
                            book.total[r.side][e.price] - e.quantity]
       ELSE feed

Apply(b, r) == CASE r.status = "open"     -> ProcessOpen(b, r)
                 [] r.status = "modified" -> ProcessModify(b, r)
                 [] r.status = "canceled" -> ProcessCancel(b, r)

\* Named bounds of the state space; well-formed requests never reach them.
WithinBounds ==
    /\ \A s \in Side, p \in Levels : Len(book.seq[s][p]) < MaxQueue
    /\ \A id \in Ids : due[id] > -MaxOverfill
    /\ Len(book.seq["bids"][MarketPrice]) + Len(book.seq["asks"][MarketPrice]) <= MaxLeft

\* The book changes, then subscribers and the owner are told, then processOrder
\* is called for every status.
Accept(user, r) ==
    LET n == Normalised(r)
    IN /\ pc = "idle"
       /\ WithinBounds
       /\ Valid(user, r)
       /\ Changes(n)
       /\ book' = Apply(book, n)
       /\ feed' = IF n.type = "limit"
                  THEN [FeedLeftLevel(n) EXCEPT ![n.side][n.price] =
                                                book'.total[n.side][n.price]]
                  ELSE FeedLeftLevel(n)
       /\ told' = [told EXCEPT ![n.id] = n.status]
       /\ due' = [due EXCEPT ![n.id] =
                    IF n.status = "canceled" THEN 0 ELSE n.quantity]
       /\ req' = n
       /\ pc' = "match"
       /\ deal' = NoDeal
       /\ UNCHANGED <<lastPrice, rem, walk>>

Open ==
    \E id \in Ids, side \in Side, type \in {"limit", "market"} :
        \E f \in FieldsOf(type), price \in Levels, quantity \in 0 .. MaxQty :
            LET r == MkRequest(id, side, "open", type, f, price, quantity)
            IN /\ told[id] = "none"
               /\ \/ Accept(Owner[id], r)
                  \/ Reject(Owner[id], r)

Modify ==
    \E user \in Users, id \in Ids, type \in {"none", "limit", "market"} :
        \E side \in RouteSides(id), f \in FieldsOf(type),
           price \in Levels, quantity \in 0 .. MaxQty :
            LET r == MkRequest(id, side, "modified", type, f, price, quantity)
            IN \/ Accept(user, r)
               \/ Reject(user, r)

Cancel ==
    \E user \in Users, id \in Ids, type \in CancelTypes :
        \E side \in RouteSides(id) :
            LET r == MkRequest(id, side, "canceled", type, NoMarketFields,
                               MarketPrice, 0)
            IN \/ Accept(user, r)
               \/ Reject(user, r)

----------------------------------------------------------------------------
(* processOrder.                                                            *)

CurrentPrice == IF lastPrice = NoPrice THEN IpoPrice ELSE lastPrice

Opposite == book.tree[Opp(req.side)]

\* No trade today and GetIPOPrice fails: processOrder returns at once.
NoCurrentPrice ==
    /\ pc = "match"
    /\ lastPrice = NoPrice
    /\ "ipo_error" \in Deviations
    /\ Return
    /\ UNCHANGED <<book, lastPrice, feed, told, due>>

\* The current price is beyond the bound computed from Slippage.
SlippageExceeded ==
    /\ req.bound # NoPrice
    /\ IF req.side = "bids" THEN CurrentPrice > req.bound
                            ELSE CurrentPrice < req.bound

MustKill == \/ Opposite = {}
            \/ req.fok /\ ~FokAvailable(book, req.side, req.quantity)
            \/ SlippageExceeded

\* Mutant: the owner is told, the order stays in the book.
TellWithoutDropping ==
    /\ told' = [told EXCEPT ![req.id] = "canceled"]
    /\ Return
    /\ UNCHANGED <<book, lastPrice, feed, due>>

\* What is left of a market order is cancelled and its owner told so.
DropMarketOrder ==
    /\ book' = ProcessCancel(book, req)
    /\ told' = [told EXCEPT ![req.id] = "canceled"]
    /\ due' = [due EXCEPT ![req.id] = IF @ > 0 THEN 0 ELSE @]
    /\ Return
    /\ UNCHANGED <<lastPrice, feed>>

KillMarketOrder ==
    /\ pc = "match"
    /\ req.type = "market"
    /\ MustKill
    /\ DropMarketOrder

StartMarketOrder ==
    /\ pc = "match"
    /\ req.type = "market"
    /\ ~MustKill
    /\ pc' = "walk"
    /\ rem' = req.quantity
    /\ walk' = Opposite
    /\ deal' = NoDeal
    /\ UNCHANGED <<book, lastPrice, req, feed, told, due>>

CannotTrade ==
    /\ req.price \notin book.overlap
    /\ Opposite # {} =>
          ~Crosses(req.side, req.price, Best(Opp(req.side), Opposite))

RestLimitOrder ==
    /\ pc = "match"
    /\ req.type = "limit"
    /\ CannotTrade
    /\ Return
    /\ UNCHANGED <<book, lastPrice, feed, told, due>>

\* Levels strictly better than the limit are walked like a market order's.
LevelsBeforeLimit == {p \in Opposite : Better(Opp(req.side), p, req.price)}

StartLimitOrder ==
    /\ pc = "match"
    /\ req.type = "limit"
    /\ ~CannotTrade
    /\ pc' = "walk"
    /\ rem' = req.quantity
    /\ walk' = LevelsBeforeLimit
    /\ deal' = NoDeal
    /\ UNCHANGED <<book, lastPrice, req, feed, told, due>>

----------------------------------------------------------------------------
(* One execution against the front of a level of the other side.            *)

FrontOrder(p) == Head(book.seq[Opp(req.side)][p])
FrontQty(p) == OrderQty(book, Opp(req.side), p, FrontOrder(p))
FrontRequest(p, quantity) == [id |-> FrontOrder(p), side |-> Opp(req.side),
                              price |-> p, quantity |-> quantity]

\* What both branches broadcast; v is the quantity executed.
Publish(p, v, takerStatus, makerStatus) ==
    /\ told' = [told EXCEPT ![req.id] = takerStatus, ![FrontOrder(p)] = makerStatus]
    /\ due' = [due EXCEPT ![req.id] = @ - v, ![FrontOrder(p)] = @ - v]
    /\ feed' = [feed EXCEPT ![Opp(req.side)][p] =
                                book'.total[Opp(req.side)][p]]
    /\ lastPrice' = p
    /\ deal' = [taker |-> req.id, maker |-> FrontOrder(p),
                price |-> p, quantity |-> v]

\* Mutant: the order that is now filled stays in the book.
TakerStays(b) == b

TakerLeaves(b) == ProcessCancel(b, req)

\* The front order covers the remaining quantity: it is reduced and the
\* request's own order leaves the book.  A front order without an index entry
\* makes processModify index a nil slice.
TakePart(p) ==
    /\ IF Indexed(book, FrontOrder(p))
       THEN /\ book' = TakerLeaves(ProcessModify(book,
                                FrontRequest(p, FrontQty(p) - rem)))
            /\ rem' = 0
            /\ Publish(p, rem, "filled", "partially_filled")
            /\ pc' = pc
       ELSE /\ pc' = "panicked"
            /\ deal' = NoDeal
            /\ UNCHANGED <<book, lastPrice, rem, feed, told, due>>
    /\ UNCHANGED <<req, walk>>

\* Mutant: the front order is reduced to nothing and stays in front.
ReduceToNothing(p) ==
    /\ book' = ProcessModify(book, FrontRequest(p, 0))
    /\ rem' = rem - FrontQty(p)
    /\ Publish(p, FrontQty(p), "partially_filled", "filled")
    /\ UNCHANGED <<pc, req, walk>>

\* The front order is used up and the request goes on.
TakeWhole(p) ==
    /\ book' = ProcessCancel(book, FrontRequest(p, FrontQty(p)))
    /\ rem' = rem - FrontQty(p)
    /\ Publish(p, FrontQty(p), "partially_filled", "filled")
    /\ UNCHANGED <<pc, req, walk>>

----------------------------------------------------------------------------
(* The levels of the cloned tree, best first.                               *)

\* Mutant: the clone is walked from its other end.
WorstPrice == Best(req.side, walk)

WalkPrice == Best(Opp(req.side), walk)

LevelDone == \/ rem = 0
             \/ book.seq[Opp(req.side)][WalkPrice] = <<>>
             \/ ~HasLevel(book.orders, Opp(req.side), WalkPrice)

\* Mutant: the front order is used up whatever it offers.
MarketStepUnchecked ==
    /\ pc = "walk"
    /\ walk # {}
    /\ ~LevelDone
    /\ TakeWhole(WalkPrice)

MarketStep ==
    /\ pc = "walk"
    /\ walk # {}
    /\ ~LevelDone
    /\ \/ FrontQty(WalkPrice) > rem /\ TakePart(WalkPrice)
       \/ FrontQty(WalkPrice) <= rem /\ TakeWhole(WalkPrice)

BuyMarketOrder == req.side = "bids" /\ MarketStep
SellMarketOrder == req.side = "asks" /\ MarketStep

NextLevel ==
    /\ pc = "walk"
    /\ walk # {}
    /\ LevelDone
    /\ rem > 0
    /\ walk' = walk \ {WalkPrice}
    /\ deal' = NoDeal
    /\ UNCHANGED <<book, lastPrice, pc, req, rem, feed, told, due>>

EndWalk ==
    /\ pc = "walk"
    /\ walk = {} \/ rem = 0
    /\ walk' = {}
    /\ pc' = IF req.type = "limit" /\ rem > 0 THEN "own" ELSE "finish"
    /\ deal' = NoDeal
    /\ UNCHANGED <<book, lastPrice, req, rem, feed, told, due>>

\* The opposite level at the limit itself.
LimitStep ==
    /\ pc = "own"
    /\ book.seq[Opp(req.side)][req.price] # <<>>
    /\ rem > 0
    /\ \/ FrontQty(req.price) >= rem /\ TakePart(req.price)
       \/ FrontQty(req.price) < rem /\ TakeWhole(req.price)

BuyLimitOrder == req.side = "bids" /\ LimitStep
SellLimitOrder == req.side = "asks" /\ LimitStep

EndOwn ==
    /\ pc = "own"
    /\ book.seq[Opp(req.side)][req.price] = <<>> \/ rem = 0
    /\ pc' = "finish"
    /\ deal' = NoDeal
    /\ UNCHANGED <<book, lastPrice, req, rem, walk, feed, told, due>>

----------------------------------------------------------------------------
(* The end of processMarketOrder and of processLimitOrder.                  *)

FinishMarketOrder ==
    /\ pc = "finish"
    /\ req.type = "market"
    /\ DropMarketOrder

\* What is left of a limit order goes back into the book.  The order of a
\* cancel request has no index entry any more.
FinishLimitOrder ==
    /\ pc = "finish"
    /\ req.type = "limit"
    /\ IF rem > 0 /\ ~Indexed(book, req.id)
       THEN /\ pc' = "panicked"
            /\ deal' = NoDeal
            /\ UNCHANGED <<book, lastPrice, req, rem, walk, feed, told, due>>
       ELSE /\ book' = IF rem > 0
                       THEN ProcessModify(book, [req EXCEPT !.quantity = rem])
                       ELSE book
            /\ feed' = [feed EXCEPT ![req.side][req.price] =
                                        book'.total[req.side][req.price]]
            /\ Return
            /\ UNCHANGED <<lastPrice, told, due>>

ProcessOrder ==
    \/ NoCurrentPrice
    \/ KillMarketOrder
    \/ StartMarketOrder
    \/ RestLimitOrder
    \/ StartLimitOrder
    \/ BuyMarketOrder
    \/ SellMarketOrder
    \/ NextLevel
    \/ EndWalk
    \/ BuyLimitOrder
    \/ SellLimitOrder
    \/ EndOwn
    \/ FinishMarketOrder
    \/ FinishLimitOrder

Next ==
    \/ Open
    \/ Modify
    \/ Cancel
    \/ ProcessOrder

Spec == Init /\ [][Next]_vars

\* A goroutine that has a request runs on; nothing forces a client to send one.
FairSpec == Spec /\ WF_vars(ProcessOrder)

----------------------------------------------------------------------------
(* Properties.                                                              *)

PC == {"idle", "match", "walk", "own", "finish", "panicked"}
Status == {"none", "open", "modified", "canceled", "filled", "partially_filled"}

Entry == [side : Side, price : Levels, quantity : Nat]

BookType ==
    [orders  : [Side -> [Levels -> [Ids -> Nat \cup {NoOrder}]]],
     total   : [Side -> [Levels -> Int]],
     tree    : [Side -> SUBSET Levels],
     seq     : [Side -> [Levels -> Seq(Ids)]],
     index   : [Ids -> Entry \cup {NoEntry}],
     overlap : SUBSET Levels]

TypeOK ==
    /\ book \in BookType
    /\ lastPrice \in Levels \cup {NoPrice}
    /\ pc \in PC
    /\ req \in Request
    /\ pc # "idle" => req.id \in Ids
    /\ rem \in Nat
    /\ walk \in SUBSET Levels
    /\ feed \in [Side -> [Levels -> Int]]
    /\ told \in [Ids -> Status]
    /\ due \in [Ids -> Int]
    /\ deal \in [taker : Ids \cup {NoId}, maker : Ids \cup {NoId},
                 price : Levels \cup {NoPrice}, quantity : Nat]

\* BidTree and AskTree hold exactly the prices at which an order rests, and
\* TempBidAskOverlapCheck the prices at which both sides rest: the matching
\* code looks only at these caches to decide whether and where to trade.
TreesAgree(b) ==
    /\ \A s \in Side : b.tree[s] = {p \in Levels : HasLevel(b.orders, s, p)}
    /\ b.overlap = b.tree["bids"] \cap b.tree["asks"]

TreesMatchLevels == TreesAgree(book)

\* The index entry of an order and the order in the book are the same: an
\* indexed order rests at that side, price and quantity, and every resting
\* order can be found, and so modified or cancelled, through the index.
IndexAgrees(b) ==
    \A id \in Ids, s \in Side, p \in Levels :
        b.orders[s][p][id] =
            IF b.index[id].side = s /\ b.index[id].price = p
            THEN b.index[id].quantity ELSE NoOrder

\* The execution queue of a level holds each order resting there exactly once.
QueuesAgree(b) ==
    \A s \in Side, p \in Levels :
        /\ IsInjective(b.seq[s][p])
        /\ ToSet(b.seq[s][p]) = {id \in Ids : b.orders[s][p][id] # NoOrder}

\* TotalBids and TotalAsks, kept by adding and subtracting at every change,
\* are the sums of the orders that rest.
TotalsAgree(b) ==
    \A s \in Side, p \in Levels :
        b.total[s][p] = SumFunctionOnSet([id \in Ids |-> OrderQty(b, s, p, id)], Ids)

\* The four copies the book keeps of an order (level, index entry, place in a
\* queue, share of a total) agree after any sequence of opens, changes, moves,
\* cancels and partial fills, though different branches write them.
CopiesAgree == IndexAgrees(book) /\ QueuesAgree(book) /\ TotalsAgree(book)

\* Price priority, then time priority: an execution is against the order that
\* is first in the queue of the best opposite price, for walks that started
\* from a copy of the tree as well; and a limit order never trades at a price
\* worse than its limit.
BestPriceFirst ==
    [][deal' # NoDeal =>
        LET o == Opp(req.side)
        IN /\ book.tree[o] # {}
           /\ deal'.price = Best(o, book.tree[o])
           /\ deal'.maker = Head(book.seq[o][deal'.price])
           /\ req.type = "limit" => Crosses(req.side, req.price, deal'.price)]_vars

\* Order x is executed before order y of the same queue.
Precedes(q, x, y) ==
    \E i \in DOMAIN q, j \in DOMAIN q : i < j /\ q[i] = x /\ q[j] = y

\* Two orders that wait in one queue and are not the order of the request
\* being processed never overtake one another, whatever is partially filled.
QueueOrderKept ==
    [][\A s \in Side, p \in Levels :
        LET old == book.seq[s][p]
            new == book'.seq[s][p]
            stays == (ToSet(old) \cap ToSet(new)) \ {req.id, req'.id}
        IN \A x \in stays, y \in stays :
               Precedes(old, x, y) => Precedes(new, x, y)]_vars

\* A fill-or-kill order that was started is executed to its last unit.
FillOrKill ==
    pc = "finish" /\ req.type = "market" /\ req.fok => rem = 0

\* When the engine waits, no order has lost quantity its owner is owed: an
\* order out of the book has been traded or cancelled in full, and one in the
\* book offers at least what is still due.
NothingLost ==
    pc = "idle" => \A id \in Ids :
        due[id] <= IF Indexed(book, id) THEN book.index[id].quantity ELSE 0

\* An owner who was last told "filled" or "canceled" has no order left at any
\* level or in any queue.
ClosedIsGone ==
    pc = "idle" => \A id \in Ids :
        told[id] \in {"none", "filled", "canceled"} =>
            \A s \in Side, p \in Levels :
                /\ book.orders[s][p][id] = NoOrder
                /\ id \notin ToSet(book.seq[s][p])

\* A subscriber that keeps the last update of every level of limit orders sees
\* the totals of the book whenever the engine waits for a request.
DepthFeedFaithful ==
    pc = "idle" => \A s \in Side, p \in Prices :
        feed[s][p] = book.total[s][p]

\* No market order waits in the book for a later request.
MarketOrdersNeverRest ==
    pc = "idle" => \A s \in Side : MarketPrice \notin book.tree[s]

\* Every request is processed to the end: no matching loop runs forever.
EngineReturns == pc # "idle" ~> pc \in {"idle", "panicked"}

----------------------------------------------------------------------------
(* What comments and documentation say and the code does not keep.          *)

\* "... and the remaining quantity is executed as a limit order" (742): what
\* rests of an order is what has not been traded yet.
OnlyRemainderRests ==
    pc = "idle" => \A id \in Ids :
        Indexed(book, id) => book.index[id].quantity = due[id]

\* The front order is reduced "if the tradable quantity is more than the
\* remaining quantity" (1085), so a reduced order has something left to trade.
NoEmptyOrderRests ==
    pc = "idle" => \A id \in Ids :
        Indexed(book, id) => book.index[id].quantity > 0

\* DELETE cancels the order (orders.go:183): it executes nothing.
CancelNeverTrades == [][deal' # NoDeal => req.status # "canceled"]_vars

\* A market order is cancelled "if some quantity remains" (721): an owner told
\* that the order is filled is not told afterwards that it is cancelled.
FilledStaysFilled ==
    [][\A id \in Ids : told[id] = "filled" => told'[id] # "canceled"]_vars

\* Slippage is the "max_slippage_percent" of a market order (v1struct.go:56):
\* it is not executed beyond the price that follows from it.
SlippageBoundsExecution ==
    [][deal' # NoDeal /\ req.type = "market" /\ req.bound # NoPrice =>
        Crosses(req.side, req.bound, deal'.price)]_vars

=============================================================================
