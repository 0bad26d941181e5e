---------------------------- MODULE OrderGateway ----------------------------
(***************************************************************************)
(* The way of an order request from its HTTP handler to the order engine   *)
(* and back (routes/api/v1/market/orders.go, the two middlewares in front  *)
(* of it, ProcessOrders.Create): a handler checks the market status and    *)
(* the symbol, sends the request into a buffered channel and waits for the *)
(* result in a channel of its own, both with a timeout of 5 s.             *)
(*                                                                         *)
(* The six order handlers differ only in the fields they set, so one       *)
(* control flow stands for all of them.  What the engine does with a       *)
(* request is MatchingEngine's subject: here it answers either way, and    *)
(* changes the book only after its answer, as processOrderRequest does.    *)
(* All requests concern one symbol.                                        *)
(***************************************************************************)
EXTENDS Naturals, Sequences

CONSTANTS
    Requests,    \* HTTP requests; a client's retry is a request of its own
    NoRequest,   \* a value that is not a request
    Capacity     \* of OrderRequestChan, 500 in the code

ASSUME GatewayAssumption ==
    /\ NoRequest \notin Requests
    /\ Capacity \in Nat \ {0}

VARIABLES
    open,      \* exchanges.MarketStatus # "closed"
    tradable,  \* the symbol's row has status active
    pc,        \* where a request's handler is
    reply,     \* what the client was told, "none" before
    queue,     \* OrderRequestChan
    result,    \* what a request's ResultChan holds, "none" when empty
    engine,    \* what the order engine is doing: "idle", "decide", "execute"
    current,   \* the request it is doing that for
    executed,  \* the requests whose effect is in the order book
    earlier    \* history: the requests known to have succeeded on arrival

handlerVars == <<pc, reply, earlier>>
engineVars == <<engine, current, executed>>
vars == <<open, tradable, handlerVars, queue, result, engineVars>>

Answers == {"success", "failure"}
Checking == {"session", "symbol", "parse"}

\* "unsent" is the return after the first timeout, "returned" the others.
Positions == {"idle", "send", "wait", "unsent", "returned"} \cup Checking

-----------------------------------------------------------------------------
Init ==
    /\ open \in BOOLEAN
    /\ tradable \in BOOLEAN
    /\ pc = [r \in Requests |-> "idle"]
    /\ reply = [r \in Requests |-> "none"]
    /\ queue = <<>>
    /\ result = [r \in Requests |-> "none"]
    /\ engine = "idle"
    /\ current = NoRequest
    /\ executed = {}
    /\ earlier = [r \in Requests |-> {}]

(* The world around: the session clock and the administrators. *)
UpdateMarketStatus ==
    /\ open' = ~open
    /\ UNCHANGED <<tradable, handlerVars, queue, result, engineVars>>

UpdateSymbolStatus ==
    /\ tradable' = ~tradable
    /\ UNCHANGED <<open, handlerVars, queue, result, engineVars>>

(* A handler. *)
Moves(r, from, to) ==
    /\ pc[r] = from
    /\ pc' = [pc EXCEPT ![r] = to]

Tell(r, answer) == reply' = [reply EXCEPT ![r] = answer]

\* A request that passed the API key check reaches the order group.
Arrive(r) ==
    /\ Moves(r, "idle", "session")
    /\ earlier' = [earlier EXCEPT ![r] = {q \in Requests : reply[q] = "success"}]
    /\ UNCHANGED <<open, tradable, reply, queue, result, engineVars>>

IsOnline(r) ==
    /\ open
    /\ Moves(r, "session", "symbol")
    /\ UNCHANGED <<open, tradable, reply, earlier, queue, result, engineVars>>

IsTradable(r) ==
    /\ tradable
    /\ Moves(r, "symbol", "parse")
    /\ UNCHANGED <<open, tradable, reply, earlier, queue, result, engineVars>>

BodyParser(r) ==
    /\ Moves(r, "parse", "send")
    /\ UNCHANGED <<open, tradable, reply, earlier, queue, result, engineVars>>

\* The market is closed, the symbol is not active or cannot be read (its
\* lookup may fail, whatever the row says), or the body is not JSON.
Refuse(r) ==
    /\ pc[r] \in Checking
    /\ pc[r] = "session" => ~open
    /\ Moves(r, pc[r], "returned")
    /\ Tell(r, "refused")
    /\ UNCHANGED <<open, tradable, earlier, queue, result, engineVars>>

\* Mutant: the channel has no bound.
SendUnbounded(r) ==
    /\ Moves(r, "send", "wait")
    /\ queue' = Append(queue, r)
    /\ UNCHANGED <<open, tradable, reply, earlier, result, engineVars>>

Send(r) ==
    /\ Len(queue) < Capacity
    /\ Moves(r, "send", "wait")
    /\ queue' = Append(queue, r)
    /\ UNCHANGED <<open, tradable, reply, earlier, result, engineVars>>

\* Mutant: the request is sent although its handler has given up.
SendTimeoutSends(r) ==
    /\ Len(queue) = Capacity
    /\ Moves(r, "send", "unsent")
    /\ queue' = Append(queue, r)
    /\ Tell(r, "busy")
    /\ UNCHANGED <<open, tradable, earlier, result, engineVars>>

\* A send blocks, and so may time out, only while the channel is full.
SendTimeout(r) ==
    /\ Len(queue) = Capacity
    /\ Moves(r, "send", "unsent")
    /\ Tell(r, "busy")
    /\ UNCHANGED <<open, tradable, earlier, queue, result, engineVars>>

ReadResult(r) ==
    /\ result[r] # "none"
    /\ Moves(r, "wait", "returned")
    /\ Tell(r, result[r])
    /\ result' = [result EXCEPT ![r] = "none"]
    /\ UNCHANGED <<open, tradable, earlier, queue, engineVars>>

\* Mutant: the wait for the result has no timeout.
ReadForever(r) == FALSE

\* The request stays where it is: nothing withdraws it from the channel.
ReadTimeout(r) ==
    /\ result[r] = "none"
    /\ Moves(r, "wait", "returned")
    /\ Tell(r, "busy")
    /\ UNCHANGED <<open, tradable, earlier, queue, result, engineVars>>

Returns(r) ==
    \/ IsOnline(r) \/ IsTradable(r) \/ BodyParser(r) \/ Refuse(r)
    \/ Send(r) \/ SendTimeout(r) \/ ReadResult(r) \/ ReadTimeout(r)

(* The order engine's goroutine. *)
\* Mutant: a second goroutine takes requests while the first changes the book.
TakeWhileExecuting ==
    /\ engine # "decide"
    /\ queue # <<>>
    /\ current' = Head(queue)
    /\ queue' = Tail(queue)
    /\ engine' = "decide"
    /\ UNCHANGED <<open, tradable, handlerVars, result, executed>>

Take ==
    /\ engine = "idle"
    /\ queue # <<>>
    /\ current' = Head(queue)
    /\ queue' = Tail(queue)
    /\ engine' = "decide"
    /\ UNCHANGED <<open, tradable, handlerVars, result, executed>>

Decided(answer) ==
    /\ result' = [result EXCEPT ![current] = answer]
    /\ engine' = IF answer = "success" THEN "execute" ELSE "idle"
    /\ current' = IF answer = "success" THEN current ELSE NoRequest

\* Mutant: the result channel has no room, the engine waits for the handler.
DecideUnbuffered ==
    /\ engine = "decide"
    /\ pc[current] = "wait"
    /\ \E answer \in Answers : Decided(answer)
    /\ UNCHANGED <<open, tradable, handlerVars, queue, executed>>

\* ResultChan has room for the one result, so that this never blocks.
Decide ==
    /\ engine = "decide"
    /\ \E answer \in Answers : Decided(answer)
    /\ UNCHANGED <<open, tradable, handlerVars, queue, executed>>

Execute ==
    /\ engine = "execute"
    /\ executed' = executed \cup {current}
    /\ engine' = "idle"
    /\ current' = NoRequest
    /\ UNCHANGED <<open, tradable, handlerVars, queue, result>>

Create == Take \/ Decide \/ Execute

-----------------------------------------------------------------------------
Next ==
    \/ UpdateMarketStatus
    \/ UpdateSymbolStatus
    \/ \E r \in Requests : Arrive(r) \/ Returns(r)
    \/ Create

Spec == Init /\ [][Next]_vars

\* Handlers run on, and their timers fire, whatever the engine does.
FairSpec == Spec /\ \A r \in Requests : WF_vars(Returns(r))

-----------------------------------------------------------------------------
TypeOK ==
    /\ open \in BOOLEAN
    /\ tradable \in BOOLEAN
    /\ pc \in [Requests -> Positions]
    /\ reply \in [Requests -> {"none", "refused", "busy"} \cup Answers]
    /\ queue \in Seq(Requests)
    /\ Len(queue) <= Capacity
    /\ result \in [Requests -> {"none"} \cup Answers]
    /\ engine \in {"idle", "decide", "execute"}
    /\ current \in Requests \cup {NoRequest}
    /\ (current = NoRequest) <=> (engine = "idle")
    /\ executed \subseteq Requests
    /\ earlier \in [Requests -> SUBSET Requests]

\* What the engine decided is in the result channel or was read from it.
Outcome(r) ==
    IF "success" \in {result[r], reply[r]} THEN "accepted"
    ELSE IF "failure" \in {result[r], reply[r]} THEN "rejected"
    ELSE "none"

\* A client that gave up before the channel had room was in truth refused.
TrueReply(r) == IF pc[r] = "unsent" THEN "refused" ELSE reply[r]

(* The routes implement the promise stated by OrderService: a request is   *)
(* decided at most once, never if it was refused or was not sent, and a    *)
(* definite answer tells what the engine decided (orders.go:110-123).      *)
Service == INSTANCE OrderService
    WITH outcome <- [r \in Requests |-> Outcome(r)],
         reply <- [r \in Requests |-> TrueReply(r)]

ImplementsService == Service!Spec

(* Who was told that an order was placed and then cancels or modifies it   *)
(* finds it: when the engine decides a request, whatever had been          *)
(* acknowledged before the request arrived is in the book, although the    *)
(* acknowledgement precedes the change (processOrders.go:182).             *)
SeesEarlierOrders ==
    engine = "decide" => earlier[current] \subseteq executed

(* A handler answers, through a full channel, a slow engine or one that    *)
(* never comes back (the timers of orders.go:112 and 121).                 *)
EveryRequestAnswered ==
    \A r \in Requests : pc[r] # "idle" ~> reply[r] # "none"

(* If every pass of the engine comes to its end, each request sent to it   *)
(* is decided and carried out, also after its handler has given up and     *)
(* will never read the result (make(chan t.Result, 1), orders.go:107).     *)
SentIsSettled ==
    WF_vars(Create) =>
        \A r \in Requests :
            pc[r] = "wait" ~> \/ Outcome(r) = "rejected"
                              \/ r \in executed

(* "Order processing is busy, please try again later" (orders.go:113, 122) *)
(* reads as: the order was not taken, and sending it again is safe.        *)
BusyMeansNotTaken ==
    \A r \in Requests : reply[r] = "busy" => Outcome(r) # "accepted"

(* "503 when the market is closed" (orders.go:91), at the time it counts:  *)
(* the engine accepts nothing while the market is closed.                  *)
ClosedMarketAcceptsNothing ==
    [][\A r \in Requests :
          Outcome(r)' = "accepted" => Outcome(r) = "accepted" \/ open]_vars

=============================================================================
