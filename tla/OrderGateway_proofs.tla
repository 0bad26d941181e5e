------------------------ MODULE OrderGateway_proofs ------------------------
(***************************************************************************)
(* The order routes implement OrderService for any number of requests and  *)
(* any capacity of the engine's channel.  The argument is an account of    *)
(* where a request is: a request that waits for its decision is in exactly *)
(* one place, its handler has sent it and has no definite answer, and      *)
(* everything that was accepted is either in the book or what the engine   *)
(* is just doing.                                                          *)
(***************************************************************************)
EXTENDS OrderGateway, TLAPS

InQueue(r) == \E i \in 1 .. Len(queue) : queue[i] = r
Pending(r) == InQueue(r) \/ (engine = "decide" /\ current = r)

QueuedOnce ==
    /\ \A i, j \in 1 .. Len(queue) : queue[i] = queue[j] => i = j
    /\ engine = "decide" => ~InQueue(current)

PendingIsOpen ==
    \A r \in Requests :
        Pending(r) => /\ pc[r] \in {"wait", "returned"}
                      /\ result[r] = "none"
                      /\ reply[r] \in {"none", "busy"}

HandlersAgree ==
    \A r \in Requests :
        /\ pc[r] \in {"idle", "send"} \cup Checking =>
              reply[r] = "none" /\ result[r] = "none"
        /\ pc[r] = "wait" => reply[r] = "none"
        /\ pc[r] = "unsent" => reply[r] = "busy" /\ result[r] = "none"
        /\ result[r] # "none" => reply[r] \in {"none", "busy"}

AcceptedIsDone ==
    /\ \A r \in Requests :
          Outcome(r) = "accepted"
             <=> r \in executed \/ (engine = "execute" /\ current = r)
    /\ engine = "execute" => current \notin executed

EarlierAccepted ==
    \A r \in Requests : \A e \in earlier[r] : Outcome(e) = "accepted"

IInv == /\ TypeOK
        /\ QueuedOnce
        /\ PendingIsOpen
        /\ HandlersAgree
        /\ AcceptedIsDone
        /\ EarlierAccepted
-----------------------------------------------------------------------------
(* The invariant holds at first: nobody has sent anything. *)
LEMMA Initially == Init => IInv
<1>1. SUFFICES ASSUME Init PROVE IInv
  OBVIOUS
<1>2. TypeOK
  BY <1>1, GatewayAssumption DEF Init, TypeOK, Positions, Checking, Answers
<1>3. QueuedOnce /\ PendingIsOpen
  BY <1>1 DEF Init, QueuedOnce, PendingIsOpen, Pending, InQueue
<1>4. HandlersAgree
  BY <1>1 DEF Init, HandlersAgree, Checking
<1>5. AcceptedIsDone /\ EarlierAccepted
  BY <1>1 DEF Init, AcceptedIsDone, EarlierAccepted, Outcome
<1> QED
  BY <1>2, <1>3, <1>4, <1>5 DEF IInv

(* Every step keeps it. *)
LEMMA Inductive == IInv /\ [Next]_vars => IInv'
<1> SUFFICES ASSUME IInv, [Next]_vars PROVE IInv'
  OBVIOUS
<1> USE GatewayAssumption DEF IInv
<1>1. CASE UpdateMarketStatus \/ UpdateSymbolStatus
  <2>1. TypeOK'
    BY <1>1
       DEF UpdateMarketStatus, UpdateSymbolStatus, TypeOK, handlerVars,
           engineVars
  <2>2. UNCHANGED <<handlerVars, queue, result, engineVars>>
    BY <1>1 DEF UpdateMarketStatus, UpdateSymbolStatus
  <2> QED
    BY <2>1, <2>2
       DEF handlerVars, engineVars, QueuedOnce, PendingIsOpen, Pending,
           InQueue,
       HandlersAgree, AcceptedIsDone, EarlierAccepted, Outcome
<1>2. ASSUME NEW r \in Requests, Arrive(r) PROVE IInv'
  <2>1. TypeOK'
    BY <1>2 DEF Arrive, Moves, TypeOK, Positions, Checking, Answers, engineVars
  <2>2. QueuedOnce'
    BY <1>2 DEF Arrive, engineVars, QueuedOnce, InQueue
  <2>3. PendingIsOpen'
    BY <1>2
       DEF Arrive, Moves, TypeOK, Positions, Checking, Answers, engineVars,
           PendingIsOpen, Pending, InQueue
  <2>4. HandlersAgree'
    BY <1>2
       DEF Arrive, Moves, TypeOK, Positions, Checking, Answers, HandlersAgree
  <2>5. \A q \in Requests : Outcome(q)' = Outcome(q)
    BY <1>2
       DEF Arrive, Moves, TypeOK, Positions, Checking, Answers, HandlersAgree,
           Outcome
  <2>6. AcceptedIsDone'
    BY <1>2, <2>5 DEF Arrive, engineVars, AcceptedIsDone
  <2>7. EarlierAccepted'
    BY <1>2, <2>5 DEF Arrive, TypeOK, EarlierAccepted, Outcome
  <2> QED
    BY <2>1, <2>2, <2>3, <2>4, <2>6, <2>7
<1>3. ASSUME NEW r \in Requests, IsOnline(r) \/ IsTradable(r) \/ BodyParser(r) PROVE IInv'
  <2>1. TypeOK'
    BY <1>3
       DEF IsOnline, IsTradable, BodyParser, Moves, TypeOK, Positions,
           Checking, Answers, engineVars
  <2>2. QueuedOnce'
    BY <1>3
       DEF IsOnline, IsTradable, BodyParser, engineVars, QueuedOnce, InQueue
  <2>3. PendingIsOpen'
    BY <1>3
       DEF IsOnline, IsTradable, BodyParser, Moves, TypeOK, Positions,
           Checking, Answers, engineVars, PendingIsOpen, Pending, InQueue
  <2>4. HandlersAgree'
    BY <1>3
       DEF IsOnline, IsTradable, BodyParser, Moves, TypeOK, Positions,
           Checking, Answers, HandlersAgree
  <2>5. \A q \in Requests : Outcome(q)' = Outcome(q)
    BY <1>3
       DEF IsOnline, IsTradable, BodyParser, Moves, TypeOK, Positions,
           Checking, Answers, HandlersAgree, Outcome
  <2>6. AcceptedIsDone'
    BY <1>3, <2>5
       DEF IsOnline, IsTradable, BodyParser, engineVars, AcceptedIsDone
  <2>7. EarlierAccepted'
    BY <1>3, <2>5 DEF IsOnline, IsTradable, BodyParser, TypeOK, EarlierAccepted
  <2> QED
    BY <2>1, <2>2, <2>3, <2>4, <2>6, <2>7
<1>4. ASSUME NEW r \in Requests, Refuse(r) \/ SendTimeout(r) \/ ReadTimeout(r) PROVE IInv'
  <2>1. TypeOK'
    BY <1>4
       DEF Refuse, SendTimeout, ReadTimeout, Moves, Tell, TypeOK, Positions,
           Checking, Answers, engineVars
  <2>2. QueuedOnce'
    BY <1>4
       DEF Refuse, SendTimeout, ReadTimeout, engineVars, QueuedOnce, InQueue
  <2>3. PendingIsOpen'
    BY <1>4
       DEF Refuse, SendTimeout, ReadTimeout, Moves, Tell, TypeOK, Positions,
           Checking, Answers, engineVars, PendingIsOpen, Pending, InQueue
  <2>4. HandlersAgree'
    BY <1>4
       DEF Refuse, SendTimeout, ReadTimeout, Moves, Tell, TypeOK, Positions,
           Checking, Answers, HandlersAgree
  <2>5. \A q \in Requests : Outcome(q)' = Outcome(q)
    BY <1>4
       DEF Refuse, SendTimeout, ReadTimeout, Moves, Tell, TypeOK, Positions,
           Checking, Answers, HandlersAgree, Outcome
  <2>6. AcceptedIsDone'
    BY <1>4, <2>5
       DEF Refuse, SendTimeout, ReadTimeout, engineVars, AcceptedIsDone
  <2>7. EarlierAccepted'
    BY <1>4, <2>5 DEF Refuse, SendTimeout, ReadTimeout, TypeOK, EarlierAccepted
  <2> QED
    BY <2>1, <2>2, <2>3, <2>4, <2>6, <2>7
<1>5. ASSUME NEW r \in Requests, ReadResult(r) PROVE IInv'
  <2>1. TypeOK'
    BY <1>5
       DEF ReadResult, Moves, Tell, TypeOK, Positions, Checking, Answers,
           engineVars
  <2>2. QueuedOnce'
    BY <1>5 DEF ReadResult, engineVars, QueuedOnce, InQueue
  <2>3. PendingIsOpen'
    BY <1>5
       DEF ReadResult, Moves, Tell, TypeOK, Positions, Checking, Answers,
           engineVars, PendingIsOpen, Pending, InQueue
  <2>4. HandlersAgree'
    BY <1>5
       DEF ReadResult, Moves, Tell, TypeOK, Positions, Checking, Answers,
           HandlersAgree
  <2>5. \A q \in Requests : Outcome(q)' = Outcome(q)
    BY <1>5
       DEF ReadResult, Moves, Tell, TypeOK, Positions, Checking, Answers,
           HandlersAgree, Outcome
  <2>6. AcceptedIsDone'
    BY <1>5, <2>5 DEF ReadResult, engineVars, AcceptedIsDone
  <2>7. EarlierAccepted'
    BY <1>5, <2>5 DEF ReadResult, TypeOK, EarlierAccepted
  <2> QED
    BY <2>1, <2>2, <2>3, <2>4, <2>6, <2>7
<1>6. ASSUME NEW r \in Requests, Send(r) PROVE IInv'
  <2>1. /\ Len(queue') = Len(queue) + 1
        /\ queue'[Len(queue) + 1] = r
        /\ \A i \in 1 .. Len(queue) : queue'[i] = queue[i]
    BY <1>6 DEF Send, TypeOK
  <2>2. \A q : InQueue(q)' <=> InQueue(q) \/ q = r
    BY <2>1 DEF InQueue, TypeOK
  <2>3. ~Pending(r)
    BY <1>6 DEF Send, Moves, PendingIsOpen
  <2>4. TypeOK'
    BY <1>6 DEF Send, Moves, TypeOK, Positions, Checking, Answers, engineVars
  <2>5. QueuedOnce'
    <3>1. \A i, j \in 1 .. Len(queue') : queue'[i] = queue'[j] => i = j
      BY <2>1, <2>3 DEF QueuedOnce, Pending, InQueue, TypeOK
    <3>2. engine' = "decide" => ~InQueue(current)'
      BY <1>6, <2>2, <2>3 DEF Send, engineVars, QueuedOnce, Pending, InQueue
    <3> QED
      BY <3>1, <3>2 DEF QueuedOnce
  <2>6. \A q \in Requests : Pending(q)' <=> Pending(q) \/ q = r
    BY <1>6, <2>2 DEF Send, engineVars, Pending
  <2>7. PendingIsOpen'
    BY <1>6, <2>6
       DEF Send, Moves, TypeOK, Positions, Checking, Answers, PendingIsOpen,
           HandlersAgree
  <2>8. HandlersAgree'
    BY <1>6 DEF Send, Moves, TypeOK, Positions, Checking, Answers, HandlersAgree
  <2>9. AcceptedIsDone' /\ EarlierAccepted'
    BY <1>6 DEF Send, engineVars, AcceptedIsDone, EarlierAccepted, Outcome
  <2> QED
    BY <2>4, <2>5, <2>7, <2>8, <2>9
<1>7. CASE Take
  <2>1. TypeOK'
    BY <1>7 DEF Take, TypeOK, Positions, Checking, Answers, handlerVars
  <2>2. QueuedOnce'
    BY <1>7 DEF Take, TypeOK, QueuedOnce, InQueue
  <2>3. PendingIsOpen'
    BY <1>7 DEF Take, TypeOK, handlerVars, PendingIsOpen, Pending, InQueue
  <2>4. HandlersAgree'
    BY <1>7 DEF Take, handlerVars, HandlersAgree
  <2>5. AcceptedIsDone' /\ EarlierAccepted'
    BY <1>7 DEF Take, handlerVars, AcceptedIsDone, EarlierAccepted, Outcome
  <2> QED
    BY <2>1, <2>2, <2>3, <2>4, <2>5
<1>8. CASE Decide
  <2>1. PICK answer \in Answers : Decided(answer)
    BY <1>8 DEF Decide
  <2>2. /\ engine = "decide"
        /\ current \in Requests
        /\ UNCHANGED <<open, tradable, handlerVars, queue, executed>>
    BY <1>8 DEF Decide, TypeOK
  <2>3. /\ pc[current] \in {"wait", "returned"}
        /\ result[current] = "none"
        /\ reply[current] \in {"none", "busy"}
        /\ ~InQueue(current)
    BY <2>2 DEF PendingIsOpen, Pending, QueuedOnce
  <2>4. TypeOK'
    BY <2>1, <2>2 DEF Decided, TypeOK, Positions, Checking, Answers, handlerVars
  <2>5. QueuedOnce'
    BY <2>1, <2>2 DEF Decided, Answers, QueuedOnce, InQueue
  <2>6. \A r \in Requests : Pending(r)' => Pending(r) /\ r # current
    BY <2>1, <2>2, <2>3 DEF Decided, Answers, Pending, InQueue
  <2>7. PendingIsOpen'
    BY <2>1, <2>2, <2>6 DEF Decided, handlerVars, TypeOK, PendingIsOpen
  <2>8. HandlersAgree'
    BY <2>1, <2>2, <2>3
       DEF Decided, handlerVars, TypeOK, Positions, Checking, Answers,
           HandlersAgree
  <2>9. \A r \in Requests : r # current => Outcome(r)' = Outcome(r)
    BY <2>1, <2>2 DEF Decided, handlerVars, TypeOK, Outcome
  <2>10. \A r \in Requests : r = current =>
            /\ Outcome(r) = "none"
            /\ Outcome(r)' = IF answer = "success" THEN "accepted" ELSE "rejected"
    BY <2>1, <2>2, <2>3 DEF Decided, handlerVars, TypeOK, Answers, Outcome
  <2>11. AcceptedIsDone'
    BY <2>1, <2>2, <2>9, <2>10 DEF Decided, Answers, TypeOK, AcceptedIsDone
  <2>12. EarlierAccepted'
    BY <2>2, <2>9, <2>10 DEF handlerVars, TypeOK, EarlierAccepted
  <2> QED
    BY <2>4, <2>5, <2>7, <2>8, <2>11, <2>12
<1>9. CASE Execute
  <2>1. TypeOK'
    BY <1>9 DEF Execute, TypeOK, handlerVars
  <2>2. QueuedOnce' /\ PendingIsOpen'
    BY <1>9
       DEF Execute, handlerVars, QueuedOnce, PendingIsOpen, Pending, InQueue
  <2>3. HandlersAgree'
    BY <1>9 DEF Execute, handlerVars, HandlersAgree
  <2>4. AcceptedIsDone' /\ EarlierAccepted'
    BY <1>9 DEF Execute, handlerVars, AcceptedIsDone, EarlierAccepted, Outcome
  <2> QED
    BY <2>1, <2>2, <2>3, <2>4
<1>10. CASE UNCHANGED vars
  BY <1>10
     DEF vars, handlerVars, engineVars, TypeOK, QueuedOnce, PendingIsOpen,
         Pending,
     InQueue, HandlersAgree, AcceptedIsDone, EarlierAccepted, Outcome
<1> QED
  BY <1>1, <1>2, <1>3, <1>4, <1>5, <1>6, <1>7, <1>8, <1>9, <1>10
     DEF Next, Returns, Create

\* The account of the requests holds in every reachable state of the routes.
THEOREM InvariantHolds == Spec => []IInv
<1> QED
  BY Initially, Inductive, PTL DEF Spec

(* Every state of the routes and the engine's channel is well typed, and   *)
(* the channel never holds more than its capacity (TypeOK).                *)
THEOREM TypeCorrect == Spec => []TypeOK
<1>1. IInv => TypeOK
  BY DEF IInv
<1> QED
  BY <1>1, InvariantHolds, PTL

(* What was acknowledged before a request arrived is in the book when the  *)
(* engine decides that request (processOrders.go:39-41 takes one request   *)
(* at a time and finishes it).                                             *)
THEOREM EarlierOrdersSeen == Spec => []SeesEarlierOrders
<1>1. IInv => SeesEarlierOrders
  BY DEF IInv, SeesEarlierOrders, EarlierAccepted, AcceptedIsDone, TypeOK
<1> QED
  BY <1>1, InvariantHolds, PTL

(* Each step of the routes and of the engine is a step of OrderService or  *)
(* leaves what it speaks of alone.                                         *)
LEMMA StepRefines == IInv /\ [Next]_vars => [Service!Next]_(Service!vars)
<1> SUFFICES ASSUME IInv, [Next]_vars PROVE [Service!Next]_(Service!vars)
  OBVIOUS
<1> USE GatewayAssumption DEF IInv
<1> DEFINE Quiet == /\ \A q \in Requests : /\ Outcome(q)' = Outcome(q)
                                         /\ TrueReply(q)' = TrueReply(q)
                    /\ executed' = executed
<1>q. Quiet => UNCHANGED Service!vars
  BY DEF Service!vars
<1> HIDE DEF Quiet
<1>a. ASSUME NEW r \in Requests,
             \A q \in Requests : Outcome(q)' = Outcome(q),
             \A q \in Requests : q # r => TrueReply(q)' = TrueReply(q),
             executed' = executed,
             TrueReply(r) = "none",
             TrueReply(r)' \in {"refused", "busy", "success", "failure"},
             TrueReply(r)' = "refused" => Outcome(r) = "none",
             TrueReply(r)' = "success" => Outcome(r) = "accepted",
             TrueReply(r)' = "failure" => Outcome(r) = "rejected"
      PROVE  Service!Next
  <2> DEFINE answer == TrueReply(r)'
             before == [q \in Requests |-> TrueReply(q)]
             after == [q \in Requests |-> TrueReply(q)']
  <2>1. after = [before EXCEPT ![r] = answer]
    BY <1>a
  <2>2. Service!Truthful(r, answer)
    BY <1>a DEF Service!Truthful
  <2>3. Service!Reply(r)
    BY <1>a, <2>1, <2>2 DEF Service!Reply
  <2> QED
    BY <2>3 DEF Service!Next
<1>1. CASE UpdateMarketStatus \/ UpdateSymbolStatus
  <2>1. Quiet
    BY <1>1
       DEF UpdateMarketStatus, UpdateSymbolStatus, handlerVars, engineVars,
           Quiet, Outcome, TrueReply
  <2> QED
    BY <2>1, <1>q
<1>2. ASSUME NEW r \in Requests,
             Arrive(r) \/ IsOnline(r) \/ IsTradable(r) \/ BodyParser(r) \/ Send(r)
      PROVE  [Service!Next]_(Service!vars)
  <2>1. Quiet
    BY <1>2
       DEF Arrive, IsOnline, IsTradable, BodyParser, Send, Moves, engineVars,
           TypeOK,
       Checking, Quiet, Outcome, TrueReply
  <2> QED
    BY <2>1, <1>q
<1>3. ASSUME NEW r \in Requests,
             Refuse(r) \/ SendTimeout(r) \/ ReadResult(r) \/ ReadTimeout(r)
      PROVE  [Service!Next]_(Service!vars)
  <2> USE <1>3 DEF Refuse, SendTimeout, ReadResult, ReadTimeout, Moves, Tell, TypeOK
  <2>1. \A q \in Requests : Outcome(q)' = Outcome(q)
    BY DEF Checking, Answers, HandlersAgree, Outcome
  <2>2. \A q \in Requests : q # r => TrueReply(q)' = TrueReply(q)
    BY DEF TrueReply
  <2>3. /\ TrueReply(r) = "none"
        /\ TrueReply(r)' \in {"refused", "busy", "success", "failure"}
        /\ TrueReply(r)' = "refused" => Outcome(r) = "none"
        /\ TrueReply(r)' = "success" => Outcome(r) = "accepted"
        /\ TrueReply(r)' = "failure" => Outcome(r) = "rejected"
    BY DEF Checking, Answers, HandlersAgree, Outcome, TrueReply
  <2>4. executed' = executed
    BY DEF engineVars
  <2> QED
    BY <1>a, <2>1, <2>2, <2>3, <2>4
<1>4. CASE Take
  <2>1. Quiet
    BY <1>4 DEF Take, handlerVars, Quiet, Outcome, TrueReply
  <2> QED
    BY <2>1, <1>q
<1>5. CASE Decide
  <2>1. PICK answer \in Answers : Decided(answer)
    BY <1>5 DEF Decide
  <2>2. PICK r \in Requests : r = current
    BY <1>5 DEF Decide, TypeOK
  <2>3. /\ pc[r] \in {"wait", "returned"}
        /\ result[r] = "none"
        /\ reply[r] \in {"none", "busy"}
    BY <1>5, <2>2 DEF Decide, PendingIsOpen, Pending
  <2>4. UNCHANGED <<pc, reply, executed>>
    BY <1>5 DEF Decide, handlerVars
  <2>5. /\ \A q \in Requests : q # r => Outcome(q)' = Outcome(q)
        /\ Outcome(r) = "none"
        /\ Outcome(r)' \in {"accepted", "rejected"}
    BY <2>1, <2>2, <2>3, <2>4 DEF Decided, Answers, TypeOK, Outcome
  <2>6. /\ \A q \in Requests : TrueReply(q)' = TrueReply(q)
        /\ TrueReply(r) # "refused"
    BY <2>3, <2>4 DEF TrueReply
  <2>7. Service!Decide(r)
    BY <2>4, <2>5, <2>6 DEF Service!Decide
  <2> QED
    BY <2>7 DEF Service!Next
<1>6. CASE Execute
  <2>1. PICK r \in Requests : r = current
    BY <1>6 DEF Execute, TypeOK
  <2>2. /\ \A q \in Requests : Outcome(q)' = Outcome(q) /\ TrueReply(q)' = TrueReply(q)
        /\ executed' = executed \cup {r}
        /\ Outcome(r) = "accepted"
        /\ r \notin executed
    BY <1>6, <2>1 DEF Execute, handlerVars, AcceptedIsDone, Outcome, TrueReply
  <2>3. Service!Execute(r)
    BY <2>2 DEF Service!Execute
  <2> QED
    BY <2>3 DEF Service!Next
<1>7. CASE UNCHANGED vars
  <2>1. Quiet
    BY <1>7 DEF vars, handlerVars, engineVars, Quiet, Outcome, TrueReply
  <2> QED
    BY <2>1, <1>q
<1> QED
  BY <1>1, <1>2, <1>3, <1>4, <1>5, <1>6, <1>7 DEF Next, Returns, Create

(* The routes and the engine's goroutine keep the promise of OrderService, *)
(* for any number of concurrent requests and any capacity of the channel.  *)
THEOREM RoutesImplementService == Spec => ImplementsService
<1>1. Init => Service!Init
  BY DEF Init, Service!Init, Outcome, TrueReply
<1> QED
  BY <1>1, InvariantHolds, StepRefines, PTL
     DEF Spec, ImplementsService, Service!Spec

=============================================================================
