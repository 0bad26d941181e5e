------------------------ MODULE MatchingEngine_proofs ------------------------
(***************************************************************************)
(* Theorems about MatchingEngine for all values of its constants.          *)
(***************************************************************************)
EXTENDS MatchingEngine, SequenceTheorems, WellFoundedInduction, TLAPS

----------------------------------------------------------------------------
(* Prices: a walk always has a best level.                                  *)

Below == {ss \in Nat \X Nat : ss[1] < ss[2]}

\* The order of the naturals is well-founded (its operator form is in the library).
LEMMA BelowWellFounded == IsWellFoundedOn(Below, Nat)
<1>1. OpToRel(<, Nat) = Below
  BY DEF OpToRel, Below
<1> QED BY <1>1, NatLessThanWellFounded

\* A set of naturals that is not empty has a least element.
LEMMA LeastExists ==
    ASSUME NEW T \in SUBSET Nat, T # {}
    PROVE  \E x \in T : \A y \in T : x <= y
<1>1. PICK x \in T : \A y \in T : ~ (<<y, x>> \in Below)
  BY BelowWellFounded, WFMin
<1>2. \A y \in T : x <= y
  <2> TAKE y \in T
  <2>1. x \in Nat /\ y \in Nat
    OBVIOUS
  <2>2. ~(<<y, x>> \in Nat \X Nat /\ <<y, x>>[1] < <<y, x>>[2])
    BY <1>1 DEF Below
  <2> QED BY <2>1, <2>2
<1> QED BY <1>2

\* Min, defined by CHOOSE, is that element.
LEMMA MinIsLeast ==
    ASSUME NEW T \in SUBSET Nat, T # {}
    PROVE  Min(T) \in T
<1>1. PICK x \in T : \A y \in T : x <= y
  BY LeastExists
<1> QED BY <1>1 DEF Min

\* The greatest level is found by counting down from MaxPrice.
LEMMA GreatestExists ==
    ASSUME NEW T \in SUBSET Levels, T # {}
    PROVE  \E x \in T : \A y \in T : y <= x
<1>1. MaxPrice \in Nat /\ \A y \in T : y \in Nat /\ y <= MaxPrice
  BY ConstantsAssumption DEF Levels, MarketPrice
<1> DEFINE D == {MaxPrice - y : y \in T}
<1>2. D \in SUBSET Nat /\ D # {}
  <2>1. \A y \in T : MaxPrice - y \in Nat
    BY <1>1
  <2> QED BY <2>1
<1>3. PICK d \in D : \A e \in D : d <= e
  <2> HIDE DEF D
  <2> QED BY <1>2, LeastExists
<1>4. PICK x \in T : d = MaxPrice - x
  BY <1>3
<1>5. \A y \in T : y <= x
  <2> TAKE y \in T
  <2>1. MaxPrice - x <= MaxPrice - y
    BY <1>3, <1>4
  <2>2. x \in Nat /\ y \in Nat /\ MaxPrice \in Nat
    BY <1>1
  <2> QED BY <2>1, <2>2
<1> QED BY <1>5

\* Best chooses a level that is met before every other one.
LEMMA BestIsBest ==
    ASSUME NEW s \in Side, NEW T \in SUBSET Levels, T # {}
    PROVE  /\ Best(s, T) \in T
           /\ \A q \in T \ {Best(s, T)} : Better(s, Best(s, T), q)
<1>1. T \in SUBSET Nat
  BY ConstantsAssumption DEF Levels, MarketPrice
<1>2. \E p \in T : \A q \in T \ {p} : Better(s, p, q)
  <2>1. CASE s = "asks"
    <3>1. PICK x \in T : \A y \in T : x <= y
      BY <1>1, LeastExists
    <3>2. \A q \in T \ {x} : x < q
      BY <1>1, <3>1
    <3> QED BY <2>1, <3>2 DEF Better
  <2>2. CASE s = "bids"
    <3>1. PICK x \in T : \A y \in T : y <= x
      BY GreatestExists
    <3>2. \A q \in T \ {x} : x > q
      BY <1>1, <3>1
    <3> QED BY <2>2, <3>2 DEF Better
  <2> QED BY <2>1, <2>2 DEF Side
<1> QED BY <1>2 DEF Best

----------------------------------------------------------------------------
(* The operations of the book keep its type.                                *)

\* A sequence without one of its elements (utils.Queue.RemoveValue).
LEMMA RemoveAtType ==
    ASSUME NEW q \in Seq(Ids), NEW i \in DOMAIN q
    PROVE  RemoveAt(q, i) \in Seq(Ids)
<1>1. DOMAIN q = 1 .. Len(q) /\ i \in 1 .. Len(q) /\ Len(q) \in Nat
  OBVIOUS
<1>2. SubSeq(q, 1, i - 1) \in Seq(Ids)
  <2>1. \A j \in 1 .. i - 1 : q[j] \in Ids
    BY <1>1
  <2> QED BY <1>1, <2>1, SubSeqProperties
<1>3. SubSeq(q, i + 1, Len(q)) \in Seq(Ids)
  <2>1. \A j \in i + 1 .. Len(q) : q[j] \in Ids
    BY <1>1
  <2> QED BY <1>1, <2>1, SubSeqProperties
<1> QED BY <1>2, <1>3, ConcatProperties DEF RemoveAt

\* Where RemoveValue finds the order it removes.
LEMMA FoundAt ==
    ASSUME NEW q \in Seq(Ids), NEW id \in ToSet(q)
    PROVE  Min({i \in DOMAIN q : q[i] = id}) \in {i \in DOMAIN q : q[i] = id}
<1> DEFINE I == {i \in DOMAIN q : q[i] = id}
<1>1. I \in SUBSET Nat
  OBVIOUS
<1>2. I # {}
  BY DEF ToSet
<1> QED BY <1>1, <1>2, MinIsLeast

\* A queue stays a queue of order identifiers when an order is removed from it.
LEMMA RemoveValueType ==
    ASSUME NEW q \in Seq(Ids), NEW id \in Ids
    PROVE  RemoveValue(q, id) \in Seq(Ids)
<1>1. CASE id \notin ToSet(q)
  BY <1>1 DEF RemoveValue
<1>2. CASE id \in ToSet(q)
  <2>1. Min({i \in DOMAIN q : q[i] = id}) \in DOMAIN q
    BY <1>2, FoundAt
  <2> QED BY <1>2, <2>1, RemoveAtType DEF RemoveValue
<1> QED BY <1>1, <1>2

\* What the book operations need to know of the request they are given.
Change == [id : Ids, side : Side, price : Levels, quantity : Nat]
IsChange(r) == r.id \in Ids /\ r.side \in Side /\ r.price \in Levels
               /\ r.quantity \in Nat

\* Each side has another one.
LEMMA OppSide == \A s \in Side : Opp(s) \in Side /\ Opp(s) # s
BY DEF Side, Opp

\* The fields of any index entry, present or not.
LEMMA EntryFields ==
    ASSUME NEW b \in BookType, NEW id \in Ids
    PROVE  /\ b.index[id].price \in Levels
           /\ b.index[id].quantity \in Nat
           /\ Indexed(b, id) => b.index[id] \in Entry
           /\ b.index[id] \in Entry \cup {NoEntry}
BY DEF BookType, Entry, NoEntry, Levels, Indexed

\* processOpen keeps the type of the book.
LEMMA ProcessOpenType ==
    ASSUME NEW b \in BookType, NEW r, IsChange(r)
    PROVE  ProcessOpen(b, r) \in BookType
<1> DEFINE s == r.side
           p == r.price
           orders == [b.orders EXCEPT ![s][p][r.id] = r.quantity]
<1>1. orders \in [Side -> [Levels -> [Ids -> Nat \cup {NoOrder}]]]
  BY DEF IsChange, BookType
<1>2. [b.total EXCEPT ![s][p] = @ + r.quantity] \in [Side -> [Levels -> Int]]
  BY DEF IsChange, BookType
<1>3. [b.tree EXCEPT ![s] = @ \cup {p}] \in [Side -> SUBSET Levels]
  BY DEF IsChange, BookType
<1>4. [b.seq EXCEPT ![s][p] = Append(@, r.id)] \in [Side -> [Levels -> Seq(Ids)]]
  <2>1. Append(b.seq[s][p], r.id) \in Seq(Ids)
    BY AppendProperties DEF IsChange, BookType
  <2> QED BY <2>1 DEF IsChange, BookType
<1>5. [b.index EXCEPT ![r.id] = [side |-> s, price |-> p, quantity |-> r.quantity]]
        \in [Ids -> Entry \cup {NoEntry}]
  BY DEF IsChange, BookType, Entry
<1>6. OverlapWith(b, orders, s, p) \in SUBSET Levels
  BY DEF IsChange, BookType, OverlapWith
<1> QED BY <1>1, <1>2, <1>3, <1>4, <1>5, <1>6 DEF ProcessOpen, BookType

\* processCancel keeps the type of the book, for an order it does not find as well.
LEMMA ProcessCancelType ==
    ASSUME NEW b \in BookType, NEW r, r.id \in Ids, r.side \in Side
    PROVE  ProcessCancel(b, r) \in BookType
<1> DEFINE s == r.side
           p == b.index[r.id].price
           orders == [b.orders EXCEPT ![s][p][r.id] = NoOrder]
           index == [b.index EXCEPT ![r.id] = NoEntry]
           gone == IF HasLevel(orders, s, p) THEN {} ELSE {p}
<1>1. p \in Levels
  BY EntryFields
<1>2. orders \in [Side -> [Levels -> [Ids -> Nat \cup {NoOrder}]]]
  BY <1>1 DEF BookType
<1>3. index \in [Ids -> Entry \cup {NoEntry}]
  BY DEF BookType
<1>4. [b.total EXCEPT ![s][p] = TotalWithout(@, b.index[r.id].quantity)]
        \in [Side -> [Levels -> Int]]
  <2>1. b.index[r.id].quantity \in Nat /\ b.total[s][p] \in Int
    BY <1>1, EntryFields DEF BookType
  <2>2. TotalWithout(b.total[s][p], b.index[r.id].quantity) \in Int
    BY <2>1 DEF TotalWithout
  <2> QED BY <1>1, <2>2 DEF BookType
<1>5. [b.tree EXCEPT ![s] = @ \ gone] \in [Side -> SUBSET Levels]
  BY DEF BookType
<1>6. [b.seq EXCEPT ![s][p] = RemoveValue(@, r.id)]
        \in [Side -> [Levels -> Seq(Ids)]]
  <2>1. RemoveValue(b.seq[s][p], r.id) \in Seq(Ids)
    BY <1>1, RemoveValueType DEF BookType
  <2> QED BY <1>1, <2>1 DEF BookType
<1>7. b.overlap \ gone \in SUBSET Levels
  BY DEF BookType
<1>8. [b EXCEPT !.index = index] \in BookType
  BY <1>3 DEF BookType
<1>9. [orders |-> orders,
       total |-> [b.total EXCEPT ![s][p] = TotalWithout(@, b.index[r.id].quantity)],
       tree |-> [b.tree EXCEPT ![s] = @ \ gone],
       seq |-> [b.seq EXCEPT ![s][p] = RemoveValue(@, r.id)],
       index |-> index,
       overlap |-> b.overlap \ gone] \in BookType
  BY <1>2, <1>3, <1>4, <1>5, <1>6, <1>7 DEF BookType
<1> QED BY <1>8, <1>9 DEF ProcessCancel

\* processModify keeps the type of the book.
LEMMA ProcessModifyType ==
    ASSUME NEW b \in BookType, NEW r, IsChange(r), Indexed(b, r.id)
    PROVE  ProcessModify(b, r) \in BookType
<1> DEFINE e == b.index[r.id]
           s == r.side
           p == e.price
           index == [b.index EXCEPT ![r.id].quantity = r.quantity]
<1>1. p \in Levels /\ e.quantity \in Nat /\ e \in Entry
  BY EntryFields DEF IsChange
<1>2. index \in [Ids -> Entry \cup {NoEntry}]
  BY <1>1 DEF BookType, IsChange, Entry
<1>3. [b EXCEPT !.index = index] \in BookType
  BY <1>2 DEF BookType
<1>4. [b EXCEPT !.orders[s][p][r.id] = r.quantity,
                !.total[s][p] = @ - e.quantity + r.quantity,
                !.index = index] \in BookType
  <2>1. [b.orders EXCEPT ![s][p][r.id] = r.quantity]
            \in [Side -> [Levels -> [Ids -> Nat \cup {NoOrder}]]]
    BY <1>1 DEF BookType, IsChange
  <2>2. [b.total EXCEPT ![s][p] = @ - e.quantity + r.quantity]
            \in [Side -> [Levels -> Int]]
    <3>1. /\ b.total \in [Side -> [Levels -> Int]] /\ s \in Side
          /\ e.quantity \in Nat /\ r.quantity \in Nat
      BY <1>1 DEF BookType, IsChange
    <3>2. b.total[s][p] - e.quantity + r.quantity \in Int
      BY <1>1, <3>1
    <3> QED
      BY <1>1, <3>1, <3>2
  <2> QED BY <1>2, <2>1, <2>2 DEF BookType
<1>5. ProcessOpen(ProcessCancel(b, r), r) \in BookType
  BY ProcessCancelType, ProcessOpenType DEF IsChange
<1> QED BY <1>3, <1>4, <1>5 DEF ProcessModify

----------------------------------------------------------------------------
(* The type invariant.                                                      *)

\* The books the server starts with have the type of a book.
LEMMA EmptyBookType == EmptyBook \in BookType
<1>1. <<>> \in Seq(Ids)
  OBVIOUS
<1> QED BY <1>1, ConstantsAssumption
        DEF EmptyBook, BookType, NoEntry, Levels, MarketPrice

\* The initial states are well typed.
LEMMA InitType == Init => TypeOK
<1> SUFFICES ASSUME Init PROVE TypeOK
  OBVIOUS
<1>1. NoRequest \in Request
  BY DEF NoRequest, Request, Side, Levels
<1>2. NoDeal \in [taker : Ids \cup {NoId}, maker : Ids \cup {NoId},
                  price : Levels \cup {NoPrice}, quantity : Nat]
  BY DEF NoDeal
<1> QED BY EmptyBookType, <1>1, <1>2 DEF Init, TypeOK, PC, Status

\* What Return sets has the right type, whatever the request was.
LEMMA ReturnType ==
    ASSUME Return
    PROVE  /\ pc' = "idle" /\ req' \in Request /\ rem' \in Nat
           /\ walk' \in SUBSET Levels
           /\ deal' \in [taker : Ids \cup {NoId}, maker : Ids \cup {NoId},
                         price : Levels \cup {NoPrice}, quantity : Nat]
<1>1. NoRequest \in Request
  BY DEF NoRequest, Request, Side, Levels
<1> QED BY <1>1 DEF Return, NoDeal

\* Deals and requests that actions write.
LEMMA NoDealType ==
    NoDeal \in [taker : Ids \cup {NoId}, maker : Ids \cup {NoId},
                price : Levels \cup {NoPrice}, quantity : Nat]
BY DEF NoDeal

\* A request that passed the checks names a level and a quantity.
LEMMA NormalisedType ==
    ASSUME TypeOK, NEW r \in Request, r.id \in Ids
    PROVE  /\ Normalised(r) \in Request
           /\ Normalised(r).id = r.id
           /\ Normalised(r).side = r.side
           /\ Normalised(r).status = r.status
           /\ IsChange(Normalised(r))
<1> DEFINE e == book.index[r.id]
           type == IF r.status = "open" \/ r.type # "none" THEN r.type
                   ELSE IF e.price = MarketPrice THEN "market" ELSE "limit"
           price == IF r.status = "canceled" THEN e.price
                    ELSE IF type = "market" THEN MarketPrice ELSE r.price
           quantity == IF r.status = "canceled" THEN e.quantity ELSE r.quantity
<1>1. e.price \in Levels /\ e.quantity \in Nat
  BY EntryFields DEF TypeOK
<1>2. type \in {"none", "limit", "market"} /\ price \in Levels /\ quantity \in Nat
  BY <1>1 DEF Request, Levels
<1>3. Normalised(r) = [r EXCEPT !.type = type, !.price = price,
                                !.quantity = quantity]
  BY DEF Normalised
<1> HIDE DEF e, type, price, quantity
<1> QED BY <1>2, <1>3 DEF Request, IsChange

\* Accepting a request keeps the types.
LEMMA AcceptType ==
    ASSUME TypeOK, NEW user, NEW r \in Request, r.id \in Ids,
           r.status # "none", Accept(user, r)
    PROVE  TypeOK'
<1> DEFINE n == Normalised(r)
<1>1. n \in Request /\ n.id \in Ids /\ IsChange(n) /\ n.status = r.status
  BY NormalisedType
<1>0. r.status # "open" => Indexed(book, r.id)
  BY DEF Accept, Valid
<1> HIDE DEF n
<1>2. Apply(book, n) \in BookType
  <2>1. r.status \in {"open", "modified", "canceled"} /\ book \in BookType
    BY DEF Request, TypeOK
  <2>2. CASE r.status = "open"
    BY <1>1, <2>1, <2>2, ProcessOpenType DEF Apply
  <2>3. CASE r.status = "modified"
    BY <1>0, <1>1, <2>1, <2>3, ProcessModifyType, NormalisedType DEF Apply, n
  <2>4. CASE r.status = "canceled"
    BY <1>1, <2>1, <2>4, ProcessCancelType DEF Apply, IsChange
  <2> QED BY <2>1, <2>2, <2>3, <2>4
<1>3. book' = Apply(book, n) /\ book' \in BookType
  BY <1>2 DEF Accept, n
<1>4. FeedLeftLevel(n) \in [Side -> [Levels -> Int]]
  <2>1. feed \in [Side -> [Levels -> Int]] /\ book \in BookType
    BY DEF TypeOK
  <2>2. /\ book.index[n.id].price \in Levels
        /\ book.index[n.id].quantity \in Nat
    BY <1>1, <2>1, EntryFields
  <2>3. book.total[n.side][book.index[n.id].price] \in Int
    BY <1>1, <2>1, <2>2 DEF BookType, IsChange
  <2> QED BY <1>1, <2>1, <2>2, <2>3 DEF FeedLeftLevel, IsChange
<1>5. feed' \in [Side -> [Levels -> Int]]
  <2>1. book'.total[n.side][n.price] \in Int
    BY <1>1, <1>3 DEF BookType, IsChange
  <2>2. [FeedLeftLevel(n) EXCEPT ![n.side][n.price] =
                book'.total[n.side][n.price]] \in [Side -> [Levels -> Int]]
    BY <1>1, <1>4, <2>1 DEF IsChange
  <2> QED BY <1>4, <2>2 DEF Accept, n
<1>6. told' \in [Ids -> Status] /\ due' \in [Ids -> Int]
  BY <1>1 DEF Accept, n, TypeOK, Status, Request
<1> QED BY <1>1, <1>3, <1>5, <1>6, NoDealType DEF Accept, n, TypeOK, PC

\* What the six routes send is a request.
LEMMA MkRequestType ==
    ASSUME NEW id \in Ids, NEW side \in Side,
           NEW status \in {"open", "modified", "canceled"},
           NEW type \in {"none", "limit", "market"}, NEW f \in FieldsOf(type),
           NEW price \in Levels, NEW quantity \in 0 .. MaxQty
    PROVE  LET r == MkRequest(id, side, status, type, f, price, quantity)
           IN r \in Request /\ r.id = id /\ r.status = status /\ r.side = side
<1>1. f.fok \in BOOLEAN /\ f.bound \in Prices \cup {NoPrice}
  <2>1. CASE type = "market"
    BY <2>1 DEF FieldsOf, MarketFields
  <2>2. CASE type # "market"
    <3>1. f = [fok |-> FALSE, bound |-> NoPrice]
      BY <2>2 DEF FieldsOf, NoMarketFields
    <3>2. f.fok = FALSE /\ f.bound = NoPrice
      BY <3>1
    <3> QED BY <3>2
  <2> QED BY <2>1, <2>2
<1>2. quantity \in Nat
  BY ConstantsAssumption
<1> QED BY <1>1, <1>2 DEF MkRequest, Request

\* Every request is of one of these forms.
IsRequest(r) == r \in Request /\ r.id \in Ids /\ r.status # "none"

\* What the routes let through: a new order has an identifier nobody was told
\* of, the others come through a route the environment may use.
Routed(r) ==
    /\ r.status = "open" => told[r.id] = "none"
    /\ r.status # "open" => r.side \in RouteSides(r.id)
    /\ r.status = "canceled" => r.type \in CancelTypes

\* The sides whose route a client may use are sides.
LEMMA RouteSidesType == TypeOK => \A id \in Ids : RouteSides(id) \subseteq Side
<1> SUFFICES ASSUME TypeOK, NEW id \in Ids PROVE RouteSides(id) \subseteq Side
  OBVIOUS
<1>1. Indexed(book, id) => book.index[id].side \in Side
  BY EntryFields DEF TypeOK, Entry
<1> QED BY <1>1 DEF RouteSides

\* Every request taken from the channel is of that form and was let through.
LEMMA RequestStep ==
    ASSUME TypeOK, Open \/ Modify \/ Cancel
    PROVE  \E user, r : /\ IsRequest(r)
                        /\ Routed(r)
                        /\ Accept(user, r) \/ Reject(user, r)
<1>1. CASE Open
  <2>1. PICK id \in Ids, side \in Side, type \in {"limit", "market"} :
            \E f \in FieldsOf(type), price \in Levels, quantity \in 0 .. MaxQty :
                LET r == MkRequest(id, side, "open", type, f, price, quantity)
                IN /\ told[id] = "none"
                   /\ Accept(Owner[id], r) \/ Reject(Owner[id], r)
    BY <1>1 DEF Open
  <2>2. PICK f \in FieldsOf(type), price \in Levels, quantity \in 0 .. MaxQty :
                LET r == MkRequest(id, side, "open", type, f, price, quantity)
                IN /\ told[id] = "none"
                   /\ Accept(Owner[id], r) \/ Reject(Owner[id], r)
    BY <2>1
  <2> DEFINE r == MkRequest(id, side, "open", type, f, price, quantity)
  <2>3. IsRequest(r)
    BY MkRequestType DEF IsRequest
  <2>4. Routed(r)
    BY <2>2, MkRequestType DEF Routed
  <2> HIDE DEF r
  <2> QED BY <2>2, <2>3, <2>4 DEF r
<1>2. CASE Modify
  <2>1. PICK user \in Users, id \in Ids, type \in {"none", "limit", "market"} :
            \E side \in RouteSides(id), f \in FieldsOf(type),
               price \in Levels, quantity \in 0 .. MaxQty :
                LET r == MkRequest(id, side, "modified", type, f, price, quantity)
                IN Accept(user, r) \/ Reject(user, r)
    BY <1>2 DEF Modify
  <2>2. PICK side \in RouteSides(id), f \in FieldsOf(type),
             price \in Levels, quantity \in 0 .. MaxQty :
                LET r == MkRequest(id, side, "modified", type, f, price, quantity)
                IN Accept(user, r) \/ Reject(user, r)
    BY <2>1
  <2> DEFINE r == MkRequest(id, side, "modified", type, f, price, quantity)
  <2>3. side \in Side
    BY RouteSidesType
  <2>4. IsRequest(r)
    BY <2>3, MkRequestType DEF IsRequest
  <2>5. Routed(r)
    BY <2>3, MkRequestType DEF Routed
  <2> HIDE DEF r
  <2> QED BY <2>2, <2>4, <2>5 DEF r
<1>3. CASE Cancel
  <2>1. PICK user \in Users, id \in Ids, type \in CancelTypes :
            \E side \in RouteSides(id) :
                LET r == MkRequest(id, side, "canceled", type, NoMarketFields,
                                   MarketPrice, 0)
                IN Accept(user, r) \/ Reject(user, r)
    BY <1>3 DEF Cancel
  <2>2. PICK side \in RouteSides(id) :
                LET r == MkRequest(id, side, "canceled", type, NoMarketFields,
                                   MarketPrice, 0)
                IN Accept(user, r) \/ Reject(user, r)
    BY <2>1
  <2> DEFINE r == MkRequest(id, side, "canceled", type, NoMarketFields,
                            MarketPrice, 0)
  <2>3. side \in Side
    BY RouteSidesType
  <2>4. IsRequest(r)
    BY <2>3, ConstantsAssumption
       DEF IsRequest, MkRequest, Request, NoMarketFields, Levels, CancelTypes
  <2>5. Routed(r)
    BY DEF MkRequest, Routed
  <2> HIDE DEF r
  <2> QED BY <2>2, <2>4, <2>5 DEF r
<1> QED BY <1>1, <1>2, <1>3

\* The order at the front of a queue that is not empty.
LEMMA FrontType ==
    ASSUME TypeOK, NEW p \in Levels, book.seq[Opp(req.side)][p] # <<>>
    PROVE  /\ FrontOrder(p) \in Ids
           /\ FrontQty(p) \in Nat
<1>1. Opp(req.side) \in Side
  BY OppSide DEF TypeOK, Request
<1>2. book.seq[Opp(req.side)][p] \in Seq(Ids)
  BY <1>1 DEF TypeOK, BookType
<1>3. FrontOrder(p) \in Ids
  BY <1>2, HeadTailProperties DEF FrontOrder
<1>4. book.orders[Opp(req.side)][p][FrontOrder(p)] \in Nat \cup {NoOrder}
  BY <1>1, <1>3 DEF TypeOK, BookType
<1>5. FrontQty(p) \in Nat
  BY <1>4 DEF FrontQty, OrderQty
<1> QED BY <1>3, <1>5

\* What an execution publishes.
LEMMA PublishType ==
    ASSUME TypeOK, pc # "idle", NEW p \in Levels,
           book.seq[Opp(req.side)][p] # <<>>, NEW v \in Nat,
           book' \in BookType, NEW ts \in Status, NEW ms \in Status,
           Publish(p, v, ts, ms)
    PROVE  /\ told' \in [Ids -> Status] /\ due' \in [Ids -> Int]
           /\ feed' \in [Side -> [Levels -> Int]]
           /\ lastPrice' \in Levels \cup {NoPrice}
           /\ deal' \in [taker : Ids \cup {NoId}, maker : Ids \cup {NoId},
                         price : Levels \cup {NoPrice}, quantity : Nat]
<1>1. Opp(req.side) \in Side /\ req.id \in Ids /\ FrontOrder(p) \in Ids
  BY OppSide, FrontType DEF TypeOK, Request
<1>2. told' \in [Ids -> Status]
  BY <1>1 DEF Publish, TypeOK
<1>3. due' \in [Ids -> Int]
  BY <1>1 DEF Publish, TypeOK
<1>4. feed' \in [Side -> [Levels -> Int]]
  <2>1. book'.total[Opp(req.side)][p] \in Int
    BY <1>1 DEF BookType
  <2> QED BY <1>1, <2>1 DEF Publish, TypeOK
<1> QED BY <1>1, <1>2, <1>3, <1>4 DEF Publish

\* An execution that leaves the front order a remainder keeps the types.
LEMMA TakePartType ==
    ASSUME TypeOK, pc \in {"walk", "own"}, NEW p \in Levels,
           book.seq[Opp(req.side)][p] # <<>>, FrontQty(p) >= rem, TakePart(p)
    PROVE  TypeOK'
<1>1. /\ Opp(req.side) \in Side /\ req.id \in Ids /\ req.side \in Side
      /\ FrontOrder(p) \in Ids /\ FrontQty(p) \in Nat /\ rem \in Nat
      /\ book \in BookType /\ req \in Request
  BY OppSide, FrontType DEF TypeOK, Request
<1>2. CASE Indexed(book, FrontOrder(p))
  <2> DEFINE r == FrontRequest(p, FrontQty(p) - rem)
  <2>1. IsChange(r) /\ r.id = FrontOrder(p)
    BY <1>1 DEF FrontRequest, IsChange
  <2> HIDE DEF r
  <2>2. ProcessModify(book, r) \in BookType
    BY <1>1, <1>2, <2>1, ProcessModifyType
  <2>3. TakerLeaves(ProcessModify(book, r)) \in BookType
    BY <1>1, <2>2, ProcessCancelType DEF TakerLeaves
  <2>4. /\ book' = TakerLeaves(ProcessModify(book, r)) /\ rem' = 0 /\ pc' = pc
        /\ Publish(p, rem, "filled", "partially_filled")
        /\ req' = req /\ walk' = walk
    BY <1>2 DEF TakePart, r
  <2>5. book' \in BookType
    BY <2>3, <2>4
  <2>6. "filled" \in Status /\ "partially_filled" \in Status
    BY DEF Status
  <2> QED BY <1>1, <2>4, <2>5, <2>6, PublishType DEF TypeOK
<1>3. CASE ~Indexed(book, FrontOrder(p))
  BY <1>1, <1>3, NoDealType DEF TakePart, TypeOK, PC
<1> QED BY <1>2, <1>3

\* An execution that uses the front order up keeps the types.
LEMMA TakeWholeType ==
    ASSUME TypeOK, pc \in {"walk", "own"}, NEW p \in Levels,
           book.seq[Opp(req.side)][p] # <<>>, FrontQty(p) <= rem, TakeWhole(p)
    PROVE  TypeOK'
<1>1. /\ Opp(req.side) \in Side
      /\ FrontOrder(p) \in Ids /\ FrontQty(p) \in Nat /\ rem \in Nat
      /\ book \in BookType
  BY OppSide, FrontType DEF TypeOK, Request
<1> DEFINE r == FrontRequest(p, FrontQty(p))
<1>2. r.id \in Ids /\ r.side \in Side
  BY <1>1 DEF FrontRequest
<1> HIDE DEF r
<1>3. /\ book' = ProcessCancel(book, r) /\ rem' = rem - FrontQty(p)
      /\ Publish(p, FrontQty(p), "partially_filled", "filled")
      /\ pc' = pc /\ req' = req /\ walk' = walk
  BY DEF TakeWhole, r
<1>4. book' \in BookType
  BY <1>1, <1>2, <1>3, ProcessCancelType
<1>5. rem' \in Nat
  BY <1>1, <1>3
<1>6. "filled" \in Status /\ "partially_filled" \in Status
  BY DEF Status
<1> QED BY <1>1, <1>3, <1>4, <1>5, <1>6, PublishType DEF TypeOK

\* Taking a market order out of the book keeps the types.
LEMMA DropType ==
    ASSUME TypeOK, pc # "idle", DropMarketOrder
    PROVE  TypeOK'
<1>1. book' \in BookType
  BY ProcessCancelType DEF DropMarketOrder, TypeOK, Request
<1>2. told' \in [Ids -> Status] /\ due' \in [Ids -> Int]
  BY DEF DropMarketOrder, TypeOK, Status
<1> QED BY <1>1, <1>2, ReturnType DEF DropMarketOrder, TypeOK, PC

\* The level the walk is at is one of those it has still to visit.
LEMMA WalkPriceType ==
    ASSUME TypeOK, walk # {}
    PROVE  WalkPrice \in walk /\ WalkPrice \in Levels
BY BestIsBest, OppSide DEF TypeOK, WalkPrice, Request

\* One iteration of a market order's loop keeps the types.
LEMMA MarketStepType ==
    ASSUME TypeOK, MarketStep
    PROVE  TypeOK'
<1>1. /\ pc \in {"walk", "own"} /\ WalkPrice \in Levels
      /\ book.seq[Opp(req.side)][WalkPrice] # <<>>
  BY WalkPriceType DEF MarketStep, LevelDone
<1>2. FrontQty(WalkPrice) \in Nat /\ rem \in Nat
  BY <1>1, FrontType DEF TypeOK
<1>3. CASE FrontQty(WalkPrice) > rem /\ TakePart(WalkPrice)
  BY <1>1, <1>2, <1>3, TakePartType
<1>4. CASE FrontQty(WalkPrice) <= rem /\ TakeWhole(WalkPrice)
  BY <1>1, <1>4, TakeWholeType
<1> QED BY <1>3, <1>4 DEF MarketStep

\* One iteration of a limit order's loop keeps the types.
LEMMA LimitStepType ==
    ASSUME TypeOK, LimitStep
    PROVE  TypeOK'
<1>1. /\ pc \in {"walk", "own"} /\ req.price \in Levels
      /\ book.seq[Opp(req.side)][req.price] # <<>>
  BY DEF LimitStep, TypeOK, Request
<1>2. FrontQty(req.price) \in Nat /\ rem \in Nat
  BY <1>1, FrontType DEF TypeOK
<1>3. CASE FrontQty(req.price) >= rem /\ TakePart(req.price)
  BY <1>1, <1>3, TakePartType
<1>4. CASE FrontQty(req.price) < rem /\ TakeWhole(req.price)
  BY <1>1, <1>2, <1>4, TakeWholeType
<1> QED BY <1>3, <1>4 DEF LimitStep

\* The end of a limit order keeps the types.
LEMMA FinishLimitType ==
    ASSUME TypeOK, FinishLimitOrder
    PROVE  TypeOK'
<1>1. /\ book \in BookType /\ req \in Request /\ req.id \in Ids /\ rem \in Nat
      /\ req.side \in Side /\ req.price \in Levels
  BY DEF FinishLimitOrder, TypeOK, Request
<1>2. CASE rem > 0 /\ ~Indexed(book, req.id)
  BY <1>1, <1>2, NoDealType DEF FinishLimitOrder, TypeOK, PC
<1>3. CASE ~(rem > 0 /\ ~Indexed(book, req.id))
  <2> DEFINE r == [req EXCEPT !.quantity = rem]
  <2>1. IsChange(r) /\ r.id = req.id
    BY <1>1 DEF IsChange, Request
  <2> HIDE DEF r
  <2>2. rem > 0 => ProcessModify(book, r) \in BookType
    BY <1>1, <1>3, <2>1, ProcessModifyType
  <2>3. book' = IF rem > 0 THEN ProcessModify(book, r) ELSE book
    BY <1>3 DEF FinishLimitOrder, r
  <2>4. book' \in BookType
    BY <1>1, <2>2, <2>3
  <2>5. book'.total[req.side][req.price] \in Int
    BY <1>1, <2>4 DEF BookType
  <2>6. feed' \in [Side -> [Levels -> Int]]
    BY <1>1, <1>3, <2>5 DEF FinishLimitOrder, TypeOK
  <2>7. Return /\ UNCHANGED <<lastPrice, told, due>>
    BY <1>3 DEF FinishLimitOrder
  <2> QED BY <2>4, <2>6, <2>7, ReturnType DEF TypeOK, PC
<1> QED BY <1>2, <1>3

\* TypeOK is inductive.
LEMMA NextType ==
    ASSUME TypeOK, [Next]_vars
    PROVE  TypeOK'
<1>1. CASE Open \/ Modify \/ Cancel
  <2>1. PICK user, r : IsRequest(r) /\ (Accept(user, r) \/ Reject(user, r))
    BY <1>1, RequestStep
  <2>2. CASE Accept(user, r)
    BY <2>1, <2>2, AcceptType DEF IsRequest
  <2>3. CASE Reject(user, r)
    BY <2>3 DEF Reject, TypeOK, vars
  <2> QED BY <2>1, <2>2, <2>3
<1>2. CASE NoCurrentPrice
  BY <1>2, ReturnType DEF NoCurrentPrice, TypeOK, PC
<1>3. CASE KillMarketOrder
  BY <1>3, DropType DEF KillMarketOrder
<1>4. CASE StartMarketOrder
  <2>1. Opposite \in SUBSET Levels
    BY OppSide DEF Opposite, TypeOK, BookType, Request
  <2> QED BY <1>4, <2>1, NoDealType DEF StartMarketOrder, TypeOK, PC, Request
<1>5. CASE RestLimitOrder
  BY <1>5, ReturnType DEF RestLimitOrder, TypeOK, PC
<1>6. CASE StartLimitOrder
  <2>1. LevelsBeforeLimit \in SUBSET Levels
    BY OppSide DEF Opposite, LevelsBeforeLimit, TypeOK, BookType, Request
  <2> QED BY <1>6, <2>1, NoDealType DEF StartLimitOrder, TypeOK, PC, Request
<1>7. CASE BuyMarketOrder \/ SellMarketOrder
  BY <1>7, MarketStepType DEF BuyMarketOrder, SellMarketOrder
<1>8. CASE NextLevel
  BY <1>8, NoDealType DEF NextLevel, TypeOK
<1>9. CASE EndWalk
  BY <1>9, NoDealType DEF EndWalk, TypeOK, PC
<1>10. CASE BuyLimitOrder \/ SellLimitOrder
  BY <1>10, LimitStepType DEF BuyLimitOrder, SellLimitOrder
<1>11. CASE EndOwn
  BY <1>11, NoDealType DEF EndOwn, TypeOK, PC
<1>12. CASE FinishMarketOrder
  BY <1>12, DropType DEF FinishMarketOrder
<1>13. CASE FinishLimitOrder
  BY <1>13, FinishLimitType
<1>14. CASE UNCHANGED vars
  BY <1>14 DEF vars, TypeOK
<1> QED BY <1>1, <1>2, <1>3, <1>4, <1>5, <1>6, <1>7, <1>8, <1>9, <1>10, <1>11,
           <1>12, <1>13, <1>14 DEF Next, ProcessOrder

\* Every variable keeps its type in every reachable state.
THEOREM TypeCorrect == Spec => []TypeOK
<1>1. Init => TypeOK
  BY InitType
<1>2. TypeOK /\ [Next]_vars => TypeOK'
  BY NextType
<1> QED BY <1>1, <1>2, PTL DEF Spec

----------------------------------------------------------------------------
(* Which operations a step applies to the book.                             *)

\* While the engine matches, the request in hand is that of an order.
LEMMA RequestInHand ==
    ASSUME TypeOK, pc # "idle"
    PROVE  /\ req.id \in Ids /\ req.side \in Side /\ req.price \in Levels
           /\ req.quantity \in Nat /\ Opp(req.side) \in Side /\ rem \in Nat
           /\ book \in BookType
BY OppSide DEF TypeOK, Request

\* The operations a step may apply, each to an order with a side.
OpenStep(r) == IsChange(r) /\ book' = ProcessOpen(book, r)
ModifyStep(r) == /\ IsChange(r)
                 /\ Indexed(book, r.id)
                 /\ book' = ProcessModify(book, r)
CancelStep(r) == /\ r.id \in Ids
                 /\ r.side \in Side
                 /\ book' = ProcessCancel(book, r)
PartStep(r, t) == /\ IsChange(r)
                  /\ Indexed(book, r.id)
                  /\ t.id \in Ids
                  /\ t.side \in Side
                  /\ book' = ProcessCancel(ProcessModify(book, r), t)

\* An accepted request opens, modifies or cancels its order in the book.
LEMMA AcceptStep ==
    ASSUME TypeOK, NEW user, NEW r, IsRequest(r), Accept(user, r)
    PROVE  LET n == Normalised(r)
           IN /\ n.id = r.id /\ n.side = r.side
              /\ \/ r.status = "open" /\ OpenStep(n)
                 \/ r.status = "modified" /\ ModifyStep(n)
                 \/ r.status = "canceled" /\ CancelStep(n)
<1> DEFINE n == Normalised(r)
<1>1. IsChange(n) /\ n.id = r.id /\ n.side = r.side /\ n.status = r.status
  BY NormalisedType DEF IsRequest
<1>2. r.status # "open" => Indexed(book, r.id)
  BY DEF Accept, Valid
<1>3. book' = Apply(book, n)
  BY DEF Accept
<1>4. r.status \in {"open", "modified", "canceled"}
  BY DEF IsRequest, Request
<1> HIDE DEF n
<1> USE <1>1, <1>2, <1>3
<1>5. CASE r.status = "open"
  BY <1>5 DEF Apply, OpenStep, n
<1>6. CASE r.status = "modified"
  BY <1>6 DEF Apply, ModifyStep, n
<1>7. CASE r.status = "canceled"
  BY <1>7 DEF Apply, CancelStep, IsChange, n
<1> QED BY <1>4, <1>5, <1>6, <1>7 DEF n

\* A partial execution modifies the maker's order.
LEMMA TakePartStep ==
    ASSUME TypeOK, pc # "idle", NEW p \in Levels,
           book.seq[Opp(req.side)][p] # <<>>, FrontQty(p) >= rem, TakePart(p)
    PROVE  \/ book' = book
           \/ PartStep(FrontRequest(p, FrontQty(p) - rem), req)
<1> DEFINE r == FrontRequest(p, FrontQty(p) - rem)
<1>1. IsChange(r) /\ r.id = FrontOrder(p)
  BY RequestInHand, FrontType DEF FrontRequest, IsChange
<1> HIDE DEF r
<1>2. CASE Indexed(book, FrontOrder(p))
  BY <1>1, <1>2, RequestInHand DEF TakePart, TakerLeaves, PartStep, r
<1>3. CASE ~Indexed(book, FrontOrder(p))
  BY <1>3 DEF TakePart
<1> QED BY <1>2, <1>3

\* A whole execution cancels the maker's order, with what the code sets before.
LEMMA TakeWholeStep ==
    ASSUME TypeOK, pc # "idle", NEW p \in Levels,
           book.seq[Opp(req.side)][p] # <<>>, TakeWhole(p)
    PROVE  CancelStep(FrontRequest(p, FrontQty(p)))
BY RequestInHand, FrontType DEF TakeWhole, CancelStep, FrontRequest

\* Every step of the specification leaves the book alone or applies one of
\* the four operations.
LEMMA BookStep ==
    ASSUME TypeOK, [Next]_vars
    PROVE  \/ book' = book
           \/ \E r : OpenStep(r) \/ ModifyStep(r) \/ CancelStep(r)
           \/ \E r, t : PartStep(r, t)
<1>1. CASE Open \/ Modify \/ Cancel
  <2>1. PICK user, r : IsRequest(r) /\ (Accept(user, r) \/ Reject(user, r))
    BY <1>1, RequestStep
  <2>2. CASE Accept(user, r)
    BY <2>1, <2>2, AcceptStep
  <2>3. CASE Reject(user, r)
    BY <2>3 DEF Reject, vars
  <2> QED BY <2>1, <2>2, <2>3
<1>2. CASE KillMarketOrder \/ FinishMarketOrder
  BY <1>2, RequestInHand
     DEF KillMarketOrder, FinishMarketOrder, DropMarketOrder, CancelStep
<1>3. CASE MarketStep
  <2>1. /\ WalkPrice \in Levels /\ pc # "idle"
        /\ book.seq[Opp(req.side)][WalkPrice] # <<>>
    BY <1>3, WalkPriceType DEF MarketStep, LevelDone
  <2>2. FrontQty(WalkPrice) > rem => FrontQty(WalkPrice) >= rem
    BY <2>1, FrontType, RequestInHand
  <2> QED BY <1>3, <2>1, <2>2, TakePartStep, TakeWholeStep DEF MarketStep
<1>4. CASE LimitStep
  <2>1. /\ req.price \in Levels /\ pc # "idle"
        /\ book.seq[Opp(req.side)][req.price] # <<>>
    BY <1>4, RequestInHand DEF LimitStep
  <2> QED BY <1>4, <2>1, TakePartStep, TakeWholeStep DEF LimitStep
<1>5. CASE FinishLimitOrder
  <2> DEFINE r == [req EXCEPT !.quantity = rem]
  <2>1. IsChange(r) /\ r.id = req.id
    BY <1>5, RequestInHand DEF FinishLimitOrder, IsChange, TypeOK, Request
  <2> QED BY <1>5, <2>1, RequestInHand DEF FinishLimitOrder, ModifyStep
<1>6. CASE \/ NoCurrentPrice \/ StartMarketOrder \/ RestLimitOrder
           \/ StartLimitOrder \/ NextLevel \/ EndWalk \/ EndOwn
           \/ UNCHANGED vars
  BY <1>6 DEF NoCurrentPrice, StartMarketOrder, RestLimitOrder, StartLimitOrder,
              NextLevel, EndWalk, EndOwn, vars
<1> QED BY <1>1, <1>2, <1>3, <1>4, <1>5, <1>6
        DEF Next, ProcessOrder, BuyMarketOrder, SellMarketOrder,
            BuyLimitOrder, SellLimitOrder

----------------------------------------------------------------------------
(* The trees and the overlap tree are exact caches of the levels.           *)

\* processOpen keeps the caches exact: the new level is in the tree, and an
\* overlap is marked.
LEMMA ProcessOpenTrees ==
    ASSUME NEW b \in BookType, TreesAgree(b), NEW r, IsChange(r)
    PROVE  TreesAgree(ProcessOpen(b, r))
<1> DEFINE s == r.side
           p == r.price
           orders == [b.orders EXCEPT ![s][p][r.id] = r.quantity]
           c == ProcessOpen(b, r)
<1>1. /\ c.orders = orders /\ c.tree = [b.tree EXCEPT ![s] = @ \cup {p}]
      /\ c.overlap = OverlapWith(b, orders, s, p)
  BY DEF ProcessOpen
<1>2. /\ s \in Side /\ p \in Levels /\ r.id \in Ids /\ r.quantity # NoOrder
      /\ Opp(s) \in Side /\ Opp(s) # s
  BY OppSide DEF IsChange, NoOrder
<1>3. HasLevel(orders, s, p)
  BY <1>2 DEF HasLevel, BookType
<1>4. \A s1 \in Side, p1 \in Levels :
        s1 # s \/ p1 # p => (HasLevel(orders, s1, p1) <=> HasLevel(b.orders, s1, p1))
  BY <1>2 DEF HasLevel, BookType
<1>5. \A s1 \in Side : c.tree[s1] = {p1 \in Levels : HasLevel(c.orders, s1, p1)}
  <2> TAKE s1 \in Side
  <2>1. b.tree[s1] = {p1 \in Levels : HasLevel(b.orders, s1, p1)}
    BY DEF TreesAgree
  <2>2. CASE s1 = s
    <3>1. c.tree[s1] = b.tree[s1] \cup {p}
      BY <1>1, <1>2, <2>2 DEF BookType
    <3> QED BY <1>1, <1>2, <1>3, <1>4, <2>1, <2>2, <3>1
  <2>3. CASE s1 # s
    <3>1. c.tree[s1] = b.tree[s1]
      BY <1>1, <1>2, <2>3 DEF BookType
    <3> QED BY <1>1, <1>4, <2>1, <2>3, <3>1
  <2> QED BY <2>2, <2>3
<1>6. HasLevel(orders, Opp(s), p) <=> p \in b.tree[Opp(s)]
  BY <1>2, <1>4 DEF TreesAgree
<1>7. b.overlap = b.tree[s] \cap b.tree[Opp(s)]
  BY <1>2 DEF TreesAgree, Side, Opp
<1>8. c.tree[s] = b.tree[s] \cup {p} /\ c.tree[Opp(s)] = b.tree[Opp(s)]
  BY <1>1, <1>2 DEF BookType
<1>9. c.overlap = c.tree[s] \cap c.tree[Opp(s)]
  BY <1>1, <1>6, <1>7, <1>8 DEF OverlapWith
<1>10. c.overlap = c.tree["bids"] \cap c.tree["asks"]
  BY <1>2, <1>9 DEF Side, Opp
<1> QED BY <1>5, <1>10 DEF TreesAgree

\* processCancel keeps the caches exact: an emptied level leaves the tree and
\* the overlaps.
LEMMA ProcessCancelTrees ==
    ASSUME NEW b \in BookType, TreesAgree(b), NEW r, r.id \in Ids, r.side \in Side
    PROVE  TreesAgree(ProcessCancel(b, r))
<1> DEFINE s == r.side
           p == b.index[r.id].price
           orders == [b.orders EXCEPT ![s][p][r.id] = NoOrder]
           index == [b.index EXCEPT ![r.id] = NoEntry]
           gone == IF HasLevel(orders, s, p) THEN {} ELSE {p}
           c == ProcessCancel(b, r)
<1>1. CASE ~Indexed(b, r.id)
  BY <1>1 DEF ProcessCancel
<1>2. CASE Indexed(b, r.id) /\ ~HasLevel(b.orders, s, p)
  <2>1. c = [b EXCEPT !.index = index]
    BY <1>2 DEF ProcessCancel
  <2>2. c.orders = b.orders /\ c.tree = b.tree /\ c.overlap = b.overlap
    BY <2>1 DEF BookType
  <2> HIDE DEF c
  <2>3. TreesAgree(c)
    BY <2>2 DEF TreesAgree
  <2> QED BY <2>3 DEF c
<1>3. CASE Indexed(b, r.id) /\ HasLevel(b.orders, s, p)
  <2>1. /\ c.orders = orders /\ c.tree = [b.tree EXCEPT ![s] = @ \ gone]
        /\ c.overlap = b.overlap \ gone
    BY <1>3 DEF ProcessCancel
  <2>2. s \in Side /\ p \in Levels /\ Opp(s) \in Side /\ Opp(s) # s
    BY OppSide, EntryFields
  <2>3. \A s1 \in Side, p1 \in Levels :
          s1 # s \/ p1 # p => (HasLevel(orders, s1, p1) <=> HasLevel(b.orders, s1, p1))
    <3>1. \A s1 \in Side, p1 \in Levels : s1 # s \/ p1 # p => orders[s1][p1] = b.orders[s1][p1]
      BY <2>2 DEF BookType
    <3> QED
      BY <3>1 DEF HasLevel
  <2>4. c.tree[s] = b.tree[s] \ gone /\ c.tree[Opp(s)] = b.tree[Opp(s)]
    BY <2>1, <2>2 DEF BookType
  <2>5. gone \subseteq {p} /\ (p \in gone <=> ~HasLevel(orders, s, p))
    OBVIOUS
  <2> HIDE DEF c, orders, gone
  <2>6. \A s1 \in Side : c.tree[s1] = {p1 \in Levels : HasLevel(c.orders, s1, p1)}
    <3> TAKE s1 \in Side
    <3>1. b.tree[s1] = {p1 \in Levels : HasLevel(b.orders, s1, p1)}
      BY DEF TreesAgree
    <3>2. CASE s1 = s
      <4>1. p \in b.tree[s1]
        BY <1>3, <2>2, <3>1, <3>2
      <4>2. \A p1 \in Levels : p1 \in c.tree[s1] <=> HasLevel(orders, s1, p1)
        BY <2>3, <2>4, <2>5, <3>1, <3>2, <4>1
      <4>3. c.tree[s1] \subseteq Levels
        BY <2>4, <3>1, <3>2
      <4> QED BY <2>1, <4>2, <4>3
    <3>3. CASE s1 # s
      <4>1. s1 = Opp(s)
        BY <2>2, <3>3 DEF Side, Opp
      <4>2. \A p1 \in Levels : HasLevel(orders, s1, p1) <=> HasLevel(b.orders, s1, p1)
        BY <2>3, <3>3
      <4> QED BY <2>1, <2>4, <3>1, <4>1, <4>2
    <3> QED BY <3>2, <3>3
  <2>7. b.overlap = b.tree[s] \cap b.tree[Opp(s)]
    BY <2>2 DEF TreesAgree, Side, Opp
  <2>8. c.overlap = c.tree[s] \cap c.tree[Opp(s)]
    BY <2>1, <2>7, <2>4
  <2>9. c.overlap = c.tree["bids"] \cap c.tree["asks"]
    BY <2>2, <2>8 DEF Side, Opp
  <2>10. TreesAgree(c)
    BY <2>6, <2>9 DEF TreesAgree
  <2> QED BY <2>10 DEF c
<1> QED BY <1>1, <1>2, <1>3

\* processModify keeps the caches exact, in place or by cancelling and opening again.
LEMMA ProcessModifyTrees ==
    ASSUME NEW b \in BookType, TreesAgree(b), NEW r, IsChange(r), Indexed(b, r.id)
    PROVE  TreesAgree(ProcessModify(b, r))
<1> DEFINE e == b.index[r.id]
           s == r.side
           p == e.price
           index == [b.index EXCEPT ![r.id].quantity = r.quantity]
           kept == [b EXCEPT !.orders[s][p][r.id] = r.quantity,
                             !.total[s][p] = @ - e.quantity + r.quantity,
                             !.index = index]
<1>1. TreesAgree([b EXCEPT !.index = index])
  BY DEF TreesAgree
<1>2. ASSUME HasLevel(b.orders, s, p)
      PROVE  TreesAgree(kept)
  <2>1. /\ s \in Side /\ p \in Levels /\ r.id \in Ids /\ r.quantity # NoOrder
    BY EntryFields DEF IsChange, NoOrder
  <2>2. /\ kept.orders = [b.orders EXCEPT ![s][p][r.id] = r.quantity]
        /\ kept.tree = b.tree /\ kept.overlap = b.overlap
    BY DEF BookType
  <2>3. \A s1 \in Side, p1 \in Levels :
          HasLevel(kept.orders, s1, p1) <=> HasLevel(b.orders, s1, p1)
    <3> TAKE s1 \in Side, p1 \in Levels
    <3>1. CASE s1 = s /\ p1 = p
      <4>1. kept.orders[s1][p1][r.id] # NoOrder
        BY <2>1, <2>2, <3>1 DEF BookType
      <4>2. HasLevel(kept.orders, s1, p1)
        BY <2>1, <4>1 DEF HasLevel
      <4> QED BY <1>2, <3>1, <4>2
    <3>2. CASE ~(s1 = s /\ p1 = p)
      <4>1. kept.orders[s1][p1] = b.orders[s1][p1]
        BY <2>1, <2>2, <3>2 DEF BookType
      <4> QED BY <4>1 DEF HasLevel
    <3> QED BY <3>1, <3>2
  <2> HIDE DEF kept
  <2> QED BY <2>2, <2>3 DEF TreesAgree
<1>3. TreesAgree(ProcessOpen(ProcessCancel(b, r), r))
  BY ProcessCancelType, ProcessCancelTrees, ProcessOpenTrees DEF IsChange
<1> QED BY <1>1, <1>2, <1>3 DEF ProcessModify

\* Every step of the engine keeps the caches exact.
LEMMA NextTrees ==
    ASSUME TypeOK, TreesMatchLevels, [Next]_vars
    PROVE  TreesMatchLevels'
<1>1. book \in BookType /\ TreesAgree(book)
  BY DEF TypeOK, TreesMatchLevels
<1>2. ASSUME NEW r, OpenStep(r) PROVE TreesAgree(book')
  BY <1>1, <1>2, ProcessOpenTrees DEF OpenStep
<1>3. ASSUME NEW r, ModifyStep(r) PROVE TreesAgree(book')
  BY <1>1, <1>3, ProcessModifyTrees DEF ModifyStep
<1>4. ASSUME NEW r, CancelStep(r) PROVE TreesAgree(book')
  BY <1>1, <1>4, ProcessCancelTrees DEF CancelStep
<1>5. ASSUME NEW r, NEW t, PartStep(r, t) PROVE TreesAgree(book')
  BY <1>1, <1>5, ProcessModifyType, ProcessModifyTrees, ProcessCancelTrees
     DEF PartStep
<1>6. TreesAgree(book')
  BY <1>1, <1>2, <1>3, <1>4, <1>5, BookStep
<1> QED BY <1>6 DEF TreesMatchLevels, TreesAgree, HasLevel

\* The trees the matching code decides by never disagree with the levels, for
\* any set of clients, well behaved or not.
THEOREM TreesAlwaysMatch == Spec => []TreesMatchLevels
<1>1. Init => TreesMatchLevels
  BY DEF Init, TreesMatchLevels, TreesAgree, EmptyBook, HasLevel, Side
<1>2. TypeOK /\ TreesMatchLevels /\ [Next]_vars => TreesMatchLevels'
  BY NextTrees
<1> QED BY <1>1, <1>2, TypeCorrect, PTL DEF Spec
=============================================================================
