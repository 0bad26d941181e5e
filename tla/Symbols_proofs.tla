---------------------------- MODULE Symbols_proofs ----------------------------
(***************************************************************************)
(* The listings and the ledgers keep their promises for any number of      *)
(* symbols, handlers and trades and any length of a chunk.  The argument   *)
(* for the ledgers is the shape of a store: every chunk but the last is    *)
(* full, so that the place of an item follows from its position and a      *)
(* store with one more item holds a list with one more item.  The methods  *)
(* that read a store are loops over such chunks, each of them a part of    *)
(* that list.                                                              *)
(***************************************************************************)
EXTENDS Symbols, SequenceTheorems, WellFoundedInduction, TLAPS

k == chunkSize

\* The shape of a store of prices.
Shape(cs) ==
    /\ cs \in Stores(Prices)
    /\ \A i \in 1 .. Len(cs.chunks) :
          /\ Len(cs.chunks[i]) \in 1 .. k
          /\ i < Len(cs.chunks) => Len(cs.chunks[i]) = k
    /\ cs.totalSize = IF Len(cs.chunks) = 0 THEN 0
                      ELSE k * (Len(cs.chunks) - 1) + Len(cs.chunks[Len(cs.chunks)])

(* Division by the length of a chunk. *)
LEMMA Division ==
    ASSUME NEW x \in Nat
    PROVE  /\ x \div k \in Nat
           /\ x % k \in 0 .. k - 1
           /\ x = k * (x \div k) + (x % k)
BY ChunkAssumption DEF k

LEMMA Divided ==
    ASSUME NEW q \in Nat, NEW r \in 0 .. k - 1
    PROVE  /\ (k * q + r) \div k = q
           /\ (k * q + r) % k = r
BY ChunkAssumption DEF k

LEMMA Ordered ==
    ASSUME NEW p \in Nat, NEW q \in Nat, p < q
    PROVE  k * p + k <= k * q
BY ChunkAssumption DEF k

LEMMA Multiples ==
    ASSUME NEW q \in Nat
    PROVE  k * q \in Nat
BY ChunkAssumption DEF k

LEMMA LengthOfChunks == k \in Nat /\ k > 0
BY ChunkAssumption DEF k

(* Functions that agree everywhere are the same. *)
LEMMA SameFunction ==
    ASSUME NEW S, NEW T, NEW f \in [S -> T], NEW g \in [S -> T], \A x \in S : f[x] = g[x]
    PROVE  f = g
OBVIOUS

-----------------------------------------------------------------------------
(* The parts of a well-formed store. *)
LEMMA Parts ==
    ASSUME NEW cs, Shape(cs)
    PROVE  /\ cs.chunks \in Seq(Seq(Prices))
           /\ Len(cs.chunks) \in Nat
           /\ DOMAIN cs.chunks = 1 .. Len(cs.chunks)
           /\ cs.totalSize \in Nat
           /\ \A i \in 1 .. Len(cs.chunks) :
                 /\ cs.chunks[i] \in Seq(Prices)
                 /\ DOMAIN cs.chunks[i] = 1 .. Len(cs.chunks[i])
                 /\ \A j \in 1 .. Len(cs.chunks[i]) : cs.chunks[i][j] \in Prices
BY DEF Shape, Stores

(* Every position of a store is a place in one of its chunks. *)
LEMMA Places ==
    ASSUME NEW cs, Shape(cs), NEW i \in 1 .. cs.totalSize
    PROVE  /\ ((i - 1) \div k) + 1 \in 1 .. Len(cs.chunks)
           /\ ((i - 1) % k) + 1 \in 1 .. Len(cs.chunks[((i - 1) \div k) + 1])
<1> DEFINE m == Len(cs.chunks)
           q == (i - 1) \div k
           r == (i - 1) % k
<1>1. m \in Nat /\ cs.totalSize \in Nat
  BY Parts
<1>2. m > 0
  BY <1>1 DEF Shape
<1>3. cs.totalSize = k * (m - 1) + Len(cs.chunks[m]) /\ Len(cs.chunks[m]) \in 1 .. k
  BY <1>1, <1>2 DEF Shape
<1>4. i - 1 \in Nat /\ i - 1 < cs.totalSize
  BY <1>1
<1>5. q \in Nat /\ r \in 0 .. k - 1 /\ i - 1 = k * q + r
  BY <1>4, Division
<1> HIDE DEF q, r, m
<1>6. k * q \in Nat /\ k * (m - 1) \in Nat /\ m - 1 \in Nat
  BY <1>1, <1>2, <1>5, LengthOfChunks
<1>7. ~(m - 1 < q)
  <2> SUFFICES ASSUME m - 1 < q PROVE FALSE
    OBVIOUS
  <2>1. k * (m - 1) + k <= k * q
    BY <1>5, <1>6, Ordered
  <2> QED
    BY <2>1, <1>3, <1>4, <1>5, <1>6, LengthOfChunks
<1>8. q + 1 \in 1 .. m
  BY <1>1, <1>5, <1>6, <1>7
<1>9. CASE q = m - 1
  <2>1. r < Len(cs.chunks[m])
    BY <1>3, <1>4, <1>5, <1>6, <1>9
  <2>2. q + 1 = m
    BY <1>1, <1>9
  <2> QED
    BY <2>1, <2>2, <1>3, <1>5, <1>8 DEF q, r, m
<1>10. CASE q # m - 1
  <2>1. q + 1 < m
    BY <1>1, <1>8, <1>5, <1>10
  <2>2. Len(cs.chunks[q + 1]) = k
    BY <1>8, <2>1 DEF Shape, m
  <2> QED
    BY <2>2, <1>5, <1>8, LengthOfChunks DEF q, r, m
<1> QED
  BY <1>9, <1>10

(* What a store holds is a list of prices. *)
LEMMA ContentsTyped ==
    ASSUME NEW cs, Shape(cs)
    PROVE  /\ Contents(cs) \in Seq(Prices)
           /\ Len(Contents(cs)) = cs.totalSize
           /\ \A i \in 1 .. cs.totalSize :
                 Contents(cs)[i] = cs.chunks[((i - 1) \div k) + 1][((i - 1) % k) + 1]
<1>1. cs.totalSize \in Nat
  BY Parts
<1>2. ASSUME NEW i \in 1 .. cs.totalSize
      PROVE  cs.chunks[((i - 1) \div k) + 1][((i - 1) % k) + 1] \in Prices
  BY Places, Parts
<1>3. Contents(cs) \in [1 .. cs.totalSize -> Prices]
  BY <1>2 DEF Contents, k
<1>4. Contents(cs) \in Seq(Prices) /\ Len(Contents(cs)) = cs.totalSize
  BY <1>1, <1>3
<1> QED
  BY <1>4 DEF Contents, k

(* An empty store. *)
LEMMA NewStore ==
    /\ Shape(NewChunkedStore)
    /\ Size(NewChunkedStore) = 0
    /\ Contents(NewChunkedStore) = <<>>
BY DEF Shape, NewChunkedStore, Stores, Size, Contents

(* A store that is not empty ends with its most recent price. *)
LEMMA MostRecentTyped ==
    ASSUME NEW cs, Shape(cs), Size(cs) # 0
    PROVE  GetMostRecent(cs) \in Prices
<1>1. Len(cs.chunks) > 0
  BY Parts DEF Shape, Size
<1>2. Len(cs.chunks[Len(cs.chunks)]) \in 1 .. Len(cs.chunks[Len(cs.chunks)])
  BY <1>1, Parts, LengthOfChunks DEF Shape
<1> QED
  BY <1>1, <1>2, Parts DEF GetMostRecent

(* Append keeps the shape, adds one item at the end and makes it the most  *)
(* recent one.                                                             *)
LEMMA AppendedStore ==
    ASSUME NEW cs, Shape(cs), NEW p \in Prices
    PROVE  /\ Shape(Appended(cs, p))
           /\ Size(Appended(cs, p)) # 0
           /\ GetMostRecent(Appended(cs, p)) = p
           /\ Contents(Appended(cs, p)) = Append(Contents(cs), p)
<1> DEFINE m == Len(cs.chunks)
           n == cs.totalSize
           full == m = 0 \/ Len(cs.chunks[m]) >= k
           new == Appended(cs, p)
           place(chunks, i) == chunks[((i - 1) \div k) + 1][((i - 1) % k) + 1]
<1>0. /\ cs.chunks \in Seq(Seq(Prices))
      /\ m \in Nat
      /\ n \in Nat
      /\ new.totalSize = n + 1
      /\ k \in Nat /\ k > 0
  BY Parts, LengthOfChunks DEF Appended
<1> DEFINE Done == /\ Shape(new)
                   /\ GetMostRecent(new) = p
                   /\ place(new.chunks, n + 1) = p
                   /\ \A i \in 1 .. n : place(new.chunks, i) = place(cs.chunks, i)
<1>1. ASSUME full PROVE Done
  <2>1. /\ new.chunks = Append(cs.chunks, <<p>>)
        /\ <<p>> \in Seq(Prices)
        /\ Len(<<p>>) = 1
    BY <1>1 DEF Appended, k
  <2>2. /\ new.chunks \in Seq(Seq(Prices))
        /\ Len(new.chunks) = m + 1
        /\ new.chunks[m + 1] = <<p>>
        /\ \A i \in 1 .. m : new.chunks[i] = cs.chunks[i]
    BY <1>0, <2>1, AppendProperties
  <2>3. \A i \in 1 .. m : Len(cs.chunks[i]) = k
    BY <1>0, <1>1 DEF Shape
  <2>4. n = k * m
    <3>1. CASE m = 0
      BY <1>0, <3>1 DEF Shape
    <3>2. CASE m # 0
      <4>1. n = k * (m - 1) + Len(cs.chunks[m]) /\ m \in 1 .. m
        BY <1>0, <3>2 DEF Shape
      <4>2. n = k * (m - 1) + k
        BY <2>3, <4>1
      <4> HIDE DEF n, m
      <4> QED
        BY <1>0, <4>2
    <3> QED
      BY <3>1, <3>2
  <2>5. Shape(new)
    <3>1. new \in Stores(Prices)
      BY <1>0, <2>2 DEF Stores, Appended
    <3>2. \A i \in 1 .. m + 1 : /\ Len(new.chunks[i]) \in 1 .. k
                                /\ i < m + 1 => Len(new.chunks[i]) = k
      <4>1. \A i \in 1 .. m + 1 : i = m + 1 \/ i \in 1 .. m
        BY <1>0
      <4> QED
        BY <1>0, <2>1, <2>2, <2>3, <4>1
    <3>3. new.totalSize = k * m + 1 /\ (m + 1) - 1 = m /\ m + 1 # 0
      BY <1>0, <2>4
    <3> HIDE DEF new
    <3> QED
      BY <2>1, <2>2, <3>1, <3>2, <3>3 DEF Shape
  <2>6. GetMostRecent(new) = p
    BY <2>1, <2>2 DEF GetMostRecent
  <2>7. place(new.chunks, n + 1) = p
    <3>1. (n + 1) - 1 = k * m + 0 /\ 0 \in 0 .. k - 1
      BY <1>0, <2>4
    <3>2. (k * m + 0) \div k = m /\ (k * m + 0) % k = 0
      BY <1>0, <3>1, Divided
    <3> HIDE DEF new
    <3> QED
      BY <2>2, <3>1, <3>2
  <2>8. \A i \in 1 .. n : place(new.chunks, i) = place(cs.chunks, i)
    BY <2>2, Places
  <2> QED
    BY <2>5, <2>6, <2>7, <2>8
<1>2. ASSUME ~full PROVE Done
  <2> DEFINE L == Len(cs.chunks[m])
  <2>0. /\ m \in 1 .. m
        /\ cs.chunks[m] \in Seq(Prices)
        /\ L \in 1 .. k - 1
        /\ m - 1 \in Nat
        /\ n = k * (m - 1) + L
    <3>1. m \in 1 .. m /\ m - 1 \in Nat
      BY <1>0, <1>2
    <3>2. cs.chunks[m] \in Seq(Prices) /\ L \in Nat
      BY <1>0, <3>1
    <3>3. L \in 1 .. k /\ n = k * (m - 1) + L
      <4>1. L \in 1 .. k
        BY <3>1 DEF Shape
      <4>2. m # 0
        BY <3>1
      <4> QED
        BY <4>1, <4>2 DEF Shape
    <3>4. ~(L >= k)
      BY <1>2
    <3> QED
      BY <1>0, <3>1, <3>2, <3>3, <3>4
  <2>1. /\ new.chunks = [cs.chunks EXCEPT ![m] = Append(cs.chunks[m], p)]
        /\ Append(cs.chunks[m], p) \in Seq(Prices)
        /\ Len(Append(cs.chunks[m], p)) = L + 1
        /\ Append(cs.chunks[m], p)[L + 1] = p
        /\ \A j \in 1 .. L : Append(cs.chunks[m], p)[j] = cs.chunks[m][j]
    <3>1. new.chunks = [cs.chunks EXCEPT ![m] = Append(cs.chunks[m], p)]
      BY <1>2 DEF Appended, k
    <3> QED
      BY <2>0, <3>1, AppendProperties
  <2>2. /\ new.chunks \in Seq(Seq(Prices))
        /\ Len(new.chunks) = m
        /\ new.chunks[m] = Append(cs.chunks[m], p)
        /\ \A i \in 1 .. m : i # m => new.chunks[i] = cs.chunks[i]
    BY <1>0, <2>0, <2>1
  <2>5. Shape(new)
    <3>1. new \in Stores(Prices)
      BY <1>0, <2>2 DEF Stores, Appended
    <3>2. \A i \in 1 .. m : /\ Len(new.chunks[i]) \in 1 .. k
                            /\ i < m => Len(new.chunks[i]) = k
      <4>1. L + 1 \in 1 .. k
        BY <1>0, <2>0
      <4> QED
        BY <1>0, <2>1, <2>2, <4>1 DEF Shape
    <3>3. new.totalSize = k * (m - 1) + (L + 1) /\ m # 0
      <4> DEFINE below == k * (m - 1)
      <4>1. below \in Nat
        BY <2>0, Multiples
      <4>2. new.totalSize = n + 1 /\ n = below + L /\ L \in Nat
        BY <1>0, <2>0
      <4>3. m # 0
        BY <2>0
      <4> HIDE DEF m, n, L, below, new
      <4>4. new.totalSize = below + (L + 1)
        BY <4>1, <4>2
      <4> QED
        BY <4>3, <4>4 DEF below
    <3> HIDE DEF new
    <3> QED
      BY <2>1, <2>2, <3>1, <3>2, <3>3 DEF Shape
  <2>6. GetMostRecent(new) = p
    BY <2>1, <2>2 DEF GetMostRecent
  <2>7. place(new.chunks, n + 1) = p
    <3>1. (n + 1) - 1 = k * (m - 1) + L /\ L \in 0 .. k - 1
      BY <1>0, <2>0
    <3>2. ((n + 1) - 1) \div k = m - 1 /\ ((n + 1) - 1) % k = L
      BY <2>0, <3>1, Divided
    <3>3. (m - 1) + 1 = m
      BY <1>0
    <3> HIDE DEF new
    <3> QED
      BY <2>1, <2>2, <3>2, <3>3
  <2>8. \A i \in 1 .. n : place(new.chunks, i) = place(cs.chunks, i)
    BY <2>1, <2>2, Places
  <2> QED
    BY <2>5, <2>6, <2>7, <2>8
<1>3. Done
  BY <1>1, <1>2
<1>4. Size(new) # 0
  BY <1>0 DEF Size
<1>5. /\ Contents(new) \in [1 .. n + 1 -> Prices]
      /\ \A i \in 1 .. n + 1 : Contents(new)[i] = place(new.chunks, i)
  BY <1>0, <1>3, ContentsTyped, LenProperties
<1>6. /\ Append(Contents(cs), p) \in [1 .. n + 1 -> Prices]
      /\ Append(Contents(cs), p)[n + 1] = p
      /\ \A i \in 1 .. n : Append(Contents(cs), p)[i] = place(cs.chunks, i)
  <2>1. Contents(cs) \in Seq(Prices) /\ Len(Contents(cs)) = n
    BY ContentsTyped
  <2>2. /\ Append(Contents(cs), p) \in Seq(Prices)
        /\ Len(Append(Contents(cs), p)) = n + 1
        /\ Append(Contents(cs), p)[n + 1] = p
        /\ \A i \in 1 .. n : Append(Contents(cs), p)[i] = Contents(cs)[i]
    BY <2>1, AppendProperties
  <2> QED
    BY <2>2, ContentsTyped, LenProperties
<1>7. \A i \in 1 .. n + 1 : i = n + 1 \/ i \in 1 .. n
  BY <1>0
<1>8. Contents(new) = Append(Contents(cs), p)
  <2> DEFINE f == Contents(new)
             g == Append(Contents(cs), p)
             S == 1 .. n + 1
  <2>1. \A i \in S : f[i] = g[i]
    BY <1>3, <1>5, <1>6, <1>7
  <2>2. f \in [S -> Prices] /\ g \in [S -> Prices]
    BY <1>5, <1>6
  <2> HIDE DEF f, g, S
  <2>3. f = g
    BY <2>1, <2>2, SameFunction
  <2> QED
    BY <2>3 DEF f, g
<1> QED
  BY <1>3, <1>4, <1>8

-----------------------------------------------------------------------------
(* The ledgers and the engine agree. *)

Shapes == \A s \in DOMAIN TempLedger : Shape(TempLedger[s])

HasItems(s) == s \in DOMAIN TempLedger /\ Size(TempLedger[s]) # 0

\* A trade was broadcast and is not recorded yet.
Recording == {"record", "create", "append"}

Pending(s) == s = sym /\ at \in Recording

PricesAgree ==
    /\ Up /\ at \in Recording => price \in Prices /\ told[sym].price = price
    /\ \A s \in Names : ~Pending(s) =>
          /\ ~told[s].emptied => HasItems(s)
          /\ HasItems(s) => GetMostRecent(TempLedger[s]) = told[s].price
    /\ at = "ipo" => ~HasItems(sym)
    /\ at = "recent" => HasItems(sym) \/ sym \notin DOMAIN TempLedger
    /\ at = "create" => sym \notin DOMAIN TempLedger

AdminTypes ==
    /\ DOMAIN table \subseteq Names
    /\ table \in [DOMAIN table -> SymbolRow]
    /\ pc \in [Handlers -> {"idle", "insert", "returned"}]
    /\ form \in [Handlers -> Names]
    /\ reply \in [Handlers -> {"none", "created", "failed"}]

BoundTypes ==
    /\ open \in BOOLEAN
    /\ process \in {"up", "panicked"}
    /\ trades \in 0 .. MaxTrades
    /\ faults \in 0 .. MaxFaults
    /\ stops \in 0 .. MaxStops

EngineTypes ==
    /\ DOMAIN TempLedger \subseteq Names
    /\ TempLedger \in [DOMAIN TempLedger -> Stores(Prices)]
    /\ at \in Positions
    /\ sym \in Names
    /\ price \in Prices \cup {IPOPrice}
    /\ told \in [Names -> [price : Prices \cup {IPOPrice}, emptied : BOOLEAN]]

EngineInv == EngineTypes /\ Shapes /\ PricesAgree

\* A row of the table stays its lister's.
AdminInv == AdminTypes /\ ListedAsAsked

IInv == AdminInv /\ BoundTypes /\ EngineInv

LEMMA TypesTogether == IInv => TypeOK
BY DEF IInv, AdminInv, AdminTypes, BoundTypes, EngineInv, EngineTypes, TypeOK

LEMMA Initially == Init => IInv
<1> SUFFICES ASSUME Init PROVE IInv
  OBVIOUS
<1> USE SymbolsAssumption DEF Init
<1>1. AdminInv
  BY DEF AdminInv, AdminTypes, ListedAsAsked
<1>2. BoundTypes
  BY DEF BoundTypes
<1>3. EngineTypes
  BY DEF EngineTypes, NoTrade, Positions
<1>4. Shapes /\ PricesAgree
  BY DEF Shapes, PricesAgree, HasItems, Pending, Recording, NoTrade
<1> QED
  BY <1>1, <1>2, <1>3, <1>4 DEF IInv, EngineInv

(* What a statement may count. *)
LEMMA Counting ==
    ASSUME BoundTypes, NEW outcome \in Outcomes, Counted(outcome)
    PROVE  faults' \in 0 .. MaxFaults
BY SymbolsAssumption DEF BoundTypes, Outcomes, Counted

-----------------------------------------------------------------------------
(* Administrators. *)
LEMMA Listing ==
    ASSUME IInv, NEW h \in Handlers, CheckExists(h) \/ Insert(h)
    PROVE  IInv'
<1>1. UNCHANGED <<form, open, TempLedger, engineVars, process, stops>>
  BY DEF CheckExists, Insert, ListingRest
<1>2. EngineInv'
  BY <1>1 DEF IInv, EngineInv, EngineTypes, Shapes, PricesAgree, HasItems, Pending, Up, engineVars
<1>3. faults' \in 0 .. MaxFaults
  BY Counting DEF IInv, CheckExists, Insert
<1>4. BoundTypes'
  BY <1>1, <1>3 DEF IInv, BoundTypes, engineVars
<1>5. CASE CheckExists(h)
  <2>1. \/ Returns(h, "failed") /\ UNCHANGED table
        \/ Goes(h, "insert") /\ UNCHANGED table
    BY <1>5 DEF CheckExists
  <2> QED
    BY <1>1, <1>2, <1>4, <2>1 DEF IInv, AdminInv, AdminTypes, ListedAsAsked, Returns, Goes
<1>6. CASE Insert(h)
  <2>1. form[h] \in Names /\ Row(h) \in SymbolRow /\ Row(h).lister = h
    BY DEF IInv, AdminInv, AdminTypes, Row, SymbolRow, Statuses
  <2>2. CASE /\ form[h] \notin DOMAIN table
             /\ table' = With(table, form[h], Row(h))
             /\ Returns(h, "created") \/ Returns(h, "failed")
    <3>1. /\ DOMAIN table' = DOMAIN table \cup {form[h]}
          /\ table' \in [DOMAIN table' -> SymbolRow]
          /\ table'[form[h]] = Row(h)
          /\ \A s \in DOMAIN table : table'[s] = table[s]
      <4>1. table \in [DOMAIN table -> SymbolRow]
        BY DEF IInv, AdminInv, AdminTypes
      <4>2. /\ DOMAIN With(table, form[h], Row(h)) = DOMAIN table \cup {form[h]}
            /\ With(table, form[h], Row(h)) \in [DOMAIN With(table, form[h], Row(h)) -> SymbolRow]
            /\ With(table, form[h], Row(h))[form[h]] = Row(h)
            /\ \A s \in DOMAIN table : s # form[h] => With(table, form[h], Row(h))[s] = table[s]
        BY <2>1, <4>1 DEF With
      <4> QED
        BY <2>2, <4>2
    <3>2. AdminTypes'
      BY <1>1, <2>1, <2>2, <3>1 DEF IInv, AdminInv, AdminTypes, Returns
    <3>3. ListedAsAsked'
      BY <1>1, <2>1, <2>2, <3>1 DEF IInv, AdminInv, AdminTypes, ListedAsAsked, Returns
    <3> QED
      BY <1>2, <1>4, <3>2, <3>3 DEF IInv, AdminInv
  <2>3. CASE UNCHANGED table /\ Returns(h, "failed")
    BY <1>1, <1>2, <1>4, <2>3 DEF IInv, AdminInv, AdminTypes, ListedAsAsked, Returns
  <2> QED
    BY <1>6, <2>2, <2>3 DEF Insert
<1> QED
  BY <1>5, <1>6

LEMMA Administering ==
    ASSUME IInv, NEW s \in Names, UpdateSymbolStatus(s) \/ SymbolNow(s)
    PROVE  IInv'
<1>1. CASE UpdateSymbolStatus(s)
  <2>1. PICK status \in Statuses, outcome \in Outcomes : Updates(s, status, outcome)
    BY <1>1 DEF UpdateSymbolStatus
  <2> USE <2>1 DEF Updates, AdminRest
  <2>2. EngineInv' /\ BoundTypes'
    BY Counting DEF IInv, BoundTypes, EngineInv, EngineTypes, Shapes, PricesAgree, HasItems, Pending,
       Up, engineVars
  <2>3. /\ DOMAIN table' = DOMAIN table
        /\ table' \in [DOMAIN table' -> SymbolRow]
        /\ \A t \in DOMAIN table : table'[t].lister = table[t].lister
    <3>1. table \in [DOMAIN table -> SymbolRow]
      BY DEF IInv, AdminInv, AdminTypes
    <3>2. CASE s \in DOMAIN table /\ table' = [table EXCEPT ![s].status = status]
      <4>1. [table[s] EXCEPT !.status = status] \in SymbolRow
        BY <3>1, <3>2 DEF SymbolRow
      <4> QED
        BY <3>1, <3>2, <4>1 DEF SymbolRow
    <3> QED
      BY <3>1, <3>2
  <2>4. AdminInv'
    BY <2>3 DEF IInv, AdminInv, AdminTypes, ListedAsAsked
  <2> QED
    BY <2>2, <2>4 DEF IInv
<1>2. CASE SymbolNow(s)
  <2> USE <1>2 DEF SymbolNow
  <2>1. AdminInv' /\ BoundTypes'
    BY DEF IInv, AdminInv, AdminTypes, ListedAsAsked, BoundTypes, adminVars, engineVars
  <2>2. EngineInv'
    BY DEF IInv, EngineInv, EngineTypes, Shapes, PricesAgree, HasItems, Pending, Up, engineVars
  <2> QED
    BY <2>1, <2>2 DEF IInv
<1> QED
  BY <1>1, <1>2

-----------------------------------------------------------------------------
(* The engine. *)

(* What it does is nothing to the table and the bounds. *)
LEMMA EngineElsewhere ==
    ASSUME IInv, UNCHANGED <<adminVars, open, stops>>, process' \in {"up", "panicked"},
           trades' \in 0 .. MaxTrades, faults' \in 0 .. MaxFaults
    PROVE  AdminInv' /\ BoundTypes'
BY DEF IInv, AdminInv, AdminTypes, ListedAsAsked, BoundTypes, adminVars

(* A step of the engine that trades nothing and leaves the ledgers alone. *)
LEMMA Looking ==
    ASSUME EngineInv, UNCHANGED <<TempLedger, told>>, at' \in Positions \ Recording,
           at \notin Recording, sym' \in Names, price' \in Prices \cup {IPOPrice},
           at' = "ipo" => ~HasItems(sym'),
           at' = "recent" => HasItems(sym') \/ sym' \notin DOMAIN TempLedger
    PROVE  EngineInv'
<1>1. EngineTypes' /\ Shapes'
  BY DEF EngineInv, EngineTypes, Shapes
<1>2. \A s \in Names : ~Pending(s)
  BY DEF Pending
<1>3. PricesAgree'
  BY <1>2 DEF EngineInv, PricesAgree, HasItems, Pending, Recording
<1> QED
  BY <1>1, <1>3 DEF EngineInv

(* A use of a ledger that is gone leaves everything but the process. *)
LEMMA Panicking ==
    ASSUME EngineInv, UNCHANGED <<TempLedger, told, at, sym>>, process' = "panicked",
           price' \in Prices \cup {IPOPrice}
    PROVE  EngineInv'
<1>1. EngineTypes' /\ Shapes'
  BY DEF EngineInv, EngineTypes, Shapes
<1>2. PricesAgree'
  BY DEF EngineInv, PricesAgree, HasItems, Pending, Up
<1> QED
  BY <1>1, <1>2 DEF EngineInv

LEMMA EngineSteps ==
    ASSUME IInv, Engine
    PROVE  IInv'
<1> DEFINE Rest == UNCHANGED <<adminVars, open, stops>>
<1>0. /\ EngineInv /\ EngineTypes /\ Shapes /\ PricesAgree
      /\ sym \in Names
      /\ price \in Prices \cup {IPOPrice}
      /\ process \in {"up", "panicked"}
      /\ trades \in 0 .. MaxTrades
      /\ faults \in 0 .. MaxFaults
  BY DEF IInv, EngineInv, EngineTypes, BoundTypes
<1>1. ASSUME NEW s \in Names, TakeOrder(s) PROVE IInv'
  <2>1. EngineInv'
    BY <1>0, <1>1, Looking DEF TakeOrder, Moves, Positions, Recording
  <2> QED
    BY <1>0, <1>1, <2>1, EngineElsewhere DEF TakeOrder, Moves, EngineRest, IInv
<1>2. CASE Lookup
  <2>1. EngineInv'
    BY <1>0, <1>2, Looking DEF Lookup, Moves, Positions, Recording, HasItems
  <2> QED
    BY <1>0, <1>2, <2>1, EngineElsewhere DEF Lookup, Moves, EngineRest, IInv
<1>3. CASE HasTrades
  <2>1. EngineInv'
    <3>1. CASE sym \in DOMAIN TempLedger
      BY <1>0, <1>3, <3>1, Looking DEF HasTrades, Uses, Positions, Recording, HasItems
    <3>2. CASE sym \notin DOMAIN TempLedger
      BY <1>0, <1>3, <3>2, Panicking DEF HasTrades, Uses
    <3> QED
      BY <3>1, <3>2
  <2>2. process' \in {"up", "panicked"}
    BY <1>0, <1>3 DEF HasTrades, Uses
  <2> QED
    BY <1>0, <1>3, <2>1, <2>2, EngineElsewhere DEF HasTrades, EngineRest, IInv
<1>4. CASE MostRecent
  <2>1. EngineInv'
    <3>1. CASE sym \in DOMAIN TempLedger
      <4>1. HasItems(sym) /\ at = "recent"
        BY <1>0, <1>4, <3>1 DEF MostRecent, Uses, PricesAgree
      <4>2. price' \in Prices
        BY <1>0, <1>4, <3>1, <4>1, MostRecentTyped DEF MostRecent, HasItems, Shapes
      <4> QED
        BY <1>0, <1>4, <3>1, <4>1, <4>2, Looking DEF MostRecent, Uses, Positions, Recording
    <3>2. CASE sym \notin DOMAIN TempLedger
      BY <1>0, <1>4, <3>2, Panicking DEF MostRecent, Uses
    <3> QED
      BY <3>1, <3>2
  <2>2. process' \in {"up", "panicked"}
    BY <1>0, <1>4 DEF MostRecent, Uses
  <2> QED
    BY <1>0, <1>4, <2>1, <2>2, EngineElsewhere DEF MostRecent, EngineRest, IInv
<1>5. CASE GetIPOPrice
  <2>1. EngineInv'
    BY <1>0, <1>5, Looking DEF GetIPOPrice, Moves, Positions, Recording
  <2>2. faults' \in 0 .. MaxFaults
    BY <1>0, <1>5, SymbolsAssumption DEF GetIPOPrice
  <2> QED
    BY <1>0, <1>5, <2>1, <2>2, EngineElsewhere DEF GetIPOPrice, Moves, EngineRest, IInv
<1>6. CASE BroadcastTrade
  <2> USE <1>6 DEF BroadcastTrade, Moves
  <2>1. EngineTypes' /\ Shapes'
    BY <1>0 DEF EngineTypes, Shapes, Positions
  <2>2. told'[sym].price = price' /\ \A s \in Names : s # sym => told'[s] = told[s]
    BY <1>0 DEF EngineTypes
  <2>3. \A s \in Names : ~Pending(s)
    BY DEF Pending, Recording
  <2>4. PricesAgree'
    BY <1>0, <2>2, <2>3 DEF PricesAgree, HasItems, Pending, Recording
  <2>5. trades' \in 0 .. MaxTrades
    BY <1>0, SymbolsAssumption
  <2> QED
    BY <1>0, <2>1, <2>4, <2>5, EngineElsewhere DEF EngineRest, IInv, EngineInv
<1>7. CASE EndOfOrder
  <2>1. EngineInv'
    BY <1>0, <1>7, Looking DEF EndOfOrder, Moves, Positions, Recording
  <2> QED
    BY <1>0, <1>7, <2>1, EngineElsewhere DEF EndOfOrder, Moves, EngineRest, IInv
<1>8. CASE Record
  <2> USE <1>8 DEF Record, Moves
  <2>1. EngineTypes' /\ Shapes'
    BY <1>0 DEF EngineTypes, Shapes, Positions
  <2>2. at \in Recording /\ at' \in Recording \ {"record"}
    BY DEF Recording
  <2>3. at' = "create" => sym \notin DOMAIN TempLedger
    OBVIOUS
  <2>4. PricesAgree'
    BY <1>0, <2>2, <2>3 DEF PricesAgree, HasItems, Pending, Up, Recording
  <2> QED
    BY <1>0, <2>1, <2>4, EngineElsewhere DEF EngineRest, IInv, EngineInv
<1>9. CASE Create
  <2> USE <1>9 DEF Create, Moves
  <2>1. /\ DOMAIN TempLedger' = DOMAIN TempLedger \cup {sym}
        /\ TempLedger' \in [DOMAIN TempLedger' -> Stores(Prices)]
        /\ TempLedger'[sym] = NewChunkedStore
        /\ \A s \in DOMAIN TempLedger : s # sym => TempLedger'[s] = TempLedger[s]
    <3>1. NewChunkedStore \in Stores(Prices)
      BY NewStore DEF Shape
    <3>2. TempLedger \in [DOMAIN TempLedger -> Stores(Prices)]
      BY <1>0 DEF EngineTypes
    <3> DEFINE ledgers == With(TempLedger, sym, NewChunkedStore)
    <3>3. /\ DOMAIN ledgers = DOMAIN TempLedger \cup {sym}
          /\ ledgers \in [DOMAIN ledgers -> Stores(Prices)]
          /\ ledgers[sym] = NewChunkedStore
          /\ \A s \in DOMAIN TempLedger : s # sym => ledgers[s] = TempLedger[s]
      BY <3>1, <3>2 DEF With
    <3>4. TempLedger' = ledgers
      OBVIOUS
    <3> HIDE DEF ledgers
    <3> QED
      BY <3>3, <3>4
  <2>2. EngineTypes'
    BY <1>0, <2>1 DEF EngineTypes, Positions
  <2>3. Shapes'
    BY <1>0, <2>1, NewStore DEF Shapes
  <2>4. at \in Recording /\ at' \in Recording
    BY DEF Recording
  <2>5. \A s \in Names : s # sym => /\ HasItems(s)' <=> HasItems(s)
                                    /\ HasItems(s) => TempLedger'[s] = TempLedger[s]
    BY <2>1 DEF HasItems
  <2>6. PricesAgree'
    BY <1>0, <2>4, <2>5 DEF PricesAgree, Pending, Up, Recording
  <2> QED
    BY <1>0, <2>2, <2>3, <2>6, EngineElsewhere DEF EngineRest, IInv, EngineInv
<1>10. CASE AppendTrade
  <2> USE <1>10 DEF AppendTrade, Uses
  <2>1. CASE sym \in DOMAIN TempLedger
    <3> DEFINE store == Appended(TempLedger[sym], price)
    <3>1. price \in Prices /\ told[sym].price = price
      BY <1>0 DEF PricesAgree, Recording
    <3>2. Shape(store) /\ Size(store) # 0 /\ GetMostRecent(store) = price
      BY <1>0, <2>1, <3>1, AppendedStore DEF Shapes
    <3>3. store \in Stores(Prices)
      BY <3>2 DEF Shape
    <3>4. TempLedger' = [TempLedger EXCEPT ![sym] = store]
      BY <2>1
    <3> HIDE DEF store
    <3>5. /\ DOMAIN TempLedger' = DOMAIN TempLedger
          /\ TempLedger' \in [DOMAIN TempLedger' -> Stores(Prices)]
          /\ TempLedger'[sym] = store
          /\ \A s \in DOMAIN TempLedger : s # sym => TempLedger'[s] = TempLedger[s]
      BY <1>0, <2>1, <3>3, <3>4 DEF EngineTypes
    <3>6. EngineTypes'
      BY <1>0, <2>1, <3>5 DEF EngineTypes, Positions
    <3>7. Shapes'
      BY <1>0, <3>2, <3>5 DEF Shapes
    <3>8. \A s \in Names : s # sym => /\ HasItems(s)' <=> HasItems(s)
                                      /\ HasItems(s) => TempLedger'[s] = TempLedger[s]
      BY <3>5 DEF HasItems
    <3>9. at' = "match" /\ HasItems(sym)' /\ GetMostRecent(TempLedger'[sym]) = told[sym].price
      BY <2>1, <3>1, <3>2, <3>5 DEF HasItems
    <3>10. PricesAgree'
      BY <1>0, <3>8, <3>9 DEF PricesAgree, Pending, Recording
    <3> QED
      BY <1>0, <2>1, <3>6, <3>7, <3>10, EngineElsewhere DEF EngineRest, IInv, EngineInv
  <2>2. CASE sym \notin DOMAIN TempLedger
    <3>1. EngineInv'
      BY <1>0, <2>2, Panicking
    <3> QED
      BY <1>0, <2>2, <3>1, EngineElsewhere DEF EngineRest, IInv
  <2> QED
    BY <2>1, <2>2
<1> QED
  BY <1>1, <1>2, <1>3, <1>4, <1>5, <1>6, <1>7, <1>8, <1>9, <1>10 DEF Engine

(* The session clock and the end of the process. *)
LEMMA Elsewhere ==
    ASSUME IInv, UpdateMarketStatus \/ ClearTempLedgerData \/ Restart
    PROVE  IInv'
<1>1. CASE UpdateMarketStatus
  <2> USE <1>1 DEF UpdateMarketStatus
  <2>1. AdminInv' /\ BoundTypes'
    BY DEF IInv, AdminInv, AdminTypes, ListedAsAsked, BoundTypes, adminVars, engineVars
  <2>2. EngineInv'
    BY DEF IInv, EngineInv, EngineTypes, Shapes, PricesAgree, HasItems, Pending, Up, engineVars
  <2> QED
    BY <2>1, <2>2 DEF IInv
<1>2. ASSUME TempLedger' = [s \in {} |-> NewChunkedStore], Emptied,
             at' \in {at, "idle"}, sym' = sym,
             \/ at' = "idle" /\ price' = IPOPrice
             \/ UNCHANGED <<price, process>>
      PROVE  EngineInv'
  <2>1. DOMAIN TempLedger' = {} /\ TempLedger' \in [DOMAIN TempLedger' -> Stores(Prices)]
    BY <1>2
  <2>2. \A s \in Names : told'[s].emptied /\ told'[s].price = told[s].price
    BY <1>2 DEF Emptied, IInv, EngineInv, EngineTypes
  <2>3. told' \in [Names -> [price : Prices \cup {IPOPrice}, emptied : BOOLEAN]]
    BY <1>2 DEF Emptied, IInv, EngineInv, EngineTypes
  <2>4. EngineTypes' /\ Shapes'
    BY <1>2, <2>1, <2>3 DEF IInv, EngineInv, EngineTypes, Shapes, Positions
  <2>5. \A s \in Names : ~HasItems(s)'
    BY <2>1 DEF HasItems
  <2>6. PricesAgree'
    BY <1>2, <2>1, <2>2, <2>5 DEF IInv, EngineInv, EngineTypes, PricesAgree, Recording, Up, HasItems
  <2> QED
    BY <2>4, <2>6 DEF EngineInv
<1>3. CASE ClearTempLedgerData
  <2> USE <1>3 DEF ClearTempLedgerData
  <2>1. AdminInv' /\ BoundTypes'
    BY DEF IInv, AdminInv, AdminTypes, ListedAsAsked, BoundTypes, adminVars
  <2> QED
    BY <1>2, <2>1 DEF IInv
<1>4. CASE Restart
  <2> USE <1>4 DEF Restart
  <2>1. stops' \in 0 .. MaxStops
    BY SymbolsAssumption DEF IInv, BoundTypes
  <2>2. AdminInv' /\ BoundTypes'
    BY <2>1 DEF IInv, AdminInv, AdminTypes, ListedAsAsked, BoundTypes
  <2> QED
    BY <1>2, <2>2 DEF IInv
<1> QED
  BY <1>1, <1>3, <1>4

(* Every step keeps the invariant. *)
LEMMA Inductive == IInv /\ [Next]_vars => IInv'
<1> SUFFICES ASSUME IInv, [Next]_vars PROVE IInv'
  OBVIOUS
<1>1. CASE UNCHANGED vars
  <2> USE <1>1 DEF vars, adminVars, engineVars
  <2>1. AdminInv' /\ BoundTypes'
    BY DEF IInv, AdminInv, AdminTypes, ListedAsAsked, BoundTypes
  <2>2. EngineInv'
    BY DEF IInv, EngineInv, EngineTypes, Shapes, PricesAgree, HasItems, Pending, Up
  <2> QED
    BY <2>1, <2>2 DEF IInv
<1> QED
  BY <1>1, Listing, Administering, EngineSteps, Elsewhere DEF Next

LEMMA InvariantHolds == Spec => []IInv
BY Initially, Inductive, PTL DEF Spec

-----------------------------------------------------------------------------
(* Every state of the table, the ledgers and the engine is well typed. *)
THEOREM TypeCorrect == Spec => []TypeOK
BY TypesTogether, InvariantHolds, PTL

(* An administrator who is told that a symbol was listed has listed it,    *)
(* whoever else tries, whatever fails, and ever after.                     *)
THEOREM AlwaysListedAsAsked == Spec => []ListedAsAsked
<1>1. IInv => ListedAsAsked
  BY DEF IInv, AdminInv
<1> QED
  BY <1>1, InvariantHolds, PTL

(* An order starts from the last price that was told of its symbol, or     *)
(* from the price of the listing when none was told since the ledgers were *)
(* emptied.                                                                *)
THEOREM AlwaysStartsFromLastPrice == Spec => StartsFromLastPrice
<1> DEFINE Start == at' = "match" /\ at \in {"recent", "ipo"} =>
                       \/ price' = told[sym].price
                       \/ price' = IPOPrice /\ told[sym].emptied
<1>1. ASSUME IInv, Next, at' = "match", at \in {"recent", "ipo"}
      PROVE  \/ price' = told[sym].price
             \/ price' = IPOPrice /\ told[sym].emptied
  <2>1. MostRecent \/ GetIPOPrice
    BY <1>1 DEF Next, CheckExists, Insert, ListingRest, UpdateSymbolStatus, Updates, AdminRest,
       SymbolNow, Engine, TakeOrder, Lookup, HasTrades, BroadcastTrade, EndOfOrder, Record, Create,
       AppendTrade, Moves, Uses, UpdateMarketStatus, ClearTempLedgerData, Restart, engineVars
  <2>2. sym \in Names /\ ~Pending(sym) /\ PricesAgree
    BY <1>1 DEF IInv, EngineInv, EngineTypes, Pending, Recording
  <2>3. CASE MostRecent
    <3>1. sym \in DOMAIN TempLedger /\ price' = GetMostRecent(TempLedger[sym]) /\ at = "recent"
      BY <1>1, <2>3 DEF MostRecent, Uses
    <3> QED
      BY <2>2, <3>1 DEF PricesAgree
  <2>4. CASE GetIPOPrice
    <3>1. at = "ipo" /\ price' = IPOPrice
      BY <1>1, <2>4 DEF GetIPOPrice, Moves
    <3>2. told[sym].emptied \in BOOLEAN
      BY <1>1, <2>2 DEF IInv, EngineInv, EngineTypes
    <3> QED
      BY <2>2, <3>1, <3>2 DEF PricesAgree
  <2> QED
    BY <2>1, <2>3, <2>4
<1>2. IInv /\ [Next]_vars => [Start]_vars
  BY <1>1
<1> QED
  BY <1>2, InvariantHolds, PTL DEF Spec, StartsFromLastPrice

-----------------------------------------------------------------------------
(* The ledgers implement DayLedger. *)

LogOf == [s \in Names |-> IF s \in DOMAIN TempLedger THEN Contents(TempLedger[s]) ELSE <<>>]

LEMMA LedgerStep ==
    ASSUME IInv, [Next]_vars
    PROVE  Ledger!Next \/ LogOf' = LogOf
<1>0. EngineTypes /\ Shapes /\ PricesAgree /\ sym \in Names
  BY DEF IInv, EngineInv, EngineTypes
<1>1. CASE UNCHANGED TempLedger
  BY <1>1 DEF LogOf
<1>2. CASE Create
  <2>1. /\ sym \notin DOMAIN TempLedger
        /\ DOMAIN TempLedger' = DOMAIN TempLedger \cup {sym}
        /\ TempLedger'[sym] = NewChunkedStore
        /\ \A s \in DOMAIN TempLedger : TempLedger'[s] = TempLedger[s]
    BY <1>0, <1>2 DEF Create, Moves, PricesAgree, With
  <2>2. \A s \in Names : (IF s \in DOMAIN TempLedger' THEN Contents(TempLedger'[s]) ELSE <<>>)
                           = (IF s \in DOMAIN TempLedger THEN Contents(TempLedger[s]) ELSE <<>>)
    BY <2>1, NewStore
  <2> QED
    BY <2>2 DEF LogOf
<1>3. CASE AppendTrade /\ sym \in DOMAIN TempLedger
  <2>1. PICK s \in Names, p \in Prices : s = sym /\ p = price
    BY <1>0, <1>3 DEF AppendTrade, Uses, PricesAgree, Recording
  <2>2. /\ DOMAIN TempLedger' = DOMAIN TempLedger
        /\ TempLedger'[s] = Appended(TempLedger[s], p)
        /\ \A t \in DOMAIN TempLedger : t # s => TempLedger'[t] = TempLedger[t]
    BY <1>0, <1>3, <2>1 DEF AppendTrade, Uses, EngineTypes
  <2>3. Contents(TempLedger'[s]) = Append(Contents(TempLedger[s]), p)
    BY <1>0, <1>3, <2>1, <2>2, AppendedStore DEF Shapes
  <2>4. LogOf' = [LogOf EXCEPT ![s] = Append(@, p)]
    <3>1. \A t \in Names : LogOf'[t] = IF t = s THEN Append(LogOf[s], p) ELSE LogOf[t]
      BY <1>3, <2>1, <2>2, <2>3 DEF LogOf
    <3> QED
      BY <3>1 DEF LogOf
  <2>5. Ledger!Trade(s, p)
    BY <2>4 DEF Ledger!Trade, LogOf
  <2> QED
    BY <2>5 DEF Ledger!Next
<1>4. CASE ClearTempLedgerData \/ Restart
  <2>1. DOMAIN TempLedger' = {}
    BY <1>4 DEF ClearTempLedgerData, Restart
  <2>2. Ledger!Empty
    BY <2>1 DEF Ledger!Empty
  <2> QED
    BY <2>2 DEF Ledger!Next
<1>5. UNCHANGED TempLedger \/ Create \/ (AppendTrade /\ sym \in DOMAIN TempLedger)
         \/ ClearTempLedgerData \/ Restart
  BY DEF Next, vars, CheckExists, Insert, ListingRest, UpdateSymbolStatus, Updates, AdminRest,
     SymbolNow, Engine, TakeOrder, Lookup, HasTrades, MostRecent, GetIPOPrice, BroadcastTrade,
     EndOfOrder, Record, AppendTrade, UpdateMarketStatus
<1> QED
  BY <1>1, <1>2, <1>3, <1>4, <1>5

(* The map of chunked stores is one list of prices for each symbol, to     *)
(* which trades are added one at a time, whatever the length of a chunk.   *)
THEOREM KeepsDayLedger == Spec => ImplementsDayLedger
<1>1. Init => Ledger!Init
  BY DEF Init, Ledger!Init
<1>2. IInv /\ [Next]_vars
         => [Ledger!Next]_([s \in Names |-> IF s \in DOMAIN TempLedger
                                            THEN Contents(TempLedger[s]) ELSE <<>>])
  BY LedgerStep DEF LogOf
<1> QED
  BY <1>1, <1>2, InvariantHolds, PTL DEF Spec, ImplementsDayLedger, Ledger!Spec

-----------------------------------------------------------------------------
(* What the methods that read a store return.  Each is a loop over the     *)
(* chunks, in the model a recursive function; what it is at each chunk is  *)
(* stated outright, and being a solution of the equation of the loop this  *)
(* is the loop, since two solutions agree from chunk to chunk.             *)

Below == {p \in Nat \X Nat : p[1] < p[2]}

\* A set of naturals that is not empty has a least element.
LEMMA LeastExists ==
    ASSUME NEW T \in SUBSET Nat, T # {}
    PROVE  \E x \in T : \A y \in T : x <= y
<1>0. IsWellFoundedOn(Below, Nat)
  <2>1. OpToRel(<, Nat) = Below
    BY DEF OpToRel, Below
  <2> QED BY <2>1, NatLessThanWellFounded
<1>1. PICK x \in T : \A y \in T : ~ (<<y, x>> \in Below)
  BY <1>0, WFMin
<1>2. \A y \in T : x <= y
  <2> TAKE y \in T
  <2>1. x \in Nat /\ y \in Nat
    OBVIOUS
  <2>2. ~(<<y, x>> \in Nat \X Nat /\ <<y, x>>[1] < <<y, x>>[2])
    BY <1>1 DEF Below
  <2> QED BY <2>1, <2>2
<1> QED BY <1>2

\* Induction along the chunks.
LEMMA Reaches ==
    ASSUME NEW n \in Nat, NEW S, 0 \in S, \A i \in 0 .. n - 1 : i \in S => i + 1 \in S
    PROVE  \A i \in 0 .. n : i \in S
<1> DEFINE W == {i \in Nat : i <= n /\ i \notin S}
<1>1. SUFFICES ASSUME W # {} PROVE FALSE
  OBVIOUS
<1>2. PICK i \in W : \A j \in W : i <= j
  <2>1. W \in SUBSET Nat
    OBVIOUS
  <2> HIDE DEF W
  <2> QED BY <1>1, <2>1, LeastExists
<1>3. i \in Nat /\ i <= n /\ i \notin S /\ i # 0
  BY <1>2
<1>4. i - 1 \in 0 .. n - 1 /\ i - 1 < i
  BY <1>3
<1>5. i - 1 \in S
  BY <1>2, <1>3, <1>4
<1>6. (i - 1) + 1 \in S
  BY <1>4, <1>5
<1> QED BY <1>3, <1>6

\* From position a to position b, counted from 0 and without b.
Part(s, a, b) == SubSeq(s, a + 1, b)

LEMMA PartLength ==
    ASSUME NEW S, NEW s \in Seq(S), NEW a \in Nat, NEW b \in a .. Len(s)
    PROVE  /\ Part(s, a, b) \in Seq(S)
           /\ Len(Part(s, a, b)) = b - a
           /\ \A i \in 1 .. b - a : Part(s, a, b)[i] = s[a + i]
<1>1. /\ a + 1 \in Int /\ b \in Int /\ Len(s) \in Nat
      /\ \A i \in a + 1 .. b : s[i] \in S
  OBVIOUS
<1>2. /\ SubSeq(s, a + 1, b) \in Seq(S)
      /\ Len(SubSeq(s, a + 1, b)) = IF a + 1 <= b THEN b - (a + 1) + 1 ELSE 0
      /\ \A i \in 1 .. b - (a + 1) + 1 : SubSeq(s, a + 1, b)[i] = s[a + 1 + i - 1]
  BY <1>1, SubSeqProperties
<1> QED BY <1>2 DEF Part

LEMMA PartEmpty ==
    ASSUME NEW s, NEW a \in Int, NEW b \in Int, b <= a
    PROVE  Part(s, a, b) = <<>>
BY SubSeqEmpty, a + 1 \in Int, b < a + 1 DEF Part

LEMMA PartsJoined ==
    ASSUME NEW S, NEW s \in Seq(S), NEW a \in Nat, NEW b \in Nat, NEW c \in Nat,
           a <= b, b <= c, c <= Len(s)
    PROVE  Part(s, a, b) \o Part(s, b, c) = Part(s, a, c)
<1>1. /\ Len(s) \in Nat
      /\ a + 1 \in 1 .. Len(s) + 1 /\ b \in (a + 1) - 1 .. Len(s) /\ c \in b .. Len(s)
  OBVIOUS
<1> QED BY <1>1, ConcatAdjacentSubSeq DEF Part

LEMMA PartOfPart ==
    ASSUME NEW S, NEW s \in Seq(S), NEW a \in Nat, NEW b \in a .. Len(s),
           NEW x \in Nat, NEW y \in Int, y <= b - a
    PROVE  Part(Part(s, a, b), x, y) = Part(s, a + x, a + y)
<1>1. CASE y <= x
  BY <1>1, PartEmpty
<1>2. CASE x < y
  <2> DEFINE t == Part(s, a, b)
  <2>1. t \in Seq(S) /\ Len(t) = b - a /\ \A i \in 1 .. b - a : t[i] = s[a + i]
    BY PartLength
  <2> HIDE DEF t
  <2>2. x \in Nat /\ y \in x .. Len(t) /\ a + x \in Nat /\ a + y \in a + x .. Len(s)
    BY <1>2, <2>1
  <2>3. /\ Part(t, x, y) \in Seq(S) /\ Len(Part(t, x, y)) = y - x
        /\ \A i \in 1 .. y - x : Part(t, x, y)[i] = t[x + i]
    BY <2>1, <2>2, PartLength
  <2>4. /\ Part(s, a + x, a + y) \in Seq(S) /\ Len(Part(s, a + x, a + y)) = (a + y) - (a + x)
        /\ \A i \in 1 .. (a + y) - (a + x) : Part(s, a + x, a + y)[i] = s[a + x + i]
    BY <2>2, PartLength
  <2>5. \A i \in 1 .. y - x : Part(t, x, y)[i] = Part(s, a + x, a + y)[i]
    BY <2>1, <2>3, <2>4
  <2>6. Len(Part(t, x, y)) = Len(Part(s, a + x, a + y))
    BY <2>3, <2>4
  <2>7. Part(t, x, y) = Part(s, a + x, a + y)
    BY <2>3, <2>4, <2>5, <2>6, SeqEqual
  <2> QED BY <2>7 DEF t
<1> QED BY <1>1, <1>2

LEMMA Reversed ==
    ASSUME NEW S, NEW s \in Seq(S)
    PROVE  /\ Reverse(s) \in Seq(S) /\ Len(Reverse(s)) = Len(s)
           /\ \A i \in 1 .. Len(s) : Reverse(s)[i] = s[(Len(s) - i) + 1]
<1>1. Len(s) \in Nat /\ \A i \in 1 .. Len(s) : (Len(s) - i) + 1 \in 1 .. Len(s)
  OBVIOUS
<1>2. \A i \in 1 .. Len(s) : s[(Len(s) - i) + 1] \in S
  BY <1>1
<1>3. Reverse(s) \in [1 .. Len(s) -> S]
  BY <1>2 DEF Reverse
<1> QED BY <1>1, <1>3 DEF Reverse

LEMMA ReversedJoined ==
    ASSUME NEW S, NEW s \in Seq(S), NEW t \in Seq(S)
    PROVE  Reverse(t) \o Reverse(s) = Reverse(s \o t)
<1> DEFINE w == s \o t
           u == Reverse(t)
           v == Reverse(s)
<1>1. /\ Len(s) \in Nat /\ Len(t) \in Nat
      /\ w \in Seq(S) /\ Len(w) = Len(s) + Len(t)
      /\ \A i \in 1 .. Len(s) + Len(t) : w[i] = IF i <= Len(s) THEN s[i] ELSE t[i - Len(s)]
  BY ConcatProperties
<1>2. /\ u \in Seq(S) /\ Len(u) = Len(t) /\ \A i \in 1 .. Len(t) : u[i] = t[(Len(t) - i) + 1]
      /\ v \in Seq(S) /\ Len(v) = Len(s) /\ \A i \in 1 .. Len(s) : v[i] = s[(Len(s) - i) + 1]
  BY Reversed
<1> DEFINE x == Reverse(w)
           y == u \o v
<1> HIDE DEF w, u, v
<1>3. /\ x \in Seq(S) /\ Len(x) = Len(w) /\ \A i \in 1 .. Len(w) : x[i] = w[(Len(w) - i) + 1]
  BY <1>1, Reversed
<1>4. /\ y \in Seq(S) /\ Len(y) = Len(u) + Len(v)
      /\ \A i \in 1 .. Len(u) + Len(v) : y[i] = IF i <= Len(u) THEN u[i] ELSE v[i - Len(u)]
  <2>1. u \in Seq(S) /\ v \in Seq(S)
    BY <1>2
  <2> QED BY <2>1, ConcatProperties
<1> HIDE DEF x, y
<1>5. Len(w) = Len(s) + Len(t) /\ Len(x) = Len(s) + Len(t) /\ Len(y) = Len(s) + Len(t)
  BY <1>1, <1>2, <1>3, <1>4
<1>6. ASSUME NEW i \in 1 .. Len(s) + Len(t) PROVE y[i] = x[i]
  <2>0. i \in Int /\ i \in 1 .. Len(w) /\ x[i] = w[(Len(w) - i) + 1]
    BY <1>1, <1>3, <1>5
  <2>1. CASE i <= Len(t)
    <3>0. i \in 1 .. Len(t) /\ i \in 1 .. Len(u) + Len(v) /\ i <= Len(u)
      BY <1>1, <1>2, <2>0, <2>1
    <3>1. y[i] = t[(Len(t) - i) + 1]
      BY <1>2, <1>4, <3>0
    <3> DEFINE j == (Len(w) - i) + 1
    <3>2. j \in 1 .. Len(s) + Len(t) /\ ~(j <= Len(s)) /\ j - Len(s) = (Len(t) - i) + 1
      BY <1>1, <2>0, <2>1
    <3>3. w[j] = t[j - Len(s)]
      BY <1>1, <3>2
    <3> QED BY <2>0, <3>1, <3>2, <3>3
  <2>2. CASE ~(i <= Len(t))
    <3>0. /\ i - Len(t) \in 1 .. Len(s) /\ i \in 1 .. Len(u) + Len(v)
          /\ ~(i <= Len(u)) /\ i - Len(u) = i - Len(t)
      BY <1>1, <1>2, <2>0, <2>2
    <3>1. y[i] = s[(Len(s) - (i - Len(t))) + 1]
      BY <1>2, <1>4, <3>0
    <3> DEFINE j == (Len(w) - i) + 1
    <3>2. j \in 1 .. Len(s) + Len(t) /\ j <= Len(s) /\ j = (Len(s) - (i - Len(t))) + 1
      BY <1>1, <2>0, <2>2
    <3>3. w[j] = s[j]
      BY <1>1, <3>2
    <3> QED BY <2>0, <3>1, <3>2, <3>3
  <2> QED BY <2>1, <2>2
<1>7. y = x
  BY <1>1, <1>3, <1>4, <1>5, <1>6, SeqEqual
<1> QED BY <1>7 DEF w, u, v, x, y

-----------------------------------------------------------------------------
\* b[i] items are in front of chunk i of the list, all of the store's items.
Cut(cs, list, b) ==
    /\ list \in Seq(Prices) /\ cs.totalSize \in Nat /\ Len(list) = cs.totalSize
    /\ Len(cs.chunks) \in Nat
    /\ b \in [1 .. Len(cs.chunks) + 1 -> 0 .. cs.totalSize]
    /\ b[1] = 0 /\ b[Len(cs.chunks) + 1] = cs.totalSize
    /\ \A i \in 1 .. Len(cs.chunks) :
          /\ b[i] < b[i + 1]
          /\ Len(cs.chunks[i]) = b[i + 1] - b[i]
          /\ cs.chunks[i] = Part(list, b[i], b[i + 1])

LEMMA CutOfStore ==
    ASSUME NEW cs, Shape(cs)
    PROVE  \E b : Cut(cs, Contents(cs), b)
<1> DEFINE m == Len(cs.chunks)
           n == cs.totalSize
           list == Contents(cs)
           b == [i \in 1 .. m + 1 |-> IF i = m + 1 THEN n ELSE k * (i - 1)]
<1>1. /\ m \in Nat /\ n \in Nat /\ list \in Seq(Prices) /\ Len(list) = n
      /\ \A i \in 1 .. n : list[i] = cs.chunks[((i - 1) \div k) + 1][((i - 1) % k) + 1]
      /\ \A i \in 1 .. m : /\ cs.chunks[i] \in Seq(Prices)
                           /\ Len(cs.chunks[i]) \in 1 .. k
                           /\ i < m => Len(cs.chunks[i]) = k
      /\ n = IF m = 0 THEN 0 ELSE k * (m - 1) + Len(cs.chunks[m])
  BY Parts, ContentsTyped DEF Shape
<1> HIDE DEF m, n, list
<1>2. ASSUME NEW i \in 1 .. m
      PROVE  /\ k * (i - 1) \in Nat /\ k * (i - 1) + Len(cs.chunks[i]) <= n
             /\ i = m => k * (i - 1) + Len(cs.chunks[i]) = n
             /\ i # m => k * (i - 1) + Len(cs.chunks[i]) = k * i
  <2>9. m \in Nat /\ i \in 1 .. m
    BY <1>1
  <2>8. m - 1 \in Nat /\ i - 1 \in Nat /\ i \in Nat
    BY <2>9
  <2>0. k * (i - 1) \in Nat /\ k * (m - 1) \in Nat /\ m - 1 \in Nat /\ i - 1 \in Nat /\ i \in Nat
    BY <2>8, Multiples
  <2>1. CASE i = m
    BY <1>1, <2>0, <2>1
  <2>2. CASE i # m
    <3>1. i < m /\ Len(cs.chunks[i]) = k /\ i - 1 < m - 1
      BY <1>1, <2>2
    <3>2. k * (i - 1) + k <= k * (m - 1)
      BY <2>0, <3>1, Ordered
    <3>3. k * (i - 1) + k = k * i
      BY <2>0, LengthOfChunks
    <3>4. k * (m - 1) <= n
      <4>1. m # 0 /\ m \in 1 .. m
        BY <2>9
      <4>2. n = k * (m - 1) + Len(cs.chunks[m]) /\ Len(cs.chunks[m]) \in 1 .. k /\ k \in Nat
        BY <1>1, <4>1, LengthOfChunks
      <4> QED BY <2>0, <4>2
    <3>5. n \in Nat /\ k \in Nat
      BY <1>1, LengthOfChunks
    <3> QED BY <2>0, <2>2, <3>1, <3>2, <3>3, <3>4, <3>5
  <2> QED BY <2>1, <2>2
<1>3. b \in [1 .. m + 1 -> 0 .. n]
  <2>1. ASSUME NEW i \in 1 .. m + 1 PROVE b[i] \in 0 .. n
    <3>1. CASE i = m + 1
      BY <1>1, <3>1
    <3>2. CASE i # m + 1
      <4>1. i \in 1 .. m /\ b[i] = k * (i - 1) /\ Len(cs.chunks[i]) \in Nat
        BY <1>1, <3>2
      <4> QED BY <1>1, <1>2, <4>1
    <3> QED BY <3>1, <3>2
  <2> QED BY <2>1
<1>4. b[1] = 0 /\ b[m + 1] = n
  <2>1. k * (1 - 1) = 0
    BY LengthOfChunks
  <2> QED BY <1>1, <2>1
<1>5. ASSUME NEW i \in 1 .. m
      PROVE  /\ b[i] < b[i + 1]
             /\ Len(cs.chunks[i]) = b[i + 1] - b[i]
             /\ cs.chunks[i] = Part(list, b[i], b[i + 1])
  <2>1. /\ b[i] = k * (i - 1) /\ k * (i - 1) \in Nat /\ Len(cs.chunks[i]) \in 1 .. k
        /\ b[i + 1] = IF i = m THEN n ELSE k * ((i + 1) - 1)
    BY <1>1, <1>2
  <2>2. (i + 1) - 1 = i
    BY <1>1
  <2>3. b[i + 1] = b[i] + Len(cs.chunks[i])
    BY <1>2, <2>1, <2>2
  <2> DEFINE a == b[i]
             c == b[i + 1]
  <2>4. a \in Nat /\ c \in a .. Len(list) /\ c - a = Len(cs.chunks[i]) /\ a = k * (i - 1)
    <3>1. a = k * (i - 1) /\ c = k * (i - 1) + Len(cs.chunks[i])
      BY <2>1, <2>3
    <3>2. /\ k * (i - 1) \in Nat /\ Len(cs.chunks[i]) \in Nat /\ Len(list) \in Nat
          /\ k * (i - 1) + Len(cs.chunks[i]) <= Len(list)
      <4>1. k * (i - 1) \in Nat /\ k * (i - 1) + Len(cs.chunks[i]) <= n
        BY <1>2
      <4>2. Len(list) = n /\ n \in Nat
        BY <1>1
      <4>3. Len(cs.chunks[i]) \in Nat
        BY <2>1, LengthOfChunks
      <4> QED BY <4>1, <4>2, <4>3
    <3> HIDE DEF a, c
    <3> QED BY <3>1, <3>2
  <2> HIDE DEF a, c, b
  <2>5. /\ Part(list, a, c) \in Seq(Prices) /\ Len(Part(list, a, c)) = c - a
        /\ \A j \in 1 .. c - a : Part(list, a, c)[j] = list[a + j]
    <3>1. list \in Seq(Prices)
      BY <1>1
    <3> QED BY <3>1, <2>4, PartLength
  <2>6. ASSUME NEW j \in 1 .. Len(cs.chunks[i]) PROVE cs.chunks[i][j] = Part(list, a, c)[j]
    <3>0. k \in Nat /\ n = Len(list) /\ n \in Nat /\ j \in Nat /\ 1 <= j /\ j <= k /\ j <= c - a /\ c \in Nat
      <4>1. n = Len(list) /\ n \in Nat
        BY <1>1
      <4>2. k \in Nat /\ Len(cs.chunks[i]) \in 1 .. k
        BY <2>1, LengthOfChunks
      <4>3. j \in Nat /\ 1 <= j /\ j <= k /\ j <= Len(cs.chunks[i])
        BY <4>2
      <4>4. c \in Nat /\ c - a = Len(cs.chunks[i])
        <5>1. a \in Nat /\ c \in a .. Len(list) /\ Len(list) \in Nat /\ c - a = Len(cs.chunks[i])
          BY <2>4, <4>1
        <5> QED BY <5>1
      <4> QED BY <4>1, <4>2, <4>3, <4>4
    <3>1. j - 1 \in 0 .. k - 1 /\ i - 1 \in Nat /\ a + j \in 1 .. n /\ (a + j) - 1 = k * (i - 1) + (j - 1)
      <4>1. i - 1 \in Nat
        BY <1>1
      <4>2. j - 1 \in 0 .. k - 1 /\ a + j \in 1 .. n /\ (a + j) - 1 = a + (j - 1)
        <5>1. a \in Nat /\ c \in a .. n
          BY <2>4, <3>0
        <5> QED BY <3>0, <5>1
      <4> QED BY <2>4, <4>1, <4>2
    <3>2. ((a + j) - 1) \div k = i - 1 /\ ((a + j) - 1) % k = j - 1
      BY <3>1, Divided
    <3>3. list[a + j] = cs.chunks[(i - 1) + 1][(j - 1) + 1]
      BY <1>1, <3>1, <3>2
    <3>4. (i - 1) + 1 = i /\ (j - 1) + 1 = j
      BY <1>1, <2>1
    <3> QED BY <2>4, <2>5, <3>3, <3>4
  <2>7. cs.chunks[i] = Part(list, a, c)
    <3>1. cs.chunks[i] \in Seq(Prices) /\ Len(cs.chunks[i]) = Len(Part(list, a, c))
      BY <1>1, <2>4, <2>5
    <3> QED BY <2>5, <2>6, <3>1, SeqEqual
  <2> QED BY <2>1, <2>4, <2>7 DEF a, c
<1>6. \A i \in 1 .. m :
         /\ b[i] < b[i + 1]
         /\ Len(cs.chunks[i]) = b[i + 1] - b[i]
         /\ cs.chunks[i] = Part(list, b[i], b[i + 1])
  BY <1>5
<1> HIDE DEF b
<1>7. Cut(cs, list, b)
  BY <1>1, <1>3, <1>4, <1>6 DEF Cut, m, n
<1> QED BY <1>7 DEF list

LEMMA CutAt ==
    ASSUME NEW cs, NEW list, NEW b, Cut(cs, list, b), NEW i \in 1 .. Len(cs.chunks)
    PROVE  /\ b[i] \in Nat /\ b[i + 1] \in Nat /\ b[i] < b[i + 1] /\ b[i + 1] <= Len(list)
           /\ Len(cs.chunks[i]) = b[i + 1] - b[i]
           /\ cs.chunks[i] = Part(list, b[i], b[i + 1])
<1>1. i \in 1 .. Len(cs.chunks) + 1 /\ i + 1 \in 1 .. Len(cs.chunks) + 1
  BY DEF Cut
<1>2. b[i] \in 0 .. cs.totalSize /\ b[i + 1] \in 0 .. cs.totalSize
  BY <1>1 DEF Cut
<1>3. cs.totalSize \in Nat /\ Len(list) = cs.totalSize
  BY DEF Cut
<1>4. b[i] \in Nat /\ b[i + 1] \in Nat /\ b[i + 1] <= Len(list)
  BY <1>2, <1>3
<1>5. /\ b[i] < b[i + 1]
      /\ Len(cs.chunks[i]) = b[i + 1] - b[i]
      /\ cs.chunks[i] = Part(list, b[i], b[i + 1])
  BY DEF Cut
<1> QED BY <1>4, <1>5

LEMMA MostRecentRead ==
    ASSUME NEW cs, NEW list, NEW b, Cut(cs, list, b), cs.totalSize > 0
    PROVE  GetMostRecent(cs) = Last(list)
<1> DEFINE m == Len(cs.chunks)
<1>1. m \in Nat /\ m # 0 /\ m \in 1 .. m
  BY DEF Cut
<1>2. /\ b[m] \in Nat /\ b[m + 1] \in b[m] .. Len(list) /\ b[m] < b[m + 1]
      /\ Len(cs.chunks[m]) = b[m + 1] - b[m] /\ cs.chunks[m] = Part(list, b[m], b[m + 1])
      /\ list \in Seq(Prices) /\ b[m + 1] = Len(list)
  <2>1. list \in Seq(Prices) /\ b[m + 1] = Len(list) /\ Len(list) \in Nat
    BY DEF Cut
  <2>2. /\ b[m] \in Nat /\ b[m + 1] \in Nat /\ b[m] < b[m + 1] /\ b[m + 1] <= Len(list)
        /\ Len(cs.chunks[m]) = b[m + 1] - b[m] /\ cs.chunks[m] = Part(list, b[m], b[m + 1])
    BY <1>1, CutAt
  <2> QED BY <2>1, <2>2
<1>3. \A i \in 1 .. b[m + 1] - b[m] : Part(list, b[m], b[m + 1])[i] = list[b[m] + i]
  BY <1>2, PartLength
<1>4. Part(list, b[m], b[m + 1])[b[m + 1] - b[m]] = list[b[m] + (b[m + 1] - b[m])]
  <2>1. b[m + 1] - b[m] \in 1 .. b[m + 1] - b[m]
    BY <1>2
  <2> QED BY <1>3, <2>1
<1>5. b[m] + (b[m + 1] - b[m]) = Len(list)
  BY <1>2
<1> QED BY <1>2, <1>4, <1>5 DEF GetMostRecent, Last

-----------------------------------------------------------------------------
\* getAllData joins the chunks; the loop is the library's FlattenSeq.
FlatBody(chunks, h) ==
    [i \in 1 .. Len(chunks) |-> IF i = 1 THEN chunks[i] ELSE h[i - 1] \o chunks[i]]
FlatSolves(chunks, h) == h = FlatBody(chunks, h)
FlatLoop(chunks) == CHOOSE h : FlatSolves(chunks, h)

LEMMA FlatIsLoop ==
    ASSUME NEW cs
    PROVE  getAllData(cs) = IF Len(cs.chunks) = 0 THEN cs.chunks
                            ELSE FlatLoop(cs.chunks)[Len(cs.chunks)]
BY DEF getAllData, FlattenSeq, FlatLoop, FlatSolves, FlatBody

LEMMA FlatAt ==
    ASSUME NEW chunks, NEW h, FlatSolves(chunks, h), NEW i \in 1 .. Len(chunks)
    PROVE  h[i] = IF i = 1 THEN chunks[i] ELSE h[i - 1] \o chunks[i]
BY DEF FlatSolves, FlatBody

LEMMA AllDataRead ==
    ASSUME NEW cs, Shape(cs), NEW list, NEW b, Cut(cs, list, b)
    PROVE  getAllData(cs) = list
<1> DEFINE m == Len(cs.chunks)
           g == [i \in 1 .. m |-> Part(list, 0, b[i + 1])]
<1>1. /\ m \in Nat /\ list \in Seq(Prices) /\ Len(list) = cs.totalSize /\ Len(list) \in Nat
      /\ b[1] = 0 /\ b[m + 1] = Len(list) /\ DOMAIN cs.chunks = 1 .. m
      /\ cs.chunks \in Seq(Seq(Prices))
  BY Parts DEF Cut
<1>2. ASSUME NEW i \in 1 .. m
      PROVE  /\ b[i] \in Nat /\ b[i + 1] \in Nat /\ b[i] < b[i + 1] /\ b[i + 1] <= Len(list)
             /\ cs.chunks[i] = Part(list, b[i], b[i + 1])
  BY CutAt
<1>3. FlatSolves(cs.chunks, g)
  <2>1. ASSUME NEW i \in 1 .. m
        PROVE  g[i] = IF i = 1 THEN cs.chunks[i] ELSE g[i - 1] \o cs.chunks[i]
    <3>1. CASE i = 1
      BY <1>1, <1>2, <3>1
    <3>2. CASE i # 1
      <4>1. i - 1 \in 1 .. m /\ (i - 1) + 1 = i
        BY <1>1, <3>2
      <4>2. g[i - 1] = Part(list, 0, b[i])
        BY <4>1
      <4>3. Part(list, 0, b[i]) \o Part(list, b[i], b[i + 1]) = Part(list, 0, b[i + 1])
        <5>1. /\ 0 \in Nat /\ b[i] \in Nat /\ b[i + 1] \in Nat /\ 0 <= b[i]
              /\ b[i] <= b[i + 1] /\ b[i + 1] <= Len(list)
          BY <1>2
        <5> QED BY <1>1, <5>1, PartsJoined
      <4> QED BY <1>2, <3>2, <4>2, <4>3
    <3> QED BY <3>1, <3>2
  <2> QED BY <2>1 DEF FlatSolves, FlatBody
<1> DEFINE h == FlatLoop(cs.chunks)
<1>4. FlatSolves(cs.chunks, h)
  BY <1>3 DEF FlatLoop
<1> HIDE DEF h
<1> DEFINE S == {i \in Nat : i = 0 \/ h[i] = Part(list, 0, b[i + 1])}
<1>5. \A i \in 0 .. m : i \in S
  <2>1. ASSUME NEW i \in 0 .. m - 1, i \in S PROVE i + 1 \in S
    <3>1. i + 1 \in 1 .. m /\ i + 1 \in Nat /\ (i + 1) - 1 = i
      BY <1>1
    <3>2. h[i + 1] = IF i + 1 = 1 THEN cs.chunks[i + 1] ELSE h[i] \o cs.chunks[i + 1]
      BY <1>4, <3>1, FlatAt
    <3>3. CASE i = 0
      <4>1. h[1] = cs.chunks[1] /\ 1 \in 1 .. m
        BY <3>1, <3>2, <3>3
      <4>2. cs.chunks[1] = Part(list, 0, b[1 + 1])
        BY <1>1, <1>2, <4>1
      <4> QED BY <3>3, <4>1, <4>2
    <3>4. CASE i # 0
      <4>1. i \in 1 .. m /\ h[i] = Part(list, 0, b[i + 1])
        BY <1>1, <2>1, <3>4
      <4>2. h[i + 1] = Part(list, 0, b[i + 1]) \o Part(list, b[i + 1], b[(i + 1) + 1])
        <5>1. cs.chunks[i + 1] = Part(list, b[i + 1], b[(i + 1) + 1]) /\ i + 1 # 1
          BY <1>2, <3>1, <3>4
        <5>2. h[i + 1] = h[i] \o cs.chunks[i + 1]
          BY <3>2, <5>1
        <5> QED BY <4>1, <5>1, <5>2
      <4>3. /\ b[i + 1] \in Nat /\ b[(i + 1) + 1] \in Nat
            /\ b[i + 1] <= b[(i + 1) + 1] /\ b[(i + 1) + 1] <= Len(list)
        BY <1>2, <3>1
      <4>4. h[i + 1] = Part(list, 0, b[(i + 1) + 1])
        BY <1>1, <4>2, <4>3, PartsJoined, 0 \in Nat, 0 <= b[i + 1]
      <4> QED BY <3>1, <4>4
    <3> QED BY <3>3, <3>4
  <2>2. 0 \in S
    OBVIOUS
  <2> HIDE DEF S
  <2> QED BY <1>1, <2>1, <2>2, Reaches
<1>6. CASE m = 0
  <2>1. cs.chunks = <<>> /\ list = <<>>
    BY <1>1, <1>6, EmptySeq
  <2> QED BY <1>6, <2>1, FlatIsLoop
<1>7. CASE m # 0
  <2>1. m \in S /\ Part(list, 0, Len(list)) = list
    BY <1>1, <1>5, SubSeqFull DEF Part
  <2>2. h[m] = list
    BY <1>1, <1>7, <2>1
  <2> QED BY <1>7, <2>2, FlatIsLoop DEF h
<1> QED BY <1>6, <1>7

-----------------------------------------------------------------------------
\* The loop of GetLatest: what it adds from chunk i on, for what remains.
LatestRow(cs, count, i, below) ==
    [remaining \in 0 .. count |->
        IF i = 0 \/ remaining = 0 THEN <<>>
        ELSE LET chunk == cs.chunks[i]
                 taken == Shorter(remaining, Len(chunk))
             IN Reverse(SubSeq(chunk, Len(chunk) - taken + 1, Len(chunk)))
                   \o below[remaining - taken]]
LatestBody(cs, count, h) == [i \in 0 .. Len(cs.chunks) |-> LatestRow(cs, count, i, h[i - 1])]
LatestSolves(cs, count, h) == h = LatestBody(cs, count, h)
LatestLoop(cs, count) == CHOOSE h : LatestSolves(cs, count, h)

LEMMA LatestIsLoop ==
    ASSUME NEW cs, NEW count
    PROVE  GetLatest(cs, count) = IF count >= cs.totalSize THEN getAllData(cs)
                                  ELSE LatestLoop(cs, count)[Len(cs.chunks)][count]
BY DEF GetLatest, LatestLoop, LatestSolves, LatestBody, LatestRow

LEMMA LatestAt ==
    ASSUME NEW cs, NEW count, NEW h, LatestSolves(cs, count, h), NEW i \in 0 .. Len(cs.chunks)
    PROVE  h[i] = LatestRow(cs, count, i, h[i - 1])
BY DEF LatestSolves, LatestBody

\* The last r items of the first i chunks, backwards.
Newest(list, b, i, r) ==
    Reverse(Part(list, b[i + 1] - Shorter(r, b[i + 1]), b[i + 1]))

\* The row of chunk i is that.
Backwards(list, b, count, i, row) == \A r \in 0 .. count : row[r] = Newest(list, b, i, r)

LEMMA NothingReversed == Reverse(<<>>) = <<>>
<1>1. <<>> \in Seq({}) /\ Len(<<>>) = 0
  OBVIOUS
<1>2. Reverse(<<>>) \in Seq({}) /\ Len(Reverse(<<>>)) = 0
  BY <1>1, Reversed
<1> QED BY <1>2, EmptySeq

LEMMA LatestStep ==
    ASSUME NEW cs, NEW list, NEW b, Cut(cs, list, b), NEW count \in Nat,
           NEW i \in 0 .. Len(cs.chunks), NEW below,
           i # 0 => Backwards(list, b, count, i - 1, below)
    PROVE  Backwards(list, b, count, i, LatestRow(cs, count, i, below))
<1> SUFFICES ASSUME NEW r \in 0 .. count
             PROVE  LatestRow(cs, count, i, below)[r] = Newest(list, b, i, r)
  BY DEF Backwards
<1>0. list \in Seq(Prices) /\ Len(list) \in Nat /\ i \in Nat /\ r \in Nat /\ b[1] = 0
  BY DEF Cut
<1>1. CASE i = 0
  <2>1. LatestRow(cs, count, i, below)[r] = <<>>
    BY <1>1 DEF LatestRow
  <2>2. b[i + 1] = 0 /\ b[i + 1] - Shorter(r, b[i + 1]) = 0
    BY <1>0, <1>1 DEF Shorter
  <2>3. Part(list, 0, 0) = <<>>
    BY PartEmpty
  <2> QED BY <2>1, <2>2, <2>3, NothingReversed DEF Newest
<1>2. CASE i # 0
  <2> DEFINE a == b[i]
             c == b[i + 1]
             taken == Shorter(r, c - a)
  <2>1. /\ i \in 1 .. Len(cs.chunks) /\ (i - 1) + 1 = i
        /\ a \in Nat /\ c \in Nat /\ a < c /\ c <= Len(list)
        /\ Len(cs.chunks[i]) = c - a /\ cs.chunks[i] = Part(list, a, c)
    <3>1. i \in 1 .. Len(cs.chunks) /\ (i - 1) + 1 = i
      BY <1>0, <1>2
    <3> QED BY <3>1, CutAt
  <2> HIDE DEF a, c
  <2>2. CASE r = 0
    <3>1. LatestRow(cs, count, i, below)[r] = <<>>
      BY <2>2 DEF LatestRow
    <3>2. c - Shorter(r, c) = c
      BY <2>1, <2>2 DEF Shorter
    <3>3. Part(list, c, c) = <<>>
      BY <2>1, PartEmpty
    <3> QED BY <3>1, <3>2, <3>3, NothingReversed DEF Newest, c
  <2>3. CASE r # 0
    <3>0. taken \in Nat /\ taken <= c - a /\ taken <= r
      BY <1>0, <2>1 DEF Shorter
    <3>1. LatestRow(cs, count, i, below)[r] =
            Reverse(Part(Part(list, a, c), (c - a) - taken, c - a)) \o below[r - taken]
      BY <1>2, <2>1, <2>3 DEF LatestRow, Part
    <3>2. Part(Part(list, a, c), (c - a) - taken, c - a) = Part(list, c - taken, c)
      <4> DEFINE x == (c - a) - taken
                 y == c - a
      <4>1. x \in Nat /\ y \in Int /\ y <= c - a /\ a + x = c - taken /\ a + y = c
        BY <2>1, <3>0
      <4>2. c \in a .. Len(list)
        BY <1>0, <2>1
      <4> HIDE DEF x, y, taken
      <4>3. Part(Part(list, a, c), x, y) = Part(list, a + x, a + y)
        BY <1>0, <2>1, <4>1, <4>2, PartOfPart
      <4> QED BY <4>1, <4>3 DEF x, y
    <3>3. r - taken \in 0 .. count
      BY <1>0, <3>0
    <3>4. below[r - taken] = Reverse(Part(list, a - Shorter(r - taken, a), a))
      BY <1>2, <2>1, <3>3 DEF Backwards, Newest, a
    <3>5. CASE r <= c - a
      <4>1. taken = r /\ r - taken = 0 /\ a - Shorter(r - taken, a) = a /\ Shorter(r, c) = r
        BY <1>0, <2>1, <3>5 DEF Shorter
      <4>2. Part(list, a, a) = <<>>
        BY <2>1, PartEmpty
      <4>3. below[r - taken] = <<>>
        BY <3>4, <4>1, <4>2, NothingReversed
      <4>4. Reverse(Part(list, c - r, c)) \in Seq(Prices)
        <5>1. c - r \in Nat /\ c \in c - r .. Len(list)
          BY <1>0, <2>1, <3>5
        <5>2. Part(list, c - r, c) \in Seq(Prices)
          BY <1>0, <5>1, PartLength
        <5> QED BY <5>2, Reversed
      <4>5. Reverse(Part(list, c - r, c)) \o <<>> = Reverse(Part(list, c - r, c))
        BY <4>4, ConcatEmptySeq
      <4> HIDE DEF taken
      <4> QED BY <3>1, <3>2, <4>1, <4>3, <4>5 DEF Newest, c
    <3>6. CASE ~(r <= c - a)
      <4> DEFINE e == c - Shorter(r, c)
      <4>1. /\ taken = c - a /\ c - taken = a
            /\ a - Shorter(r - taken, a) = e
            /\ e \in Nat /\ e <= a
        BY <1>0, <2>1, <3>6 DEF Shorter
      <4>2. a \in e .. Len(list) /\ c \in a .. Len(list)
        <5> HIDE DEF e, taken
        <5> QED BY <1>0, <2>1, <4>1
      <4> HIDE DEF e, taken
      <4>3. Part(list, e, a) \in Seq(Prices) /\ Part(list, a, c) \in Seq(Prices)
        BY <1>0, <2>1, <4>1, <4>2, PartLength
      <4>4. Part(list, e, a) \o Part(list, a, c) = Part(list, e, c)
        <5>1. /\ list \in Seq(Prices) /\ e \in Nat /\ a \in Nat /\ c \in Nat
              /\ e <= a /\ a <= c /\ c <= Len(list)
          BY <1>0, <2>1, <4>1
        <5> QED BY <5>1, PartsJoined
      <4>5. Reverse(Part(list, a, c)) \o Reverse(Part(list, e, a)) = Reverse(Part(list, e, c))
        BY <4>3, <4>4, ReversedJoined
      <4>6. LatestRow(cs, count, i, below)[r] = Reverse(Part(list, e, c))
        BY <3>1, <3>2, <3>4, <4>1, <4>5
      <4> QED BY <4>6 DEF Newest, e, c
    <3> QED BY <3>5, <3>6
  <2> QED BY <2>2, <2>3
<1> QED BY <1>1, <1>2

LEMMA LatestRead ==
    ASSUME NEW cs, Shape(cs), NEW list, NEW b, Cut(cs, list, b), NEW count \in Nat
    PROVE  GetLatest(cs, count) =
              IF count >= Len(list) THEN list
              ELSE Reverse(SubSeq(list, Len(list) - count + 1, Len(list)))
<1> DEFINE m == Len(cs.chunks)
           g == [i \in 0 .. m |-> [r \in 0 .. count |-> Newest(list, b, i, r)]]
<1>0. /\ m \in Nat /\ list \in Seq(Prices) /\ Len(list) \in Nat
      /\ cs.totalSize = Len(list) /\ b[m + 1] = Len(list)
  BY DEF Cut
<1>1. LatestSolves(cs, count, g)
  <2>1. ASSUME NEW i \in 0 .. m PROVE g[i] = LatestRow(cs, count, i, g[i - 1])
    <3>1. i # 0 => Backwards(list, b, count, i - 1, g[i - 1])
      <4>1. i # 0 => i - 1 \in 0 .. m
        BY <1>0
      <4> QED BY <4>1 DEF Backwards
    <3> DEFINE row == LatestRow(cs, count, i, g[i - 1])
    <3> HIDE DEF g
    <3>2. \A r \in 0 .. count : row[r] = Newest(list, b, i, r)
      <4>1. Backwards(list, b, count, i, row)
        BY <3>1, LatestStep
      <4> QED BY <4>1 DEF Backwards
    <3>3. row = [r \in 0 .. count |-> row[r]]
      BY DEF LatestRow
    <3>4. row = [r \in 0 .. count |-> Newest(list, b, i, r)]
      <4> HIDE DEF row
      <4> QED BY <3>2, <3>3
    <3> QED BY <3>4 DEF g
  <2> QED BY <2>1 DEF LatestSolves, LatestBody
<1> HIDE DEF g
<1> DEFINE h == LatestLoop(cs, count)
<1>2. LatestSolves(cs, count, h)
  BY <1>1 DEF LatestLoop
<1> HIDE DEF h
<1> DEFINE S == {i \in Nat : Backwards(list, b, count, i, h[i])}
<1>3. 0 \in S
  <2>1. 0 \in 0 .. m
    BY <1>0
  <2>2. Backwards(list, b, count, 0, LatestRow(cs, count, 0, h[0 - 1]))
    BY <2>1, LatestStep
  <2> QED BY <1>2, <2>1, <2>2, LatestAt
<1>4. ASSUME NEW i \in 0 .. m - 1, i \in S PROVE i + 1 \in S
  <2>1. i + 1 \in 0 .. m /\ i + 1 \in Nat /\ (i + 1) - 1 = i
    BY <1>0
  <2>2. Backwards(list, b, count, i + 1, LatestRow(cs, count, i + 1, h[(i + 1) - 1]))
    BY <1>4, <2>1, LatestStep
  <2> QED BY <1>2, <2>1, <2>2, LatestAt
<1>5. m \in S
  <2> HIDE DEF S
  <2>1. \A i \in 0 .. m : i \in S
    BY <1>0, <1>3, <1>4, Reaches
  <2> QED BY <1>0, <2>1
<1>6. h[m][count] = Reverse(Part(list, Len(list) - Shorter(count, Len(list)), Len(list)))
  BY <1>0, <1>5 DEF Backwards, Newest
<1>7. CASE count >= Len(list)
  BY <1>0, <1>7, LatestIsLoop, AllDataRead
<1>8. CASE ~(count >= Len(list))
  <2>1. Shorter(count, Len(list)) = count
    BY <1>0, <1>8 DEF Shorter
  <2> QED BY <1>0, <1>6, <1>8, <2>1, LatestIsLoop DEF h, Part
<1> QED BY <1>7, <1>8

-----------------------------------------------------------------------------
\* The loop of GetRange: what it adds from chunk i on, at any position.
RangeRow(cs, start, to, i, next) ==
    [currentPos \in Nat |->
        IF i > Len(cs.chunks) \/ currentPos >= to THEN <<>>
        ELSE LET chunk == cs.chunks[i]
                 from == IF start > currentPos THEN start - currentPos ELSE 0
                 past == Shorter(Len(chunk), to - currentPos)
             IN SubSeq(chunk, from + 1, past)
                   \o next[currentPos + Len(chunk)]]
RangeBody(cs, start, to, h) ==
    [i \in 1 .. Len(cs.chunks) + 1 |-> RangeRow(cs, start, to, i, h[i + 1])]
RangeSolves(cs, start, to, h) == h = RangeBody(cs, start, to, h)
RangeLoop(cs, start, to) == CHOOSE h : RangeSolves(cs, start, to, h)

LEMMA RangeIsLoop ==
    ASSUME NEW cs, NEW start, NEW end
    PROVE  GetRange(cs, start, end) =
              IF start < 0 \/ start >= cs.totalSize \/ end <= start THEN <<>>
              ELSE RangeLoop(cs, start, Shorter(end, cs.totalSize))[1][0]
BY DEF GetRange, RangeLoop, RangeSolves, RangeBody, RangeRow

LEMMA RangeAt ==
    ASSUME NEW cs, NEW start, NEW to, NEW h, RangeSolves(cs, start, to, h),
           NEW i \in 1 .. Len(cs.chunks) + 1
    PROVE  h[i] = RangeRow(cs, start, to, i, h[i + 1])
BY DEF RangeSolves, RangeBody

Skipped(start, pos) == IF start > pos THEN start - pos ELSE 0

\* The items between start and to of a list of which chunk i begins at pos.
Between(list, b, start, to, i, pos) ==
    Part(list, b[i] + Skipped(start, pos), b[i] + Shorter(Len(list) - b[i], to - pos))

Onwards(list, b, start, to, i, row) ==
    \A pos \in Nat : row[pos] = Between(list, b, start, to, i, pos)

LEMMA RangeStep ==
    ASSUME NEW cs, NEW list, NEW b, Cut(cs, list, b), NEW start \in Nat, NEW to \in Nat,
           NEW i \in 1 .. Len(cs.chunks) + 1, NEW next,
           i # Len(cs.chunks) + 1 => Onwards(list, b, start, to, i + 1, next)
    PROVE  Onwards(list, b, start, to, i, RangeRow(cs, start, to, i, next))
<1> SUFFICES ASSUME NEW pos \in Nat
             PROVE  RangeRow(cs, start, to, i, next)[pos] = Between(list, b, start, to, i, pos)
  BY DEF Onwards
<1> DEFINE m == Len(cs.chunks)
<1>0. /\ list \in Seq(Prices) /\ Len(list) \in Nat /\ m \in Nat /\ i \in Nat
      /\ b[m + 1] = Len(list) /\ b[i] \in 0 .. Len(list)
  <2>1. /\ list \in Seq(Prices) /\ Len(list) = cs.totalSize /\ cs.totalSize \in Nat
        /\ m \in Nat /\ b \in [1 .. m + 1 -> 0 .. cs.totalSize] /\ b[m + 1] = cs.totalSize
    BY DEF Cut
  <2>2. b[i] \in 0 .. Len(list) /\ i \in Nat
    BY <2>1
  <2> QED BY <2>1, <2>2
<1> DEFINE a == b[i]
           from == Skipped(start, pos)
<1>1. a \in Nat /\ a <= Len(list) /\ from \in Nat /\ to - pos \in Int
  BY <1>0 DEF Skipped
<1> HIDE DEF a, from
<1>2. CASE i = m + 1
  <2>1. RangeRow(cs, start, to, i, next)[pos] = <<>>
    BY <1>0, <1>2 DEF RangeRow
  <2>2. a = Len(list) /\ a + Shorter(Len(list) - a, to - pos) <= a
    BY <1>0, <1>1, <1>2 DEF Shorter, a
  <2>3. /\ a + from \in Int /\ a + Shorter(Len(list) - a, to - pos) \in Int
        /\ a + Shorter(Len(list) - a, to - pos) <= a + from
    BY <1>0, <1>1, <2>2 DEF Shorter
  <2>4. Part(list, a + from, a + Shorter(Len(list) - a, to - pos)) = <<>>
    BY <2>3, PartEmpty
  <2> QED BY <2>1, <2>4 DEF Between, a, from
<1>3. CASE pos >= to
  <2>1. RangeRow(cs, start, to, i, next)[pos] = <<>>
    BY <1>0, <1>3 DEF RangeRow
  <2>2. a + Shorter(Len(list) - a, to - pos) <= a
    BY <1>0, <1>1, <1>3 DEF Shorter
  <2>3. /\ a + from \in Int /\ a + Shorter(Len(list) - a, to - pos) \in Int
        /\ a + Shorter(Len(list) - a, to - pos) <= a + from
    BY <1>0, <1>1, <2>2 DEF Shorter
  <2>4. Part(list, a + from, a + Shorter(Len(list) - a, to - pos)) = <<>>
    BY <2>3, PartEmpty
  <2> QED BY <2>1, <2>4 DEF Between, a, from
<1>4. CASE i # m + 1 /\ pos < to
  <2> DEFINE c == b[i + 1]
             past == Shorter(c - a, to - pos)
             after == pos + (c - a)
  <2>1. /\ i \in 1 .. m /\ ~(i > m) /\ ~(pos >= to)
        /\ c \in Nat /\ a < c /\ c <= Len(list)
        /\ Len(cs.chunks[i]) = c - a /\ cs.chunks[i] = Part(list, a, c)
    <3>1. i \in 1 .. m /\ ~(i > m) /\ ~(pos >= to)
      BY <1>0, <1>4
    <3> QED BY <3>1, CutAt DEF a
  <2>2. RangeRow(cs, start, to, i, next)[pos] =
            Part(Part(list, a, c), from, past) \o next[after]
    BY <2>1 DEF RangeRow, Part, Skipped, from
  <2>3. past \in Nat /\ past <= c - a /\ after \in Nat /\ to - pos > 0
    BY <1>1, <1>4, <2>1 DEF Shorter
  <2>4. next[after] =
          Part(list, c + Skipped(start, after), c + Shorter(Len(list) - c, to - after))
    BY <1>4, <2>3 DEF Onwards, Between, c
  <2> HIDE DEF c, past, after
  <2>5. Part(Part(list, a, c), from, past) = Part(list, a + from, a + past)
    <3>1. c \in a .. Len(list) /\ past \in Int
      BY <1>0, <1>1, <2>1, <2>3
    <3> HIDE DEF from, past
    <3> QED BY <1>0, <1>1, <2>3, <3>1, PartOfPart
  <2>6. CASE to - pos <= c - a
    <3>1. /\ past = to - pos /\ Shorter(Len(list) - a, to - pos) = to - pos
          /\ Shorter(Len(list) - c, to - after) = to - after
          /\ to - after <= 0 /\ to - after \in Int
      <4>1. past = to - pos
        BY <1>1, <2>1, <2>6 DEF Shorter, past
      <4>2. to - pos <= Len(list) - a
        BY <1>0, <1>1, <2>1, <2>6
      <4>3. to - after = (to - pos) - (c - a)
        BY <1>1, <2>1 DEF after
      <4>4. to - after <= 0 /\ to - after \in Int /\ Len(list) - c \in Nat
        BY <1>0, <1>1, <2>1, <2>6, <4>3
      <4>5. Shorter(Len(list) - a, to - pos) = to - pos
        BY <1>0, <1>1, <4>2 DEF Shorter
      <4>6. Shorter(Len(list) - c, to - after) = to - after
        BY <4>4 DEF Shorter
      <4> QED BY <4>1, <4>4, <4>5, <4>6
    <3>2. Skipped(start, after) \in Nat
      BY <2>3 DEF Skipped
    <3>3. Part(list, c + Skipped(start, after), c + (to - after)) = <<>>
      <4>1. /\ c + Skipped(start, after) \in Int /\ c + (to - after) \in Int
            /\ c + (to - after) <= c + Skipped(start, after)
        BY <2>1, <3>1, <3>2
      <4> QED BY <4>1, PartEmpty
    <3>4. Part(list, a + from, a + past) \o <<>> = Part(list, a + from, a + past)
      <4>1. Part(list, a + from, a + past) \in Seq(Prices)
        <5>1. CASE a + past <= a + from
          <6>1. Part(list, a + from, a + past) = <<>>
            <7>1. a + from \in Int /\ a + past \in Int
              BY <1>1, <2>3
            <7> QED BY <5>1, <7>1, PartEmpty
          <6>2. <<>> \in Seq(Prices)
            BY EmptySeq
          <6> QED BY <6>1, <6>2
        <5>2. CASE ~(a + past <= a + from)
          <6>1. a + from \in Nat /\ a + past \in a + from .. Len(list)
            BY <1>0, <1>1, <2>1, <2>3, <5>2
          <6> QED BY <1>0, <6>1, PartLength
        <5> QED BY <5>1, <5>2
      <4> QED BY <4>1, ConcatEmptySeq
    <3> QED BY <2>2, <2>4, <2>5, <3>1, <3>3, <3>4 DEF Between, a, from
  <2>7. CASE ~(to - pos <= c - a)
    <3> DEFINE e == a + Shorter(Len(list) - a, to - pos)
    <3>1. /\ past = c - a /\ a + past = c
          /\ c + Shorter(Len(list) - c, to - after) = e
          /\ e \in Nat /\ c <= e /\ e <= Len(list)
      <4>1. past = c - a /\ a + past = c
        BY <1>1, <2>1, <2>7 DEF Shorter, past
      <4>2. to - after = (to - pos) - (c - a)
        BY <1>1, <2>1 DEF after
      <4>3. c + Shorter(Len(list) - c, to - after) = e
        BY <1>0, <1>1, <2>1, <4>2 DEF Shorter
      <4>4. e \in Nat /\ c <= e /\ e <= Len(list)
        BY <1>0, <1>1, <2>1, <2>7 DEF Shorter
      <4> QED BY <4>1, <4>3, <4>4
    <3> HIDE DEF e
    <3>2. Between(list, b, start, to, i, pos) = Part(list, a + from, e)
      BY DEF Between, a, from, e
    <3>3. CASE from >= c - a
      <4>1. Part(list, a + from, c) = <<>>
        BY <1>1, <2>1, <3>3, PartEmpty
      <4>2. c + Skipped(start, after) = a + from
        BY <1>1, <2>1, <2>3, <3>3 DEF Skipped, from, after
      <4>3. RangeRow(cs, start, to, i, next)[pos] = <<>> \o Part(list, a + from, e)
        BY <2>2, <2>4, <2>5, <3>1, <4>1, <4>2
      <4>4. Part(list, a + from, e) \in Seq(Prices)
        <5>1. CASE e <= a + from
          <6>1. Part(list, a + from, e) = <<>>
            <7>1. a + from \in Int /\ e \in Int
              BY <1>1, <3>1
            <7> QED BY <5>1, <7>1, PartEmpty
          <6>2. <<>> \in Seq(Prices)
            BY EmptySeq
          <6> QED BY <6>1, <6>2
        <5>2. CASE ~(e <= a + from)
          <6>1. a + from \in Nat /\ e \in a + from .. Len(list)
            BY <1>0, <1>1, <3>1, <5>2
          <6> QED BY <1>0, <6>1, PartLength
        <5> QED BY <5>1, <5>2
      <4>5. <<>> \o Part(list, a + from, e) = Part(list, a + from, e)
        BY <4>4, ConcatEmptySeq
      <4> QED BY <3>2, <4>3, <4>5
    <3>4. CASE ~(from >= c - a)
      <4>1. Skipped(start, after) = 0 /\ c + Skipped(start, after) = c
        BY <1>1, <2>1, <2>3, <3>4 DEF Skipped, from, after
      <4>2. Part(list, a + from, c) \o Part(list, c, e) = Part(list, a + from, e)
        <5> DEFINE p == a + from
        <5>1. /\ p \in Nat /\ c \in Nat /\ e \in Nat
              /\ p <= c /\ c <= e /\ e <= Len(list)
          BY <1>1, <2>1, <3>1, <3>4
        <5>2. list \in Seq(Prices)
          BY <1>0
        <5> HIDE DEF p
        <5>3. Part(list, p, c) \o Part(list, c, e) = Part(list, p, e)
          BY <5>1, <5>2, PartsJoined
        <5> QED BY <5>3 DEF p
      <4> QED BY <2>2, <2>4, <2>5, <3>1, <3>2, <4>1, <4>2
    <3> QED BY <3>3, <3>4
  <2> QED BY <2>6, <2>7
<1> QED BY <1>0, <1>2, <1>3, <1>4

LEMMA RangeRead ==
    ASSUME NEW cs, NEW list, NEW b, Cut(cs, list, b), NEW start \in Int, NEW end \in Int
    PROVE  GetRange(cs, start, end) =
              IF start \in 0 .. Len(list) - 1
              THEN SubSeq(list, start + 1, Shorter(end, Len(list))) ELSE <<>>
<1> DEFINE m == Len(cs.chunks)
           n == Len(list)
<1>0. /\ m \in Nat /\ list \in Seq(Prices) /\ n \in Nat
      /\ cs.totalSize = n /\ b[1] = 0 /\ b[m + 1] = n
  BY DEF Cut
<1>1. CASE ~(start \in 0 .. n - 1)
  BY <1>0, <1>1, RangeIsLoop
<1>2. CASE start \in 0 .. n - 1 /\ end <= start
  <2>1. GetRange(cs, start, end) = <<>>
    BY <1>0, <1>2, RangeIsLoop
  <2>2. /\ Shorter(end, n) \in Int /\ Shorter(end, n) < start + 1 /\ start + 1 \in Int
    BY <1>0, <1>2 DEF Shorter
  <2>3. SubSeq(list, start + 1, Shorter(end, n)) = <<>>
    BY <2>2, SubSeqEmpty
  <2> QED BY <1>2, <2>1, <2>3
<1>3. CASE start \in 0 .. n - 1 /\ ~(end <= start)
  <2> DEFINE to == Shorter(end, n)
  <2>0. to \in Nat /\ start \in Nat /\ to <= n
    BY <1>0, <1>3 DEF Shorter
  <2> HIDE DEF to
  <2> DEFINE g == [i \in 1 .. m + 1 |-> [pos \in Nat |-> Between(list, b, start, to, i, pos)]]
  <2>1. RangeSolves(cs, start, to, g)
    <3>1. ASSUME NEW i \in 1 .. m + 1 PROVE g[i] = RangeRow(cs, start, to, i, g[i + 1])
      <4>1. i # m + 1 => Onwards(list, b, start, to, i + 1, g[i + 1])
        <5>1. i # m + 1 => i + 1 \in 1 .. m + 1
          BY <1>0
        <5> QED BY <5>1 DEF Onwards
      <4> DEFINE row == RangeRow(cs, start, to, i, g[i + 1])
      <4> HIDE DEF g
      <4>2. \A pos \in Nat : row[pos] = Between(list, b, start, to, i, pos)
        <5>1. Onwards(list, b, start, to, i, row)
          BY <2>0, <4>1, RangeStep
        <5> QED BY <5>1 DEF Onwards
      <4>3. row = [pos \in Nat |-> row[pos]]
        BY DEF RangeRow
      <4>4. row = [pos \in Nat |-> Between(list, b, start, to, i, pos)]
        <5> HIDE DEF row
        <5> QED BY <4>2, <4>3
      <4> QED BY <4>4 DEF g
    <3> QED BY <3>1 DEF RangeSolves, RangeBody
  <2> HIDE DEF g
  <2> DEFINE h == RangeLoop(cs, start, to)
  <2>2. RangeSolves(cs, start, to, h)
    BY <2>1 DEF RangeLoop
  <2> HIDE DEF h
  \* The loop is followed from its end.
  <2> DEFINE S == {j \in Nat : Onwards(list, b, start, to, (m + 1) - j, h[(m + 1) - j])}
  <2>3. 0 \in S
    <3>1. m + 1 \in 1 .. m + 1 /\ (m + 1) - 0 = m + 1
      BY <1>0
    <3>2. Onwards(list, b, start, to, m + 1, RangeRow(cs, start, to, m + 1, h[(m + 1) + 1]))
      BY <2>0, <3>1, RangeStep
    <3> QED BY <2>2, <3>1, <3>2, RangeAt
  <2>4. ASSUME NEW j \in 0 .. m - 1, j \in S PROVE j + 1 \in S
    <3> DEFINE i == (m + 1) - (j + 1)
    <3>1. i \in 1 .. m + 1 /\ i + 1 = (m + 1) - j /\ j + 1 \in Nat
      BY <1>0
    <3>2. Onwards(list, b, start, to, i + 1, h[i + 1])
      BY <2>4, <3>1
    <3> HIDE DEF i
    <3>3. Onwards(list, b, start, to, i, RangeRow(cs, start, to, i, h[i + 1]))
      BY <2>0, <3>1, <3>2, RangeStep
    <3>4. Onwards(list, b, start, to, i, h[i])
      BY <2>2, <3>1, <3>3, RangeAt
    <3> QED BY <3>1, <3>4 DEF i
  <2>5. Onwards(list, b, start, to, 1, h[1])
    <3>1. m \in S
      <4> HIDE DEF S
      <4>1. \A j \in 0 .. m : j \in S
        BY <1>0, <2>3, <2>4, Reaches
      <4> QED BY <1>0, <4>1
    <3>2. (m + 1) - m = 1
      BY <1>0
    <3> QED BY <3>1, <3>2
  <2>6. h[1][0] = Part(list, 0 + Skipped(start, 0), 0 + Shorter(n - 0, to - 0))
    BY <1>0, <2>5 DEF Onwards, Between
  <2>7. 0 + Skipped(start, 0) = start /\ 0 + Shorter(n - 0, to - 0) = to
    BY <1>0, <2>0 DEF Skipped, Shorter
  <2>8. GetRange(cs, start, end) = h[1][0]
    BY <1>0, <1>3, RangeIsLoop DEF h, to
  <2> QED BY <1>3, <2>6, <2>7, <2>8 DEF Part, to
<1> QED BY <1>1, <1>2, <1>3

-----------------------------------------------------------------------------
(* What the methods read is what was put into the store: the route that    *)
(* answers with a ledger, and the engine that looks for the last price     *)
(* (ledger.go, processOrders.go), see each trade of the day once and in    *)
(* order, for any length of a chunk.                                       *)
THEOREM AlwaysReadsStore == Spec => []StoreReads
<1>1. IInv => StoreReads
  <2> SUFFICES ASSUME IInv, NEW s \in DOMAIN TempLedger
               PROVE  LET cs == TempLedger[s]
                          all == Contents(cs)
                          n == Size(cs)
                      IN /\ getAllData(cs) = all
                         /\ n > 0 => GetMostRecent(cs) = Last(all)
                         /\ \A count \in 0 .. n + 1 :
                               GetLatest(cs, count) =
                                  IF count >= n THEN all
                                  ELSE Reverse(SubSeq(all, n - count + 1, n))
                         /\ \A start, end \in -1 .. n + 1 :
                               GetRange(cs, start, end) =
                                  IF start \in 0 .. n - 1
                                  THEN SubSeq(all, start + 1, Shorter(end, n)) ELSE <<>>
    BY DEF StoreReads
  <2> DEFINE cs == TempLedger[s]
             all == Contents(cs)
             n == Size(cs)
  <2>1. Shape(cs)
    BY DEF IInv, EngineInv, Shapes
  <2> HIDE DEF cs
  <2>2. PICK b : Cut(cs, all, b)
    BY <2>1, CutOfStore
  <2>3. n = cs.totalSize /\ n \in Nat /\ Len(all) = n
    BY <2>2 DEF Size, Cut
  <2> HIDE DEF all, n
  <2>4. getAllData(cs) = all
    BY <2>1, <2>2, AllDataRead
  <2>5. n > 0 => GetMostRecent(cs) = Last(all)
    BY <2>2, <2>3, MostRecentRead
  <2>6. ASSUME NEW count \in 0 .. n + 1
        PROVE  GetLatest(cs, count) = IF count >= n THEN all
                                      ELSE Reverse(SubSeq(all, n - count + 1, n))
    <3>1. count \in Nat
      BY <2>3
    <3> QED BY <2>1, <2>2, <2>3, <3>1, LatestRead
  <2>7. ASSUME NEW start \in -1 .. n + 1, NEW end \in -1 .. n + 1
        PROVE  GetRange(cs, start, end) =
                  IF start \in 0 .. n - 1
                  THEN SubSeq(all, start + 1, Shorter(end, n)) ELSE <<>>
    <3>1. start \in Int /\ end \in Int
      BY <2>3
    <3> QED BY <2>2, <2>3, <3>1, RangeRead
  <2> QED BY <2>4, <2>5, <2>6, <2>7 DEF all, n, cs
<1> QED BY <1>1, InvariantHolds, PTL

=============================================================================
