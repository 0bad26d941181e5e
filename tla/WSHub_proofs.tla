----------------------------- MODULE WSHub_proofs -----------------------------
(***************************************************************************)
(* The hub for any number of users, connections and messages.              *)
(*                                                                         *)
(* Registry.  A connection that the hub can still reach has a handler that *)
(* is running.  A handler that leaves deletes itself from the inner map    *)
(* its user has now; the argument is that it cannot be left behind in      *)
(* another one that comes back: an inner map that was dropped is never     *)
(* stored again, because the only RegisterClient that could store it has   *)
(* done so already.                                                        *)
(*                                                                         *)
(* Streams.  While no user has two connections in one inner map, what was  *)
(* sent to a registered client has arrived, is in its buffer or its copy   *)
(* of the messages, or is on its way with a broadcaster that will get to   *)
(* it: whatever moves a message along leaves it in one of these places.    *)
(*                                                                         *)
(* Writers.  With one broadcaster and no DisconnectAll a connection has    *)
(* one writer: the broadcaster writes only where it found Syncing reset,   *)
(* and a handler that resets it has written its last message.              *)
(*                                                                         *)
(* Order.  With one broadcaster the message it sends is the newest there   *)
(* is, and what a client has, its copy and its buffer follow one another.  *)
(***************************************************************************)
EXTENDS WSHub, FiniteSetTheorems, SequenceTheorems, TLAPS

Types ==
    /\ clients \in [Users -> Conns \cup {None}]
    /\ members \in [Conns -> SUBSET Conns]
    /\ pc \in [Agents -> HandlerPC \cup SenderPC]
    /\ map \in [Agents -> Conns \cup {None}]

\* The inner map named after m has been created, or never will be.
Decided(m) == pc[m] \notin {"idle", "load"}

Running(c) == pc[c] \in {"since", "replay", "flush", "reading"}

Leaving(c) == pc[c] \in {"drop", "gone"}

MapsInUse ==
    \A u \in Users : clients[u] # None =>
        User[clients[u]] = u /\ Decided(clients[u])

MapsLoaded ==
    \A c \in Conns : map[c] # None =>
        User[map[c]] = User[c] /\ Decided(map[c])

MembersRun ==
    \A m \in Conns : \A c \in members[m] :
        /\ User[c] = User[m]
        /\ Decided(m)
        /\ Running(c) \/ (Leaving(c) /\ clients[User[m]] # m)

IInv == Types /\ MapsInUse /\ MapsLoaded /\ MembersRun

UsersTyped == users \in [Agents -> SUBSET Users]

LEMMA Agency ==
    /\ Conns \subseteq Agents /\ Broadcasters \subseteq Agents /\ Timer \in Agents
    /\ \A c \in Conns : c \notin Broadcasters /\ c # Timer /\ c # None /\ User[c] \in Users
BY ConstantsAssumption DEF Agents

LEMMA Initially == Init => IInv /\ UsersTyped
BY Agency DEF Init, IInv, Types, MapsInUse, MapsLoaded, MembersRun, HandlerPC, SenderPC, UsersTyped

-----------------------------------------------------------------------------
(* Nothing is registered, a handler goes on, a Range ends. *)
Harmless ==
    /\ Types'
    /\ \A u \in Users : clients'[u] \in {clients[u], None}
    /\ \A m \in Conns : members'[m] \subseteq members[m]
    /\ \A c \in Conns : /\ map'[c] \in {map[c], None}
                        /\ Decided(c) => Decided(c)'
                        /\ Running(c) => Running(c)'
                        /\ Leaving(c) => Leaving(c)'

(* Such a step keeps the invariant. *)
LEMMA HarmlessSteps ==
    ASSUME IInv, Harmless
    PROVE  IInv'
<1>1. MapsInUse'
  BY Agency DEF IInv, Types, Harmless, MapsInUse
<1>2. MapsLoaded'
  <2>1. \A c \in Conns : map[c] \in Conns \cup {None}
    BY Agency DEF IInv, Types
  <2> QED
    BY <2>1 DEF IInv, Harmless, MapsLoaded
<1>3. MembersRun'
  <2> SUFFICES ASSUME NEW m \in Conns, NEW c \in members'[m]
               PROVE  /\ User[c] = User[m]
                      /\ Decided(m)'
                      /\ Running(c)' \/ (Leaving(c)' /\ clients'[User[m]] # m)
    BY DEF MembersRun
  <2>1. c \in members[m] /\ c \in Conns
    BY DEF IInv, Types, Harmless
  <2>2. User[m] \in Users /\ m # None
    BY Agency
  <2> QED
    BY <2>1, <2>2 DEF IInv, Harmless, MembersRun
<1> QED
  BY <1>1, <1>2, <1>3 DEF Harmless, IInv

\* Where goroutines other than a handler are, and where handlers are that
\* neither register nor leave.
Moves(a, from, to) ==
    /\ UNCHANGED clients
    /\ members' \in [Conns -> SUBSET Conns]
    /\ \A m \in Conns : members'[m] \subseteq members[m]
    /\ \A x \in Agents \ {a} : map'[x] = map[x]
    /\ map' \in [Agents -> Conns \cup {None}]
    /\ a \in Conns => map'[a] \in {map[a], None}
    /\ pc[a] \in from
    /\ pc' = [pc EXCEPT ![a] = to]

(* A goroutine that is no handler. *)
LEMMA OthersMove ==
    ASSUME IInv, NEW a \in Agents, a \notin Conns, NEW from, NEW to \in SenderPC, Moves(a, from, to)
    PROVE  IInv'
<1>1. Types'
  BY DEF IInv, Types, Moves
<1>2. \A c \in Conns : pc'[c] = pc[c] /\ map'[c] = map[c]
  BY Agency DEF IInv, Types, Moves
<1>3. Harmless
  BY <1>1, <1>2, Agency DEF Harmless, Moves, Decided, Running, Leaving
<1> QED
  BY <1>3, HarmlessSteps

(* A handler on its way to its registration. *)
LEMMA HandlerMoves ==
    ASSUME IInv, NEW a \in Conns, NEW from, NEW to \in HandlerPC, Moves(a, from, to),
           \/ from \subseteq {"idle"} /\ to = "load"
           \/ from \subseteq {"evict", "forget"} /\ to \in {"evict", "forget", "store"}
           \/ from \subseteq {"since", "replay", "flush", "reading"} /\ to \in {"since", "replay", "flush", "reading"}
    PROVE  IInv'
<1>1. Types'
  BY Agency DEF IInv, Types, Moves
<1>2. \A c \in Conns : c # a => pc'[c] = pc[c] /\ map'[c] = map[c]
  BY Agency DEF IInv, Types, Moves
<1>3. pc'[a] = to /\ pc[a] \in from
  BY Agency DEF IInv, Types, Moves
<1>4. Harmless
  BY <1>1, <1>2, <1>3, Agency DEF Harmless, Moves, Decided, Running, Leaving
<1> QED
  BY <1>4, HarmlessSteps

(* Nothing of the registry, the goroutines and the Ranges' maps changes. *)
LEMMA Elsewhere ==
    ASSUME IInv, UNCHANGED <<registry, pc, map>>
    PROVE  IInv'
BY DEF registry, IInv, Types, MapsInUse, MapsLoaded, MembersRun, Decided, Running, Leaving

-----------------------------------------------------------------------------
(* The handler's steps. *)
LEMMA Handling ==
    ASSUME IInv, NEW c \in Conns, Handler(c)
    PROVE  IInv'
<1> USE DEF registry, peers, buffers, ranges, history, bounds, Goto
<1>0. /\ Types
      /\ c \in Agents /\ User[c] \in Users /\ c # None
      /\ map[c] \in Conns \cup {None}
  BY Agency DEF IInv, Types
<1>1. CASE Connect(c)
  <2>1. Moves(c, {"idle"}, "load")
    BY <1>0, <1>1 DEF Connect, Moves, Types
  <2> QED
    BY <2>1, HandlerMoves DEF HandlerPC
<1>2. CASE LoadOrStore(c)
  <2> USE <1>2 DEF LoadOrStore, RangeOver
  <2>0. PICK m \in Conns :
          m = IF clients[User[c]] = None THEN c ELSE clients[User[c]]
    BY <1>0 DEF IInv, Types, MapsInUse
  <2>1. User[m] = User[c] /\ (m = c \/ Decided(m))
    BY <1>0, <2>0 DEF IInv, Types, MapsInUse
  <2>2. /\ clients' = [clients EXCEPT ![User[c]] = m]
        /\ map' = [map EXCEPT ![c] = m]
        /\ pc' = [pc EXCEPT ![c] = "evict"]
        /\ UNCHANGED members
        /\ pc[c] = "load"
    BY <2>0
  <2>3. Types'
    BY <1>0, <2>1, <2>2 DEF Types, HandlerPC
  <2>4. /\ Decided(c)' /\ Decided(m)'
        /\ \A d \in Conns : Decided(d) => Decided(d)'
        /\ \A d \in Conns : d # c => pc'[d] = pc[d]
    <3>1. pc'[c] = "evict" /\ \A d \in Conns : d # c => pc'[d] = pc[d]
      BY <1>0, <2>2, Agency DEF Types
    <3>2. \A d \in Conns : Decided(d) => Decided(d)'
      BY <3>1 DEF Decided
    <3>3. Decided(c)'
      BY <3>1 DEF Decided
    <3>4. Decided(m)'
      <4>1. CASE m = c
        BY <3>3, <4>1
      <4>2. CASE m # c
        BY <2>1, <3>2, <4>2
      <4> QED
        BY <4>1, <4>2
    <3> QED
      BY <3>1, <3>2, <3>3, <3>4
  <2>5. MapsInUse'
    BY <1>0, <2>1, <2>2, <2>4 DEF IInv, Types, MapsInUse
  <2>6. MapsLoaded'
    <3>1. \A d \in Conns : d # c => map'[d] = map[d] /\ map[d] \in Conns \cup {None}
      BY <1>0, <2>2, Agency DEF Types
    <3>2. map'[c] = m
      BY <1>0, <2>2 DEF Types
    <3> QED
      BY <2>1, <2>4, <3>1, <3>2 DEF IInv, MapsLoaded
  <2>7. MembersRun'
    <3> SUFFICES ASSUME NEW n \in Conns, NEW d \in members[n]
                 PROVE  /\ User[d] = User[n]
                        /\ Decided(n)'
                        /\ Running(d)' \/ (Leaving(d)' /\ clients'[User[n]] # n)
      BY <2>2 DEF MembersRun
    <3>1. /\ d \in Conns
          /\ User[d] = User[n]
          /\ Decided(n)
          /\ Running(d) \/ (Leaving(d) /\ clients[User[n]] # n)
      BY <1>0 DEF IInv, Types, MembersRun
    <3>2. d # c /\ n # c
      BY <2>2, <3>1 DEF Running, Leaving, Decided
    <3>3. clients[User[n]] # n => clients'[User[n]] # n
      BY <1>0, <2>0, <2>2, <3>2, Agency DEF Types
    <3> QED
      BY <2>4, <3>1, <3>2, <3>3 DEF Running, Leaving
  <2> QED
    BY <2>3, <2>5, <2>6, <2>7 DEF IInv
<1>3. CASE EvictOld(c)
  <2>1. Moves(c, {"evict"}, "store") \/ Moves(c, {"evict"}, "forget")
    BY <1>0, <1>3 DEF EvictOld, Moves, Types
  <2> QED
    BY <2>1, HandlerMoves DEF HandlerPC
<1>4. CASE ForgetOld(c)
  <2>1. Moves(c, {"forget"}, "evict")
    BY <1>0, <1>4 DEF ForgetOld, Moves, Types
  <2> QED
    BY <2>1, HandlerMoves DEF HandlerPC
<1>5. CASE Store(c)
  <2>1. /\ members' = [members EXCEPT ![map[c]] = @ \cup {c}]
        /\ map' = [map EXCEPT ![c] = None]
        /\ \/ pc' = [pc EXCEPT ![c] = "reading"]
           \/ pc' = [pc EXCEPT ![c] = "since"]
        /\ UNCHANGED clients
        /\ pc[c] \in {"store", "evict"}
    BY <1>5 DEF Store
  <2>2. Types'
    BY <1>0, <2>1 DEF Types, HandlerPC
  <2>3. /\ Running(c)' /\ Decided(c)'
        /\ \A d \in Conns : d # c => pc'[d] = pc[d]
        /\ \A d \in Conns : Decided(d) => Decided(d)'
    BY <1>0, <2>1, Agency DEF Types, Running, Decided
  <2>4. MapsInUse'
    BY <1>0, <2>1, <2>3 DEF IInv, Types, MapsInUse
  <2>5. MapsLoaded'
    <3>1. \A d \in Conns : map'[d] \in {map[d], None} /\ map[d] \in Conns \cup {None}
      BY <1>0, <2>1, Agency DEF Types
    <3> QED
      BY <2>3, <3>1 DEF IInv, MapsLoaded
  <2>6. MembersRun'
    <3> SUFFICES ASSUME NEW n \in Conns, NEW d \in members'[n]
                 PROVE  /\ User[d] = User[n]
                        /\ Decided(n)'
                        /\ Running(d)' \/ (Leaving(d)' /\ clients[User[n]] # n)
      BY <2>1 DEF MembersRun
    <3>1. CASE d \in members[n]
      <4>1. /\ d \in Conns
            /\ User[d] = User[n]
            /\ Decided(n)
            /\ Running(d) \/ (Leaving(d) /\ clients[User[n]] # n)
        BY <1>0, <3>1 DEF IInv, Types, MembersRun
      <4>2. d # c
        BY <2>1, <4>1 DEF Running, Leaving
      <4> QED
        BY <2>3, <4>1, <4>2 DEF Running, Leaving
    <3>2. CASE d \notin members[n]
      <4>1. d = c /\ n = map[c]
        BY <1>0, <2>1, <3>2 DEF Types
      <4>2. User[n] = User[c] /\ Decided(n)
        BY <1>0, <4>1, Agency DEF IInv, MapsLoaded
      <4> QED
        BY <2>3, <4>1, <4>2
    <3> QED
      BY <3>1, <3>2
  <2> QED
    BY <2>2, <2>4, <2>5, <2>6 DEF IInv
<1>6. CASE StartReplay(c)
  <2>1. Moves(c, {"since"}, "reading") \/ Moves(c, {"since"}, "replay")
    BY <1>0, <1>6 DEF StartReplay, Moves, Types
  <2> QED
    BY <2>1, HandlerMoves DEF HandlerPC
<1>7. CASE ReplayOne(c)
  <2>1. UNCHANGED <<registry, pc, map>> \/ Moves(c, {"replay"}, "reading")
    BY <1>0, <1>7 DEF ReplayOne, Moves, Types
  <2> QED
    BY <2>1, HandlerMoves, Elsewhere DEF HandlerPC
<1>8. CASE StartFlush(c) \/ Flush(c)
  <2>1. Moves(c, {"replay"}, "flush") \/ Moves(c, {"flush"}, "reading")
    BY <1>0, <1>8 DEF StartFlush, Flush, Moves, Types
  <2> QED
    BY <2>1, HandlerMoves DEF HandlerPC
<1>9. CASE Leave(c)
  <2> DEFINE m == clients[User[c]]
  <2>1. /\ \/ m = None /\ UNCHANGED members
           \/ m # None /\ members' = [members EXCEPT ![m] = @ \ {c}]
        /\ pc' = [pc EXCEPT ![c] = "drop"] \/ pc' = [pc EXCEPT ![c] = "gone"]
        /\ UNCHANGED <<clients, map>>
    BY <1>9 DEF Leave, Unregister
  <2>2. Types' /\ \A n \in Conns : members'[n] \subseteq members[n]
    BY <1>0, <2>1 DEF Types, HandlerPC
  <2>3. /\ Leaving(c)' /\ Decided(c)'
        /\ \A d \in Conns : d # c => pc'[d] = pc[d]
        /\ \A d \in Conns : Decided(d) => Decided(d)'
    BY <1>0, <2>1, Agency DEF Types, Leaving, Decided
  <2>4. MapsInUse' /\ MapsLoaded'
    <3>1. \A d \in Conns : map[d] \in Conns \cup {None}
      BY <1>0, Agency DEF Types
    <3> QED
      BY <1>0, <2>1, <2>3, <3>1 DEF IInv, Types, MapsInUse, MapsLoaded
  <2>5. MembersRun'
    <3> SUFFICES ASSUME NEW n \in Conns, NEW d \in members'[n]
                 PROVE  /\ User[d] = User[n]
                        /\ Decided(n)'
                        /\ Running(d)' \/ (Leaving(d)' /\ clients[User[n]] # n)
      BY <2>1 DEF MembersRun
    <3>1. /\ d \in members[n] /\ d \in Conns
          /\ User[d] = User[n]
          /\ Decided(n)
          /\ Running(d) \/ (Leaving(d) /\ clients[User[n]] # n)
      BY <1>0, <2>2 DEF IInv, Types, MembersRun
    <3>2. CASE d # c
      BY <2>3, <3>1, <3>2 DEF Running, Leaving
    <3>3. CASE d = c
      <4>1. clients[User[n]] = n => d \notin members'[n]
        BY <1>0, <2>1, <3>1, <3>3, Agency DEF Types
      <4> QED
        BY <2>3, <3>1, <3>3, <4>1
    <3> QED
      BY <3>2, <3>3
  <2> QED
    BY <2>2, <2>4, <2>5 DEF IInv
<1>10. CASE LeaveLast(c)
  <2>1. /\ clients' = [clients EXCEPT ![User[c]] = None]
        /\ pc' = [pc EXCEPT ![c] = "gone"]
        /\ UNCHANGED <<members, map>>
        /\ pc[c] = "drop"
    BY <1>10 DEF LeaveLast, DropUser
  <2>2. Harmless
    BY <1>0, <2>1, Agency DEF Types, Harmless, Decided, Running, Leaving, HandlerPC
  <2> QED
    BY <2>2, HarmlessSteps
<1> QED
  BY <1>1, <1>2, <1>3, <1>4, <1>5, <1>6, <1>7, <1>8, <1>9, <1>10 DEF Handler

-----------------------------------------------------------------------------
(* The broadcasters and the timer. *)

\* Its own position, the map it ranges over; a failed write deletes a client
\* or a user.
SenderStep(a) ==
    \/ UNCHANGED <<registry, pc, map>>
    \/ \E to \in SenderPC : /\ pc' = [pc EXCEPT ![a] = to]
                            /\ \/ UNCHANGED clients
                               \/ clients' = [u \in Users |-> None]
                               \/ \E u : clients' = [clients EXCEPT ![u] = None]
                            /\ \/ UNCHANGED members
                               \/ \E m, c : members' = [members EXCEPT ![m] = @ \ {c}]
                            /\ \/ UNCHANGED map
                               \/ \E m \in Conns \cup {None} : map' = [map EXCEPT ![a] = m]

LEMMA SenderSteps ==
    ASSUME IInv, NEW a \in Broadcasters \cup {Timer}, SenderStep(a)
    PROVE  IInv'
<1>0. a \in Agents /\ a \notin Conns
  BY Agency
<1>1. CASE UNCHANGED <<registry, pc, map>>
  BY <1>1, Elsewhere
<1>2. CASE ~UNCHANGED <<registry, pc, map>>
  <2>1. /\ clients' \in [Users -> Conns \cup {None}]
        /\ \A u \in Users : clients'[u] \in {clients[u], None}
    BY <1>2 DEF SenderStep, IInv, Types
  <2>2. /\ members' \in [Conns -> SUBSET Conns]
        /\ \A m \in Conns : members'[m] \subseteq members[m]
    BY <1>2 DEF SenderStep, IInv, Types
  <2>3. /\ map' \in [Agents -> Conns \cup {None}]
        /\ \A c \in Conns : map'[c] = map[c]
    BY <1>0, <1>2, Agency DEF SenderStep, IInv, Types
  <2>4. /\ pc' \in [Agents -> HandlerPC \cup SenderPC]
        /\ \A c \in Conns : pc'[c] = pc[c]
    BY <1>0, <1>2, Agency DEF SenderStep, IInv, Types
  <2>5. Harmless
    BY <2>1, <2>2, <2>3, <2>4 DEF Harmless, Types, Decided, Running, Leaving
  <2> QED
    BY <2>5, HarmlessSteps
<1> QED
  BY <1>1, <1>2

LEMMA Broadcasting ==
    ASSUME IInv, UsersTyped, NEW b \in Broadcasters, Broadcast(b) \/ Sending(b)
    PROVE  IInv'
<1> USE DEF registry, ranges, Goto
<1>0. Types
  BY DEF IInv
<1>1. CASE Broadcast(b) \/ EndBroadcast(b) \/ Write(b)
  <2>1. SenderStep(b)
    BY <1>1 DEF Broadcast, EndBroadcast, Write, SenderStep, SenderPC
  <2> QED
    BY <2>1, SenderSteps
<1>2. CASE VisitUser(b)
  <2>1. \E m \in Conns : map' = [map EXCEPT ![b] = m]
    <3>1. PICK u \in users[b] : clients[u] # None /\ RangeOver(b, clients[u])
      BY <1>2 DEF VisitUser
    <3>2. clients[u] \in Conns
      BY <1>0, <3>1, Agency DEF Types, UsersTyped
    <3> QED
      BY <3>1, <3>2 DEF RangeOver
  <2>2. SenderStep(b)
    BY <1>2, <2>1 DEF VisitUser, SenderStep, SenderPC
  <2> QED
    BY <2>2, SenderSteps
<1>3. CASE EndConns(b) \/ CloseFailed(b)
  <2>1. SenderStep(b)
    BY <1>3 DEF EndConns, CloseFailed, RangeEnds, SenderStep, SenderPC
  <2> QED
    BY <2>1, SenderSteps
<1>4. CASE Buffer(b) \/ PrepareWrite(b) \/ AwaitLock(b) \/ TakeLock(b)
  <2>1. SenderStep(b)
    BY <1>4 DEF Buffer, PrepareWrite, AwaitLock, TakeLock, VisitClient, SenderStep, SenderPC
  <2> QED
    BY <2>1, SenderSteps
<1>5. CASE WriteFails(b)
  <2>1. SenderStep(b)
    BY <1>5 DEF WriteFails, Unregister, SenderStep, SenderPC
  <2> QED
    BY <2>1, SenderSteps
<1>6. CASE DropLast(b)
  <2>1. SenderStep(b)
    BY <1>6 DEF DropLast, DropUser, SenderStep, SenderPC
  <2> QED
    BY <2>1, SenderSteps
<1> QED
  BY <1>1, <1>2, <1>3, <1>4, <1>5, <1>6 DEF Sending

LEMMA TimerAndOthers ==
    ASSUME IInv, UsersTyped,
           \/ ClearMessages \/ DisconnectAll \/ Disconnecting
           \/ \E c \in Conns : PeerGone(c) \/ PeerStalls(c) \/ PingFails(c)
    PROVE  IInv'
<1> USE DEF registry, ranges, Goto
<1>1. CASE DisconnectAll \/ EndConns(Timer) \/ WriteClose \/ CloseClient \/ ResetClients
  <2>1. SenderStep(Timer)
    BY <1>1 DEF DisconnectAll, EndConns, RangeEnds, WriteClose, CloseClient, ResetClients,
       SenderStep, SenderPC
  <2> QED
    BY <2>1, SenderSteps
<1>2. CASE PickClient
  <2>1. SenderStep(Timer)
    BY <1>2 DEF PickClient, VisitClient, SenderStep, SenderPC
  <2> QED
    BY <2>1, SenderSteps
<1>3. CASE VisitUser(Timer)
  <2>1. \E m \in Conns \cup {None} : map' = [map EXCEPT ![Timer] = m]
    <3>1. PICK u \in users[Timer] : clients[u] # None /\ RangeOver(Timer, clients[u])
      BY <1>3 DEF VisitUser
    <3>2. clients[u] \in Conns
      BY <3>1, Agency DEF IInv, Types, UsersTyped
    <3> QED
      BY <3>1, <3>2 DEF RangeOver
  <2>2. SenderStep(Timer)
    BY <1>3, <2>1 DEF VisitUser, SenderStep, SenderPC
  <2> QED
    BY <2>2, SenderSteps
<1>4. CASE ClearMessages \/ \E c \in Conns : PeerGone(c) \/ PeerStalls(c) \/ PingFails(c)
  BY <1>4, Elsewhere DEF ClearMessages, PeerGone, PeerStalls, PingFails
<1> QED
  BY <1>1, <1>2, <1>3, <1>4 DEF Disconnecting

(* Only users are visited. *)
LEMMA UsersStay ==
    ASSUME UsersTyped, [Next]_vars
    PROVE  UsersTyped'
<1> USE DEF ranges
<1>1. ASSUME NEW a \in Agents, RangeUsers(a) PROVE UsersTyped'
  BY <1>1 DEF RangeUsers, UsersTyped
<1>2. ASSUME NEW c \in Conns, Handler(c) \/ PeerGone(c) \/ PeerStalls(c) \/ PingFails(c) PROVE UNCHANGED users
  BY <1>2 DEF Handler, Connect, LoadOrStore, EvictOld, ForgetOld, Store, StartReplay, ReplayOne, StartFlush, Flush,
     Leave, LeaveLast, PeerGone, PeerStalls, PingFails
<1>3. ASSUME NEW b \in Broadcasters, Broadcast(b) PROVE UsersTyped'
  <2>1. PICK to \in Targets :
           IF to = Everyone THEN RangeUsers(b) ELSE users' = [users EXCEPT ![b] = {to}]
    BY <1>3 DEF Broadcast
  <2>2. to \in Users \cup {Everyone} /\ b \in Agents
    BY ConstantsAssumption, Agency
  <2> QED
    BY <1>1, <2>1, <2>2 DEF UsersTyped
<1>4. ASSUME NEW a \in Agents, VisitUser(a) PROVE UsersTyped'
  BY <1>4 DEF VisitUser, UsersTyped
<1>5. ASSUME NEW b \in Broadcasters, Sending(b) PROVE UsersTyped'
  <2>1. UNCHANGED users \/ users' = [users EXCEPT ![b] = {}] \/ VisitUser(b)
    BY <1>5 DEF Sending, EndConns, Buffer, PrepareWrite, AwaitLock, TakeLock, VisitClient, Write, WriteFails, DropLast,
       CloseFailed, EndBroadcast
  <2> QED
    BY <1>4, <2>1, Agency DEF UsersTyped
<1>6. CASE DisconnectAll \/ Disconnecting
  <2>1. \/ UNCHANGED users
        \/ users' = [users EXCEPT ![Timer] = {}]
        \/ VisitUser(Timer)
        \/ RangeUsers(Timer)
    BY <1>6 DEF DisconnectAll, Disconnecting, EndConns, PickClient, VisitClient, WriteClose,
       CloseClient, ResetClients
  <2> QED
    BY <1>1, <1>4, <2>1, Agency DEF UsersTyped
<1>7. CASE ClearMessages \/ UNCHANGED vars
  BY <1>7 DEF ClearMessages, vars, UsersTyped
<1> QED
  BY <1>2, <1>3, <1>5, <1>6, <1>7 DEF Next, UsersTyped

LEMMA Inductive == IInv /\ UsersTyped /\ [Next]_vars => IInv' /\ UsersTyped'
<1> SUFFICES ASSUME IInv, UsersTyped, [Next]_vars PROVE IInv' /\ UsersTyped'
  OBVIOUS
<1>1. CASE UNCHANGED vars
  BY <1>1, Elsewhere, UsersStay DEF vars, ranges
<1> QED
  BY <1>1, Handling, Broadcasting, TimerAndOthers, UsersStay DEF Next

(* A connection the hub can still reach has a handler that is running and  *)
(* will unregister it, for any number of connections and goroutines.       *)
THEOREM AlwaysRunningIfReachable == Spec => []RunningIfReachable
<1>1. IInv => RunningIfReachable
  <2> SUFFICES ASSUME IInv, NEW c \in Conns, Reachable(c)
               PROVE  Running(c)
    BY DEF RunningIfReachable, Running
  <2>1. clients[User[c]] \in Conns /\ User[clients[User[c]]] = User[c]
    BY Agency DEF IInv, Types, MapsInUse, Reachable
  <2> QED
    BY <2>1 DEF IInv, MembersRun, Reachable
<1> QED
  BY <1>1, Initially, Inductive, PTL DEF Spec

-----------------------------------------------------------------------------
(* What appending, joining and taking the head do to the set of elements.  *)

LEMMA Joined ==
    ASSUME NEW S, NEW s \in Seq(S), NEW t \in Seq(S)
    PROVE  s \o t \in Seq(S) /\ ToSet(s \o t) = ToSet(s) \cup ToSet(t)
<1> DEFINE w == s \o t
<1>1. /\ w \in Seq(S) /\ Len(w) = Len(s) + Len(t)
      /\ \A i \in 1 .. Len(s) + Len(t) : w[i] = IF i <= Len(s) THEN s[i] ELSE t[i - Len(s)]
  BY ConcatProperties
<1>2. /\ DOMAIN s = 1 .. Len(s) /\ DOMAIN t = 1 .. Len(t) /\ DOMAIN w = 1 .. Len(w)
      /\ Len(s) \in Nat /\ Len(t) \in Nat
  BY <1>1
<1> HIDE DEF w
<1>3. \A x \in ToSet(w) : x \in ToSet(s) \/ x \in ToSet(t)
  <2> SUFFICES ASSUME NEW i \in 1 .. Len(w) PROVE w[i] \in ToSet(s) \/ w[i] \in ToSet(t)
    BY <1>2 DEF ToSet
  <2>1. CASE i <= Len(s)
    <3>1. i \in DOMAIN s /\ w[i] = s[i]
      BY <1>1, <1>2, <2>1
    <3> QED BY <3>1 DEF ToSet
  <2>2. CASE i > Len(s)
    <3>1. i - Len(s) \in DOMAIN t /\ w[i] = t[i - Len(s)]
      BY <1>1, <1>2, <2>2
    <3> QED BY <3>1 DEF ToSet
  <2> QED BY <1>2, <2>1, <2>2
<1>4. ASSUME NEW i \in DOMAIN s PROVE s[i] \in ToSet(w)
  <2>1. i \in DOMAIN w /\ w[i] = s[i]
    BY <1>1, <1>2, <1>4
  <2> QED BY <2>1 DEF ToSet
<1>5. ASSUME NEW i \in DOMAIN t PROVE t[i] \in ToSet(w)
  <2>1. i + Len(s) \in DOMAIN w /\ w[i + Len(s)] = t[i]
    BY <1>1, <1>2, <1>5
  <2> QED BY <2>1 DEF ToSet
<1>6. ToSet(s) \subseteq ToSet(w) /\ ToSet(t) \subseteq ToSet(w)
  BY <1>4, <1>5 DEF ToSet
<1>7. ToSet(w) = ToSet(s) \cup ToSet(t)
  BY <1>3, <1>6
<1> QED BY <1>1, <1>7 DEF w

LEMMA JoinedOne ==
    ASSUME NEW S, NEW s \in Seq(S), NEW x \in S
    PROVE  /\ <<x>> \in Seq(S) /\ s \o <<x>> \in Seq(S)
           /\ ToSet(s \o <<x>>) = ToSet(s) \cup {x}
<1>1. <<x>> \in Seq(S) /\ DOMAIN <<x>> = {1} /\ <<x>>[1] = x
  OBVIOUS
<1>2. ToSet(<<x>>) = {x}
  BY <1>1 DEF ToSet
<1>3. s \o <<x>> \in Seq(S) /\ ToSet(s \o <<x>>) = ToSet(s) \cup ToSet(<<x>>)
  BY <1>1, Joined
<1> QED BY <1>1, <1>2, <1>3


LEMMA Appended ==
    ASSUME NEW S, NEW s \in Seq(S), NEW x \in S
    PROVE  Append(s, x) \in Seq(S) /\ ToSet(Append(s, x)) = ToSet(s) \cup {x}
<1>1. Append(s, x) = s \o <<x>>
  OBVIOUS
<1> QED BY <1>1, JoinedOne

LEMMA TakenOff ==
    ASSUME NEW S, NEW s \in Seq(S), s # <<>>
    PROVE  /\ Head(s) \in S /\ Tail(s) \in Seq(S)
           /\ ToSet(s) = {Head(s)} \cup ToSet(Tail(s))
<1> DEFINE w == Tail(s)
<1>1. /\ Head(s) \in S /\ w \in Seq(S) /\ Len(w) = Len(s) - 1
      /\ \A i \in 1 .. Len(w) : w[i] = s[i + 1]
  BY HeadTailProperties
<1>2. /\ DOMAIN s = 1 .. Len(s) /\ DOMAIN w = 1 .. Len(w)
      /\ Len(s) \in Nat \ {0} /\ Head(s) = s[1]
  BY <1>1, EmptySeq
<1> HIDE DEF w
<1>3. ASSUME NEW i \in DOMAIN w PROVE w[i] \in ToSet(s)
  <2>1. i + 1 \in DOMAIN s /\ w[i] = s[i + 1]
    BY <1>1, <1>2, <1>3
  <2> QED BY <2>1 DEF ToSet
<1>4. ASSUME NEW i \in DOMAIN s PROVE s[i] = Head(s) \/ s[i] \in ToSet(w)
  <2>1. CASE i # 1
    <3>1. i - 1 \in DOMAIN w /\ w[i - 1] = s[i]
      BY <1>1, <1>2, <1>4, <2>1
    <3> QED BY <3>1 DEF ToSet
  <2> QED BY <1>2, <2>1
<1>5. Head(s) \in ToSet(s)
  BY <1>2 DEF ToSet
<1>6. ToSet(s) = {Head(s)} \cup ToSet(w)
  BY <1>3, <1>4, <1>5 DEF ToSet
<1> QED BY <1>1, <1>6 DEF w

LEMMA Delivered ==
    ASSUME received \in [Conns -> Seq(Message)], NEW c \in Conns, NEW t \in Seq(Message),
           Deliver(c, t)
    PROVE  /\ received' \in [Conns -> Seq(Message)]
           /\ \A d \in Conns \ {c} : received'[d] = received[d]
           /\ wire[c] = "open" => received'[c] = received[c] \o t
           /\ wire[c] # "open" => received'[c] = received[c]
<1>1. received[c] \o t \in Seq(Message)
  BY Joined
<1> QED BY <1>1 DEF Deliver

-----------------------------------------------------------------------------
(* What a broadcaster sends, and whom it goes to.                          *)

Addressed(b) ==
    /\ pc[b] # "idle" => /\ sending[b] \in Message /\ sending[b].n <= sent
                         /\ \A u \in users[b] : sending[b].to \in {Everyone, u}
    /\ pc[b] \in {"conns", "lock", "write", "drop", "close"} =>
         map[b] \in Conns /\ sending[b].to \in {Everyone, User[map[b]]}
    /\ pc[b] \in {"lock", "write"} => current[b] \in Conns /\ Mine(current[b], sending[b])

LEMMA HandlerTypes ==
    ASSUME TypeOK, NEW c \in Conns, Handler(c)
    PROVE  TypeOK'
<1> USE DEF registry, peers, buffers, ranges, history, bounds, Goto, HandlerPC, SenderPC
<1>0. c \in Agents /\ User[c] \in Users /\ c # None
  BY Agency
<1>1. CASE Connect(c)
  BY <1>0, <1>1, ConstantsAssumption DEF Connect, TypeOK
<1>2. CASE LoadOrStore(c)
  <2>1. PICK m \in Conns : clients' = [clients EXCEPT ![User[c]] = m] /\ RangeOver(c, m)
    BY <1>0, <1>2 DEF LoadOrStore, TypeOK
  <2> QED BY <1>0, <1>2, <2>1 DEF LoadOrStore, RangeOver, TypeOK
<1>3. CASE EvictOld(c)
  <2>1. \/ wire' = wire /\ left' = left /\ current' = current
        \/ \E old \in left[c] : /\ wire' = [wire EXCEPT ![old] = "closed"]
                                /\ left' = [left EXCEPT ![c] = @ \ {old}]
                                /\ current' = [current EXCEPT ![c] = old]
    BY <1>3 DEF EvictOld, Close, Visitable, Visit
  <2>2. /\ wire' \in [Conns -> {"none", "open", "stalled", "broken", "closed"}]
        /\ left' \in [Agents -> SUBSET Conns]
        /\ current' \in [Agents -> Conns \cup {None}]
    <3>1. /\ wire \in [Conns -> {"none", "open", "stalled", "broken", "closed"}]
          /\ left \in [Agents -> SUBSET Conns]
          /\ current \in [Agents -> Conns \cup {None}]
      BY DEF TypeOK
    <3>2. \A old \in left[c] : old \in Conns
      BY <1>0, <3>1
    <3> QED BY <2>1, <3>1, <3>2
  <2>3. pc' = [pc EXCEPT ![c] = "store"] \/ pc' = [pc EXCEPT ![c] = "forget"]
    BY <1>3 DEF EvictOld
  <2> QED BY <1>0, <1>3, <2>2, <2>3 DEF EvictOld, TypeOK
<1>4. CASE ForgetOld(c)
  BY <1>0, <1>4 DEF ForgetOld, TypeOK
<1>5. CASE Store(c)
  <2>1. left' \in [Agents -> SUBSET Conns]
    BY <1>0, <1>5 DEF Store, SeenByRanges, TypeOK
  <2> QED BY <1>0, <1>5, <2>1 DEF Store, TypeOK
<1>6. CASE StartReplay(c)
  BY <1>0, <1>6 DEF StartReplay, TypeOK
<1>7. CASE ReplayOne(c)
  <2>1. Head(replay[c]) \in Message /\ Tail(replay[c]) \in Seq(Message)
    BY <1>7, TakenOff DEF ReplayOne, TypeOK
  <2>2. <<Head(replay[c])>> \in Seq(Message)
    BY <2>1
  <2>3. received' \in [Conns -> Seq(Message)]
    BY <1>7, <2>2, Delivered DEF ReplayOne, TypeOK
  <2>4. replay' \in [Conns -> Seq(Message)]
    <3>1. \/ replay' = [replay EXCEPT ![c] = Tail(@)]
          \/ replay' = [replay EXCEPT ![c] = <<>>]
      BY <1>7 DEF ReplayOne
    <3>2. <<>> \in Seq(Message)
      BY EmptySeq
    <3> QED BY <2>1, <3>1, <3>2 DEF TypeOK
  <2> QED BY <1>0, <1>7, <2>3, <2>4 DEF ReplayOne, TypeOK
<1>8. CASE Flush(c)
  <2>1. received' \in [Conns -> Seq(Message)]
    BY <1>8, Delivered DEF Flush, TypeOK
  <2> QED BY <1>0, <1>8, <2>1, EmptySeq DEF Flush, TypeOK
<1>11. CASE StartFlush(c)
  BY <1>0, <1>11 DEF StartFlush, TypeOK
<1>9. CASE Leave(c)
  <2>1. /\ pc' = [pc EXCEPT ![c] = "drop"] \/ pc' = [pc EXCEPT ![c] = "gone"]
        /\ \/ members' = members
           \/ \E m : members' = [members EXCEPT ![m] = @ \ {c}]
        /\ \/ wire' = [wire EXCEPT ![c] = "closed"]
           \/ wire' = [wire EXCEPT ![c] = @]
    BY <1>9 DEF Leave, Unregister
  <2>2. pc' \in [Agents -> HandlerPC \cup SenderPC]
    BY <1>0, <2>1 DEF TypeOK
  <2>3. members' \in [Conns -> SUBSET Conns]
    <3>1. members \in [Conns -> SUBSET Conns]
      BY DEF TypeOK
    <3> QED BY <2>1, <3>1
  <2>4. wire' \in [Conns -> {"none", "open", "stalled", "broken", "closed"}]
    <3>1. wire \in [Conns -> {"none", "open", "stalled", "broken", "closed"}]
      BY DEF TypeOK
    <3> QED BY <2>1, <3>1
  <2> QED BY <1>9, <2>2, <2>3, <2>4 DEF Leave, TypeOK
<1>10. CASE LeaveLast(c)
  BY <1>0, <1>10 DEF LeaveLast, DropUser, Close, TypeOK
<1> QED
  BY <1>1, <1>2, <1>3, <1>4, <1>5, <1>6, <1>7, <1>8, <1>9, <1>10, <1>11 DEF Handler

LEMMA RangeTypes ==
    ASSUME TypeOK, NEW a \in Agents, VisitUser(a) \/ EndConns(a)
    PROVE  TypeOK'
<1> USE DEF registry, peers, buffers, ranges, history, bounds, Goto, HandlerPC, SenderPC
<1>1. CASE VisitUser(a)
  <2>1. PICK u \in users[a] : /\ clients[u] # None
                             /\ users' = [users EXCEPT ![a] = @ \ {u}]
                             /\ RangeOver(a, clients[u])
    BY <1>1 DEF VisitUser
  <2>2. clients[u] \in Conns
    BY <2>1 DEF TypeOK
  <2> QED BY <1>1, <2>1, <2>2 DEF VisitUser, RangeOver, TypeOK
<1>2. CASE EndConns(a)
  BY <1>2 DEF EndConns, RangeEnds, TypeOK
<1> QED BY <1>1, <1>2

LEMMA BroadcasterTypes ==
    ASSUME TypeOK, NEW b \in Broadcasters, Addressed(b), Broadcast(b) \/ Sending(b)
    PROVE  TypeOK'
<1> USE DEF registry, peers, buffers, ranges, history, bounds, Goto, HandlerPC, SenderPC
<1>0. b \in Agents /\ b \notin Conns
  BY Agency
<1>1. CASE Broadcast(b)
  <2>1. PICK to \in Targets :
          /\ sending' = [sending EXCEPT ![b] = [n |-> sent', to |-> to]]
          /\ messages' = Append(messages, [n |-> sent', to |-> to])
          /\ IF to = Everyone THEN RangeUsers(b) ELSE users' = [users EXCEPT ![b] = {to}]
    BY <1>1 DEF Broadcast
  <2>2. to \in Users \cup {Everyone}
    BY ConstantsAssumption
  <2>3. sent' \in 1 .. MaxMessages /\ sent' \in 0 .. MaxMessages
    BY <1>1, ConstantsAssumption DEF Broadcast, TypeOK
  <2>4. [n |-> sent', to |-> to] \in Message
    BY <2>2, <2>3 DEF Message
  <2>5. messages' \in Seq(Message)
    BY <2>1, <2>4, Appended DEF TypeOK
  <2>6. users' \in [Agents -> SUBSET Users]
    <3>1. users \in [Agents -> SUBSET Users]
      BY DEF TypeOK
    <3>2. \E S \in SUBSET Users : users' = [users EXCEPT ![b] = S]
      <4>1. CASE to = Everyone
        <5>1. PICK later \in SUBSET {u \in Users : clients[u] = None} :
                users' = [users EXCEPT ![b] = {u \in Users : clients[u] # None} \cup later]
          BY <2>1, <4>1 DEF RangeUsers
        <5>2. {u \in Users : clients[u] # None} \cup later \in SUBSET Users
          OBVIOUS
        <5> QED BY <5>1, <5>2
      <4>2. CASE to # Everyone
        BY <2>1, <2>2, <4>2
      <4> QED BY <4>1, <4>2
    <3> QED BY <3>1, <3>2
  <2>7. sending' \in [Broadcasters -> Message \cup {None}]
    BY <2>1, <2>4 DEF TypeOK
  <2> QED BY <1>0, <1>1, <2>3, <2>5, <2>6, <2>7 DEF Broadcast, TypeOK
<1>2. CASE VisitUser(b) \/ EndConns(b)
  BY <1>0, <1>2, RangeTypes
<1>3. CASE Buffer(b)
  <2>1. PICK c \in left[b] : /\ VisitClient(b, c)
                            /\ pending' = [pending EXCEPT ![c] = Append(@, sending[b])]
    BY <1>3 DEF Buffer
  <2>2. c \in Conns /\ sending[b] \in Message
    BY <1>0, <2>1 DEF VisitClient, Addressed, TypeOK
  <2>3. pending' \in [Conns -> Seq(Message)]
    BY <2>1, <2>2, Appended DEF TypeOK
  <2> QED BY <1>0, <1>3, <2>1, <2>3 DEF Buffer, VisitClient, Visit, TypeOK
<1>4. CASE PrepareWrite(b)
  BY <1>0, <1>4 DEF PrepareWrite, VisitClient, Visit, TypeOK
<1>11. CASE AwaitLock(b)
  BY <1>0, <1>11 DEF AwaitLock, VisitClient, Visit, TypeOK
<1>10. CASE TakeLock(b)
  BY <1>0, <1>10 DEF TakeLock, TypeOK
<1>5. CASE Write(b)
  <2>1. current[b] \in Conns /\ sending[b] \in Message
    BY <1>5 DEF Write, Addressed
  <2>2. <<sending[b]>> \in Seq(Message)
    BY <2>1
  <2>3. received' \in [Conns -> Seq(Message)]
    BY <1>5, <2>1, <2>2, Delivered DEF Write, TypeOK
  <2> QED BY <1>0, <1>5, <2>3 DEF Write, TypeOK
<1>6. CASE WriteFails(b)
  <2>1. /\ pc' = [pc EXCEPT ![b] = "drop"] \/ pc' = [pc EXCEPT ![b] = "close"]
        /\ \/ members' = members
           \/ \E m, c : members' = [members EXCEPT ![m] = @ \ {c}]
    BY <1>6 DEF WriteFails, Unregister
  <2>2. pc' \in [Agents -> HandlerPC \cup SenderPC]
    BY <1>0, <2>1 DEF TypeOK
  <2>3. members' \in [Conns -> SUBSET Conns]
    <3>1. members \in [Conns -> SUBSET Conns]
      BY DEF TypeOK
    <3> QED BY <2>1, <3>1
  <2> QED BY <1>6, <2>2, <2>3 DEF WriteFails, TypeOK
<1>7. CASE DropLast(b)
  BY <1>0, <1>7 DEF DropLast, DropUser, TypeOK
<1>8. CASE CloseFailed(b)
  BY <1>0, <1>8 DEF CloseFailed, Close, RangeEnds, TypeOK
<1>9. CASE EndBroadcast(b)
  BY <1>0, <1>9 DEF EndBroadcast, TypeOK
<1> QED
  BY <1>1, <1>2, <1>3, <1>4, <1>5, <1>6, <1>7, <1>8, <1>9, <1>10, <1>11 DEF Sending

LEMMA OtherTypes ==
    ASSUME TypeOK,
           \/ ClearMessages \/ DisconnectAll \/ Disconnecting \/ UNCHANGED vars
           \/ \E c \in Conns : PeerGone(c) \/ PeerStalls(c) \/ PingFails(c)
    PROVE  TypeOK'
<1> USE DEF registry, peers, buffers, ranges, history, bounds, Goto, HandlerPC, SenderPC
<1>0. Timer \in Agents
  BY Agency
<1>1. CASE ClearMessages
  BY <1>1, EmptySeq DEF ClearMessages, TypeOK
<1>9. CASE UNCHANGED vars
  BY <1>9 DEF vars, TypeOK
<1>2. CASE DisconnectAll
  BY <1>0, <1>2 DEF DisconnectAll, RangeUsers, TypeOK
<1>3. CASE VisitUser(Timer) \/ EndConns(Timer)
  BY <1>0, <1>3, RangeTypes
<1>4. CASE PickClient
  BY <1>0, <1>4 DEF PickClient, VisitClient, Visit, TypeOK
<1>5. CASE WriteClose
  BY <1>0, <1>5 DEF WriteClose, RangeEnds, TypeOK
<1>6. CASE CloseClient
  BY <1>0, <1>6 DEF CloseClient, Close, TypeOK
<1>7. CASE ResetClients
  BY <1>0, <1>7 DEF ResetClients, TypeOK
<1>8. CASE \E c \in Conns : PeerGone(c) \/ PeerStalls(c) \/ PingFails(c)
  <2>1. \E w \in {"stalled", "broken", "closed"} : \E c \in Conns : wire' = [wire EXCEPT ![c] = w]
    BY <1>8 DEF PeerGone, PeerStalls, PingFails, Close
  <2>2. wire' \in [Conns -> {"none", "open", "stalled", "broken", "closed"}]
    BY <2>1 DEF TypeOK
  <2> QED BY <1>8, <2>2 DEF PeerGone, PeerStalls, PingFails, TypeOK
<1> QED
  BY <1>1, <1>2, <1>3, <1>4, <1>5, <1>6, <1>7, <1>8, <1>9 DEF Disconnecting

-----------------------------------------------------------------------------
\* A step leaves broadcaster b where it is; a Range of it may be joined by
\* a client that is stored.
Waits(b) ==
    /\ pc'[b] = pc[b] /\ map'[b] = map[b] /\ users'[b] = users[b]
    /\ current'[b] = current[b] /\ sending'[b] = sending[b]
    /\ left[b] \subseteq left'[b]

\* Nothing is broadcast or cleared.
NothingSent == UNCHANGED <<sending, sent, messages>>

LEMMA HandlersApart ==
    ASSUME TypeOK, NEW c \in Conns, Handler(c)
    PROVE  NothingSent /\ \A b \in Broadcasters : Waits(b)
<1> USE DEF registry, peers, buffers, ranges, history, bounds, Goto, NothingSent, Waits
<1>0. /\ c \in Agents /\ \A b \in Broadcasters : b \in Agents /\ b # c
      /\ DOMAIN pc = Agents /\ DOMAIN map = Agents /\ DOMAIN left = Agents
      /\ DOMAIN current = Agents
  BY Agency DEF TypeOK
<1>1. CASE Connect(c)
  BY <1>0, <1>1 DEF Connect
<1>2. CASE LoadOrStore(c)
  BY <1>0, <1>2 DEF LoadOrStore, RangeOver
<1>3. CASE EvictOld(c)
  BY <1>0, <1>3 DEF EvictOld, Visit
<1>4. CASE ForgetOld(c)
  BY <1>0, <1>4 DEF ForgetOld
<1>5. CASE Store(c)
  BY <1>0, <1>5 DEF Store, SeenByRanges
<1>6. CASE StartReplay(c)
  BY <1>0, <1>6 DEF StartReplay
<1>7. CASE ReplayOne(c)
  BY <1>0, <1>7 DEF ReplayOne
<1>8. CASE StartFlush(c) \/ Flush(c)
  BY <1>0, <1>8 DEF StartFlush, Flush
<1>9. CASE Leave(c)
  BY <1>0, <1>9 DEF Leave, Unregister
<1>10. CASE LeaveLast(c)
  BY <1>0, <1>10 DEF LeaveLast
<1> QED
  BY <1>1, <1>2, <1>3, <1>4, <1>5, <1>6, <1>7, <1>8, <1>9, <1>10 DEF Handler

LEMMA BroadcastersApart ==
    ASSUME TypeOK, NEW d \in Broadcasters, Broadcast(d) \/ Sending(d)
    PROVE  /\ \A b \in Broadcasters \ {d} : Waits(b)
           /\ \A c \in Conns : pc'[c] = pc[c]
           /\ UNCHANGED <<since, syncing, replay, joined>>
           /\ Sending(d) => UNCHANGED <<sent, messages>>
<1> USE DEF registry, peers, buffers, ranges, history, bounds, Goto, Waits
<1>0. /\ d \in Agents /\ \A b \in Broadcasters : b \in Agents
      /\ \A c \in Conns : c \in Agents /\ c # d
      /\ DOMAIN pc = Agents /\ DOMAIN map = Agents /\ DOMAIN left = Agents
      /\ DOMAIN current = Agents /\ DOMAIN users = Agents /\ DOMAIN sending = Broadcasters
  BY Agency DEF TypeOK
<1>1. CASE Broadcast(d)
  <2>1. \E S : users' = [users EXCEPT ![d] = S]
    BY <1>1 DEF Broadcast, RangeUsers
  <2>2. \E m : sending' = [sending EXCEPT ![d] = m]
    BY <1>1 DEF Broadcast
  <2>3. ~Sending(d)
    BY <1>1 DEF Broadcast, Sending, VisitUser, EndConns, Buffer, PrepareWrite, AwaitLock, TakeLock, VisitClient,
       Write, WriteFails, DropLast, CloseFailed, EndBroadcast, NoUserLeft
  <2> QED BY <1>0, <1>1, <2>1, <2>2, <2>3 DEF Broadcast
<1>2. CASE VisitUser(d)
  BY <1>0, <1>2 DEF VisitUser, RangeOver
<1>3. CASE EndConns(d)
  BY <1>0, <1>3 DEF EndConns, RangeEnds
<1>4. CASE Buffer(d)
  BY <1>0, <1>4 DEF Buffer, VisitClient, Visit
<1>5. CASE PrepareWrite(d) \/ AwaitLock(d) \/ TakeLock(d)
  BY <1>0, <1>5 DEF PrepareWrite, AwaitLock, TakeLock, VisitClient, Visit
<1>6. CASE Write(d)
  BY <1>0, <1>6 DEF Write
<1>7. CASE WriteFails(d)
  BY <1>0, <1>7 DEF WriteFails, Unregister
<1>8. CASE DropLast(d)
  BY <1>0, <1>8 DEF DropLast
<1>9. CASE CloseFailed(d)
  BY <1>0, <1>9 DEF CloseFailed, RangeEnds
<1>10. CASE EndBroadcast(d)
  BY <1>0, <1>10 DEF EndBroadcast
<1> QED
  BY <1>1, <1>2, <1>3, <1>4, <1>5, <1>6, <1>7, <1>8, <1>9, <1>10 DEF Sending

LEMMA OthersApart ==
    ASSUME TypeOK,
           \/ ClearMessages \/ DisconnectAll \/ Disconnecting \/ UNCHANGED vars
           \/ \E c \in Conns : PeerGone(c) \/ PeerStalls(c) \/ PingFails(c)
    PROVE  /\ \A b \in Broadcasters : Waits(b)
           /\ \A c \in Conns : pc'[c] = pc[c]
           /\ UNCHANGED <<sending, sent, received, since, syncing, pending, replay, joined>>
           /\ messages' = messages \/ messages' = <<>>
           /\ \A c \in Conns : wire'[c] = wire[c] \/ wire'[c] \in {"stalled", "broken", "closed"}
<1> USE DEF registry, peers, buffers, ranges, history, bounds, Goto, Waits
<1>0. /\ Timer \in Agents /\ \A b \in Broadcasters : b \in Agents /\ b # Timer
      /\ \A c \in Conns : c \in Agents /\ c # Timer
      /\ DOMAIN pc = Agents /\ DOMAIN map = Agents /\ DOMAIN left = Agents
      /\ DOMAIN current = Agents /\ DOMAIN users = Agents /\ DOMAIN wire = Conns
  BY Agency, ConstantsAssumption DEF TypeOK
<1>1. CASE ClearMessages
  BY <1>0, <1>1 DEF ClearMessages
<1>2. CASE DisconnectAll
  BY <1>0, <1>2 DEF DisconnectAll, RangeUsers
<1>3. CASE VisitUser(Timer)
  BY <1>0, <1>3 DEF VisitUser, RangeOver
<1>4. CASE EndConns(Timer)
  BY <1>0, <1>4 DEF EndConns, RangeEnds
<1>5. CASE PickClient
  BY <1>0, <1>5 DEF PickClient, VisitClient, Visit
<1>6. CASE WriteClose
  BY <1>0, <1>6 DEF WriteClose, RangeEnds
<1>7. CASE CloseClient
  BY <1>0, <1>7 DEF CloseClient, Close
<1>8. CASE ResetClients
  BY <1>0, <1>8 DEF ResetClients
<1>9. CASE \E c \in Conns : PeerGone(c) \/ PeerStalls(c) \/ PingFails(c)
  BY <1>0, <1>9 DEF PeerGone, PeerStalls, PingFails, Close
<1>10. CASE UNCHANGED vars
  BY <1>0, <1>10 DEF vars
<1> QED
  BY <1>1, <1>2, <1>3, <1>4, <1>5, <1>6, <1>7, <1>8, <1>9, <1>10 DEF Disconnecting

-----------------------------------------------------------------------------
(* A message goes to the users, maps and clients it is for.                *)

LEMMA WaitsAddressed ==
    ASSUME NEW b \in Broadcasters, Addressed(b), Waits(b),
           sent \in Nat, sent' \in Nat, sent <= sent'
    PROVE  Addressed(b)'
<1>1. sending[b] \in Message => sending[b].n \in Nat
  BY DEF Message
<1>2. pc[b] # "idle" => sending[b].n <= sent'
  BY <1>1 DEF Addressed
<1> QED BY <1>2 DEF Addressed, Waits, Mine

LEMMA SenderAddressed ==
    ASSUME IInv, TypeOK, NEW b \in Broadcasters, Addressed(b), Broadcast(b) \/ Sending(b)
    PROVE  Addressed(b)'
<1> USE DEF registry, peers, buffers, ranges, history, bounds, Goto
<1>0. /\ b \in Agents /\ sent \in Nat
      /\ DOMAIN pc = Agents /\ DOMAIN map = Agents /\ DOMAIN users = Agents
      /\ DOMAIN current = Agents /\ DOMAIN sending = Broadcasters
  BY Agency DEF TypeOK
<1>1. CASE Broadcast(b)
  <2>1. PICK to \in Targets :
          /\ sending' = [sending EXCEPT ![b] = [n |-> sent', to |-> to]]
          /\ IF to = Everyone THEN RangeUsers(b) ELSE users' = [users EXCEPT ![b] = {to}]
    BY <1>1 DEF Broadcast
  <2>2. to \in Users \cup {Everyone} /\ sent' \in 1 .. MaxMessages
    BY <1>0, <1>1, ConstantsAssumption DEF Broadcast
  <2>3. sending'[b] = [n |-> sent', to |-> to] /\ sending'[b] \in Message
    BY <1>0, <2>1, <2>2 DEF Message
  <2>4. \A u \in users'[b] : to \in {Everyone, u}
    BY <1>0, <2>1 DEF RangeUsers
  <2>5. pc'[b] = "users"
    BY <1>0, <1>1 DEF Broadcast
  <2> QED BY <2>2, <2>3, <2>4, <2>5 DEF Addressed
<1>2. CASE VisitUser(b)
  <2>1. PICK u \in users[b] : /\ clients[u] # None
                             /\ users' = [users EXCEPT ![b] = @ \ {u}]
                             /\ RangeOver(b, clients[u])
    BY <1>2 DEF VisitUser
  <2>2. clients[u] \in Conns /\ User[clients[u]] = u
    BY <1>0, <2>1 DEF TypeOK, IInv, MapsInUse
  <2>3. /\ pc[b] = "users" /\ pc'[b] = "conns" /\ map'[b] = clients[u]
        /\ users'[b] \subseteq users[b]
        /\ UNCHANGED <<sending, sent>>
    BY <1>0, <1>2, <2>1 DEF VisitUser, RangeOver
  <2> QED BY <2>1, <2>2, <2>3 DEF Addressed
<1>3. CASE EndConns(b)
  BY <1>0, <1>3 DEF EndConns, RangeEnds, Addressed
<1>4. CASE Buffer(b)
  BY <1>0, <1>4 DEF Buffer, VisitClient, Addressed
<1>5. CASE PrepareWrite(b) \/ AwaitLock(b)
  <2>1. PICK c \in left[b] : /\ VisitClient(b, c)
                            /\ current' = [current EXCEPT ![b] = c]
                            /\ \/ pc' = [pc EXCEPT ![b] = "write"]
                               \/ pc' = [pc EXCEPT ![b] = "lock"]
    BY <1>5 DEF PrepareWrite, AwaitLock
  <2>2. /\ pc[b] = "conns" /\ c \in members[map[b]] /\ map' = map
        /\ UNCHANGED <<users, sending, sent>>
    BY <2>1 DEF VisitClient, Visitable
  <2>3. map[b] \in Conns /\ c \in Conns /\ User[c] = User[map[b]]
    BY <1>0, <2>2 DEF Addressed, TypeOK, IInv, MembersRun
  <2> QED BY <1>0, <2>1, <2>2, <2>3 DEF Addressed, Mine
<1>11. CASE TakeLock(b)
  BY <1>0, <1>11 DEF TakeLock, Addressed, Mine
<1>6. CASE Write(b)
  BY <1>0, <1>6 DEF Write, Addressed
<1>7. CASE WriteFails(b)
  BY <1>0, <1>7 DEF WriteFails, Unregister, Addressed
<1>8. CASE DropLast(b)
  BY <1>0, <1>8 DEF DropLast, Addressed
<1>9. CASE CloseFailed(b)
  BY <1>0, <1>9 DEF CloseFailed, RangeEnds, Addressed
<1>10. CASE EndBroadcast(b)
  BY <1>0, <1>10 DEF EndBroadcast, Addressed
<1> QED
  BY <1>1, <1>2, <1>3, <1>4, <1>5, <1>6, <1>7, <1>8, <1>9, <1>10, <1>11 DEF Sending

HubInv == IInv /\ UsersTyped /\ TypeOK /\ \A b \in Broadcasters : Addressed(b)

LEMMA HubInitially == Init => HubInv
<1> SUFFICES ASSUME Init PROVE HubInv
  OBVIOUS
<1>1. IInv /\ UsersTyped
  BY Initially
<1>2. TypeOK
  BY Agency, ConstantsAssumption, EmptySeq DEF Init, TypeOK, HandlerPC, SenderPC
<1>3. \A b \in Broadcasters : Addressed(b)
  BY Agency DEF Init, Addressed
<1> QED BY <1>1, <1>2, <1>3 DEF HubInv

LEMMA HubInductive == HubInv /\ [Next]_vars => HubInv'
<1> SUFFICES ASSUME HubInv, [Next]_vars PROVE HubInv'
  OBVIOUS
<1>0. IInv /\ UsersTyped /\ TypeOK /\ (\A b \in Broadcasters : Addressed(b)) /\ sent \in Nat
  BY DEF HubInv, TypeOK
<1>1. IInv' /\ UsersTyped'
  BY <1>0, Inductive
<1>2. CASE \E c \in Conns : Handler(c)
  <2>1. PICK c \in Conns : Handler(c)
    BY <1>2
  <2>2. TypeOK'
    BY <1>0, <2>1, HandlerTypes
  <2>3. NothingSent /\ \A b \in Broadcasters : Waits(b)
    BY <1>0, <2>1, HandlersApart
  <2>4. \A b \in Broadcasters : Addressed(b)'
    BY <1>0, <2>3, WaitsAddressed DEF NothingSent
  <2> QED BY <1>1, <2>2, <2>4 DEF HubInv
<1>3. CASE \E b \in Broadcasters : Broadcast(b) \/ Sending(b)
  <2>1. PICK d \in Broadcasters : Broadcast(d) \/ Sending(d)
    BY <1>3
  <2>2. TypeOK'
    BY <1>0, <2>1, BroadcasterTypes
  <2>3. sent' \in Nat /\ sent <= sent'
    BY <1>0, <2>1, BroadcastersApart DEF Broadcast
  <2>4. \A b \in Broadcasters : Addressed(b)'
    BY <1>0, <2>1, <2>3, BroadcastersApart, WaitsAddressed, SenderAddressed
  <2> QED BY <1>1, <2>2, <2>4 DEF HubInv
<1>4. CASE \/ ClearMessages \/ DisconnectAll \/ Disconnecting \/ UNCHANGED vars
           \/ \E c \in Conns : PeerGone(c) \/ PeerStalls(c) \/ PingFails(c)
  <2>1. TypeOK'
    BY <1>0, <1>4, OtherTypes
  <2>2. sent' = sent /\ \A b \in Broadcasters : Waits(b)
    BY <1>0, <1>4, OthersApart
  <2>3. \A b \in Broadcasters : Addressed(b)'
    BY <1>0, <2>2, WaitsAddressed
  <2> QED BY <1>1, <2>1, <2>3 DEF HubInv
<1> QED BY <1>2, <1>3, <1>4 DEF Next

(* Maps of maps, queues of messages and positions are well typed whatever  *)
(* the connections do; what is sent and to whom stays with its broadcaster *)
(* until the last client has been visited.                                 *)
THEOREM TypeCorrect == Spec => []TypeOK
<1>1. HubInv => TypeOK
  BY DEF HubInv
<1> QED BY <1>1, HubInitially, HubInductive, PTL DEF Spec

-----------------------------------------------------------------------------
(* What a step does to the messages of a connection.                       *)

\* Another goroutine has not touched the handler of c and what it owns.
Untouched(c) ==
    /\ pc'[c] = pc[c] /\ since'[c] = since[c] /\ syncing'[c] = syncing[c]
    /\ replay'[c] = replay[c] /\ joined'[c] = joined[c]
    /\ wire'[c] = wire[c] \/ wire'[c] \in {"stalled", "broken", "closed"}

Idle(c) == Untouched(c) /\ received'[c] = received[c] /\ pending'[c] = pending[c]

\* Broadcaster b puts its message into the buffer of c.
PutsAside(b, c) ==
    /\ Untouched(c) /\ received'[c] = received[c]
    /\ pending'[c] = Append(pending[c], sending[b])
    /\ syncing[c] /\ pc[c] # "idle"
    /\ sending[b] \in Message /\ Mine(c, sending[b])
    /\ pc[b] = "conns" /\ c \in left[b] /\ c \in members[map[b]]

\* Broadcaster b writes to c, whose peer gets the message.
WritesTo(b, c) ==
    /\ Untouched(c) /\ pending'[c] = pending[c]
    /\ received'[c] = received[c] \o <<sending[b]>>
    /\ wire[c] = "open"
    /\ sending[b] \in Message /\ Mine(c, sending[b])
    /\ pc[b] = "write" /\ current[b] = c

LEMMA BroadcasterEffect ==
    ASSUME HubInv, NEW b \in Broadcasters, Broadcast(b) \/ Sending(b), NEW c \in Conns
    PROVE  Idle(c) \/ (Buffer(b) /\ PutsAside(b, c)) \/ (Write(b) /\ WritesTo(b, c))
<1> USE DEF registry, peers, buffers, ranges, history, bounds, Goto
<1>0. TypeOK /\ Addressed(b) /\ IInv
  BY DEF HubInv
<1>1. /\ pc'[c] = pc[c] /\ since'[c] = since[c] /\ syncing'[c] = syncing[c]
      /\ replay'[c] = replay[c] /\ joined'[c] = joined[c]
  BY <1>0, BroadcastersApart
<1>2. wire'[c] = wire[c] \/ wire'[c] \in {"stalled", "broken", "closed"}
  <2>1. wire' = wire \/ wire' = [wire EXCEPT ![current[b]] = "closed"]
    BY DEF Broadcast, Sending, VisitUser, EndConns, Buffer, PrepareWrite, AwaitLock, TakeLock, VisitClient, Write,
       WriteFails, DropLast, CloseFailed, Close, EndBroadcast
  <2> QED BY <1>0, <2>1 DEF TypeOK
<1>3. Untouched(c)
  BY <1>1, <1>2 DEF Untouched
<1>4. CASE ~Buffer(b) /\ ~Write(b)
  <2>1. UNCHANGED <<received, pending>>
    BY <1>4 DEF Broadcast, Sending, VisitUser, EndConns, PrepareWrite, AwaitLock, TakeLock, VisitClient,
       WriteFails, DropLast, CloseFailed, EndBroadcast
  <2> QED BY <1>3, <2>1 DEF Idle
<1>5. CASE Buffer(b)
  <2>1. PICK d \in left[b] : /\ VisitClient(b, d) /\ syncing[d]
                            /\ pending' = [pending EXCEPT ![d] = Append(@, sending[b])]
    BY <1>5 DEF Buffer
  <2>2. pc[b] = "conns" /\ d \in members[map[b]] /\ received' = received
    BY <2>1 DEF VisitClient, Visitable
  <2>3. map[b] \in Conns /\ d \in Conns /\ sending[b] \in Message
    BY <1>0, <2>2 DEF Addressed, TypeOK
  <2>4. User[d] = User[map[b]] /\ pc[d] # "idle"
    BY <1>0, <2>2, <2>3 DEF IInv, MembersRun, Running, Leaving
  <2>5. Mine(d, sending[b])
    BY <1>0, <2>2, <2>4 DEF Addressed, Mine
  <2>6. CASE c = d
    <3>1. pending'[c] = Append(pending[c], sending[b])
      BY <1>0, <2>1, <2>6 DEF TypeOK
    <3> QED BY <1>3, <1>5, <2>1, <2>2, <2>3, <2>4, <2>5, <2>6, <3>1 DEF PutsAside
  <2>7. CASE c # d
    BY <1>0, <1>3, <2>1, <2>2, <2>7 DEF Idle, TypeOK
  <2> QED BY <2>6, <2>7
<1>6. CASE Write(b)
  <2>1. /\ pc[b] = "write" /\ current[b] \in Conns /\ sending[b] \in Message
        /\ Mine(current[b], sending[b])
        /\ Deliver(current[b], <<sending[b]>>) /\ pending' = pending
    BY <1>0, <1>6 DEF Write, Addressed
  <2>2. <<sending[b]>> \in Seq(Message)
    BY <2>1
  <2>3. /\ c # current[b] \/ wire[c] # "open" => received'[c] = received[c]
        /\ c = current[b] /\ wire[c] = "open" => received'[c] = received[c] \o <<sending[b]>>
    BY <1>0, <2>1, <2>2, Delivered DEF TypeOK
  <2> QED BY <1>3, <1>6, <2>1, <2>3 DEF Idle, WritesTo
<1> QED BY <1>4, <1>5, <1>6

LEMMA HandlerEffect ==
    ASSUME TypeOK, NEW c \in Conns, Handler(c), NEW d \in Conns \ {c}
    PROVE  Idle(d)
<1> USE DEF registry, peers, buffers, ranges, history, bounds, Goto, Idle, Untouched
<1>0. /\ c \in Agents /\ d \in Agents /\ d # c
      /\ DOMAIN pc = Agents /\ DOMAIN since = Conns /\ DOMAIN syncing = Conns
      /\ DOMAIN replay = Conns /\ DOMAIN joined = Conns /\ DOMAIN wire = Conns
      /\ DOMAIN pending = Conns /\ DOMAIN received = Conns
  BY Agency DEF TypeOK
<1>1. CASE Connect(c)
  BY <1>0, <1>1 DEF Connect
<1>2. CASE LoadOrStore(c)
  BY <1>0, <1>2 DEF LoadOrStore
<1>3. CASE EvictOld(c)
  BY <1>0, <1>3 DEF EvictOld, Close
<1>4. CASE ForgetOld(c)
  BY <1>0, <1>4 DEF ForgetOld
<1>5. CASE Store(c)
  BY <1>0, <1>5 DEF Store
<1>6. CASE StartReplay(c)
  BY <1>0, <1>6 DEF StartReplay
<1>7. CASE ReplayOne(c)
  BY <1>0, <1>7 DEF ReplayOne, Deliver
<1>8. CASE StartFlush(c) \/ Flush(c)
  BY <1>0, <1>8 DEF StartFlush, Flush, Deliver
<1>9. CASE Leave(c)
  BY <1>0, <1>9 DEF Leave, Unregister
<1>10. CASE LeaveLast(c)
  BY <1>0, <1>10 DEF LeaveLast, Close
<1> QED
  BY <1>1, <1>2, <1>3, <1>4, <1>5, <1>6, <1>7, <1>8, <1>9, <1>10 DEF Handler

LEMMA OtherEffect ==
    ASSUME TypeOK, NEW c \in Conns,
           \/ ClearMessages \/ DisconnectAll \/ Disconnecting \/ UNCHANGED vars
           \/ \E d \in Conns : PeerGone(d) \/ PeerStalls(d) \/ PingFails(d)
    PROVE  Idle(c)
BY OthersApart DEF Idle, Untouched

-----------------------------------------------------------------------------
(* Nothing that waits or has arrived is somebody else's, and the buffer is *)
(* used only between Connect and the end of the replay.                    *)

OnlyMine(c) ==
    /\ \A m \in ToSet(received[c]) : Mine(c, m)
    /\ \A m \in ToSet(pending[c]) : Mine(c, m)

BufferOf(c) ==
    /\ pc[c] = "idle" \/ since[c] = "none" => pending[c] = <<>>
    /\ pc[c] # "idle" /\ since[c] = "none" => ~syncing[c]
    /\ pc[c] = "since" => since[c] # "none"
    /\ pc[c] \in {"replay", "flush"} => since[c] = "all"
    /\ pc[c] \in {"flush", "reading"} => ~syncing[c]
    /\ pc[c] = "reading" /\ since[c] # "garbage" /\ wire[c] = "open" => pending[c] = <<>>

Buffered(c) == OnlyMine(c) /\ BufferOf(c)

LEMMA IdleBuffered ==
    ASSUME NEW c \in Conns, Buffered(c), Idle(c)
    PROVE  Buffered(c)'
BY DEF Buffered, OnlyMine, BufferOf, Idle, Untouched, Mine

LEMMA SentBuffered ==
    ASSUME HubInv, NEW c \in Conns, Buffered(c), NEW b \in Broadcasters,
           PutsAside(b, c) \/ WritesTo(b, c)
    PROVE  Buffered(c)'
<1>0. received[c] \in Seq(Message) /\ pending[c] \in Seq(Message)
  BY DEF HubInv, TypeOK
<1>1. CASE PutsAside(b, c)
  <2>1. ToSet(pending'[c]) = ToSet(pending[c]) \cup {sending[b]}
    BY <1>0, <1>1, Appended DEF PutsAside
  <2>2. OnlyMine(c)'
    BY <1>1, <2>1 DEF Buffered, OnlyMine, PutsAside, Mine
  <2>3. BufferOf(c)'
    BY <1>1 DEF Buffered, BufferOf, PutsAside, Untouched
  <2> QED BY <2>2, <2>3 DEF Buffered
<1>2. CASE WritesTo(b, c)
  <2>1. ToSet(received'[c]) = ToSet(received[c]) \cup {sending[b]}
    BY <1>0, <1>2, JoinedOne DEF WritesTo
  <2>2. OnlyMine(c)'
    BY <1>2, <2>1 DEF Buffered, OnlyMine, WritesTo, Mine
  <2>3. BufferOf(c)'
    BY <1>2 DEF Buffered, BufferOf, WritesTo, Untouched
  <2> QED BY <2>2, <2>3 DEF Buffered
<1> QED BY <1>1, <1>2

\* The messages of a replay: the next one is passed over, written or lost.
Passes(c) ==
    /\ UNCHANGED <<pc, syncing, received, pending, wire, since, joined>>
    /\ ~Mine(c, Head(replay[c]))
    /\ replay'[c] = Tail(replay[c])

Replays(c) ==
    /\ UNCHANGED <<pc, syncing, pending, wire, since, joined>>
    /\ Mine(c, Head(replay[c]))
    /\ replay'[c] = Tail(replay[c])
    /\ wire[c] = "open" => received'[c] = received[c] \o <<Head(replay[c])>>
    /\ wire[c] # "open" => received'[c] = received[c]

GivesUp(c) ==
    /\ UNCHANGED <<received, pending, wire, since, joined>>
    /\ wire[c] # "open" /\ ~syncing'[c] /\ pc'[c] = "reading" /\ replay'[c] = <<>>

LEMMA ReplaySteps ==
    ASSUME TypeOK, NEW c \in Conns, ReplayOne(c)
    PROVE  /\ pc[c] = "replay" /\ replay[c] # <<>>
           /\ Passes(c) \/ Replays(c) \/ GivesUp(c)
<1> USE DEF registry, peers, buffers, ranges, history, bounds, Goto
<1>0. /\ c \in Agents /\ DOMAIN pc = Agents /\ DOMAIN replay = Conns /\ DOMAIN syncing = Conns
      /\ replay[c] \in Seq(Message)
  BY Agency DEF TypeOK
<1>1. pc[c] = "replay" /\ replay[c] # <<>>
  BY DEF ReplayOne
<1>2. <<Head(replay[c])>> \in Seq(Message)
  BY <1>0, <1>1, TakenOff
<1>3. Deliver(c, <<Head(replay[c])>>) =>
        /\ wire[c] = "open" => received'[c] = received[c] \o <<Head(replay[c])>>
        /\ wire[c] # "open" => received'[c] = received[c]
  BY <1>2, Delivered DEF TypeOK
<1>4. UNCHANGED <<pending, wire, since, joined>>
  BY DEF ReplayOne
<1>5. CASE ~Mine(c, Head(replay[c]))
  BY <1>0, <1>1, <1>4, <1>5 DEF ReplayOne, Passes
<1>6. CASE Mine(c, Head(replay[c])) /\ replay' = [replay EXCEPT ![c] = Tail(@)]
                                   /\ Deliver(c, <<Head(replay[c])>>) /\ UNCHANGED <<pc, syncing>>
  BY <1>0, <1>1, <1>3, <1>4, <1>6 DEF Replays
<1>7. CASE Fails(c) /\ replay' = [replay EXCEPT ![c] = <<>>] /\ syncing' = [syncing EXCEPT ![c] = FALSE]
           /\ pc' = [pc EXCEPT ![c] = "reading"] /\ UNCHANGED received
  BY <1>0, <1>1, <1>4, <1>7 DEF GivesUp, Fails
<1> QED BY <1>1, <1>5, <1>6, <1>7 DEF ReplayOne

\* The end of a replay: Syncing is reset and syncLock taken, then the buffer is sent.
StartsFlush(c) ==
    /\ pc[c] = "replay" /\ replay[c] = <<>>
    /\ pc'[c] = "flush" /\ ~syncing'[c]
    /\ UNCHANGED <<received, pending, replay, wire, since, joined>>

LEMMA StartFlushSteps ==
    ASSUME TypeOK, NEW c \in Conns, StartFlush(c)
    PROVE  StartsFlush(c)
<1>1. c \in Agents /\ DOMAIN pc = Agents /\ DOMAIN syncing = Conns
  BY Agency DEF TypeOK
<1> QED BY <1>1 DEF StartFlush, StartsFlush, Goto, peers, history

Flushes(c) ==
    /\ pc[c] = "flush"
    /\ pc'[c] = "reading" /\ pending'[c] = <<>>
    /\ UNCHANGED <<syncing, replay, wire, since, joined>>
    /\ wire[c] = "open" => received'[c] = received[c] \o pending[c]
    /\ wire[c] # "open" => received'[c] = received[c]

LEMMA FlushSteps ==
    ASSUME TypeOK, NEW c \in Conns, Flush(c)
    PROVE  Flushes(c)
<1>1. /\ c \in Agents /\ DOMAIN pc = Agents /\ DOMAIN pending = Conns
      /\ pending[c] \in Seq(Message)
  BY Agency DEF TypeOK
<1>2. /\ wire[c] = "open" => received'[c] = received[c] \o pending[c]
      /\ wire[c] # "open" => received'[c] = received[c]
  BY <1>1, Delivered DEF Flush, TypeOK
<1> QED BY <1>1, <1>2 DEF Flush, Flushes, Goto, history

LEMMA HandlerBuffered ==
    ASSUME TypeOK, NEW c \in Conns, Buffered(c), Handler(c)
    PROVE  Buffered(c)'
<1> USE DEF registry, peers, buffers, ranges, history, bounds, Goto
<1>0. /\ c \in Agents /\ DOMAIN pc = Agents /\ DOMAIN since = Conns /\ DOMAIN syncing = Conns
      /\ DOMAIN wire = Conns
      /\ received[c] \in Seq(Message) /\ pending[c] \in Seq(Message) /\ replay[c] \in Seq(Message)
      /\ since[c] \in {"none", "all", "garbage"}
  BY Agency DEF TypeOK
<1>1. ASSUME UNCHANGED <<received, pending>>, BufferOf(c)' PROVE Buffered(c)'
  BY <1>1 DEF Buffered, OnlyMine, Mine
<1>2. CASE Connect(c)
  BY <1>0, <1>1, <1>2 DEF Connect, Buffered, BufferOf
<1>3. CASE LoadOrStore(c) \/ ForgetOld(c)
  BY <1>0, <1>1, <1>3 DEF LoadOrStore, ForgetOld, Buffered, BufferOf
<1>4. CASE EvictOld(c)
  <2>1. pc'[c] \in {"store", "forget"} /\ UNCHANGED <<since, buffers, received>> /\ pc[c] = "evict"
    BY <1>0, <1>4 DEF EvictOld
  <2> QED BY <1>1, <2>1 DEF Buffered, BufferOf
<1>5. CASE Store(c)
  <2>1. /\ pc'[c] = IF since[c] = "none" THEN "reading" ELSE "since"
        /\ pc[c] \in {"store", "evict"} /\ UNCHANGED <<since, buffers, received, wire>>
    BY <1>0, <1>5 DEF Store
  <2> QED BY <1>1, <2>1 DEF Buffered, BufferOf
<1>6. CASE StartReplay(c)
  <2>1. /\ pc[c] = "since" /\ UNCHANGED <<received, pending, since, wire>>
        /\ \/ since[c] = "garbage" /\ pc'[c] = "reading" /\ ~syncing'[c]
           \/ since[c] # "garbage" /\ pc'[c] = "replay" /\ syncing'[c] = syncing[c]
    BY <1>0, <1>6 DEF StartReplay
  <2> QED BY <1>0, <1>1, <2>1 DEF Buffered, BufferOf
<1>7. CASE ReplayOne(c)
  <2>1. pc[c] = "replay" /\ replay[c] # <<>> /\ (Passes(c) \/ Replays(c) \/ GivesUp(c))
    BY <1>7, ReplaySteps
  <2>2. CASE Passes(c) \/ GivesUp(c)
    BY <1>0, <1>1, <2>1, <2>2 DEF Passes, GivesUp, Buffered, BufferOf
  <2>3. CASE Replays(c)
    <3>1. /\ Head(replay[c]) \in Message
          /\ ToSet(received[c] \o <<Head(replay[c])>>) = ToSet(received[c]) \cup {Head(replay[c])}
      BY <1>0, <2>1, TakenOff, JoinedOne
    <3>2. OnlyMine(c)'
      BY <2>3, <3>1 DEF Replays, Buffered, OnlyMine, Mine
    <3>3. BufferOf(c)'
      BY <2>3 DEF Replays, Buffered, BufferOf
    <3> QED BY <3>2, <3>3 DEF Buffered
  <2> QED BY <2>1, <2>2, <2>3
<1>8. CASE Flush(c)
  <2>1. Flushes(c)
    BY <1>8, FlushSteps
  <2>2. ToSet(received[c] \o pending[c]) = ToSet(received[c]) \cup ToSet(pending[c])
    BY <1>0, Joined
  <2>3. ToSet(<<>>) = {}
    BY DEF ToSet
  <2>4. OnlyMine(c)'
    BY <2>1, <2>2, <2>3 DEF Flushes, Buffered, OnlyMine, Mine
  <2>5. BufferOf(c)'
    BY <2>1 DEF Flushes, Buffered, BufferOf
  <2> QED BY <2>4, <2>5 DEF Buffered
<1>10. CASE StartFlush(c)
  BY <1>1, <1>10, StartFlushSteps DEF StartsFlush, Buffered, BufferOf
<1>9. CASE Leave(c) \/ LeaveLast(c)
  <2>1. pc'[c] \in {"drop", "gone"} /\ pc[c] # "idle" /\ UNCHANGED <<received, pending, since, syncing>>
    BY <1>0, <1>9 DEF Leave, LeaveLast, Unregister
  <2> QED BY <1>1, <2>1 DEF Buffered, BufferOf
<1> QED
  BY <1>2, <1>3, <1>4, <1>5, <1>6, <1>7, <1>8, <1>9, <1>10 DEF Handler

BufferInv == HubInv /\ \A c \in Conns : Buffered(c)

LEMMA BufferInitially == Init => BufferInv
<1> SUFFICES ASSUME Init PROVE BufferInv
  OBVIOUS
<1>1. ToSet(<<>>) = {}
  BY DEF ToSet
<1>2. \A c \in Conns : received[c] = <<>> /\ pending[c] = <<>> /\ pc[c] = "idle"
  BY Agency DEF Init
<1>3. \A c \in Conns : OnlyMine(c)
  BY <1>1, <1>2 DEF OnlyMine
<1>4. \A c \in Conns : BufferOf(c)
  BY <1>2 DEF BufferOf
<1> QED BY <1>3, <1>4, HubInitially DEF BufferInv, Buffered

LEMMA BufferInductive == BufferInv /\ [Next]_vars => BufferInv'
<1> SUFFICES ASSUME BufferInv, [Next]_vars PROVE BufferInv'
  OBVIOUS
<1>0. HubInv /\ TypeOK /\ HubInv' /\ \A c \in Conns : Buffered(c)
  BY HubInductive DEF BufferInv, HubInv
<1>1. ASSUME NEW c \in Conns PROVE Buffered(c)'
  <2>0. Buffered(c)
    BY <1>0, <1>1
  <2>1. CASE \E d \in Conns : Handler(d)
    <3>1. PICK d \in Conns : Handler(d)
      BY <2>1
    <3>2. CASE c = d
      BY <1>0, <2>0, <3>1, <3>2, HandlerBuffered
    <3>3. CASE c # d
      BY <1>0, <2>0, <3>1, <3>3, HandlerEffect, IdleBuffered
    <3> QED BY <3>2, <3>3
  <2>2. CASE \E b \in Broadcasters : Broadcast(b) \/ Sending(b)
    BY <1>0, <2>0, <2>2, BroadcasterEffect, IdleBuffered, SentBuffered
  <2>3. CASE \/ ClearMessages \/ DisconnectAll \/ Disconnecting \/ UNCHANGED vars
             \/ \E d \in Conns : PeerGone(d) \/ PeerStalls(d) \/ PingFails(d)
    BY <1>0, <2>0, <2>3, OtherEffect, IdleBuffered
  <2> QED BY <2>1, <2>2, <2>3 DEF Next
<1> QED BY <1>0, <1>1 DEF BufferInv

-----------------------------------------------------------------------------
(* No message is missed.  What a registered client is owed has reached it, *)
(* is in its buffer or in the copy it replays, or the goroutine that       *)
(* broadcasts it is still on its way.                                      *)

Coming(b, c, m) ==
    /\ sending[b] = m
    /\ \/ pc[b] # "idle" /\ User[c] \in users[b]
       \/ pc[b] = "conns" /\ map[b] = clients[User[c]] /\ c \in left[b]
       \/ pc[b] \in {"lock", "write"} /\ current[b] = c

Underway(c, m) ==
    \/ m \in ToSet(received[c])
    \/ m \in ToSet(pending[c])
    \/ pc[c] = "replay" /\ m \in ToSet(replay[c])
    \/ pc[c] = "since" /\ since[c] = "all"
    \/ m.n > joined[c] /\ \E b \in Broadcasters : Coming(b, c, m)

Served(c) == since[c] # "garbage" /\ wire[c] = "open" /\ Reachable(c)

NoneMissed(c) == Served(c) => \A m \in Owed(c) : Underway(c, m)

\* No client was stored, and no message is numbered, after the last one sent.
Numbered ==
    /\ \A c \in Conns : joined[c] <= sent
    /\ \A m \in ToSet(messages) : m.n <= sent

\* A user has one registered connection at a time (a failed Close can end a
\* Range over several of them before the last one).
OnePerMap == \A m \in Conns : \A c \in members[m], d \in members[m] : c = d

LEMMA NumberedStep ==
    ASSUME HubInv, Numbered, [Next]_vars
    PROVE  Numbered'
<1> USE DEF registry, peers, buffers, ranges, history, bounds
<1>0. /\ TypeOK /\ sent \in Nat /\ DOMAIN joined = Conns
      /\ messages \in Seq(Message) /\ \A c \in Conns : joined[c] \in Nat
  BY DEF HubInv, TypeOK
<1>1. CASE \E c \in Conns : Handler(c)
  <2>1. PICK c \in Conns : Handler(c)
    BY <1>1
  <2>2. UNCHANGED <<sent, messages>>
    BY <1>0, <2>1, HandlersApart DEF NothingSent
  <2>3. UNCHANGED joined \/ joined' = [joined EXCEPT ![c] = sent]
    BY <2>1 DEF Handler, Connect, LoadOrStore, EvictOld, ForgetOld, Store, StartReplay, ReplayOne,
       StartFlush, Flush, Leave, LeaveLast
  <2> QED BY <1>0, <2>2, <2>3 DEF Numbered
<1>2. CASE \E b \in Broadcasters : Broadcast(b)
  <2>1. PICK b \in Broadcasters : Broadcast(b)
    BY <1>2
  <2>2. PICK to \in Targets : messages' = Append(messages, [n |-> sent', to |-> to])
    BY <2>1 DEF Broadcast
  <2>3. sent' = sent + 1 /\ sent' \in 1 .. MaxMessages /\ joined' = joined
    BY <1>0, <2>1, ConstantsAssumption DEF Broadcast
  <2>4. [n |-> sent', to |-> to] \in Message
    BY <2>3, ConstantsAssumption DEF Message
  <2>5. ToSet(messages') = ToSet(messages) \cup {[n |-> sent', to |-> to]}
    BY <1>0, <2>2, <2>4, Appended
  <2>6. \A m \in ToSet(messages) : m.n \in Nat
    <3>1. \A m \in ToSet(messages) : m \in Message
      BY <1>0 DEF ToSet
    <3>2. \A m \in Message : m.n \in Nat
      BY ConstantsAssumption DEF Message
    <3> QED BY <3>1, <3>2
  <2> QED BY <1>0, <2>3, <2>5, <2>6 DEF Numbered
<1>3. CASE \E b \in Broadcasters : Sending(b)
  BY <1>0, <1>3, BroadcastersApart DEF Numbered
<1>4. CASE \/ ClearMessages \/ DisconnectAll \/ Disconnecting \/ UNCHANGED vars
           \/ \E c \in Conns : PeerGone(c) \/ PeerStalls(c) \/ PingFails(c)
  <2>1. UNCHANGED <<sent, joined>> /\ (messages' = messages \/ messages' = <<>>)
    BY <1>0, <1>4, OthersApart
  <2>2. ToSet(<<>>) = {}
    BY DEF ToSet
  <2> QED BY <2>1, <2>2 DEF Numbered
<1> QED BY <1>1, <1>2, <1>3, <1>4 DEF Next

\* A client that can be reached could be reached before, in the same map, or
\* has just been stored.
LEMMA ReachableBefore ==
    ASSUME HubInv, [Next]_vars, NEW c \in Conns, Reachable(c)'
    PROVE  Store(c) \/ (Reachable(c) /\ clients'[User[c]] = clients[User[c]])
<1> USE DEF registry, peers, buffers, ranges, history, bounds
<1>0. /\ TypeOK /\ IInv /\ User[c] \in Users /\ clients'[User[c]] # None
      /\ c \in members'[clients'[User[c]]] /\ clients \in [Users -> Conns \cup {None}]
      /\ members \in [Conns -> SUBSET Conns]
  BY Agency DEF HubInv, TypeOK, Reachable
<1>1. ASSUME \/ UNCHANGED clients
             \/ clients' = [u \in Users |-> None]
             \/ \E u : clients' = [clients EXCEPT ![u] = None]
      PROVE  clients'[User[c]] = clients[User[c]]
  BY <1>0, <1>1
<1>2. ASSUME clients'[User[c]] = clients[User[c]],
             \/ UNCHANGED members
             \/ \E m, d : members' = [members EXCEPT ![m] = @ \ {d}]
             \/ \E m, d : d # c /\ members' = [members EXCEPT ![m] = @ \cup {d}]
      PROVE  Reachable(c)
  <2>1. clients[User[c]] \in Conns
    BY <1>0, <1>2
  <2>2. c \in members[clients[User[c]]]
    BY <1>0, <1>2, <2>1
  <2> QED BY <1>0, <1>2, <2>2 DEF Reachable
<1>3. CASE \E d \in Conns : Handler(d)
  <2>1. PICK d \in Conns : Handler(d)
    BY <1>3
  <2>2. CASE LoadOrStore(d)
    <3>1. CASE clients[User[d]] = None
      <4>1. /\ pc[d] = "load" /\ members' = members
            /\ clients' = [clients EXCEPT ![User[d]] = d]
        BY <2>2, <3>1 DEF LoadOrStore
      <4>2. c \notin members[d]
        BY <1>0, <4>1 DEF IInv, MembersRun, Decided
      <4>3. clients'[User[c]] = clients[User[c]]
        BY <1>0, <4>1, <4>2
      <4> QED BY <1>2, <4>1, <4>3
    <3>2. CASE clients[User[d]] # None
      <4>1. members' = members /\ clients' = clients
        BY <1>0, <2>2, <3>2 DEF LoadOrStore
      <4> QED BY <1>2, <4>1
    <3> QED BY <3>1, <3>2
  <2>3. CASE Store(d)
    BY <1>2, <2>3 DEF Store
  <2>4. CASE ~LoadOrStore(d) /\ ~Store(d)
    <3>1. /\ UNCHANGED clients \/ \E u : clients' = [clients EXCEPT ![u] = None]
          /\ UNCHANGED members \/ \E m, e : members' = [members EXCEPT ![m] = @ \ {e}]
      BY <2>1, <2>4 DEF Handler, Connect, EvictOld, ForgetOld, StartReplay, ReplayOne, StartFlush, Flush,
         Leave, Unregister, LeaveLast, DropUser
    <3> QED BY <1>1, <1>2, <3>1
  <2> QED BY <2>2, <2>3, <2>4
<1>4. CASE \E b \in Broadcasters : Broadcast(b) \/ Sending(b)
  <2>1. /\ UNCHANGED clients \/ \E u : clients' = [clients EXCEPT ![u] = None]
        /\ UNCHANGED members \/ \E m, e : members' = [members EXCEPT ![m] = @ \ {e}]
    BY <1>4 DEF Broadcast, Sending, VisitUser, EndConns, Buffer, PrepareWrite, AwaitLock, TakeLock, VisitClient, Write,
       WriteFails, Unregister, DropLast, DropUser, CloseFailed, EndBroadcast
  <2> QED BY <1>1, <1>2, <2>1
<1>5. CASE \/ ClearMessages \/ DisconnectAll \/ Disconnecting \/ UNCHANGED vars
           \/ \E d \in Conns : PeerGone(d) \/ PeerStalls(d) \/ PingFails(d)
  <2>1. UNCHANGED members /\ (UNCHANGED clients \/ clients' = [u \in Users |-> None])
    BY <1>5 DEF ClearMessages, DisconnectAll, Disconnecting, VisitUser, EndConns, PickClient,
       VisitClient, WriteClose, CloseClient, ResetClients, PeerGone, PeerStalls, PingFails, vars
  <2> QED BY <1>1, <1>2, <2>1
<1> QED BY <1>3, <1>4, <1>5 DEF Next

\* Nobody opens a connection or changes its parameter once it is registered.
LEMMA ServedBefore ==
    ASSUME HubInv, [Next]_vars, NEW c \in Conns, Served(c)', ~Store(c)
    PROVE  /\ Served(c) /\ clients'[User[c]] = clients[User[c]]
           /\ since'[c] = since[c] /\ joined'[c] = joined[c]
<1> USE DEF registry, peers, buffers, ranges, history, bounds
<1>0. /\ TypeOK /\ IInv /\ Reachable(c) /\ clients'[User[c]] = clients[User[c]]
      /\ DOMAIN wire = Conns /\ DOMAIN since = Conns /\ DOMAIN joined = Conns
  BY ReachableBefore DEF HubInv, Served, TypeOK
<1>1. Running(c)
  <2>1. clients[User[c]] \in Conns /\ User[clients[User[c]]] = User[c]
    BY <1>0, Agency DEF IInv, Types, MapsInUse, Reachable
  <2> QED BY <1>0, <2>1 DEF IInv, MembersRun, Reachable
<1>2. ~Connect(c)
  BY <1>1 DEF Connect, Running
<1>3. /\ since'[c] = since[c] /\ joined'[c] = joined[c]
      /\ wire'[c] = wire[c] \/ wire'[c] \in {"stalled", "broken", "closed"}
  <2>1. CASE Handler(c)
    BY <1>0, <1>1, <1>2, <2>1 DEF Handler, LoadOrStore, EvictOld, ForgetOld, StartReplay,
       ReplayOne, StartFlush, Flush, Leave, LeaveLast, Running, Close
  <2>2. CASE \E d \in Conns \ {c} : Handler(d)
    BY <1>0, <2>2, HandlerEffect DEF Idle, Untouched
  <2>3. CASE \E b \in Broadcasters : Broadcast(b) \/ Sending(b)
    BY <2>3, BroadcasterEffect DEF Idle, PutsAside, WritesTo, Untouched
  <2>4. CASE \/ ClearMessages \/ DisconnectAll \/ Disconnecting \/ UNCHANGED vars
             \/ \E d \in Conns : PeerGone(d) \/ PeerStalls(d) \/ PingFails(d)
    BY <1>0, <2>4, OtherEffect DEF Idle, Untouched
  <2> QED BY <2>1, <2>2, <2>3, <2>4 DEF Next
<1> QED BY <1>0, <1>3 DEF Served

LEMMA ComingStays ==
    ASSUME NEW b \in Broadcasters, NEW c \in Conns, NEW m, Waits(b), Coming(b, c, m),
           clients'[User[c]] = clients[User[c]]
    PROVE  Coming(b, c, m)'
BY DEF Coming, Waits

\* A broadcaster that is on its way arrives.
LEMMA ComingArrives ==
    ASSUME HubInv, OnePerMap, NEW b \in Broadcasters, Sending(b), NEW c \in Conns, NEW m,
           Coming(b, c, m), Reachable(c), wire[c] = "open",
           clients'[User[c]] = clients[User[c]]
    PROVE  \/ Coming(b, c, m)'
           \/ m \in ToSet(received'[c])
           \/ m \in ToSet(pending'[c])
<1> USE DEF registry, peers, buffers, ranges, history, bounds, Goto
<1>0. /\ b \in Agents /\ TypeOK /\ Addressed(b) /\ IInv
      /\ DOMAIN pc = Agents /\ DOMAIN map = Agents /\ DOMAIN left = Agents
      /\ DOMAIN current = Agents /\ DOMAIN users = Agents
      /\ received[c] \in Seq(Message) /\ pending[c] \in Seq(Message)
      /\ sending[b] = m /\ clients[User[c]] # None /\ c \in members[clients[User[c]]]
  BY Agency DEF HubInv, TypeOK, Coming, Reachable
<1>1. CASE VisitUser(b)
  <2>1. PICK u \in users[b] : /\ users' = [users EXCEPT ![b] = @ \ {u}]
                             /\ RangeOver(b, clients[u])
    BY <1>1 DEF VisitUser
  <2>2. pc[b] = "users" /\ pc'[b] = "conns" /\ sending' = sending
    BY <1>0, <1>1 DEF VisitUser
  <2>3. User[c] \in users[b]
    BY <2>2 DEF Coming
  <2>4. CASE u = User[c]
    BY <1>0, <2>1, <2>2, <2>4 DEF Coming, RangeOver
  <2>5. CASE u # User[c]
    BY <1>0, <2>1, <2>2, <2>3, <2>5 DEF Coming
  <2> QED BY <2>4, <2>5
<1>2. CASE EndConns(b)
  <2>1. pc[b] = "conns" /\ pc'[b] = "users" /\ users' = users /\ sending' = sending
        /\ left[b] \cap members[map[b]] = {}
    BY <1>0, <1>2 DEF EndConns, Visitable
  <2>2. User[c] \in users[b]
    BY <1>0, <2>1 DEF Coming
  <2> QED BY <1>0, <2>1, <2>2 DEF Coming
<1>3. CASE Buffer(b) \/ PrepareWrite(b) \/ AwaitLock(b)
  <2>1. PICK d \in left[b] :
          /\ VisitClient(b, d)
          /\ \/ syncing[d] /\ pending' = [pending EXCEPT ![d] = Append(@, sending[b])] /\ UNCHANGED pc
             \/ current' = [current EXCEPT ![b] = d] /\ pc' = [pc EXCEPT ![b] = "write"]
             \/ current' = [current EXCEPT ![b] = d] /\ pc' = [pc EXCEPT ![b] = "lock"]
    BY <1>3 DEF Buffer, PrepareWrite, AwaitLock
  <2>2. /\ pc[b] = "conns" /\ d \in members[map[b]] /\ left' = [left EXCEPT ![b] = @ \ {d}]
        /\ UNCHANGED <<users, sending, map>>
    BY <2>1 DEF VisitClient, Visitable, Visit
  <2>3. map[b] \in Conns /\ d \in Conns /\ sending[b] \in Message
    BY <1>0, <2>2 DEF Addressed, TypeOK
  <2>4. CASE User[c] \in users[b]
    <3>1. pc'[b] # "idle"
      BY <1>0, <2>1, <2>2
    <3> QED BY <1>0, <2>2, <2>4, <3>1 DEF Coming
  <2>5. CASE User[c] \notin users[b]
    <3>1. map[b] = clients[User[c]] /\ c \in left[b]
      BY <2>2, <2>5 DEF Coming
    <3>2. c = d
      BY <1>0, <2>2, <2>3, <3>1 DEF OnePerMap
    <3>3. CASE pending' = [pending EXCEPT ![d] = Append(@, sending[b])]
      <4>1. pending'[c] = Append(pending[c], m)
        BY <1>0, <2>3, <3>2, <3>3 DEF TypeOK
      <4> QED BY <1>0, <2>3, <4>1, Appended
    <3>4. CASE /\ current' = [current EXCEPT ![b] = d]
               /\ \/ pc' = [pc EXCEPT ![b] = "write"]
                  \/ pc' = [pc EXCEPT ![b] = "lock"]
      BY <1>0, <2>2, <3>2, <3>4 DEF Coming
    <3> QED BY <2>1, <3>3, <3>4
  <2> QED BY <2>4, <2>5
<1>4. CASE Write(b)
  <2>1. pc[b] = "write" /\ pc'[b] = "conns" /\ UNCHANGED <<users, sending>>
    BY <1>0, <1>4 DEF Write
  <2>2. CASE User[c] \in users[b]
    BY <1>0, <2>1, <2>2 DEF Coming
  <2>3. CASE User[c] \notin users[b]
    <3>1. current[b] = c /\ sending[b] \in Message
      BY <1>0, <2>1, <2>3 DEF Coming, Addressed
    <3>2. <<sending[b]>> \in Seq(Message) /\ Deliver(c, <<sending[b]>>)
      BY <1>4, <3>1 DEF Write
    <3>3. received'[c] = received[c] \o <<m>>
      BY <1>0, <3>2, Delivered DEF TypeOK
    <3> QED BY <1>0, <3>1, <3>3, JoinedOne
  <2> QED BY <2>2, <2>3
<1>5. CASE WriteFails(b)
  <2>1. pc[b] = "write" /\ pc'[b] # "idle" /\ UNCHANGED <<users, sending>> /\ current[b] # c
    BY <1>0, <1>5 DEF WriteFails, Unregister, Fails
  <2> QED BY <1>0, <2>1 DEF Coming
<1>6. CASE DropLast(b)
  <2>1. pc[b] = "drop" /\ pc'[b] # "idle" /\ UNCHANGED <<users, sending>>
    BY <1>0, <1>6 DEF DropLast
  <2> QED BY <1>0, <2>1 DEF Coming
<1>7. CASE CloseFailed(b)
  <2>1. pc[b] = "close" /\ pc'[b] # "idle" /\ UNCHANGED <<users, sending>>
    BY <1>0, <1>7 DEF CloseFailed
  <2> QED BY <1>0, <2>1 DEF Coming
<1>8. CASE EndBroadcast(b)
  <2>1. pc[b] = "users" /\ \A u \in users[b] : clients[u] = None
    BY <1>8 DEF EndBroadcast, NoUserLeft
  <2> QED BY <1>0, <2>1 DEF Coming
<1>9. CASE TakeLock(b)
  BY <1>0, <1>9 DEF TakeLock, Coming
<1> QED
  BY <1>1, <1>2, <1>3, <1>4, <1>5, <1>6, <1>7, <1>8, <1>9 DEF Sending

(* What is under way to a client stays so when another goroutine moves. *)
LEMMA IdleUnderway ==
    ASSUME NEW c \in Conns, NEW m, Underway(c, m), Idle(c),
           clients'[User[c]] = clients[User[c]], \A b \in Broadcasters : Waits(b)
    PROVE  Underway(c, m)'
<1>1. CASE m.n > joined[c] /\ \E b \in Broadcasters : Coming(b, c, m)
  BY <1>1, ComingStays DEF Underway, Idle, Untouched
<1>2. CASE ~(m.n > joined[c] /\ \E b \in Broadcasters : Coming(b, c, m))
  BY <1>2 DEF Underway, Idle, Untouched
<1> QED BY <1>1, <1>2

LEMMA HandlerUnderway ==
    ASSUME BufferInv, NEW c \in Conns, Handler(c), NEW m \in Owed(c), Underway(c, m),
           Served(c), Served(c)', HubInv', ~Store(c),
           clients'[User[c]] = clients[User[c]]
    PROVE  Underway(c, m)'
<1> USE DEF registry, peers, buffers, ranges, history, bounds, Goto
<1>0. /\ HubInv /\ TypeOK /\ IInv /\ IInv' /\ Buffered(c)
      /\ c \in Agents /\ DOMAIN pc = Agents /\ DOMAIN replay = Conns
      /\ received[c] \in Seq(Message) /\ pending[c] \in Seq(Message) /\ replay[c] \in Seq(Message)
      /\ wire[c] = "open" /\ since[c] # "garbage"
  BY Agency DEF BufferInv, HubInv, TypeOK, Served
<1>1. Running(c)
  <2>1. clients[User[c]] \in Conns /\ User[clients[User[c]]] = User[c]
    BY <1>0, Agency DEF IInv, Types, MapsInUse, Reachable, Served
  <2> QED BY <1>0, <2>1 DEF IInv, MembersRun, Reachable, Served
<1>2. Running(c)'
  <2>1. clients'[User[c]] \in Conns /\ User[clients'[User[c]]] = User[c]
    BY <1>0, Agency DEF IInv, Types, MapsInUse, Reachable, Served
  <2> QED BY <1>0, <2>1 DEF IInv, MembersRun, Reachable, Served
<1>3. NothingSent /\ \A b \in Broadcasters : Waits(b)
  BY <1>0, HandlersApart
<1>4. StartReplay(c) \/ ReplayOne(c) \/ StartFlush(c) \/ Flush(c)
  <2>1. ~Leave(c) /\ ~LeaveLast(c)
    BY <1>0, <1>2 DEF Leave, LeaveLast, Unregister, Running
  <2> QED BY <1>1, <2>1 DEF Handler, Connect, LoadOrStore, EvictOld, ForgetOld, Running
<1>5. ASSUME m.n > joined[c], \E b \in Broadcasters : Coming(b, c, m), joined' = joined
      PROVE  Underway(c, m)'
  BY <1>3, <1>5, ComingStays DEF Underway
<1>6. CASE StartReplay(c)
  <2>1. pc'[c] = "replay" /\ replay'[c] = messages
    BY <1>0, <1>6 DEF StartReplay
  <2> QED BY <2>1 DEF Owed, Underway
<1>7. CASE ReplayOne(c)
  <2>1. pc[c] = "replay" /\ replay[c] # <<>> /\ (Passes(c) \/ Replays(c) \/ GivesUp(c))
    BY <1>0, <1>7, ReplaySteps
  <2>2. /\ Head(replay[c]) \in Message
        /\ ToSet(replay[c]) = {Head(replay[c])} \cup ToSet(Tail(replay[c]))
        /\ ToSet(received[c] \o <<Head(replay[c])>>) = ToSet(received[c]) \cup {Head(replay[c])}
    BY <1>0, <2>1, TakenOff, JoinedOne
  <2>3. Mine(c, m)
    BY DEF Owed
  <2>4. CASE Passes(c)
    BY <1>5, <2>1, <2>2, <2>3, <2>4 DEF Passes, Underway
  <2>5. CASE Replays(c)
    BY <1>0, <1>5, <2>1, <2>2, <2>5 DEF Replays, Underway
  <2> QED BY <1>0, <2>1, <2>4, <2>5 DEF GivesUp
<1>8. CASE Flush(c)
  <2>1. Flushes(c)
    BY <1>0, <1>8, FlushSteps
  <2>2. ToSet(received[c] \o pending[c]) = ToSet(received[c]) \cup ToSet(pending[c])
    BY <1>0, Joined
  <2>3. ToSet(<<>>) = {}
    BY DEF ToSet
  <2> QED BY <1>0, <1>5, <2>1, <2>2, <2>3 DEF Flushes, Underway
<1>9. CASE StartFlush(c)
  <2>1. StartsFlush(c)
    BY <1>0, <1>9, StartFlushSteps
  <2>2. ToSet(<<>>) = {}
    BY DEF ToSet
  <2> QED BY <1>5, <2>1, <2>2 DEF StartsFlush, Underway
<1> QED BY <1>4, <1>6, <1>7, <1>8, <1>9

LEMMA SendingUnderway ==
    ASSUME HubInv, OnePerMap, NEW d \in Broadcasters, Sending(d), NEW c \in Conns, NEW m,
           Underway(c, m), Served(c), clients'[User[c]] = clients[User[c]]
    PROVE  Underway(c, m)'
<1>0. /\ TypeOK /\ Reachable(c) /\ wire[c] = "open"
      /\ received[c] \in Seq(Message) /\ pending[c] \in Seq(Message)
  BY DEF HubInv, TypeOK, Served
<1>1. /\ Untouched(c)
      /\ ToSet(received[c]) \subseteq ToSet(received'[c])
      /\ ToSet(pending[c]) \subseteq ToSet(pending'[c])
  <2>1. CASE Idle(c)
    BY <2>1 DEF Idle
  <2>2. ASSUME NEW b \in Broadcasters, PutsAside(b, c)
        PROVE  /\ Untouched(c) /\ received'[c] = received[c]
               /\ ToSet(pending[c]) \subseteq ToSet(pending'[c])
    BY <1>0, <2>2, Appended DEF PutsAside
  <2>3. ASSUME NEW b \in Broadcasters, WritesTo(b, c)
        PROVE  /\ Untouched(c) /\ pending'[c] = pending[c]
               /\ ToSet(received[c]) \subseteq ToSet(received'[c])
    BY <1>0, <2>3, JoinedOne DEF WritesTo
  <2> QED BY <2>1, <2>2, <2>3, BroadcasterEffect
<1>2. CASE m.n > joined[c] /\ \E b \in Broadcasters : Coming(b, c, m)
  <2>1. PICK b \in Broadcasters : Coming(b, c, m)
    BY <1>2
  <2>2. CASE b = d
    BY <1>0, <1>1, <1>2, <2>1, <2>2, ComingArrives DEF Underway, Untouched
  <2>3. CASE b # d
    <3>1. Coming(b, c, m)'
      BY <1>0, <2>1, <2>3, BroadcastersApart, ComingStays
    <3> QED BY <1>1, <1>2, <3>1 DEF Underway, Untouched
  <2> QED BY <2>2, <2>3
<1>3. CASE ~(m.n > joined[c] /\ \E b \in Broadcasters : Coming(b, c, m))
  BY <1>1, <1>3 DEF Underway, Untouched
<1> QED BY <1>2, <1>3

\* A new message is on its way to every client that can be reached.
LEMMA BroadcastComing ==
    ASSUME HubInv, Numbered, NEW b \in Broadcasters, Broadcast(b), NEW c \in Conns,
           Served(c), Served(c)', clients'[User[c]] = clients[User[c]],
           \A m \in Owed(c) : Underway(c, m), NEW m \in Owed(c)'
    PROVE  Underway(c, m)'
<1> USE DEF registry, peers, buffers, ranges, history, bounds, Goto
<1>0. /\ TypeOK /\ b \in Agents /\ DOMAIN pc = Agents /\ DOMAIN users = Agents
      /\ DOMAIN sending = Broadcasters
      /\ sent \in Nat /\ joined[c] \in Nat /\ joined[c] <= sent
      /\ messages \in Seq(Message) /\ User[c] \in Users /\ clients[User[c]] # None
  BY Agency DEF HubInv, TypeOK, Numbered, Served, Reachable
<1>1. PICK to \in Targets :
        /\ sending' = [sending EXCEPT ![b] = [n |-> sent', to |-> to]]
        /\ messages' = Append(messages, [n |-> sent', to |-> to])
        /\ IF to = Everyone THEN RangeUsers(b) ELSE users' = [users EXCEPT ![b] = {to}]
  BY DEF Broadcast
<1>2. /\ pc[b] = "idle" /\ pc'[b] = "users" /\ sent' = sent + 1 /\ sent' \in 1 .. MaxMessages
      /\ UNCHANGED <<joined, since>>
  BY <1>0, ConstantsAssumption DEF Broadcast
<1>3. [n |-> sent', to |-> to] \in Message
  BY <1>2, ConstantsAssumption DEF Message
<1>4. ToSet(messages') = ToSet(messages) \cup {[n |-> sent', to |-> to]}
  BY <1>0, <1>1, <1>3, Appended
<1>5. CASE m \in ToSet(messages)
  <2>1. m \in Owed(c)
    BY <1>2, <1>5 DEF Owed, Mine
  <2>2. Underway(c, m) /\ Idle(c)
    <3>1. ~Buffer(b) /\ ~Write(b)
      BY <1>2 DEF Buffer, Write, VisitClient
    <3> QED BY <2>1, <3>1, BroadcasterEffect
  <2>3. ~Coming(b, c, m)
    BY <1>2 DEF Coming
  <2>4. CASE m.n > joined[c] /\ \E d \in Broadcasters : Coming(d, c, m)
    <3>1. PICK d \in Broadcasters \ {b} : Coming(d, c, m)
      BY <2>3, <2>4
    <3>2. Coming(d, c, m)'
      BY <1>0, <3>1, BroadcastersApart, ComingStays
    <3> QED BY <1>2, <2>4, <3>2 DEF Underway
  <2>5. CASE ~(m.n > joined[c] /\ \E d \in Broadcasters : Coming(d, c, m))
    BY <2>2, <2>5 DEF Underway, Idle, Untouched
  <2> QED BY <2>4, <2>5
<1>6. CASE m \notin ToSet(messages)
  <2>1. m = [n |-> sent', to |-> to] /\ Mine(c, m)
    BY <1>4, <1>6 DEF Owed, Mine
  <2>2. m.n > joined'[c] /\ sending'[b] = m
    BY <1>0, <1>1, <1>2, <2>1
  <2>3. User[c] \in users'[b]
    <3>1. CASE to = Everyone
      BY <1>0, <1>1, <3>1 DEF RangeUsers
    <3>2. CASE to # Everyone
      <4>1. to = User[c]
        BY <2>1, <3>2 DEF Mine
      <4> QED BY <1>0, <1>1, <3>2, <4>1
    <3> QED BY <3>1, <3>2
  <2>4. Coming(b, c, m)'
    BY <1>2, <2>2, <2>3 DEF Coming
  <2> QED BY <2>2, <2>4 DEF Underway
<1> QED BY <1>5, <1>6

StreamInv == BufferInv /\ Numbered /\ \A c \in Conns : NoneMissed(c)

LEMMA StreamInductive == StreamInv /\ OnePerMap /\ [Next]_vars => StreamInv'
<1> SUFFICES ASSUME StreamInv, OnePerMap, [Next]_vars PROVE StreamInv'
  OBVIOUS
<1>0. /\ BufferInv /\ BufferInv' /\ HubInv /\ HubInv' /\ TypeOK /\ Numbered
      /\ \A c \in Conns : NoneMissed(c)
  BY BufferInductive DEF StreamInv, BufferInv, HubInv
<1>1. Numbered'
  BY <1>0, NumberedStep
<1>2. ASSUME NEW c \in Conns, Served(c)', NEW m \in Owed(c)' PROVE Underway(c, m)'
  <2> USE DEF registry, peers, buffers, ranges, history, bounds, Goto
  <2>1. CASE Store(c)
    <3>1. /\ pc'[c] = IF since[c] = "none" THEN "reading" ELSE "since"
          /\ joined'[c] = sent /\ UNCHANGED <<messages, since>>
      BY <1>0, <2>1, Agency DEF Store, TypeOK
    <3>2. since[c] \in {"none", "all"}
      BY <1>0, <1>2, <3>1 DEF Served, TypeOK
    <3>3. since[c] = "all"
      <4>1. m \in ToSet(messages) /\ m.n <= sent
        BY <1>0, <1>2, <3>1 DEF Owed, Numbered
      <4>2. m.n \in Nat /\ sent \in Nat
        <5>1. m \in Message
          BY <1>0, <4>1 DEF ToSet, TypeOK
        <5> QED BY <1>0, <5>1, ConstantsAssumption DEF Message, TypeOK
      <4> QED BY <1>2, <3>1, <3>2, <4>1, <4>2 DEF Owed
    <3> QED BY <3>1, <3>3 DEF Underway
  <2>2. CASE ~Store(c)
    <3>1. /\ Served(c) /\ clients'[User[c]] = clients[User[c]]
          /\ since'[c] = since[c] /\ joined'[c] = joined[c]
      BY <1>0, <1>2, <2>2, ServedBefore
    <3>2. \A x \in Owed(c) : Underway(c, x)
      BY <1>0, <3>1 DEF NoneMissed
    <3>3. ASSUME messages' = messages \/ messages' = <<>>
          PROVE  m \in Owed(c) /\ Underway(c, m)
      <4>1. ToSet(<<>>) = {}
        BY DEF ToSet
      <4>2. m \in ToSet(messages)
        BY <1>2, <3>3, <4>1 DEF Owed
      <4>3. m \in Owed(c)
        BY <1>2, <3>1, <4>2 DEF Owed, Mine
      <4> QED BY <3>2, <4>3
    <3>4. CASE Handler(c)
      <4>1. messages' = messages
        BY <1>0, <3>4, HandlersApart DEF NothingSent
      <4> QED BY <1>0, <1>2, <2>2, <3>1, <3>3, <3>4, <4>1, HandlerUnderway
    <3>5. CASE \E d \in Conns \ {c} : Handler(d)
      <4>1. PICK d \in Conns \ {c} : Handler(d)
        BY <3>5
      <4>2. messages' = messages /\ Idle(c) /\ \A b \in Broadcasters : Waits(b)
        BY <1>0, <4>1, HandlersApart, HandlerEffect DEF NothingSent
      <4> QED BY <3>1, <3>3, <4>2, IdleUnderway
    <3>6. CASE \E b \in Broadcasters : Broadcast(b)
      BY <1>0, <1>2, <3>1, <3>2, <3>6, BroadcastComing
    <3>7. CASE \E b \in Broadcasters : Sending(b)
      <4>1. PICK b \in Broadcasters : Sending(b)
        BY <3>7
      <4>2. messages' = messages
        BY <1>0, <4>1, BroadcastersApart
      <4> QED BY <1>0, <3>1, <3>3, <4>1, <4>2, SendingUnderway
    <3>8. CASE \/ ClearMessages \/ DisconnectAll \/ Disconnecting \/ UNCHANGED vars
               \/ \E d \in Conns : PeerGone(d) \/ PeerStalls(d) \/ PingFails(d)
      <4>1. /\ messages' = messages \/ messages' = <<>>
            /\ \A b \in Broadcasters : Waits(b)
        BY <1>0, <3>8, OthersApart
      <4>2. Idle(c)
        BY <1>0, <3>8, OtherEffect
      <4> QED BY <3>1, <3>3, <4>1, <4>2, IdleUnderway
    <3> QED BY <3>4, <3>5, <3>6, <3>7, <3>8 DEF Next
  <2> QED BY <2>1, <2>2
<1> QED BY <1>0, <1>1, <1>2 DEF StreamInv, NoneMissed

LEMMA StreamInitially == Init => StreamInv
<1> SUFFICES ASSUME Init PROVE StreamInv
  OBVIOUS
<1>1. ToSet(<<>>) = {}
  BY DEF ToSet
<1>2. Numbered
  BY <1>1 DEF Init, Numbered
<1>3. \A c \in Conns : ~Served(c)
  BY DEF Init, Served
<1> QED BY <1>2, <1>3, BufferInitially DEF StreamInv, NoneMissed

LEMMA StreamComplete == StreamInv => CompleteStream
<1> SUFFICES ASSUME StreamInv PROVE CompleteStream
  OBVIOUS
<1>1. ASSUME NEW c \in Conns, NEW i \in DOMAIN received[c] PROVE Mine(c, received[c][i])
  BY <1>1 DEF StreamInv, BufferInv, Buffered, OnlyMine, ToSet
<1>2. ASSUME \A b \in Broadcasters : pc[b] = "idle", NEW c \in Conns, pc[c] = "reading",
             since[c] # "garbage", wire[c] = "open", Reachable(c), NEW m \in Owed(c)
      PROVE  m \in ToSet(received[c])
  <2>1. Underway(c, m)
    BY <1>2 DEF StreamInv, NoneMissed, Served
  <2>2. \A b \in Broadcasters : ~Coming(b, c, m)
    BY <1>2 DEF Coming
  <2>3. pending[c] = <<>>
    BY <1>2 DEF StreamInv, BufferInv, Buffered, BufferOf
  <2>4. ToSet(<<>>) = {}
    BY DEF ToSet
  <2> QED BY <1>2, <2>1, <2>2, <2>3, <2>4 DEF Underway
<1> QED BY <1>1, <1>2 DEF CompleteStream

(* Between the copy of the messages, the buffer and the direct writes no   *)
(* message is lost, for any number of users, messages and goroutines that  *)
(* broadcast, with DisconnectAll and ClearMessages at any moment, as long  *)
(* as no user has two connections registered at once.                      *)
THEOREM StreamAlwaysComplete == Spec /\ []OnePerMap => []CompleteStream
<1> QED BY StreamInitially, StreamInductive, StreamComplete, PTL DEF Spec

(* So it is without a condition where a user connects once: two            *)
(* connections in one inner map are connections of one user.               *)
COROLLARY CompleteIfConnectedOnce ==
    ASSUME \A c \in Conns, d \in Conns : User[c] = User[d] => c = d
    PROVE  Spec => []CompleteStream
<1>1. IInv => OnePerMap
  BY DEF IInv, Types, MembersRun, OnePerMap
<1>2. Spec => []OnePerMap
  BY <1>1, Initially, Inductive, PTL DEF Spec
<1> QED BY <1>2, StreamAlwaysComplete, PTL

-----------------------------------------------------------------------------
(* One writer at a time, on the hubs that one goroutine broadcasts on and  *)
(* until DisconnectAll: a client is syncing from before it can be found    *)
(* until its handler writes no more.                                       *)

\* Syncing is set when a replay is ahead, and reset before the flush.
Armed(c) ==
    /\ pc[c] \in {"load", "evict", "forget", "store"} => since[c] = "none" \/ syncing[c]
    /\ pc[c] \in {"since", "replay"} => syncing[c]
    /\ pc[c] = "flush" => ~syncing[c]

\* Whom a broadcaster writes to was not syncing, and will not be again; its
\* flush, if there was one, has released syncLock.
Writing(b) ==
    /\ pc[b] \in {"conns", "lock", "write", "drop", "close"} => map[b] \in Conns
    /\ pc[b] \in {"lock", "write"} => /\ current[b] \in Conns
                                    /\ pc[current[b]] # "idle"
                                    /\ ~syncing[current[b]]
    /\ pc[b] = "write" => pc[current[b]] # "flush"

WInv ==
    /\ \A c \in Conns : pc[c] \in HandlerPC /\ Armed(c)
    /\ \A b \in Broadcasters : Writing(b)

LEMMA WritersInitially == Init => WInv
BY Agency DEF Init, WInv, Armed, Writing, HandlerPC

\* A step of the handler of c.
HandlerStep(c) ==
    /\ \A a \in Agents \ {c} : pc'[a] = pc[a] /\ current'[a] = current[a] /\ map'[a] = map[a]
    /\ \A d \in Conns \ {c} : syncing'[d] = syncing[d] /\ since'[d] = since[d]
    /\ pc'[c] \in HandlerPC \ {"idle"}
    /\ pc'[c] = "flush" => pc[c] = "replay"
    /\ pc[c] = "idle" \/ syncing'[c] = FALSE \/ syncing'[c] = syncing[c]
    /\ Armed(c)'

LEMMA HandlerSteps ==
    ASSUME WInv, NEW c \in Conns, HandlerStep(c)
    PROVE  WInv'
<1>1. \A d \in Conns : pc'[d] \in HandlerPC /\ Armed(d)'
  <2> TAKE d \in Conns
  <2>1. CASE d = c
    BY <2>1 DEF HandlerStep
  <2>2. CASE d # c
    <3>1. /\ pc'[d] = pc[d] /\ syncing'[d] = syncing[d] /\ since'[d] = since[d]
          /\ pc[d] \in HandlerPC /\ Armed(d)
      BY <2>2, Agency DEF HandlerStep, WInv
    <3> QED
      BY <3>1 DEF Armed
  <2> QED
    BY <2>1, <2>2
<1>2. \A b \in Broadcasters : Writing(b)'
  <2> TAKE b \in Broadcasters
  <2>1. /\ pc'[b] = pc[b] /\ current'[b] = current[b] /\ map'[b] = map[b]
        /\ Writing(b)
    BY Agency DEF HandlerStep, WInv
  <2>2. \A d \in Conns : pc[d] # "idle" /\ ~syncing[d] => pc'[d] # "idle" /\ ~syncing'[d]
    BY Agency DEF HandlerStep
  <2>3. \A d \in Conns : ~syncing[d] /\ pc[d] # "flush" => pc'[d] # "flush"
    BY Agency DEF HandlerStep, WInv, Armed
  <2> QED
    BY <2>1, <2>2, <2>3 DEF Writing
<1> QED
  BY <1>1, <1>2, Agency DEF HandlerStep, WInv

LEMMA HandlersWrite ==
    ASSUME TypeOK, WInv, NEW c \in Conns, Handler(c)
    PROVE  WInv'
<1> USE DEF registry, peers, buffers, ranges, history, bounds, Goto
<1>0. /\ c \in Agents /\ DOMAIN pc = Agents /\ DOMAIN map = Agents
      /\ DOMAIN current = Agents /\ DOMAIN syncing = Conns /\ DOMAIN since = Conns
      /\ Armed(c)
  BY Agency DEF TypeOK, WInv
<1>1. CASE Connect(c)
  BY <1>0, <1>1, HandlerSteps DEF Connect, HandlerStep, Armed, HandlerPC
<1>2. CASE LoadOrStore(c)
  BY <1>0, <1>2, HandlerSteps DEF LoadOrStore, RangeOver, HandlerStep, Armed, HandlerPC
<1>3. CASE EvictOld(c)
  BY <1>0, <1>3, HandlerSteps DEF EvictOld, HandlerStep, Armed, HandlerPC
<1>4. CASE ForgetOld(c)
  BY <1>0, <1>4, HandlerSteps DEF ForgetOld, HandlerStep, Armed, HandlerPC
<1>5. CASE Store(c)
  BY <1>0, <1>5, HandlerSteps DEF Store, HandlerStep, Armed, HandlerPC
<1>6. CASE StartReplay(c)
  BY <1>0, <1>6, HandlerSteps DEF StartReplay, HandlerStep, Armed, HandlerPC
<1>7. CASE ReplayOne(c)
  BY <1>0, <1>7, HandlerSteps DEF ReplayOne, HandlerStep, Armed, HandlerPC
<1>8. CASE Flush(c)
  BY <1>0, <1>8, HandlerSteps DEF Flush, HandlerStep, Armed, HandlerPC
<1>11. CASE StartFlush(c)
  BY <1>0, <1>11, HandlerSteps DEF StartFlush, HandlerStep, Armed, HandlerPC
<1>9. CASE Leave(c)
  BY <1>0, <1>9, HandlerSteps DEF Leave, Unregister, HandlerStep, Armed, HandlerPC
<1>10. CASE LeaveLast(c)
  BY <1>0, <1>10, HandlerSteps DEF LeaveLast, HandlerStep, Armed, HandlerPC
<1> QED
  BY <1>1, <1>2, <1>3, <1>4, <1>5, <1>6, <1>7, <1>8, <1>9, <1>10, <1>11 DEF Handler

\* A step of a broadcaster.
BroadcasterStep(b) ==
    /\ \A a \in Agents \ {b} : pc'[a] = pc[a] /\ current'[a] = current[a] /\ map'[a] = map[a]
    /\ UNCHANGED <<syncing, since>>
    /\ Writing(b)'

LEMMA BroadcasterSteps ==
    ASSUME WInv, NEW b \in Broadcasters, BroadcasterStep(b)
    PROVE  WInv'
<1>1. \A c \in Conns : pc'[c] = pc[c]
  BY Agency DEF BroadcasterStep
<1>2. \A c \in Conns : pc'[c] \in HandlerPC /\ Armed(c)'
  BY <1>1 DEF BroadcasterStep, WInv, Armed
<1>3. \A d \in Broadcasters : Writing(d)'
  <2> TAKE d \in Broadcasters
  <2>1. CASE d = b
    BY <2>1 DEF BroadcasterStep
  <2>2. CASE d # b
    <3>1. /\ pc'[d] = pc[d] /\ current'[d] = current[d] /\ map'[d] = map[d]
          /\ Writing(d)
      BY <2>2, Agency DEF BroadcasterStep, WInv
    <3> QED
      BY <1>1, <3>1 DEF Writing, BroadcasterStep
  <2> QED
    BY <2>1, <2>2
<1> QED
  BY <1>2, <1>3 DEF WInv

LEMMA BroadcastersWrite ==
    ASSUME HubInv, WInv, NEW b \in Broadcasters, Broadcast(b) \/ Sending(b)
    PROVE  WInv'
<1> USE DEF registry, peers, buffers, ranges, history, bounds, Goto
<1>0. /\ b \in Agents /\ DOMAIN pc = Agents /\ DOMAIN map = Agents /\ DOMAIN current = Agents
      /\ Writing(b) /\ IInv /\ UsersTyped
  BY Agency DEF HubInv, TypeOK, WInv
<1>1. CASE Broadcast(b)
  BY <1>0, <1>1, BroadcasterSteps DEF Broadcast, BroadcasterStep, Writing
<1>2. CASE VisitUser(b)
  <2>1. PICK u \in users[b] : clients[u] # None /\ RangeOver(b, clients[u])
    BY <1>2 DEF VisitUser
  <2>2. clients[u] \in Conns
    BY <1>0, <2>1 DEF UsersTyped, IInv, Types
  <2> QED
    BY <1>0, <1>2, <2>1, <2>2, BroadcasterSteps DEF VisitUser, RangeOver, BroadcasterStep, Writing
<1>3. CASE EndConns(b)
  BY <1>0, <1>3, BroadcasterSteps DEF EndConns, RangeEnds, BroadcasterStep, Writing
<1>4. CASE Buffer(b)
  BY <1>0, <1>4, BroadcasterSteps DEF Buffer, VisitClient, BroadcasterStep, Writing
<1>5. CASE PrepareWrite(b) \/ AwaitLock(b)
  <2>1. PICK c \in left[b] : /\ VisitClient(b, c)
                            /\ current' = [current EXCEPT ![b] = c]
                            /\ \/ /\ ~syncing[c] /\ pc[c] # "flush"
                                  /\ pc' = [pc EXCEPT ![b] = "write"]
                               \/ pc[c] = "flush" /\ pc' = [pc EXCEPT ![b] = "lock"]
    BY <1>5 DEF PrepareWrite, AwaitLock
  <2>2. map[b] \in Conns /\ map' = map
    BY <1>0, <2>1 DEF VisitClient, Writing
  <2>3. c \in members[map[b]]
    BY <2>1 DEF VisitClient, Visitable
  <2>4. c \in Conns /\ pc[c] # "idle"
    BY <1>0, <2>2, <2>3 DEF IInv, Types, MembersRun, Running, Leaving
  <2>5. pc'[c] = pc[c] /\ ~syncing'[c] /\ UNCHANGED <<syncing, since>>
    BY <1>0, <2>1, <2>4, Agency DEF VisitClient, WInv, Armed
  <2>6. Writing(b)'
    BY <1>0, <2>1, <2>2, <2>4, <2>5 DEF Writing
  <2> QED
    BY <1>0, <2>1, <2>2, <2>5, <2>6, BroadcasterSteps DEF BroadcasterStep
<1>6. CASE Write(b)
  BY <1>0, <1>6, BroadcasterSteps DEF Write, BroadcasterStep, Writing
<1>7. CASE WriteFails(b)
  BY <1>0, <1>7, BroadcasterSteps DEF WriteFails, Unregister, BroadcasterStep, Writing
<1>8. CASE DropLast(b)
  BY <1>0, <1>8, BroadcasterSteps DEF DropLast, BroadcasterStep, Writing
<1>9. CASE CloseFailed(b)
  BY <1>0, <1>9, BroadcasterSteps DEF CloseFailed, RangeEnds, BroadcasterStep, Writing
<1>10. CASE EndBroadcast(b)
  BY <1>0, <1>10, BroadcasterSteps DEF EndBroadcast, BroadcasterStep, Writing
<1>11. CASE TakeLock(b)
  <2>1. current[b] \in Conns /\ pc'[current[b]] = pc[current[b]]
    BY <1>0, <1>11, Agency DEF TakeLock, Writing
  <2> QED
    BY <1>0, <1>11, <2>1, BroadcasterSteps DEF TakeLock, BroadcasterStep, Writing
<1> QED
  BY <1>1, <1>2, <1>3, <1>4, <1>5, <1>6, <1>7, <1>8, <1>9, <1>10, <1>11 DEF Sending

LEMMA WritersInductive == HubInv /\ WInv /\ [Next]_vars => WInv'
<1> SUFFICES ASSUME HubInv, WInv, [Next]_vars PROVE WInv'
  OBVIOUS
<1>0. TypeOK
  BY DEF HubInv
<1>1. CASE \/ ClearMessages \/ DisconnectAll \/ Disconnecting \/ UNCHANGED vars
           \/ \E c \in Conns : PeerGone(c) \/ PeerStalls(c) \/ PingFails(c)
  <2>1. /\ \A b \in Broadcasters : Waits(b)
        /\ \A c \in Conns : pc'[c] = pc[c]
        /\ UNCHANGED <<since, syncing>>
    BY <1>0, <1>1, OthersApart
  <2>2. \A b \in Broadcasters : Writing(b)'
    BY <2>1 DEF WInv, Writing, Waits
  <2> QED BY <2>1, <2>2 DEF WInv, Armed
<1> QED BY <1>0, <1>1, HandlersWrite, BroadcastersWrite DEF Next

\* Until DisconnectAll is called for the first time.
NoClosing == pc[Timer] = "idle" /\ closings = 0

LEMMA NeverClosing ==
    ASSUME MaxClosings = 0
    PROVE  TypeOK /\ NoClosing /\ [Next]_vars => NoClosing'
<1> SUFFICES ASSUME TypeOK, NoClosing, [Next]_vars PROVE NoClosing'
  OBVIOUS
<1> USE DEF bounds, Goto
<1>0. Timer \in Agents \ Conns /\ Timer \notin Broadcasters /\ DOMAIN pc = Agents
  BY Agency, ConstantsAssumption DEF TypeOK
<1>1. ASSUME NEW c \in Conns, Handler(c) PROVE NoClosing'
  BY <1>0, <1>1 DEF NoClosing, Handler, Connect, LoadOrStore, EvictOld, ForgetOld, Store,
     StartReplay, ReplayOne, StartFlush, Flush, Leave, Unregister, LeaveLast
<1>2. ASSUME NEW b \in Broadcasters, Broadcast(b) \/ Sending(b) PROVE NoClosing'
  BY <1>0, <1>2 DEF NoClosing, Broadcast, Sending, VisitUser, EndConns, Buffer, PrepareWrite, AwaitLock, TakeLock,
     VisitClient, Write, WriteFails, Unregister, DropLast, CloseFailed, EndBroadcast
<1>3. ~DisconnectAll /\ ~Disconnecting
  BY DEF NoClosing, DisconnectAll, Disconnecting, VisitUser, EndConns, PickClient, VisitClient,
     WriteClose, CloseClient, ResetClients, NoUserLeft
<1>4. CASE UNCHANGED vars \/ ClearMessages \/ \E c \in Conns : PeerGone(c) \/ PeerStalls(c) \/ PingFails(c)
  BY <1>4 DEF NoClosing, vars, ClearMessages, PeerGone, PeerStalls, PingFails
<1> QED BY <1>1, <1>2, <1>3, <1>4 DEF Next

(* No two goroutines write to a connection at the same time, for any       *)
(* number of connections: Syncing keeps the one broadcaster away while a   *)
(* handler replays, and syncLock while it flushes (WSHub.go:127, 199, 232).*)
THEOREM AlwaysOneWriter ==
    ASSUME MaxClosings = 0, NEW engine, Broadcasters = {engine}
    PROVE  Spec => []OneWriter
<1>1. ASSUME WInv, NoClosing
      PROVE  OneWriter
  <2> SUFFICES ASSUME NEW c \in Conns
               PROVE  Cardinality(Writers(c)) <= 1
    BY DEF OneWriter
  <2>1. \E x : Writers(c) \subseteq {x}
    <3>1. \A a \in Writers(c) :
             \/ a = c /\ pc[c] \in {"replay", "flush"}
             \/ a = engine /\ pc[engine] = "write" /\ current[engine] = c
      <4> SUFFICES ASSUME NEW a \in Writers(c), a # c
                   PROVE  a = engine /\ pc[engine] = "write" /\ current[engine] = c
        BY DEF Writers
      <4>1. a \in Agents /\ current[a] = c /\ pc[a] = "write"
        BY DEF Writers
      <4>2. a \notin Conns /\ a # Timer
        BY <1>1, <4>1 DEF WInv, NoClosing, HandlerPC
      <4> QED
        BY <4>1, <4>2 DEF Agents
    <3>2. ~(pc[c] \in {"replay", "flush"} /\ pc[engine] = "write" /\ current[engine] = c)
      BY <1>1 DEF WInv, Armed, Writing
    <3> QED
      BY <3>1, <3>2
  <2>2. PICK x : Writers(c) \subseteq {x}
    BY <2>1
  <2>3. IsFiniteSet({x}) /\ Cardinality({x}) = 1
    BY FS_Singleton
  <2>4. Cardinality(Writers(c)) <= Cardinality({x})
    BY <2>2, <2>3, FS_Subset
  <2> QED
    BY <2>3, <2>4
<1>2. Init => NoClosing
  BY Agency DEF Init, NoClosing
<1>3. HubInv => TypeOK
  BY DEF HubInv
<1> QED
  BY <1>1, <1>2, <1>3, HubInitially, HubInductive, WritersInitially, WritersInductive,
     NeverClosing, PTL DEF Spec

-----------------------------------------------------------------------------
(* What is new is newer.  The argument needs one broadcaster: the message  *)
(* it is sending is then the newest there is.                              *)

OneBroadcaster == \A b \in Broadcasters, d \in Broadcasters : b = d

\* A message that was sent before, or is being sent.
Dated(m) ==
    /\ m \in Message /\ m.n <= sent
    /\ \A b \in Broadcasters : pc[b] # "idle" /\ m.n = sent => m = sending[b]

Ascending(s) == \A i \in DOMAIN s, j \in DOMAIN s : i < j => s[i].n < s[j].n

Newer(m, S) == \A x \in S : x.n < m.n

\* A stream of which each message is a repetition, newer than all before it,
\* or no longer in the log.
Fresh(s, log) ==
    \A j \in DOMAIN s : \/ \E i \in 1 .. j - 1 : s[i] = s[j]
                        \/ \A i \in 1 .. j - 1 : s[i].n < s[j].n
                        \/ s[j] \notin log

LEMMA FreshJoined ==
    ASSUME NEW S, NEW s \in Seq(S), NEW t \in Seq(S), NEW log,
           Fresh(s, log), Fresh(t, log),
           \A p \in ToSet(t) : p \in ToSet(s) \/ p \notin log \/ Newer(p, ToSet(s))
    PROVE  Fresh(s \o t, log)
<1> DEFINE w == s \o t
<1>1. /\ w \in Seq(S) /\ Len(w) = Len(s) + Len(t)
      /\ \A i \in 1 .. Len(s) + Len(t) : w[i] = IF i <= Len(s) THEN s[i] ELSE t[i - Len(s)]
  BY ConcatProperties
<1>2. /\ DOMAIN s = 1 .. Len(s) /\ DOMAIN t = 1 .. Len(t) /\ DOMAIN w = 1 .. Len(w)
      /\ Len(s) \in Nat /\ Len(t) \in Nat
  BY <1>1
<1> HIDE DEF w
<1>3. /\ \A i \in DOMAIN s : i \in DOMAIN w /\ w[i] = s[i]
      /\ \A i \in DOMAIN t : i + Len(s) \in DOMAIN w /\ w[i + Len(s)] = t[i]
      /\ \A i \in DOMAIN w : i \notin DOMAIN s => i - Len(s) \in DOMAIN t /\ w[i] = t[i - Len(s)]
  BY <1>1, <1>2
<1>4. ASSUME NEW j \in DOMAIN w
      PROVE  \/ \E i \in 1 .. j - 1 : w[i] = w[j]
             \/ \A i \in 1 .. j - 1 : w[i].n < w[j].n
             \/ w[j] \notin log
  <2>1. CASE j \in DOMAIN s
    <3>1. \A i \in 1 .. j - 1 : i \in DOMAIN s
      BY <1>2, <2>1
    <3>2. w[j] = s[j] /\ \A i \in 1 .. j - 1 : w[i] = s[i]
      BY <1>3, <2>1, <3>1
    <3> QED BY <2>1, <3>2 DEF Fresh
  <2>2. CASE j \notin DOMAIN s
    <3> DEFINE k == j - Len(s)
    <3>1. k \in DOMAIN t /\ w[j] = t[k] /\ j \in Nat /\ j = k + Len(s) /\ k >= 1
      BY <1>2, <1>3, <2>2
    <3>2. t[k] \in ToSet(t)
      BY <3>1 DEF ToSet
    <3>3. CASE t[k] \in ToSet(s)
      <4>1. PICK i \in DOMAIN s : s[i] = t[k]
        BY <3>3 DEF ToSet
      <4>2. i \in 1 .. j - 1 /\ w[i] = w[j]
        BY <1>2, <1>3, <3>1, <4>1
      <4> QED BY <4>2
    <3>4. CASE Newer(t[k], ToSet(s))
      <4>1. CASE \E i \in 1 .. k - 1 : t[i] = t[k]
        <5>1. PICK i \in 1 .. k - 1 : t[i] = t[k]
          BY <4>1
        <5>2. i \in DOMAIN t /\ i + Len(s) \in 1 .. j - 1
          BY <1>2, <3>1
        <5>3. w[i + Len(s)] = w[j]
          BY <1>3, <3>1, <5>1, <5>2
        <5> QED BY <5>2, <5>3
      <4>2. CASE \A i \in 1 .. k - 1 : t[i].n < t[k].n
        <5>1. ASSUME NEW i \in 1 .. j - 1 PROVE w[i].n < w[j].n
          <6>1. i \in DOMAIN w
            BY <1>2, <5>1
          <6>2. CASE i \in DOMAIN s
            <7>1. w[i] = s[i] /\ s[i] \in ToSet(s)
              BY <1>3, <6>2 DEF ToSet
            <7> QED BY <3>1, <3>4, <7>1 DEF Newer
          <6>3. CASE i \notin DOMAIN s
            <7>1. i - Len(s) \in DOMAIN t /\ w[i] = t[i - Len(s)]
              BY <1>3, <6>1, <6>3
            <7>2. i - Len(s) \in 1 .. k - 1
              BY <1>2, <3>1, <5>1, <7>1
            <7> QED BY <3>1, <4>2, <7>1, <7>2
          <6> QED BY <6>2, <6>3
        <5> QED BY <5>1
      <4>3. CASE t[k] \notin log
        BY <3>1, <4>3
      <4> QED BY <3>1, <4>1, <4>2, <4>3 DEF Fresh
    <3>5. CASE t[k] \notin log
      BY <3>1, <3>5
    <3> QED BY <3>2, <3>3, <3>4, <3>5
  <2> QED BY <2>1, <2>2
<1>5. Fresh(w, log)
  BY <1>4 DEF Fresh
<1> QED BY <1>5 DEF w

LEMMA FreshWithOne ==
    ASSUME NEW s \in Seq(Message), NEW m \in Message, NEW log, Fresh(s, log),
           m \in ToSet(s) \/ Newer(m, ToSet(s))
    PROVE  Fresh(s \o <<m>>, log)
<1>1. <<m>> \in Seq(Message) /\ DOMAIN <<m>> = {1} /\ <<m>>[1] = m
  OBVIOUS
<1>2. Fresh(<<m>>, log)
  BY <1>1 DEF Fresh
<1>3. \A p \in ToSet(<<m>>) : p = m
  BY <1>1 DEF ToSet
<1> QED BY <1>1, <1>2, <1>3, FreshJoined

LEMMA FreshLater ==
    ASSUME NEW S, NEW s \in Seq(S), NEW log, NEW next, Fresh(s, log),
           \A m \in ToSet(s) : m \notin log => m \notin next
    PROVE  Fresh(s, next)
<1>1. \A j \in DOMAIN s : s[j] \in ToSet(s)
  BY DEF ToSet
<1> QED BY <1>1 DEF Fresh

LEMMA AscendingTail ==
    ASSUME NEW S, NEW s \in Seq(S), s # <<>>, Ascending(s)
    PROVE  /\ Ascending(Tail(s))
           /\ \A m \in ToSet(Tail(s)) : Head(s).n < m.n
<1> DEFINE w == Tail(s)
<1>1. /\ w \in Seq(S) /\ Len(w) = Len(s) - 1
      /\ \A i \in 1 .. Len(w) : w[i] = s[i + 1]
  BY HeadTailProperties
<1>2. /\ DOMAIN s = 1 .. Len(s) /\ DOMAIN w = 1 .. Len(w)
      /\ Len(s) \in Nat \ {0} /\ Head(s) = s[1]
  BY <1>1, EmptySeq
<1> HIDE DEF w
<1>3. \A i \in DOMAIN w : i \in Nat /\ i >= 1 /\ i + 1 \in DOMAIN s /\ w[i] = s[i + 1]
  BY <1>1, <1>2
<1>4. Ascending(w)
  BY <1>3 DEF Ascending
<1>5. 1 \in DOMAIN s /\ \A i \in DOMAIN w : s[1].n < w[i].n
  BY <1>2, <1>3 DEF Ascending
<1> QED BY <1>2, <1>4, <1>5 DEF ToSet, w

LEMMA AscendingAppend ==
    ASSUME NEW S, NEW s \in Seq(S), NEW m \in S, Ascending(s), Newer(m, ToSet(s))
    PROVE  Ascending(Append(s, m))
<1> DEFINE w == Append(s, m)
<1>1. /\ w \in Seq(S) /\ Len(w) = Len(s) + 1 /\ w[Len(s) + 1] = m
      /\ \A i \in 1 .. Len(s) : w[i] = s[i]
  BY AppendProperties
<1>2. DOMAIN s = 1 .. Len(s) /\ DOMAIN w = 1 .. Len(s) + 1 /\ Len(s) \in Nat
  BY <1>1
<1> HIDE DEF w
<1>3. ASSUME NEW i \in DOMAIN w, NEW j \in DOMAIN w, i < j PROVE w[i].n < w[j].n
  <2>1. i \in DOMAIN s /\ w[i] = s[i] /\ s[i] \in ToSet(s)
    BY <1>1, <1>2, <1>3 DEF ToSet
  <2>2. CASE j \in DOMAIN s
    BY <1>1, <1>2, <1>3, <2>1, <2>2 DEF Ascending
  <2>3. CASE j \notin DOMAIN s
    BY <1>1, <1>2, <2>1, <2>3 DEF Newer
  <2> QED BY <2>2, <2>3
<1>4. Ascending(w)
  BY <1>3 DEF Ascending
<1> QED BY <1>4 DEF w

-----------------------------------------------------------------------------
LogOrder ==
    /\ Ascending(messages)
    /\ \A m \in ToSet(messages) : Dated(m)
    /\ \A b \in Broadcasters : pc[b] # "idle" => sending[b].n = sent

LEMMA MessageNumbers == \A m \in Message : m.n \in Nat
BY ConstantsAssumption DEF Message

LEMMA BroadcastStep ==
    ASSUME HubInv, NEW b \in Broadcasters, Broadcast(b)
    PROVE  \E m \in Message :
              /\ m.n = sent' /\ sent' = sent + 1 /\ sent \in Nat
              /\ messages' = Append(messages, m) /\ sending'[b] = m
<1>0. TypeOK /\ sent \in Nat /\ DOMAIN sending = Broadcasters
  BY DEF HubInv, TypeOK
<1>1. PICK to \in Targets :
        /\ sending' = [sending EXCEPT ![b] = [n |-> sent', to |-> to]]
        /\ messages' = Append(messages, [n |-> sent', to |-> to])
  BY DEF Broadcast
<1>2. sent' = sent + 1 /\ sent' \in 1 .. MaxMessages
  BY <1>0, ConstantsAssumption DEF Broadcast
<1>3. [n |-> sent', to |-> to] \in Message
  BY <1>2, ConstantsAssumption DEF Message
<1> QED BY <1>0, <1>1, <1>2, <1>3

\* The position of a broadcaster and what it sends, as far as the age of
\* messages is concerned.
LEMMA SendersStep ==
    ASSUME HubInv, [Next]_vars, ~\E d \in Broadcasters : Broadcast(d)
    PROVE  /\ sent' = sent /\ messages' \in {messages, <<>>}
           /\ \A b \in Broadcasters : pc'[b] # "idle" => pc[b] # "idle" /\ sending'[b] = sending[b]
<1>0. TypeOK
  BY DEF HubInv
<1>1. CASE \E c \in Conns : Handler(c)
  BY <1>0, <1>1, HandlersApart DEF NothingSent, Waits
<1>2. CASE \E b \in Broadcasters : Sending(b)
  <2>1. PICK d \in Broadcasters : Sending(d)
    BY <1>2
  <2>2. pc'[d] # "idle" => pc[d] # "idle" /\ sending'[d] = sending[d]
    <3> USE DEF registry, peers, buffers, ranges, history, bounds, Goto
    <3>1. CASE EndBroadcast(d)
      BY <1>0, <3>1, Agency DEF EndBroadcast, TypeOK
    <3>2. CASE ~EndBroadcast(d)
      BY <2>1, <3>2 DEF Sending, VisitUser, EndConns, Buffer, PrepareWrite, AwaitLock, TakeLock, VisitClient, Write,
         WriteFails, Unregister, DropLast, CloseFailed
    <3> QED BY <3>1, <3>2
  <2> QED BY <1>0, <2>1, <2>2, BroadcastersApart DEF Waits
<1>3. CASE \/ ClearMessages \/ DisconnectAll \/ Disconnecting \/ UNCHANGED vars
           \/ \E c \in Conns : PeerGone(c) \/ PeerStalls(c) \/ PingFails(c)
  BY <1>0, <1>3, OthersApart DEF Waits
<1> QED BY <1>1, <1>2, <1>3 DEF Next

LEMMA StaysDated ==
    ASSUME HubInv, [Next]_vars, NEW m, Dated(m)
    PROVE  /\ Dated(m)'
           /\ m \notin ToSet(messages) => m \notin ToSet(messages')
<1>0. m \in Message /\ m.n \in Nat /\ m.n <= sent /\ sent \in Nat /\ messages \in Seq(Message)
  BY MessageNumbers DEF Dated, HubInv, TypeOK
<1>1. CASE \E b \in Broadcasters : Broadcast(b)
  <2>1. PICK b \in Broadcasters : Broadcast(b)
    BY <1>1
  <2>2. PICK x \in Message : x.n = sent' /\ sent' = sent + 1 /\ messages' = Append(messages, x)
    BY <2>1, BroadcastStep
  <2>3. ToSet(messages') = ToSet(messages) \cup {x}
    BY <1>0, <2>2, Appended
  <2>4. m.n <= sent' /\ m.n # sent' /\ m # x
    BY <1>0, <2>2
  <2>5. Dated(m)'
    BY <1>0, <2>4 DEF Dated
  <2> QED BY <2>3, <2>4, <2>5
<1>2. CASE ~\E b \in Broadcasters : Broadcast(b)
  <2>1. ToSet(<<>>) = {}
    BY DEF ToSet
  <2> QED BY <1>2, <2>1, SendersStep DEF Dated
<1> QED BY <1>1, <1>2

LEMMA LogStaysOrdered ==
    ASSUME OneBroadcaster, HubInv, LogOrder, [Next]_vars
    PROVE  LogOrder'
<1>0. sent \in Nat /\ messages \in Seq(Message)
  BY DEF HubInv, TypeOK
<1>1. CASE \E b \in Broadcasters : Broadcast(b)
  <2>1. PICK b \in Broadcasters : Broadcast(b)
    BY <1>1
  <2>2. PICK x \in Message : /\ x.n = sent' /\ sent' = sent + 1 /\ messages' = Append(messages, x)
                            /\ sending'[b] = x
    BY <2>1, BroadcastStep
  <2>3. ToSet(messages') = ToSet(messages) \cup {x}
    BY <1>0, <2>2, Appended
  <2>4. \A m \in ToSet(messages) : Dated(m) /\ m.n \in Nat /\ m.n <= sent
    BY MessageNumbers DEF LogOrder, Dated
  <2>5. Newer(x, ToSet(messages))
    BY <1>0, <2>2, <2>4 DEF Newer
  <2>6. Ascending(messages')
    BY <1>0, <2>2, <2>5, AscendingAppend DEF LogOrder
  <2>7. Dated(x)'
    BY <1>0, <2>2 DEF Dated, OneBroadcaster
  <2>8. \A m \in ToSet(messages') : Dated(m)'
    BY <2>3, <2>4, <2>7, StaysDated
  <2>9. \A d \in Broadcasters : sending'[d].n = sent'
    BY <2>2 DEF OneBroadcaster
  <2> QED BY <2>6, <2>8, <2>9 DEF LogOrder
<1>2. CASE ~\E b \in Broadcasters : Broadcast(b)
  <2>1. ToSet(<<>>) = {} /\ Ascending(<<>>)
    BY DEF ToSet, Ascending
  <2>2. /\ messages' = messages \/ messages' = <<>>
        /\ sent' = sent
        /\ \A b \in Broadcasters : pc'[b] # "idle" => pc[b] # "idle" /\ sending'[b] = sending[b]
    BY <1>2, SendersStep
  <2>3. Ascending(messages')
    BY <2>1, <2>2 DEF LogOrder
  <2>4. \A m \in ToSet(messages') : Dated(m)'
    BY <2>1, <2>2, StaysDated DEF LogOrder
  <2>5. \A b \in Broadcasters : pc'[b] # "idle" => sending'[b].n = sent'
    BY <2>2 DEF LogOrder
  <2> QED BY <2>3, <2>4, <2>5 DEF LogOrder
<1> QED BY <1>1, <1>2

-----------------------------------------------------------------------------
\* Before a replay nothing has been written to a client that asked for one.
NothingYet(c) ==
    \/ pc[c] \in {"idle", "since"}
    \/ pc[c] \in {"load", "evict", "forget", "store"} /\ since[c] # "none"
    => received[c] = <<>>

\* What is replayed follows what has been written, and what is buffered
\* meanwhile is in the copy, or newer than it, or has been cleared.
ReplayOrder(c) ==
    pc[c] \in {"replay", "flush"} =>
        /\ pc[c] = "flush" => replay[c] = <<>>
        /\ Ascending(replay[c])
        /\ \A m \in ToSet(replay[c]) : Newer(m, ToSet(received[c]))
        /\ wire[c] = "open" =>
             \A p \in ToSet(pending[c]) :
                \/ p \in ToSet(received[c]) \cup ToSet(replay[c])
                \/ p \notin ToSet(messages)
                \/ Newer(p, ToSet(received[c]) \cup ToSet(replay[c]))

AllDated(c) ==
    \A m \in ToSet(received[c]) \cup ToSet(pending[c]) \cup ToSet(replay[c]) : Dated(m)

Streams(c) ==
    /\ AllDated(c)
    /\ Fresh(received[c], ToSet(messages))
    /\ Fresh(pending[c], ToSet(messages))
    /\ NothingYet(c)
    /\ ReplayOrder(c)

LEMMA IdleStreams ==
    ASSUME HubInv, [Next]_vars, NEW c \in Conns, Streams(c), Idle(c)
    PROVE  Streams(c)'
<1>0. /\ received[c] \in Seq(Message) /\ pending[c] \in Seq(Message)
      /\ received'[c] = received[c] /\ pending'[c] = pending[c] /\ replay'[c] = replay[c]
      /\ pc'[c] = pc[c] /\ since'[c] = since[c]
      /\ wire'[c] = wire[c] \/ wire'[c] \in {"stalled", "broken", "closed"}
  BY DEF HubInv, TypeOK, Idle, Untouched
<1>1. \A m \in ToSet(received[c]) \cup ToSet(pending[c]) \cup ToSet(replay[c]) :
          Dated(m)' /\ (m \notin ToSet(messages) => m \notin ToSet(messages'))
  BY StaysDated DEF Streams, AllDated
<1>2. AllDated(c)'
  BY <1>0, <1>1 DEF AllDated
<1>3. Fresh(received[c], ToSet(messages')) /\ Fresh(pending[c], ToSet(messages'))
  BY <1>0, <1>1, FreshLater DEF Streams
<1>4. NothingYet(c)'
  BY <1>0 DEF Streams, NothingYet
<1>5. ReplayOrder(c)'
  <2>1. \A p \in ToSet(pending[c]) : p \notin ToSet(messages) => p \notin ToSet(messages')
    BY <1>1
  <2> QED BY <1>0, <2>1 DEF Streams, ReplayOrder
<1> QED BY <1>0, <1>2, <1>3, <1>4, <1>5 DEF Streams

\* What a broadcaster sends is new and newer, or a repetition.
LEMMA SentIsNewest ==
    ASSUME OneBroadcaster, LogOrder, HubInv, NEW b \in Broadcasters, pc[b] # "idle"
    PROVE  /\ Dated(sending[b])
           /\ \A S : (\A m \in S : Dated(m)) => sending[b] \in S \/ Newer(sending[b], S)
<1>1. sending[b] \in Message /\ sending[b].n = sent /\ sent \in Nat
  BY DEF HubInv, Addressed, LogOrder, TypeOK
<1>2. Dated(sending[b])
  BY <1>1 DEF Dated, OneBroadcaster
<1>3. ASSUME NEW m, Dated(m), m # sending[b] PROVE m.n < sending[b].n
  <2>1. m.n \in Nat /\ m.n <= sent /\ m.n # sent
    BY <1>3, MessageNumbers DEF Dated
  <2> QED BY <1>1, <2>1
<1> QED BY <1>2, <1>3 DEF Newer

LEMMA SendingStreams ==
    ASSUME OneBroadcaster, LogOrder, HubInv, WInv, NEW c \in Conns, Buffered(c), Streams(c),
           NEW b \in Broadcasters, Sending(b), PutsAside(b, c) \/ WritesTo(b, c)
    PROVE  Streams(c)'
<1>0. /\ TypeOK /\ received[c] \in Seq(Message) /\ pending[c] \in Seq(Message)
      /\ sending[b] \in Message /\ pc[b] # "idle" /\ Untouched(c)
  BY DEF HubInv, TypeOK, PutsAside, WritesTo
<1>1. messages' = messages
  BY <1>0, BroadcastersApart
<1>2. Dated(sending[b]) /\ \A S : (\A m \in S : Dated(m)) => sending[b] \in S \/ Newer(sending[b], S)
  BY <1>0, SentIsNewest
<1>3. \A m : Dated(m) => Dated(m)'
  BY StaysDated DEF Next
<1>4. CASE PutsAside(b, c)
  <2>1. /\ pending'[c] = Append(pending[c], sending[b]) /\ received'[c] = received[c]
        /\ replay'[c] = replay[c] /\ pc'[c] = pc[c] /\ since'[c] = since[c]
        /\ wire'[c] = "open" => wire[c] = "open"
    BY <1>4 DEF PutsAside, Untouched
  <2>2. ToSet(pending'[c]) = ToSet(pending[c]) \cup {sending[b]}
    BY <1>0, <2>1, Appended
  <2>3. AllDated(c)'
    BY <1>2, <1>3, <2>1, <2>2 DEF AllDated, Streams
  <2>4. Fresh(pending'[c], ToSet(messages))
    <3>1. pending'[c] = pending[c] \o <<sending[b]>>
      BY <1>0, <2>1
    <3>2. sending[b] \in ToSet(pending[c]) \/ Newer(sending[b], ToSet(pending[c]))
      BY <1>2 DEF Streams, AllDated
    <3> QED BY <1>0, <3>1, <3>2, FreshWithOne DEF Streams
  <2>5. NothingYet(c)'
    BY <2>1 DEF Streams, NothingYet
  <2>6. ReplayOrder(c)'
    <3>1. \/ sending[b] \in ToSet(received[c]) \cup ToSet(replay[c])
          \/ Newer(sending[b], ToSet(received[c]) \cup ToSet(replay[c]))
      BY <1>2 DEF Streams, AllDated
    <3> QED BY <1>1, <2>1, <2>2, <3>1 DEF Streams, ReplayOrder
  <2> QED BY <1>1, <2>1, <2>3, <2>4, <2>5, <2>6 DEF Streams
<1>5. CASE WritesTo(b, c)
  <2>1. /\ received'[c] = received[c] \o <<sending[b]>> /\ pending'[c] = pending[c]
        /\ replay'[c] = replay[c] /\ pc'[c] = pc[c] /\ since'[c] = since[c]
        /\ pc[b] = "write" /\ current[b] = c
    BY <1>5 DEF WritesTo, Untouched
  <2>2. pc[c] \notin {"idle", "flush"} /\ ~syncing[c] /\ Armed(c)
    BY <2>1 DEF WInv, Writing
  <2>3. NothingYet(c)' /\ ReplayOrder(c)'
    BY <2>1, <2>2 DEF NothingYet, ReplayOrder, Armed
  <2>4. ToSet(received'[c]) = ToSet(received[c]) \cup {sending[b]}
    BY <1>0, <2>1, JoinedOne
  <2>5. AllDated(c)'
    BY <1>2, <1>3, <2>1, <2>4 DEF AllDated, Streams
  <2>6. Fresh(received'[c], ToSet(messages))
    <3>1. sending[b] \in ToSet(received[c]) \/ Newer(sending[b], ToSet(received[c]))
      BY <1>2 DEF Streams, AllDated
    <3> QED BY <1>0, <2>1, <3>1, FreshWithOne DEF Streams
  <2> QED BY <1>1, <2>1, <2>3, <2>5, <2>6 DEF Streams
<1> QED BY <1>4, <1>5

LEMMA HandlerStreams ==
    ASSUME LogOrder, HubInv, NEW c \in Conns, Buffered(c), Streams(c), Handler(c)
    PROVE  Streams(c)'
<1> USE DEF registry, peers, buffers, ranges, history, bounds, Goto
<1>0. /\ TypeOK /\ c \in Agents /\ DOMAIN pc = Agents /\ DOMAIN since = Conns /\ DOMAIN replay = Conns
      /\ received[c] \in Seq(Message) /\ pending[c] \in Seq(Message) /\ replay[c] \in Seq(Message)
      /\ messages' = messages
  BY Agency, HandlersApart DEF HubInv, TypeOK, NothingSent
<1>1. \A m : Dated(m) => Dated(m)'
  BY StaysDated DEF Next
<1>2. ASSUME UNCHANGED <<received, pending, replay>>, NothingYet(c)', pc'[c] \notin {"replay", "flush"}
      PROVE  Streams(c)'
  BY <1>0, <1>1, <1>2 DEF Streams, AllDated, ReplayOrder
<1>3. CASE Connect(c)
  <2>1. pc[c] = "idle" /\ pc'[c] = "load" /\ UNCHANGED <<received, pending, replay>>
    BY <1>0, <1>3 DEF Connect
  <2> QED BY <1>2, <2>1 DEF Streams, NothingYet
<1>4. CASE LoadOrStore(c) \/ EvictOld(c) \/ ForgetOld(c) \/ Store(c)
  <2>1. /\ pc[c] \in {"load", "evict", "forget", "store"}
        /\ \/ pc'[c] \in {"evict", "forget", "store"}
           \/ pc'[c] = IF since[c] = "none" THEN "reading" ELSE "since"
        /\ UNCHANGED <<received, pending, replay, since>>
    BY <1>0, <1>4 DEF LoadOrStore, EvictOld, ForgetOld, Store
  <2> QED BY <1>2, <2>1 DEF Streams, NothingYet
<1>5. CASE StartReplay(c)
  <2>1. CASE since[c] = "garbage"
    <3>1. pc'[c] = "reading" /\ UNCHANGED <<received, pending, replay>>
      BY <1>0, <1>5, <2>1 DEF StartReplay
    <3> QED BY <1>2, <3>1 DEF NothingYet
  <2>2. CASE since[c] # "garbage"
    <3>1. /\ pc[c] = "since" /\ pc'[c] = "replay" /\ replay'[c] = messages
          /\ UNCHANGED <<received, pending, since, wire>>
      BY <1>0, <1>5, <2>2 DEF StartReplay
    <3>2. received[c] = <<>> /\ ToSet(<<>>) = {}
      BY <3>1 DEF Streams, NothingYet, ToSet
    <3>3. AllDated(c)'
      BY <1>1, <3>1 DEF AllDated, Streams, LogOrder
    <3>4. ReplayOrder(c)'
      BY <1>0, <3>1, <3>2 DEF ReplayOrder, LogOrder, Newer
    <3>5. NothingYet(c)'
      BY <3>1 DEF NothingYet
    <3> QED BY <1>0, <3>1, <3>3, <3>4, <3>5 DEF Streams
  <2> QED BY <2>1, <2>2
<1>6. CASE ReplayOne(c)
  <2>1. pc[c] = "replay" /\ replay[c] # <<>> /\ (Passes(c) \/ Replays(c) \/ GivesUp(c))
    BY <1>0, <1>6, ReplaySteps
  <2>2. /\ Head(replay[c]) \in Message
        /\ ToSet(replay[c]) = {Head(replay[c])} \cup ToSet(Tail(replay[c]))
        /\ ToSet(received[c] \o <<Head(replay[c])>>) = ToSet(received[c]) \cup {Head(replay[c])}
    BY <1>0, <2>1, TakenOff, JoinedOne
  <2>3. /\ Ascending(Tail(replay[c]))
        /\ \A m \in ToSet(Tail(replay[c])) : Head(replay[c]).n < m.n
    BY <1>0, <2>1, AscendingTail DEF Streams, ReplayOrder
  <2>4. /\ \A m \in ToSet(replay[c]) : Newer(m, ToSet(received[c]))
        /\ wire[c] = "open" =>
             \A p \in ToSet(pending[c]) :
                \/ p \in ToSet(received[c]) \cup ToSet(replay[c])
                \/ p \notin ToSet(messages)
                \/ Newer(p, ToSet(received[c]) \cup ToSet(replay[c]))
    BY <2>1 DEF Streams, ReplayOrder
  <2>5. CASE Passes(c)
    <3>1. /\ replay'[c] = Tail(replay[c]) /\ UNCHANGED <<received, pending, wire, pc>>
          /\ ~Mine(c, Head(replay[c]))
      BY <2>5 DEF Passes
    <3>2. \A p \in ToSet(pending[c]) : p # Head(replay[c])
      BY <3>1 DEF Buffered, OnlyMine
    <3>3. ReplayOrder(c)'
      BY <1>0, <2>1, <2>2, <2>3, <2>4, <3>1, <3>2 DEF ReplayOrder, Newer
    <3>4. AllDated(c)' /\ NothingYet(c)'
      BY <1>1, <2>1, <2>2, <3>1 DEF AllDated, NothingYet, Streams
    <3> QED BY <1>0, <3>1, <3>3, <3>4 DEF Streams
  <2>6. CASE Replays(c) /\ wire[c] = "open"
    <3>1. /\ replay'[c] = Tail(replay[c]) /\ UNCHANGED <<pending, wire, pc>>
          /\ received'[c] = received[c] \o <<Head(replay[c])>>
      BY <2>6 DEF Replays
    <3>2. ToSet(received'[c]) \cup ToSet(replay'[c]) = ToSet(received[c]) \cup ToSet(replay[c])
      BY <2>2, <3>1
    <3>3. \A m \in ToSet(replay'[c]) : Newer(m, ToSet(received'[c]))
      BY <2>2, <2>3, <2>4, <3>1 DEF Newer
    <3>4. ReplayOrder(c)'
      BY <1>0, <2>1, <2>3, <2>4, <2>6, <3>1, <3>2, <3>3 DEF ReplayOrder
    <3>5. AllDated(c)' /\ NothingYet(c)'
      BY <1>1, <2>1, <3>1, <3>2 DEF AllDated, NothingYet, Streams
    <3>6. Fresh(received'[c], ToSet(messages))
      BY <1>0, <2>2, <2>4, <3>1, FreshWithOne DEF Streams
    <3> QED BY <1>0, <3>1, <3>4, <3>5, <3>6 DEF Streams
  <2>7. CASE Replays(c) /\ wire[c] # "open"
    <3>1. replay'[c] = Tail(replay[c]) /\ received'[c] = received[c] /\ UNCHANGED <<pending, wire, pc>>
      BY <2>7 DEF Replays
    <3>2. ReplayOrder(c)'
      BY <2>1, <2>2, <2>3, <2>4, <2>7, <3>1 DEF ReplayOrder
    <3>3. AllDated(c)' /\ NothingYet(c)'
      BY <1>1, <2>1, <2>2, <3>1 DEF AllDated, NothingYet, Streams
    <3> QED BY <1>0, <3>1, <3>2, <3>3 DEF Streams
  <2>8. CASE GivesUp(c)
    <3>1. pc'[c] = "reading" /\ UNCHANGED <<received, pending>> /\ replay'[c] = <<>>
      BY <2>8 DEF GivesUp
    <3>2. ToSet(<<>>) = {}
      BY DEF ToSet
    <3> QED BY <1>0, <1>1, <3>1, <3>2 DEF Streams, AllDated, NothingYet, ReplayOrder
  <2> QED BY <2>1, <2>5, <2>6, <2>7, <2>8
<1>7. CASE Flush(c)
  <2>1. Flushes(c)
    BY <1>0, <1>7, FlushSteps
  <2>2. /\ ToSet(received[c] \o pending[c]) = ToSet(received[c]) \cup ToSet(pending[c])
        /\ ToSet(<<>>) = {}
    <3>1. ToSet(<<>>) = {}
      BY DEF ToSet
    <3> QED BY <1>0, <3>1, Joined
  <2>3. NothingYet(c)' /\ ReplayOrder(c)'
    BY <2>1 DEF Flushes, NothingYet, ReplayOrder
  <2>4. AllDated(c)'
    BY <1>1, <2>1, <2>2 DEF Flushes, AllDated, Streams
  <2>5. Fresh(received'[c], ToSet(messages))
    <3>1. CASE wire[c] = "open"
      <4>1. \A p \in ToSet(pending[c]) :
               p \in ToSet(received[c]) \/ p \notin ToSet(messages) \/ Newer(p, ToSet(received[c]))
        BY <2>1, <2>2, <3>1 DEF Flushes, Streams, ReplayOrder
      <4>2. Fresh(received[c] \o pending[c], ToSet(messages))
        BY <1>0, <4>1, FreshJoined DEF Streams
      <4> QED BY <2>1, <3>1, <4>2 DEF Flushes
    <3>2. CASE wire[c] # "open"
      BY <2>1, <3>2 DEF Flushes, Streams
    <3> QED BY <3>1, <3>2
  <2>6. Fresh(pending'[c], ToSet(messages))
    BY <2>1 DEF Flushes, Fresh
  <2> QED BY <1>0, <2>3, <2>4, <2>5, <2>6 DEF Streams
<1>9. CASE StartFlush(c)
  <2>1. StartsFlush(c)
    BY <1>0, <1>9, StartFlushSteps
  <2>2. NothingYet(c)' /\ ReplayOrder(c)'
    BY <1>0, <2>1 DEF StartsFlush, NothingYet, ReplayOrder, Streams
  <2>3. AllDated(c)'
    BY <1>1, <2>1 DEF StartsFlush, AllDated, Streams
  <2> QED BY <1>0, <2>1, <2>2, <2>3 DEF StartsFlush, Streams
<1>8. CASE Leave(c) \/ LeaveLast(c)
  <2>1. pc'[c] \in {"drop", "gone"} /\ UNCHANGED <<received, pending, replay>>
    BY <1>0, <1>8 DEF Leave, LeaveLast, Unregister
  <2> QED BY <1>2, <2>1 DEF NothingYet
<1> QED
  BY <1>3, <1>4, <1>5, <1>6, <1>7, <1>8, <1>9 DEF Handler

OrderInv == BufferInv /\ WInv /\ LogOrder /\ \A c \in Conns : Streams(c)

LEMMA OrderInductive ==
    ASSUME OneBroadcaster
    PROVE  OrderInv /\ [Next]_vars => OrderInv'
<1> SUFFICES ASSUME OrderInv, [Next]_vars PROVE OrderInv'
  OBVIOUS
<1>0. /\ BufferInv /\ HubInv /\ TypeOK /\ WInv /\ LogOrder
      /\ \A c \in Conns : Streams(c) /\ Buffered(c)
  BY DEF OrderInv, BufferInv, HubInv
<1>1. BufferInv' /\ WInv' /\ LogOrder'
  BY <1>0, BufferInductive, WritersInductive, LogStaysOrdered
<1>2. ASSUME NEW c \in Conns PROVE Streams(c)'
  <2>0. Streams(c) /\ Buffered(c)
    BY <1>0
  <2>1. CASE \E d \in Conns : Handler(d)
    <3>1. PICK d \in Conns : Handler(d)
      BY <2>1
    <3>2. CASE c = d
      BY <1>0, <2>0, <3>1, <3>2, HandlerStreams
    <3>3. CASE c # d
      BY <1>0, <2>0, <3>1, <3>3, HandlerEffect, IdleStreams
    <3> QED BY <3>2, <3>3
  <2>2. CASE \E b \in Broadcasters : Broadcast(b) \/ Sending(b)
    <3>1. PICK b \in Broadcasters : Broadcast(b) \/ Sending(b)
      BY <2>2
    <3>2. Idle(c) \/ (Sending(b) /\ (PutsAside(b, c) \/ WritesTo(b, c)))
      BY <1>0, <3>1, BroadcasterEffect DEF Sending
    <3> QED BY <1>0, <2>0, <3>2, IdleStreams, SendingStreams
  <2>3. CASE \/ ClearMessages \/ DisconnectAll \/ Disconnecting \/ UNCHANGED vars
             \/ \E d \in Conns : PeerGone(d) \/ PeerStalls(d) \/ PingFails(d)
    BY <1>0, <2>0, <2>3, OtherEffect, IdleStreams
  <2> QED BY <2>1, <2>2, <2>3 DEF Next
<1> QED BY <1>1, <1>2 DEF OrderInv

LEMMA OrderInitially == Init => OrderInv
<1> SUFFICES ASSUME Init PROVE OrderInv
  OBVIOUS
<1>1. ToSet(<<>>) = {} /\ Ascending(<<>>) /\ \A log : Fresh(<<>>, log)
  BY DEF ToSet, Ascending, Fresh
<1>2. LogOrder
  BY <1>1, Agency DEF Init, LogOrder
<1>3. ASSUME NEW c \in Conns PROVE Streams(c)
  <2>1. received[c] = <<>> /\ pending[c] = <<>> /\ replay[c] = <<>> /\ pc[c] = "idle"
    BY Agency DEF Init
  <2> QED BY <1>1, <2>1 DEF Streams, AllDated, NothingYet, ReplayOrder
<1> QED BY <1>2, <1>3, BufferInitially, WritersInitially DEF OrderInv

(* Replay, buffer and direct writes repeat messages but never reorder them *)
(* (WSHub.go:124, 197): with one goroutine that broadcasts, and for any    *)
(* number of connections, messages, failures, ClearMessages and            *)
(* DisconnectAlls.                                                         *)
THEOREM AlwaysNewIsNewer ==
    ASSUME OneBroadcaster
    PROVE  Spec => []NewIsNewer
<1>1. OrderInv => NewIsNewer
  BY DEF OrderInv, Streams, Fresh, NewIsNewer
<1> QED BY <1>1, OrderInitially, OrderInductive, PTL DEF Spec

=============================================================================
