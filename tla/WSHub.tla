-------------------------------- MODULE WSHub --------------------------------
(***************************************************************************)
(* A WebSocket hub of app/WSHub.go with the handlers of routes/ws that use *)
(* it (handleDepth, handleLedger, handleNotify, handleStatus).  Everything *)
(* here runs concurrently: one handler goroutine per connection, a ping    *)
(* goroutine beside it, the goroutines that broadcast, and the timer that  *)
(* disconnects everyone after the market has closed.                       *)
(*                                                                         *)
(* hub.clients is a sync.Map of users to sync.Maps of connections.  Each   *)
(* of its operations is atomic, a method of the hub that makes several of  *)
(* them is not, and neither is Range: it visits every key that was there   *)
(* when it started and still is, and may or may not visit a key stored     *)
(* meanwhile ("left" and "users" hold what a Range will still visit).      *)
(* Inner maps are named after the connection whose RegisterClient created  *)
(* them.                                                                   *)
(*                                                                         *)
(* Left out: the JSON in the messages, timestamps ("since" is none, all,   *)
(* or a text that is not a number), the key of the exchange's API.  What a *)
(* connection does is taken from how the hub and the handlers use it: a    *)
(* write to an open one arrives, a write to one whose peer is gone may     *)
(* fail, a write to one whose peer is there but does not read (any more)   *)
(* blocks until the connection is closed, for no write has a deadline,     *)
(* Close works once, and the connection is closed when its handler         *)
(* returns.                                                                *)
(***************************************************************************)
EXTENDS Naturals, Sequences, FiniteSets, SequencesExt

CONSTANTS
    Users,         \* user identifiers
    Conns,         \* connections, one Client each
    User,          \* the user of each connection
    None,          \* no map, no client
    Everyone,      \* the ID 0 of a message from BroadcastMessage
    Broadcasters,  \* goroutines that call BroadcastMessage, SendMessageToUser
    Timer,         \* the goroutine of time.AfterFunc
    Targets,       \* whom messages go to
    Sinces,        \* values of the query parameter "since"
    PingCloses,    \* a failed ping closes the connection: in handleDepth alone
    MaxMessages,   \* bound: messages broadcast
    MaxClears,     \* bound: calls of ClearMessages
    MaxClosings    \* bound: calls of DisconnectAll

ASSUME ConstantsAssumption ==
    /\ User \in [Conns -> Users]
    /\ None \notin Conns
    /\ Everyone \notin Users
    /\ (Conns \cap Broadcasters) \cup ({Timer} \cap (Conns \cup Broadcasters)) = {}
    /\ Targets \subseteq Users \cup {Everyone}
    /\ Sinces \subseteq {"none", "all", "garbage"}
    /\ PingCloses \in BOOLEAN
    /\ MaxMessages \in Nat /\ MaxClears \in Nat /\ MaxClosings \in Nat

Agents == Conns \cup Broadcasters \cup {Timer}
Message == [n : 1 .. MaxMessages, to : Users \cup {Everyone}]
Mine(c, m) == m.to \in {Everyone, User[c]}

VARIABLES
    clients,   \* hub.clients: the inner map of each user, or None
    members,   \* the connections stored in each inner map
    messages,  \* hub.messages
    wire,      \* the connection: "none", "open", "stalled" (the peer answers
               \* pings but does not read), "broken" (peer gone), "closed"
    since,     \* the query parameter of each connection
    syncing,   \* Client.Syncing
    pending,   \* Client.pendingMsgs
    received,  \* what reached the peer, in order
    pc,        \* where each goroutine is
    map,       \* the inner map a goroutine ranges over or will store into
    left,      \* connections its Range over that map will still visit
    users,     \* users its Range over hub.clients will still visit
    current,   \* the client it is closing or writing to
    replay,    \* messages SendMessageToUserSince has still to go through
    sending,   \* the message a broadcaster is sending
    sent,      \* number of messages broadcast so far
    joined,    \* the value of "sent" when a connection was stored
    clears, closings

registry == <<clients, members>>
peers == <<wire, received>>
buffers == <<syncing, pending, replay>>
ranges == <<map, left, users, current>>
history == <<sent, joined>>
bounds == <<clears, closings>>
vars == <<registry, messages, peers, since, buffers, pc, ranges, sending, history, bounds>>

Reachable(c) == /\ clients[User[c]] # None
                /\ c \in members[clients[User[c]]]

Init ==
    /\ clients = [u \in Users |-> None]
    /\ members = [m \in Conns |-> {}]
    /\ messages = <<>>
    /\ wire = [c \in Conns |-> "none"]
    /\ since = [c \in Conns |-> "none"]
    /\ syncing = [c \in Conns |-> FALSE]
    /\ pending = [c \in Conns |-> <<>>]
    /\ received = [c \in Conns |-> <<>>]
    /\ pc = [a \in Agents |-> "idle"]
    /\ map = [a \in Agents |-> None]
    /\ left = [a \in Agents |-> {}]
    /\ users = [a \in Agents |-> {}]
    /\ current = [a \in Agents |-> None]
    /\ replay = [c \in Conns |-> <<>>]
    /\ sending = [b \in Broadcasters |-> None]
    /\ sent = 0
    /\ joined = [c \in Conns |-> 0]
    /\ clears = 0 /\ closings = 0

Goto(a, where) == pc' = [pc EXCEPT ![a] = where]

-----------------------------------------------------------------------------
(* Connections, as the code relies on them. *)

Succeeds(c) == wire[c] \in {"open", "broken"}
Fails(c) == wire[c] \in {"broken", "closed"}

\* msgs reach the peer of c if it is still there.
Deliver(c, msgs) ==
    received' = IF wire[c] = "open" THEN [received EXCEPT ![c] = @ \o msgs] ELSE received

\* Close fails on a connection that is closed already.
CloseFails(c) == wire[c] = "closed"
Close(c) == wire' = [wire EXCEPT ![c] = "closed"]

\* The peer leaves, or no pong arrives within pongTimeout.
PeerGone(c) ==
    /\ wire[c] \in {"open", "stalled"}
    /\ wire' = [wire EXCEPT ![c] = "broken"]
    /\ UNCHANGED <<registry, messages, received, since, buffers, pc, ranges, sending, history, bounds>>

\* The peer reads no more; its pongs keep the deadline of ReadMessage away, and
\* a handler that writes does not read at all.
PeerStalls(c) ==
    /\ wire[c] = "open"
    /\ wire' = [wire EXCEPT ![c] = "stalled"]
    /\ UNCHANGED <<registry, messages, received, since, buffers, pc, ranges, sending, history, bounds>>

\* Mutant: handleDepth's ping goroutine merely returns, too.
PingReturns(c) ==
    /\ pc[c] \in {"since", "replay", "flush", "reading"}
    /\ wire[c] \in {"stalled", "broken"}
    /\ UNCHANGED vars

\* The ping goroutine cannot write within writeWait, also because another
\* write is blocked.  In handleDepth it closes the connection; elsewhere it
\* returns, and nothing changes.
PingFails(c) ==
    /\ PingCloses
    /\ pc[c] \in {"since", "replay", "flush", "reading"}
    /\ wire[c] \in {"stalled", "broken"}
    /\ Close(c)
    /\ UNCHANGED <<registry, messages, received, since, buffers, pc, ranges, sending, history, bounds>>

-----------------------------------------------------------------------------
(* sync.Map.Range *)

RangeOver(a, m) ==
    /\ map' = [map EXCEPT ![a] = m]
    /\ left' = [left EXCEPT ![a] = members[m]]

RangeUsers(a) ==
    \E later \in SUBSET {u \in Users : clients[u] = None} :
       users' = [users EXCEPT ![a] = {u \in Users : clients[u] # None} \cup later]

\* c is stored into m: a Range over m that has begun may or may not see it.
SeenByRanges(m, c, self) ==
    \E seers \in SUBSET {a \in Agents \ {self} : map[a] = m} :
       left' = [a \in Agents |-> IF a = self THEN {} ELSE
                                 IF a \in seers THEN left[a] \cup {c} ELSE left[a]]

Visitable(a) == left[a] \cap members[map[a]]
Visit(a, c) == left' = [left EXCEPT ![a] = @ \ {c}]
RangeEnds(a) == /\ left' = [left EXCEPT ![a] = {}]
                /\ map' = [map EXCEPT ![a] = None]

-----------------------------------------------------------------------------
(* UnregisterClient: Load, Delete and the Range that looks for a remaining *)
(* client are one step (a client stored between them has the same effect   *)
(* as one stored before), hub.clients.Delete is a step of its own.         *)

\* Mutant: the connection is deleted only when it is the last one.
UnregisterLast(a, c, next) ==
    LET m == clients[User[c]] IN
    IF m # None /\ members[m] = {c}
    THEN members' = [members EXCEPT ![m] = {}] /\ Goto(a, "drop")
    ELSE UNCHANGED members /\ Goto(a, next)

Unregister(a, c, next) ==
    LET m == clients[User[c]] IN
    IF m = None
    THEN UNCHANGED members /\ Goto(a, next)
    ELSE /\ members' = [members EXCEPT ![m] = @ \ {c}]
         /\ Goto(a, IF members[m] \subseteq {c} THEN "drop" ELSE next)

DropUser(c) == clients' = [clients EXCEPT ![User[c]] = None]

-----------------------------------------------------------------------------
(* The handler of a connection. *)

\* Mutant: Syncing is not set before the client is registered.
ConnectNotSyncing(c) ==
    /\ pc[c] = "idle"
    /\ \E s \in Sinces : since' = [since EXCEPT ![c] = s]
    /\ wire' = [wire EXCEPT ![c] = "open"]
    /\ Goto(c, "load")
    /\ UNCHANGED <<registry, messages, received, buffers, ranges, sending, history, bounds>>

Connect(c) ==
    /\ pc[c] = "idle"
    /\ \E s \in Sinces : /\ since' = [since EXCEPT ![c] = s]
                         /\ syncing' = [syncing EXCEPT ![c] = s # "none"]
    /\ wire' = [wire EXCEPT ![c] = "open"]
    /\ Goto(c, "load")
    /\ UNCHANGED <<registry, messages, received, pending, replay, ranges, sending, history, bounds>>

\* RegisterClient: LoadOrStore, and the Range over the connections found.
LoadOrStore(c) ==
    /\ pc[c] = "load"
    /\ LET u == User[c]
           m == IF clients[u] = None THEN c ELSE clients[u] IN
       /\ clients' = [clients EXCEPT ![u] = m]
       /\ RangeOver(c, m)
    /\ Goto(c, "evict")
    /\ UNCHANGED <<members, messages, peers, since, buffers, users, current, sending, history, bounds>>

\* An error of Close ends the Range, the remaining connections stay.
EvictOld(c) ==
    /\ pc[c] = "evict"
    /\ \E old \in Visitable(c) :
          IF CloseFails(old)
          THEN /\ Goto(c, "store")
               /\ UNCHANGED <<wire, left, current>>
          ELSE /\ Close(old)
               /\ Visit(c, old)
               /\ current' = [current EXCEPT ![c] = old]
               /\ Goto(c, "forget")
    /\ UNCHANGED <<registry, messages, received, since, buffers, map, users, sending, history, bounds>>

ForgetOld(c) ==
    /\ pc[c] = "forget"
    /\ members' = [members EXCEPT ![map[c]] = @ \ {current[c]}]
    /\ current' = [current EXCEPT ![c] = None]
    /\ Goto(c, "evict")
    /\ UNCHANGED <<clients, messages, peers, since, buffers, map, left, users, sending, history, bounds>>

\* The map stored into is the one that was loaded, whatever became of it.
Store(c) ==
    /\ \/ pc[c] = "store"
       \/ pc[c] = "evict" /\ Visitable(c) = {}
    /\ members' = [members EXCEPT ![map[c]] = @ \cup {c}]
    /\ SeenByRanges(map[c], c, c)
    /\ map' = [map EXCEPT ![c] = None]
    /\ joined' = [joined EXCEPT ![c] = sent]
    /\ Goto(c, IF since[c] = "none" THEN "reading" ELSE "since")
    /\ UNCHANGED <<clients, messages, peers, since, buffers, users, current, sending, sent, bounds>>

\* SendMessageToUserSince: copy the messages, then parse the parameter.  On an
\* error the deferred function resets Syncing and leaves the buffer alone.
StartReplay(c) ==
    /\ pc[c] = "since"
    /\ IF since[c] = "garbage"
       THEN /\ Goto(c, "reading")
            /\ syncing' = [syncing EXCEPT ![c] = FALSE]
            /\ UNCHANGED replay
       ELSE /\ Goto(c, "replay")
            /\ replay' = [replay EXCEPT ![c] = messages]
            /\ UNCHANGED syncing
    /\ UNCHANGED <<registry, messages, peers, since, pending, ranges, sending, history, bounds>>

\* The copy has everyone's messages; those of other users are passed over.
ReplayOne(c) ==
    /\ pc[c] = "replay"
    /\ replay[c] # <<>>
    /\ \/ /\ ~Mine(c, Head(replay[c]))
          /\ replay' = [replay EXCEPT ![c] = Tail(@)]
          /\ UNCHANGED <<pc, syncing, received>>
       \/ /\ Mine(c, Head(replay[c])) /\ Succeeds(c)
          /\ Deliver(c, <<Head(replay[c])>>)
          /\ replay' = [replay EXCEPT ![c] = Tail(@)]
          /\ UNCHANGED <<pc, syncing>>
       \/ /\ Mine(c, Head(replay[c])) /\ Fails(c)
          /\ replay' = [replay EXCEPT ![c] = <<>>]
          /\ syncing' = [syncing EXCEPT ![c] = FALSE]
          /\ Goto(c, "reading")
          /\ UNCHANGED received
    /\ UNCHANGED <<registry, messages, wire, since, pending, ranges, sending, history, bounds>>

\* The deferred flush takes syncLock, and holds it until the buffer is sent.
StartFlush(c) ==
    /\ pc[c] = "replay"
    /\ replay[c] = <<>>
    /\ syncing' = [syncing EXCEPT ![c] = FALSE]
    /\ Goto(c, "flush")
    /\ UNCHANGED <<registry, messages, peers, since, pending, replay, ranges, sending, history, bounds>>

\* Mutant: the buffer is reset without being sent.
FlushNothing(c) ==
    /\ pc[c] = "flush"
    /\ pending' = [pending EXCEPT ![c] = <<>>]
    /\ Goto(c, "reading")
    /\ UNCHANGED <<registry, messages, peers, since, syncing, replay, ranges, sending, history, bounds>>

\* It blocks on a peer that does not read, like every write.
Flush(c) ==
    /\ pc[c] = "flush"
    /\ wire[c] = "stalled" => pending[c] = <<>>
    /\ Deliver(c, pending[c])
    /\ pending' = [pending EXCEPT ![c] = <<>>]
    /\ Goto(c, "reading")
    /\ UNCHANGED <<registry, messages, wire, since, syncing, replay, ranges, sending, history, bounds>>

\* Mutant: the handler returns without UnregisterClient.
LeaveRegistered(c) ==
    /\ pc[c] = "reading" /\ Fails(c)
    /\ Goto(c, "gone")
    /\ Close(c)
    /\ UNCHANGED <<registry, messages, received, since, buffers, ranges, sending, history, bounds>>

\* ReadMessage or SetReadDeadline fails; the deferred UnregisterClient runs.
Leave(c) ==
    /\ \/ pc[c] = "reading" /\ Fails(c)
       \/ pc[c] = "since" /\ CloseFails(c)
    /\ Unregister(c, c, "gone")
    /\ wire' = [wire EXCEPT ![c] = IF pc'[c] = "gone" THEN "closed" ELSE @]
    /\ UNCHANGED <<clients, messages, received, since, buffers, ranges, sending, history, bounds>>

LeaveLast(c) ==
    /\ pc[c] = "drop"
    /\ DropUser(c)
    /\ Close(c)
    /\ Goto(c, "gone")
    /\ UNCHANGED <<members, messages, received, since, buffers, ranges, sending, history, bounds>>

Handler(c) == \/ Connect(c) \/ LoadOrStore(c) \/ EvictOld(c) \/ ForgetOld(c) \/ Store(c)
              \/ StartReplay(c) \/ ReplayOne(c) \/ StartFlush(c) \/ Flush(c)
              \/ Leave(c) \/ LeaveLast(c)

-----------------------------------------------------------------------------
(* The nested Ranges of BroadcastMessage, SendMessageToUser (whose outer   *)
(* one is a Load of a single user) and DisconnectAll.                      *)

VisitUser(a) ==
    /\ pc[a] = "users"
    /\ \E u \in users[a] :
          /\ clients[u] # None
          /\ users' = [users EXCEPT ![a] = @ \ {u}]
          /\ RangeOver(a, clients[u])
    /\ Goto(a, "conns")
    /\ UNCHANGED <<registry, messages, peers, since, buffers, current, sending, history, bounds>>

NoUserLeft(a) == pc[a] = "users" /\ \A u \in users[a] : clients[u] = None

EndConns(a) ==
    /\ pc[a] = "conns"
    /\ Visitable(a) = {}
    /\ RangeEnds(a)
    /\ Goto(a, "users")
    /\ UNCHANGED <<registry, messages, peers, since, buffers, users, current, sending, history, bounds>>

VisitClient(a, c) ==
    /\ pc[a] = "conns"
    /\ c \in Visitable(a)
    /\ Visit(a, c)
    /\ UNCHANGED <<registry, messages, peers, since, syncing, replay, map, users, sending, history, bounds>>

-----------------------------------------------------------------------------
(* Broadcasters. *)

\* Mutant: a message for everyone is sent to a user with ID 0.
BroadcastToZero(b) ==
    /\ pc[b] = "idle"
    /\ sent < MaxMessages
    /\ sent' = sent + 1
    /\ \E to \in Targets :
          /\ sending' = [sending EXCEPT ![b] = [n |-> sent', to |-> to]]
          /\ messages' = Append(messages, [n |-> sent', to |-> to])
          /\ users' = [users EXCEPT ![b] = {to}]
    /\ Goto(b, "users")
    /\ UNCHANGED <<registry, peers, since, buffers, map, left, current, joined, bounds>>

Broadcast(b) ==
    /\ pc[b] = "idle"
    /\ sent < MaxMessages
    /\ sent' = sent + 1
    /\ \E to \in Targets :
          /\ sending' = [sending EXCEPT ![b] = [n |-> sent', to |-> to]]
          /\ messages' = Append(messages, [n |-> sent', to |-> to])
          /\ IF to = Everyone THEN RangeUsers(b) ELSE users' = [users EXCEPT ![b] = {to}]
    /\ Goto(b, "users")
    /\ UNCHANGED <<registry, peers, since, buffers, map, left, current, joined, bounds>>

\* A client that is syncing gets the message into its buffer.
Buffer(b) == \E c \in left[b] :
    /\ VisitClient(b, c)
    /\ syncing[c]
    /\ pending' = [pending EXCEPT ![c] = Append(@, sending[b])]
    /\ UNCHANGED <<pc, current>>

\* ... another one is written to after syncLock has been released.
PrepareWrite(b) == \E c \in left[b] :
    /\ VisitClient(b, c)
    /\ ~syncing[c] /\ pc[c] # "flush"
    /\ current' = [current EXCEPT ![b] = c]
    /\ Goto(b, "write")
    /\ UNCHANGED pending

\* Mutant: syncLock is not taken.
IgnoreLock(b) == \E c \in left[b] :
    /\ VisitClient(b, c)
    /\ pc[c] = "flush"
    /\ current' = [current EXCEPT ![b] = c]
    /\ Goto(b, "write")
    /\ UNCHANGED pending

\* The flush holds syncLock, the broadcaster waits for it.
AwaitLock(b) == \E c \in left[b] :
    /\ VisitClient(b, c)
    /\ pc[c] = "flush"
    /\ current' = [current EXCEPT ![b] = c]
    /\ Goto(b, "lock")
    /\ UNCHANGED pending

\* Syncing was reset by the flush, and nothing sets it again.
TakeLock(b) ==
    /\ pc[b] = "lock"
    /\ pc[current[b]] # "flush"
    /\ Goto(b, "write")
    /\ UNCHANGED <<registry, messages, peers, since, buffers, ranges, sending, history, bounds>>

Write(b) ==
    /\ pc[b] = "write"
    /\ Succeeds(current[b])
    /\ Deliver(current[b], <<sending[b]>>)
    /\ current' = [current EXCEPT ![b] = None]
    /\ Goto(b, "conns")
    /\ UNCHANGED <<registry, messages, wire, since, buffers, map, left, users, sending, history, bounds>>

WriteFails(b) ==
    /\ pc[b] = "write"
    /\ Fails(current[b])
    /\ Unregister(b, current[b], "close")
    /\ UNCHANGED <<clients, messages, peers, since, buffers, ranges, sending, history, bounds>>

DropLast(b) ==
    /\ pc[b] = "drop"
    /\ DropUser(current[b])
    /\ Goto(b, "close")
    /\ UNCHANGED <<members, messages, peers, since, buffers, ranges, sending, history, bounds>>

\* "return false" after an error of Close ends the Range over this user.
CloseFailed(b) ==
    /\ pc[b] = "close"
    /\ IF CloseFails(current[b])
       THEN UNCHANGED wire /\ RangeEnds(b) /\ Goto(b, "users")
       ELSE Close(current[b]) /\ UNCHANGED <<map, left>> /\ Goto(b, "conns")
    /\ current' = [current EXCEPT ![b] = None]
    /\ UNCHANGED <<registry, messages, received, since, buffers, users, sending, history, bounds>>

EndBroadcast(b) ==
    /\ NoUserLeft(b)
    /\ Goto(b, "idle")
    /\ users' = [users EXCEPT ![b] = {}]
    /\ sending' = [sending EXCEPT ![b] = None]
    /\ UNCHANGED <<registry, messages, peers, since, buffers, map, left, current, history, bounds>>

Sending(b) == \/ VisitUser(b) \/ EndConns(b) \/ Buffer(b) \/ PrepareWrite(b) \/ AwaitLock(b)
              \/ TakeLock(b) \/ Write(b) \/ WriteFails(b) \/ DropLast(b) \/ CloseFailed(b) \/ EndBroadcast(b)

-----------------------------------------------------------------------------
(* The clearing worker and the timer. *)

ClearMessages ==
    /\ clears < MaxClears
    /\ clears' = clears + 1
    /\ messages' = <<>>
    /\ UNCHANGED <<registry, peers, since, buffers, pc, ranges, sending, history, closings>>

DisconnectAll ==
    /\ pc[Timer] = "idle"
    /\ closings < MaxClosings
    /\ closings' = closings + 1
    /\ RangeUsers(Timer)
    /\ Goto(Timer, "users")
    /\ UNCHANGED <<registry, messages, peers, since, buffers, map, left, current, sending, history, clears>>

PickClient == \E c \in left[Timer] :
    /\ VisitClient(Timer, c)
    /\ current' = [current EXCEPT ![Timer] = c]
    /\ Goto(Timer, "write")
    /\ UNCHANGED pending

\* The close frame; an error ends the Range over this user without closing.
WriteClose ==
    /\ pc[Timer] = "write"
    /\ \/ Succeeds(current[Timer]) /\ Goto(Timer, "close") /\ UNCHANGED <<map, left, current>>
       \/ /\ Fails(current[Timer])
          /\ Goto(Timer, "users")
          /\ RangeEnds(Timer)
          /\ current' = [current EXCEPT ![Timer] = None]
    /\ UNCHANGED <<registry, messages, peers, since, buffers, users, sending, history, bounds>>

CloseClient ==
    /\ pc[Timer] = "close"
    /\ Close(current[Timer])
    /\ current' = [current EXCEPT ![Timer] = None]
    /\ Goto(Timer, "conns")
    /\ UNCHANGED <<registry, messages, received, since, buffers, map, left, users, sending, history, bounds>>

\* hub.clients = sync.Map{}
ResetClients ==
    /\ NoUserLeft(Timer)
    /\ clients' = [u \in Users |-> None]
    /\ users' = [users EXCEPT ![Timer] = {}]
    /\ Goto(Timer, "idle")
    /\ UNCHANGED <<members, messages, peers, since, buffers, map, left, current, sending, history, bounds>>

Disconnecting == \/ VisitUser(Timer) \/ EndConns(Timer) \/ PickClient
                 \/ WriteClose \/ CloseClient \/ ResetClients

-----------------------------------------------------------------------------
Next == \/ \E c \in Conns : Handler(c) \/ PeerGone(c) \/ PeerStalls(c) \/ PingFails(c)
        \/ \E b \in Broadcasters : Broadcast(b) \/ Sending(b)
        \/ ClearMessages \/ DisconnectAll \/ Disconnecting

Spec == Init /\ [][Next]_vars

\* Every goroutine goes on once it has begun, unless it waits for a lock or in a
\* write that the peer does not read: nothing says that such a write ends.  Pings
\* are sent every 20 s.
FairSpec == /\ Spec
            /\ \A c \in Conns : WF_vars(Handler(c) /\ pc[c] # "idle") /\ WF_vars(PingFails(c))
            /\ \A b \in Broadcasters : WF_vars(Sending(b))
            /\ WF_vars(Disconnecting)

-----------------------------------------------------------------------------
(* Properties. *)

HandlerPC == {"idle", "load", "evict", "forget", "store", "since", "replay", "flush", "reading", "drop", "gone"}
SenderPC == {"idle", "users", "conns", "lock", "write", "drop", "close"}

\* The type invariant.
TypeOK ==
    /\ clients \in [Users -> Conns \cup {None}]
    /\ members \in [Conns -> SUBSET Conns]
    /\ messages \in Seq(Message)
    /\ wire \in [Conns -> {"none", "open", "stalled", "broken", "closed"}]
    /\ received \in [Conns -> Seq(Message)]
    /\ since \in [Conns -> {"none", "all", "garbage"}]
    /\ syncing \in [Conns -> BOOLEAN]
    /\ pending \in [Conns -> Seq(Message)]
    /\ replay \in [Conns -> Seq(Message)]
    /\ pc \in [Agents -> HandlerPC \cup SenderPC]
    /\ map \in [Agents -> Conns \cup {None}]
    /\ left \in [Agents -> SUBSET Conns]
    /\ users \in [Agents -> SUBSET Users]
    /\ current \in [Agents -> Conns \cup {None}]
    /\ sending \in [Broadcasters -> Message \cup {None}]
    /\ sent \in 0 .. MaxMessages
    /\ joined \in [Conns -> 0 .. MaxMessages]
    /\ clears \in Nat /\ closings \in Nat

\* A client the hub can still reach has a handler that is running and will
\* unregister it: no order of registering, failed writes, eviction and
\* DisconnectAll leaves a finished connection behind (nothing but its own
\* handler and a failed write would ever remove it).
RunningIfReachable ==
    \A c \in Conns : Reachable(c) => pc[c] \in {"since", "replay", "flush", "reading"}

\* What a client has missed when no broadcast is under way: of the day's
\* messages those it asked for, and those sent since it was registered.
Owed(c) == {m \in ToSet(messages) : Mine(c, m) /\ (since[c] = "all" \/ m.n > joined[c])}

\* Neither the copy of the messages, nor the buffer, nor the moment Syncing is
\* reset opens a gap: a registered client has received all it is owed, and no
\* client ever receives what is meant for another user.
CompleteStream ==
    /\ \A c \in Conns : \A i \in DOMAIN received[c] : Mine(c, received[c][i])
    /\ (\A b \in Broadcasters : pc[b] = "idle") =>
        \A c \in Conns : (pc[c] = "reading" /\ since[c] # "garbage" /\ wire[c] = "open" /\ Reachable(c)) =>
            Owed(c) \subseteq ToSet(received[c])

\* Replay, buffer and direct writes may repeat a message (one that was sent
\* while the copy was taken), but whatever is new is newer than all before it,
\* unless ClearMessages has come between it and the copy.
NewIsNewer ==
    \A c \in Conns : \A j \in DOMAIN received[c] :
        \/ \E i \in 1 .. j - 1 : received[c][i] = received[c][j]
        \/ \A i \in 1 .. j - 1 : received[c][i].n < received[c][j].n
        \/ received[c][j] \notin ToSet(messages)

\* No two goroutines write to a connection at the same time (the WebSocket
\* library allows one writer).  The Syncing flag keeps a broadcaster off while
\* the handler replays, and syncLock while it flushes.  It is true with one
\* broadcaster and no DisconnectAll.
Writers(c) == {a \in Agents : \/ a = c /\ pc[a] \in {"replay", "flush"}
                              \/ a # c /\ current[a] = c /\ pc[a] = "write"}
OneWriter == \A c \in Conns : Cardinality(Writers(c)) <= 1

\* A connection that is lost leaves the hub.
LostIsForgotten ==
    \A c \in Conns : (wire[c] \in {"broken", "closed"}) ~> ~Reachable(c)

\* BroadcastMessage and SendMessageToUser return (the order engine waits for
\* them), whatever the connections do meanwhile: a peer that does not read, in a
\* broadcaster's write or in the flush that keeps syncLock from it, is cut off
\* by the ping goroutine (depth.go:94-96).  True of the depth hub alone: where
\* the ping goroutine merely returns (ledger.go:86-89, notify.go:82-85) one such
\* peer holds the engine for ever.
BroadcastReturns ==
    \A b \in Broadcasters : (pc[b] # "idle") ~> (pc[b] = "idle")

\* WSHub.go:32 "false: 한개만 허용" (one only).  Two handlers of a user that
\* register at the same time both find nothing to evict.
OneConnection ==
    \A u \in Users : Cardinality({c \in Conns : User[c] = u /\ Reachable(c) /\ wire[c] = "open"}) <= 1

\* depth.go:48: the connection subscribes to the data.  UnregisterClient of
\* another connection of the user may delete the inner map this one is about
\* to be stored in: it stays open and receives nothing any more.
SubscriberIsReachable ==
    \A c \in Conns : (pc[c] = "reading" /\ wire[c] = "open") => Reachable(c)

\* WSHub.go:235 "동기화 중 대기된 메시지들 전송" (send what was buffered while
\* syncing).  With a "since" that is not a number the buffer is never sent.
BufferIsSent ==
    \A c \in Conns : (pc[c] = "reading" /\ wire[c] = "open") => pending[c] = <<>>

\* workerPool.go:96: after the close all connections are ended.  A client that
\* registers while DisconnectAll runs is only forgotten.
AllDisconnected ==
    [][ResetClients => \A c \in Conns : Reachable(c) => wire[c] # "open"]_vars

=============================================================================
