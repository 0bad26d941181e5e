---------------------------- MODULE ApiKeys_proofs ----------------------------
(***************************************************************************)
(* The middlewares admit and refuse by right, for any number of users,     *)
(* keys and calls.  Keys change only in their status, which follows the    *)
(* clock; what a call has learnt of its key stays true, and the history of *)
(* its user's flag holds the value the flag has now.                       *)
(***************************************************************************)
EXTENDS ApiKeys, TLAPS

\* The scopes of a key are its owner's; a key is marked as expired only when
\* it has.
KeysAgree ==
    \A k \in DOMAIN table :
        /\ table[k].scopes = KeyScopes(table[k].owner)
        /\ table[k].status = "expired" => table[k].expires < now

\* What a call knows.
CallKnows(c) ==
    /\ pc[c] # "idle" => enabled[caller[c]] \in seen[c] /\ reply[c] = "none"
    /\ pc[c] \in {"login", "create"} => need[c] = {}
    /\ token[c] # NoKey => table[token[c]].owner = caller[c]
    /\ pc[c] \in {"user", "handler"} =>
          /\ token[c] \in given
          /\ table[token[c]].expires > arrived[c]
          /\ need[c] \subseteq table[token[c]].scopes
    /\ pc[c] \in Admitted => TRUE \in seen[c]

CallsKnow == \A c \in Calls : CallKnows(c)

IInv == TypeOK /\ KeysAgree /\ CallsKnow

(* Nobody has a key and nobody calls at first. *)
LEMMA Initially == Init => IInv
<1> SUFFICES ASSUME Init PROVE IInv
  OBVIOUS
<1> USE ApiKeysAssumption DEF Init
<1>1. TypeOK
  BY DEF TypeOK, Positions, Required
<1>2. KeysAgree /\ CallsKnow
  BY DEF KeysAgree, CallsKnow, CallKnows, Admitted
<1> QED
  BY <1>1, <1>2 DEF IInv

-----------------------------------------------------------------------------
(* The parts of a step. *)

\* Keys are added and marked, never given to somebody else.
KeysKept ==
    /\ DOMAIN table \subseteq DOMAIN table'
    /\ DOMAIN table' \subseteq Keys
    /\ table' \in [DOMAIN table' -> KeyRow]
    /\ given \subseteq given'
    /\ given' \subseteq DOMAIN table'
    /\ now' \in 0 .. MaxTime
    /\ now <= now'
    /\ \A k \in DOMAIN table : /\ table'[k].owner = table[k].owner
                               /\ table'[k].scopes = table[k].scopes
                               /\ table'[k].expires = table[k].expires

(* The rows of the table. *)
LEMMA KeyRows ==
    ASSUME IInv, NEW k \in DOMAIN table
    PROVE  /\ table[k] \in KeyRow
           /\ table[k].owner \in Users
           /\ table[k].scopes \subseteq Scopes
           /\ table[k].expires \in Nat
           /\ table[k].status \in {"active", "expired"}
           /\ k \in Keys /\ k # NoKey
<1>1. table[k] \in KeyRow
  BY DEF IInv, TypeOK
<1> QED
  BY <1>1, ApiKeysAssumption DEF KeyRow, IInv, TypeOK

(* A step that leaves the keys alone keeps them. *)
LEMMA SameKeys ==
    ASSUME IInv, UNCHANGED <<table, given, now>>
    PROVE  KeysKept /\ KeysAgree'
<1>1. KeysAgree'
  BY DEF IInv, KeysAgree
<1> QED
  BY <1>1 DEF IInv, TypeOK, KeysKept

(* So does marking the expired ones. *)
LEMMA Marking ==
    ASSUME IInv, table' = Expired, UNCHANGED <<given, now>>
    PROVE  KeysKept /\ KeysAgree'
<1>1. /\ DOMAIN table' = DOMAIN table
      /\ \A k \in DOMAIN table :
            table'[k] = IF table[k].expires < now THEN [table[k] EXCEPT !.status = "expired"]
                                                  ELSE table[k]
  BY DEF Expired
<1>2. ASSUME NEW k \in DOMAIN table
      PROVE  /\ table'[k] \in KeyRow
             /\ table'[k].owner = table[k].owner
             /\ table'[k].scopes = table[k].scopes
             /\ table'[k].expires = table[k].expires
             /\ table'[k].status = "expired" => table[k].expires < now \/ table'[k].status = table[k].status
  BY <1>1, KeyRows DEF KeyRow
<1>3. table' \in [DOMAIN table' -> KeyRow]
  <2>1. table' = [k \in DOMAIN table |-> table'[k]]
    BY <1>1 DEF Expired
  <2> QED
    BY <1>1, <1>2, <2>1
<1>4. KeysAgree'
  BY <1>1, <1>2 DEF IInv, KeysAgree, KeyScopes
<1> QED
  BY <1>1, <1>2, <1>3, <1>4 DEF IInv, TypeOK, KeysKept

(* A call that does nothing in a step knows what it knew. *)
LEMMA Bystander ==
    ASSUME IInv, KeysKept, NEW c \in Calls,
           pc'[c] = pc[c], token'[c] = token[c], need'[c] = need[c], caller'[c] = caller[c],
           reply'[c] = reply[c], arrived'[c] = arrived[c],
           seen[c] \subseteq seen'[c],
           pc[c] # "idle" => enabled'[caller[c]] \in seen'[c]
    PROVE  CallKnows(c)'
<1>1. CallKnows(c)
  BY DEF IInv, CallsKnow
<1>2. token[c] # NoKey => token[c] \in DOMAIN table
  BY DEF IInv, TypeOK
<1>3. token[c] \in given => token[c] \in given' /\ token[c] \in DOMAIN table
  BY DEF IInv, TypeOK, KeysKept
<1>4. ASSUME token[c] \in DOMAIN table
      PROVE  /\ table'[token[c]].owner = table[token[c]].owner
             /\ table'[token[c]].scopes = table[token[c]].scopes
             /\ table'[token[c]].expires = table[token[c]].expires
  BY <1>4 DEF KeysKept
<1> QED
  BY <1>1, <1>2, <1>3, <1>4 DEF CallKnows, Admitted

(* A call that is over knows nothing that could be wrong. *)
LEMMA Over ==
    ASSUME IInv, NEW c \in Calls, NEW answer, Ends(c, answer)
    PROVE  CallKnows(c)'
<1>1. pc'[c] = "idle" /\ token'[c] = NoKey
  BY DEF Ends, IInv, TypeOK
<1> QED
  BY <1>1 DEF CallKnows, Admitted

(* The types of the calls' variables when one of them ends. *)
LEMMA EndTypes ==
    ASSUME IInv, KeysKept, NEW c \in Calls, NEW answer \in {"refused", "faulted", "done"},
           Ends(c, answer), seen' \in [Calls -> SUBSET BOOLEAN],
           enabled' \in [Users -> BOOLEAN], faults' \in 0 .. MaxFaults
    PROVE  TypeOK'
<1>1. /\ Primary \in Users
      /\ {} \in Required
      /\ "idle" \in Positions
      /\ now' \in Nat
  BY ApiKeysAssumption DEF Required, Positions, KeysKept
<1>2. /\ pc' \in [Calls -> Positions]
      /\ need' \in [Calls -> Required]
      /\ caller' \in [Calls -> Users]
      /\ reply' \in [Calls -> {"none", "refused", "faulted", "done"}]
  BY <1>1 DEF Ends, IInv, TypeOK
<1>3. token' \in [Calls -> given' \cup {NoKey}]
  BY DEF Ends, IInv, TypeOK, KeysKept
<1>4. arrived' \in [Calls -> 0 .. now']
  <2>1. 0 .. now \subseteq 0 .. now' /\ 0 \in 0 .. now'
    BY <1>1, ApiKeysAssumption DEF IInv, TypeOK, KeysKept
  <2> QED
    BY <2>1 DEF Ends, IInv, TypeOK
<1> QED
  BY <1>2, <1>3, <1>4 DEF TypeOK, KeysKept

(* A call that returns, with whatever it did to the keys. *)
LEMMA Returning ==
    ASSUME IInv, KeysKept, KeysAgree', NEW c \in Calls,
           NEW answer \in {"refused", "faulted", "done"}, Returns(c, answer),
           enabled' = enabled, faults' \in 0 .. MaxFaults
    PROVE  IInv'
<1>1. seen' \in [Calls -> SUBSET BOOLEAN] /\ Ends(c, answer)
  BY DEF Returns, IInv, TypeOK
<1>2. TypeOK'
  BY <1>1, EndTypes DEF IInv, TypeOK
<1>3. ASSUME NEW d \in Calls PROVE CallKnows(d)'
  <2>1. CASE d = c
    BY <2>1, <1>1, Over
  <2>2. CASE d # c
    <3>1. /\ pc'[d] = pc[d] /\ token'[d] = token[d] /\ need'[d] = need[d]
          /\ caller'[d] = caller[d] /\ reply'[d] = reply[d] /\ arrived'[d] = arrived[d]
          /\ seen'[d] = seen[d]
      BY <2>2 DEF Returns, Ends, IInv, TypeOK
    <3>2. pc[d] # "idle" => enabled[caller[d]] \in seen[d]
      BY DEF IInv, CallsKnow, CallKnows
    <3> QED
      BY <3>1, <3>2, Bystander
  <2> QED
    BY <2>1, <2>2
<1> QED
  BY <1>2, <1>3 DEF IInv, CallsKnow

(* A statement of a call fails. *)
LEMMA Failing ==
    ASSUME IInv, NEW c \in Calls, Fails(c)
    PROVE  IInv'
<1>1. faults' \in 0 .. MaxFaults
  BY ApiKeysAssumption DEF Fails, IInv, TypeOK
<1> QED
  BY <1>1, SameKeys, Returning DEF Fails

(* A call goes on with what is true of it. *)
LEMMA GoingOn ==
    ASSUME IInv, KeysKept, KeysAgree', NEW c \in Calls, NEW to \in Positions, Goes(c, to),
           pc[c] # "idle", enabled' = enabled, faults' \in 0 .. MaxFaults,
           to \in {"create", "select", "user", "handler"},
           to = "create" => need[c] = {},
           to \in {"user", "handler"} =>
              /\ token[c] \in given
              /\ table[token[c]].expires > arrived[c]
              /\ need[c] \subseteq table[token[c]].scopes,
           to \in Admitted => enabled[caller[c]]
    PROVE  IInv'
<1> USE DEF Goes
<1>1. TypeOK'
  <2>1. pc' \in [Calls -> Positions]
    BY DEF IInv, TypeOK
  <2>2. token' \in [Calls -> given' \cup {NoKey}]
    BY DEF IInv, TypeOK, KeysKept
  <2>3. arrived' \in [Calls -> 0 .. now']
    <3>1. 0 .. now \subseteq 0 .. now'
      BY ApiKeysAssumption DEF IInv, TypeOK, KeysKept
    <3> QED
      BY <3>1 DEF IInv, TypeOK
  <2> QED
    BY <2>1, <2>2, <2>3 DEF IInv, TypeOK, KeysKept
<1>2. ASSUME NEW d \in Calls PROVE CallKnows(d)'
  <2>1. CallKnows(d) /\ CallKnows(c)
    BY DEF IInv, CallsKnow
  <2>2. CASE d = c
    <3>1. pc'[c] = to
      BY DEF IInv, TypeOK
    <3>2. ASSUME token[c] # NoKey
          PROVE  /\ token[c] \in given /\ token[c] \in given'
                 /\ table'[token[c]].owner = table[token[c]].owner
                 /\ table'[token[c]].scopes = table[token[c]].scopes
                 /\ table'[token[c]].expires = table[token[c]].expires
      BY <3>2 DEF IInv, TypeOK, KeysKept
    <3>3. NoKey \notin given
      BY ApiKeysAssumption DEF IInv, TypeOK
    <3>4. enabled[caller[c]] \in seen[c] /\ reply[c] = "none"
      BY <2>1 DEF CallKnows
    <3>5. to \in Admitted => TRUE \in seen[c]
      <4>1. enabled[caller[c]] \in BOOLEAN
        BY DEF IInv, TypeOK
      <4> QED
        BY <3>4, <4>1
    <3>6. token[c] # NoKey => table[token[c]].owner = caller[c]
      BY <2>1 DEF CallKnows
    <3> QED
      BY <2>2, <3>1, <3>2, <3>3, <3>4, <3>5, <3>6 DEF CallKnows
  <2>3. CASE d # c
    <3>1. pc'[d] = pc[d]
      BY <2>3 DEF IInv, TypeOK
    <3> QED
      BY <3>1, <2>1, Bystander DEF CallKnows
  <2> QED
    BY <2>2, <2>3
<1> QED
  BY <1>1, <1>2 DEF IInv, CallsKnow

(* A call comes in. *)
LEMMA Arriving ==
    ASSUME IInv, NEW c \in Calls, NEW to \in {"login", "cleanup"}, NEW t \in given \cup {NoKey},
           NEW required \in Required, NEW u \in Users, Arrives(c, to, t, required, u),
           t # NoKey => table[t].owner = u,
           to = "login" => required = {}
    PROVE  IInv'
<1> USE DEF Arrives
<1>1. KeysKept /\ KeysAgree'
  BY SameKeys
<1>2. TypeOK'
  <2>1. /\ pc' \in [Calls -> Positions]
        /\ token' \in [Calls -> given \cup {NoKey}]
        /\ need' \in [Calls -> Required]
        /\ caller' \in [Calls -> Users]
        /\ reply' \in [Calls -> {"none", "refused", "faulted", "done"}]
    BY DEF IInv, TypeOK, Positions
  <2>2. seen' \in [Calls -> SUBSET BOOLEAN]
    BY DEF IInv, TypeOK
  <2>3. arrived' \in [Calls -> 0 .. now]
    <3>1. now \in 0 .. now
      BY ApiKeysAssumption DEF IInv, TypeOK
    <3> QED
      BY <3>1 DEF IInv, TypeOK
  <2> QED
    BY <2>1, <2>2, <2>3 DEF IInv, TypeOK
<1>3. ASSUME NEW d \in Calls PROVE CallKnows(d)'
  <2>1. CASE d = c
    <3>1. /\ pc'[c] = to /\ token'[c] = t /\ need'[c] = required /\ caller'[c] = u
          /\ reply'[c] = "none" /\ seen'[c] = {enabled[u]}
      BY DEF IInv, TypeOK
    <3> QED
      BY <2>1, <3>1 DEF CallKnows, Admitted
  <2>2. CASE d # c
    <3>1. /\ pc'[d] = pc[d] /\ token'[d] = token[d] /\ need'[d] = need[d]
          /\ caller'[d] = caller[d] /\ reply'[d] = reply[d] /\ arrived'[d] = arrived[d]
          /\ seen'[d] = seen[d]
      BY <2>2 DEF IInv, TypeOK
    <3>2. pc[d] # "idle" => enabled[caller[d]] \in seen[d]
      BY DEF IInv, CallsKnow, CallKnows
    <3> QED
      BY <3>1, <3>2, <1>1, Bystander
  <2> QED
    BY <2>1, <2>2
<1> QED
  BY <1>1, <1>2, <1>3 DEF IInv, CallsKnow

-----------------------------------------------------------------------------
(* What a found key and its scopes say. *)
LEMMA FoundKey ==
    ASSUME IInv, NEW c \in Calls, Found(token[c]), IsinScope(table[token[c]].scopes, need[c])
    PROVE  /\ token[c] \in given
           /\ table[token[c]].expires > arrived[c]
           /\ need[c] \subseteq table[token[c]].scopes
<1>1. token[c] \in given /\ token[c] \in DOMAIN table
  BY DEF Found, IInv, TypeOK
<1>2. table[token[c]].expires > now
  BY DEF Found, Rows
<1>3. arrived[c] \in 0 .. now /\ now \in Nat /\ table[token[c]].expires \in Nat
  BY <1>1, KeyRows, ApiKeysAssumption DEF IInv, TypeOK
<1> QED
  BY <1>1, <1>2, <1>3 DEF IsinScope

(* Witnessed keeps and extends every history. *)
LEMMA Witnesses ==
    ASSUME IInv, NEW u \in Users, NEW value \in BOOLEAN
    PROVE  /\ Witnessed(u, value) \in [Calls -> SUBSET BOOLEAN]
           /\ \A d \in Calls :
                 /\ seen[d] \subseteq Witnessed(u, value)[d]
                 /\ pc[d] # "idle" =>
                       [enabled EXCEPT ![u] = value][caller[d]] \in Witnessed(u, value)[d]
<1>1. /\ seen \in [Calls -> SUBSET BOOLEAN]
      /\ caller \in [Calls -> Users]
      /\ enabled \in [Users -> BOOLEAN]
  BY DEF IInv, TypeOK
<1>2. ASSUME NEW d \in Calls
      PROVE  /\ Witnessed(u, value)[d] =
                   (IF pc[d] # "idle" /\ caller[d] = u THEN seen[d] \cup {value} ELSE seen[d])
             /\ Witnessed(u, value)[d] \in SUBSET BOOLEAN
             /\ pc[d] # "idle" => enabled[caller[d]] \in seen[d]
  BY <1>1 DEF Witnessed, IInv, CallsKnow, CallKnows
<1>3. Witnessed(u, value) \in [Calls -> SUBSET BOOLEAN]
  <2>1. Witnessed(u, value) = [d \in Calls |-> Witnessed(u, value)[d]]
    BY DEF Witnessed
  <2> QED
    BY <1>2, <2>1
<1>4. ASSUME NEW d \in Calls, pc[d] # "idle"
      PROVE  [enabled EXCEPT ![u] = value][caller[d]] \in Witnessed(u, value)[d]
  <2>1. CASE caller[d] = u
    <3>1. [enabled EXCEPT ![u] = value][caller[d]] = value
      BY <1>1, <2>1
    <3>2. value \in Witnessed(u, value)[d]
      BY <1>2, <1>4, <2>1
    <3> QED
      BY <3>1, <3>2
  <2>2. CASE caller[d] # u
    BY <1>1, <1>2, <1>4, <2>2
  <2> QED
    BY <2>1, <2>2
<1> QED
  BY <1>2, <1>3, <1>4

(* A call's steps keep the invariant. *)
LEMMA Calling ==
    ASSUME IInv, NEW c \in Calls, Call(c)
    PROVE  IInv'
<1>0. faults \in 0 .. MaxFaults /\ CallKnows(c)
  BY DEF IInv, TypeOK, CallsKnow
<1>1. CASE Login(c)
  <2>1. PICK u \in Users : Arrives(c, "login", NoKey, {}, u)
    BY <1>1 DEF Login
  <2> QED
    BY <2>1, Arriving DEF Required
<1>2. CASE LoginMiddleware(c)
  <2>1. CASE /\ enabled[caller[c]]
             /\ Goes(c, "create")
             /\ UNCHANGED <<enabled, table, given, now, faults>>
    <3>1. need[c] = {} /\ pc[c] # "idle"
      BY <1>0, <1>2 DEF LoginMiddleware, CallKnows
    <3> QED
      BY <1>0, <2>1, <3>1, SameKeys, GoingOn DEF Positions
  <2>2. CASE Returns(c, "refused") /\ UNCHANGED <<enabled, table, given, now, faults>>
    BY <1>0, <2>2, SameKeys, Returning
  <2> QED
    BY <1>2, <2>1, <2>2, Failing DEF LoginMiddleware
<1>3. CASE CreateAPIKey(c)
  <2> DEFINE row == [owner |-> caller[c], scopes |-> KeyScopes(caller[c]),
                     expires |-> now + Lifetime, status |-> "active"]
  <2>1. ASSUME NEW k \in Keys \ DOMAIN table,
               table' = [l \in DOMAIN table \cup {k} |-> IF l = k THEN row ELSE table[l]],
               \/ given' = given \cup {k} /\ Returns(c, "done") /\ UNCHANGED faults
               \/ /\ faults < MaxFaults
                  /\ faults' = faults + 1
                  /\ Returns(c, "faulted")
                  /\ UNCHANGED given,
               UNCHANGED <<enabled, now>>
        PROVE  IInv'
    <3>1. row \in KeyRow
      <4>1. caller[c] \in Users /\ now \in Nat
        BY ApiKeysAssumption DEF IInv, TypeOK
      <4>2. KeyScopes(caller[c]) \subseteq Scopes
        BY DEF KeyScopes, FullAdminScopes, APIKeyReadWriteScopes, Scopes
      <4> QED
        BY <4>1, <4>2, ApiKeysAssumption DEF KeyRow
    <3>2. /\ DOMAIN table' = DOMAIN table \cup {k}
          /\ table'[k] = row
          /\ \A l \in DOMAIN table : table'[l] = table[l]
      BY <2>1
    <3>3. \A l \in DOMAIN table : table[l] \in KeyRow
      BY KeyRows
    <3>4. KeysKept
      BY <2>1, <3>1, <3>2, <3>3, ApiKeysAssumption DEF KeysKept, IInv, TypeOK
    <3>5. KeysAgree'
      <4>1. row.scopes = KeyScopes(row.owner) /\ row.status # "expired"
        OBVIOUS
      <4> HIDE DEF row
      <4> QED
        BY <2>1, <3>2, <4>1 DEF IInv, KeysAgree, KeyScopes
    <3>6. faults' \in 0 .. MaxFaults
      BY <1>0, <2>1, ApiKeysAssumption
    <3> QED
      BY <2>1, <3>4, <3>5, <3>6, Returning
  <2> QED
    BY <1>3, <2>1, Failing DEF CreateAPIKey
<1>4. CASE Arrive(c)
  <2>1. PICK required \in Required :
           \/ Arrives(c, "cleanup", NoKey, required, Primary)
           \/ \E k \in given : Arrives(c, "cleanup", k, required, table[k].owner)
    BY <1>4 DEF Arrive
  <2>2. Primary \in Users
    BY ApiKeysAssumption
  <2>3. CASE Arrives(c, "cleanup", NoKey, required, Primary)
    BY <2>2, <2>3, Arriving
  <2>4. ASSUME NEW k \in given, Arrives(c, "cleanup", k, required, table[k].owner)
        PROVE  IInv'
    <3>1. PICK u \in Users : u = table[k].owner
      BY KeyRows DEF IInv, TypeOK
    <3>2. Arrives(c, "cleanup", k, required, u)
      BY <2>4, <3>1
    <3> QED
      BY <3>1, <3>2, Arriving
  <2> QED
    BY <2>1, <2>3, <2>4
<1>5. CASE Cleanup(c)
  <2>1. /\ table' = Expired \/ table' = table
        /\ faults' \in 0 .. MaxFaults
        /\ UNCHANGED <<enabled, given, now>>
        /\ Goes(c, "select")
        /\ pc[c] # "idle"
    BY <1>0, <1>5, ApiKeysAssumption DEF Cleanup
  <2>2. KeysKept /\ KeysAgree'
    BY <2>1, SameKeys, Marking
  <2> QED
    BY <2>1, <2>2, GoingOn DEF Positions, Admitted
<1>6. CASE Authenticate(c)
  <2>1. CASE /\ Found(token[c]) /\ IsinScope(table[token[c]].scopes, need[c])
             /\ Goes(c, "user")
             /\ UNCHANGED <<enabled, table, given, now, faults>>
    <3>1. pc[c] # "idle"
      BY <1>6 DEF Authenticate
    <3> QED
      BY <1>0, <2>1, <3>1, FoundKey, SameKeys, GoingOn DEF Positions, Admitted
  <2>2. CASE Returns(c, "refused") /\ UNCHANGED <<enabled, table, given, now, faults>>
    BY <1>0, <2>2, SameKeys, Returning
  <2> QED
    BY <1>6, <2>1, <2>2, Failing DEF Authenticate
<1>7. CASE CheckUser(c)
  <2>1. CASE /\ enabled[caller[c]]
             /\ Goes(c, "handler")
             /\ UNCHANGED <<enabled, table, given, now, faults>>
    <3>1. pc[c] = "user"
      BY <1>7 DEF CheckUser
    <3> QED
      BY <1>0, <2>1, <3>1, SameKeys, GoingOn DEF Positions, Admitted, CallKnows
  <2>2. CASE Returns(c, "refused") /\ UNCHANGED <<enabled, table, given, now, faults>>
    BY <1>0, <2>2, SameKeys, Returning
  <2> QED
    BY <1>7, <2>1, <2>2, Failing DEF CheckUser
<1>8. CASE Handle(c)
  <2>1. ASSUME NEW u \in Users, NEW value \in BOOLEAN,
               enabled' = [enabled EXCEPT ![u] = value],
               seen' = [Witnessed(u, value) EXCEPT ![c] = {}],
               Ends(c, "done"),
               UNCHANGED <<table, given, now, faults>>
        PROVE  IInv'
    <3>1. KeysKept /\ KeysAgree'
      BY <2>1, SameKeys
    <3>2. seen' \in [Calls -> SUBSET BOOLEAN] /\ enabled' \in [Users -> BOOLEAN]
      BY <2>1, Witnesses DEF IInv, TypeOK
    <3>3. TypeOK'
      BY <1>0, <2>1, <3>1, <3>2, EndTypes
    <3>4. ASSUME NEW d \in Calls PROVE CallKnows(d)'
      <4>1. CASE d = c
        BY <2>1, <4>1, Over
      <4>2. CASE d # c
        <5>1. /\ pc'[d] = pc[d] /\ token'[d] = token[d] /\ need'[d] = need[d]
              /\ caller'[d] = caller[d] /\ reply'[d] = reply[d] /\ arrived'[d] = arrived[d]
          BY <2>1, <4>2 DEF Ends, IInv, TypeOK
        <5>2. seen'[d] = Witnessed(u, value)[d]
          BY <2>1, <4>2, Witnesses
        <5> QED
          BY <2>1, <3>1, <5>1, <5>2, Witnesses, Bystander
      <4> QED
        BY <4>1, <4>2
    <3> QED
      BY <3>1, <3>3, <3>4 DEF IInv, CallsKnow
  <2>2. CASE Returns(c, "done") /\ UNCHANGED <<enabled, table, given, now, faults>>
    BY <1>0, <2>2, SameKeys, Returning
  <2> QED
    BY <1>8, <2>1, <2>2, Failing DEF Handle
<1> QED
  BY <1>1, <1>2, <1>3, <1>4, <1>5, <1>6, <1>7, <1>8 DEF Call

(* Time, the worker pool and the first administrator keep it. *)
LEMMA Elsewhere ==
    ASSUME IInv, Activation \/ ProcessClearExpiredAPIKeys \/ Tick
    PROVE  IInv'
<1>1. CASE Activation
  <2> USE <1>1 DEF Activation
  <2>1. KeysKept /\ KeysAgree'
    BY SameKeys
  <2>2. Primary \in Users
    BY ApiKeysAssumption
  <2>3. TypeOK'
    BY <2>2, Witnesses DEF IInv, TypeOK
  <2>4. CallsKnow'
    BY <2>1, <2>2, Witnesses, Bystander DEF CallsKnow
  <2> QED
    BY <2>1, <2>3, <2>4 DEF IInv
<1>2. CASE ProcessClearExpiredAPIKeys \/ Tick
  <2>1. UNCHANGED <<enabled, given, callVars, faults>>
    BY <1>2 DEF ProcessClearExpiredAPIKeys, Tick
  <2>2. KeysKept /\ KeysAgree'
    <3>1. CASE ProcessClearExpiredAPIKeys
      BY <3>1, Marking DEF ProcessClearExpiredAPIKeys
    <3>2. CASE Tick
      <4>1. now' \in 0 .. MaxTime /\ now < now' /\ now \in Nat /\ UNCHANGED <<table, given>>
        BY <3>2, ApiKeysAssumption DEF Tick, IInv, TypeOK
      <4>2. KeysAgree'
        <5>1. ASSUME NEW k \in DOMAIN table, table[k].expires < now PROVE table[k].expires < now'
          BY <5>1, <4>1, KeyRows
        <5> QED
          BY <4>1, <5>1 DEF IInv, KeysAgree
      <4> QED
        BY <4>1, <4>2 DEF KeysKept, IInv, TypeOK
    <3> QED
      BY <1>2, <3>1, <3>2
  <2>3. TypeOK'
    <3>1. arrived' \in [Calls -> 0 .. now']
      <4>1. 0 .. now \subseteq 0 .. now'
        BY <2>2, ApiKeysAssumption DEF IInv, TypeOK, KeysKept
      <4> QED
        BY <2>1, <4>1 DEF IInv, TypeOK, callVars
    <3> QED
      BY <2>1, <2>2, <3>1 DEF IInv, TypeOK, KeysKept, callVars
  <2>4. CallsKnow'
    <3>1. \A c \in Calls : pc[c] # "idle" => enabled[caller[c]] \in seen[c]
      BY DEF IInv, CallsKnow, CallKnows
    <3> QED
      BY <2>1, <2>2, <3>1, Bystander DEF CallsKnow, callVars
  <2> QED
    BY <2>2, <2>3, <2>4 DEF IInv
<1> QED
  BY <1>1, <1>2

(* Every step keeps it. *)
LEMMA Inductive == IInv /\ [Next]_vars => IInv'
<1> SUFFICES ASSUME IInv, [Next]_vars PROVE IInv'
  OBVIOUS
<1>1. CASE UNCHANGED vars
  BY <1>1 DEF vars, callVars, IInv, TypeOK, KeysAgree, CallsKnow, CallKnows, KeyScopes
<1> QED
  BY <1>1, Calling, Elsewhere DEF Next

LEMMA InvariantHolds == Spec => []IInv
BY Initially, Inductive, PTL DEF Spec

-----------------------------------------------------------------------------
(* Every state of the tables and the calls is well typed. *)
THEOREM TypeCorrect == Spec => []TypeOK
<1>1. IInv => TypeOK
  BY DEF IInv
<1> QED
  BY <1>1, InvariantHolds, PTL

(* Whoever is past a middleware was enabled during the call, with a key of *)
(* his own that had not expired when he called, and does what              *)
(* administrators do only as an administrator.                             *)
THEOREM AlwaysAdmittedByRight == Spec => []AdmittedByRight
<1>1. ASSUME IInv PROVE AdmittedByRight
  <2> SUFFICES ASSUME NEW c \in Calls, pc[c] \in Admitted
               PROVE  /\ TRUE \in seen[c]
                      /\ pc[c] = "handler" =>
                            /\ token[c] \in given
                            /\ table[token[c]].expires > arrived[c]
                            /\ table[token[c]].owner = caller[c]
                      /\ "admin" \in need[c] => caller[c] \in Admins
    BY DEF AdmittedByRight
  <2>1. CallKnows(c)
    BY <1>1 DEF IInv, CallsKnow
  <2>2. ASSUME pc[c] = "handler"
        PROVE  token[c] \in DOMAIN table /\ table[token[c]].owner = caller[c]
    <3>1. token[c] \in given /\ token[c] # NoKey
      BY <1>1, <2>1, <2>2, ApiKeysAssumption DEF CallKnows, IInv, TypeOK
    <3> QED
      BY <1>1, <2>1, <3>1 DEF CallKnows, IInv, TypeOK
  <2>3. ASSUME "admin" \in need[c] PROVE caller[c] \in Admins
    <3>1. pc[c] = "handler"
      BY <2>1, <2>3 DEF CallKnows, Admitted
    <3>2. "admin" \in KeyScopes(caller[c])
      BY <1>1, <2>1, <2>2, <2>3, <3>1 DEF CallKnows, IInv, KeysAgree
    <3> QED
      BY <3>2 DEF KeyScopes, APIKeyReadWriteScopes
  <2> QED
    BY <2>1, <2>2, <2>3 DEF CallKnows
<1> QED
  BY <1>1, InvariantHolds, PTL

(* A call that is refused lacked a key, time, a scope or the user's        *)
(* flag, whichever keys share the first characters of its own.             *)
THEOREM AlwaysRefusedByRight == Spec => RefusedByRight
<1> DEFINE Lacks(c) == \/ FALSE \in seen[c]
                       \/ pc[c] # "login" /\ token[c] = NoKey
                       \/ pc[c] # "login" /\ table[token[c]].expires <= now
                       \/ ~IsinScope(table[token[c]].scopes, need[c])
<1>1. ASSUME IInv, Next, NEW c \in Calls, pc[c] # "idle", reply'[c] = "refused"
      PROVE  Lacks(c)
  <2>1. reply[c] = "none" /\ enabled[caller[c]] \in seen[c] /\ enabled[caller[c]] \in BOOLEAN
    BY <1>1 DEF IInv, TypeOK, CallsKnow, CallKnows
  <2>2. \/ LoginMiddleware(c) /\ ~enabled[caller[c]]
        \/ CheckUser(c) /\ ~enabled[caller[c]]
        \/ /\ pc[c] = "select"
           /\ ~(Found(token[c]) /\ IsinScope(table[token[c]].scopes, need[c]))
    <3>1. reply \in [Calls -> {"none", "refused", "faulted", "done"}] /\ reply'[c] # reply[c]
      BY <1>1, <2>1 DEF IInv, TypeOK
    <3>2. ~(Activation \/ ProcessClearExpiredAPIKeys \/ Tick)
      BY <3>1 DEF Activation, ProcessClearExpiredAPIKeys, Tick, callVars
    <3>3. ASSUME NEW d \in Calls, Call(d)
          PROVE  /\ d = c
                 /\ \/ LoginMiddleware(c) \/ CheckUser(c) \/ Authenticate(c)
                    \/ CreateAPIKey(c) \/ Handle(c)
      <4>1. \A e \in Calls : \A to, t, required, u :
               Arrives(e, to, t, required, u) => reply' = [reply EXCEPT ![e] = "none"]
        BY DEF Arrives
      <4>2. \A e \in Calls : \A to : Goes(e, to) => reply' = reply
        BY DEF Goes
      <4>3. \A e \in Calls : \A answer : Ends(e, answer) \/ Returns(e, answer) => reply' = [reply EXCEPT ![e] = answer]
        BY DEF Ends, Returns
      <4>4. \E answer : reply' = [reply EXCEPT ![d] = answer] \/ reply' = reply
        BY <3>3, <4>1, <4>2, <4>3 DEF Call, Login, LoginMiddleware, CreateAPIKey, Arrive, Cleanup,
           Authenticate, CheckUser, Handle, Fails
      <4>5. d = c
        BY <3>1, <4>4
      <4>6. ~Login(c) /\ ~Arrive(c)
        BY <1>1 DEF Login, Arrive, Arrives
      <4>7. ~Cleanup(c)
        BY <3>1 DEF Cleanup, Goes
      <4> QED
        BY <3>3, <4>5, <4>6, <4>7 DEF Call
    <3>4. \A answer : Returns(c, answer) \/ Ends(c, answer) => reply'[c] = answer
      BY <3>1 DEF Returns, Ends
    <3>5. ~CreateAPIKey(c) /\ ~Handle(c) /\ ~Fails(c)
      BY <1>1, <3>4 DEF CreateAPIKey, Handle, Fails
    <3>6. ~Goes(c, "create") /\ ~Goes(c, "handler") /\ ~Goes(c, "user")
      BY <3>1 DEF Goes
    <3> QED
      BY <1>1, <3>2, <3>3, <3>5, <3>6 DEF Next, LoginMiddleware, CheckUser, Authenticate
  <2>3. ASSUME pc[c] = "select", ~Found(token[c]), token[c] # NoKey
        PROVE  table[token[c]].expires <= now
    <3>1. token[c] \in DOMAIN table
      BY <1>1, <2>3 DEF IInv, TypeOK
    <3>2. table[token[c]].status # "active" \/ ~(table[token[c]].expires > now)
      BY <2>3, <3>1 DEF Found, Rows
    <3>3. table[token[c]].status = "expired" => table[token[c]].expires < now
      BY <1>1, <3>1 DEF IInv, KeysAgree
    <3> QED
      BY <1>1, <3>1, <3>2, <3>3, KeyRows, ApiKeysAssumption DEF IInv, TypeOK
  <2>4. CASE ~enabled[caller[c]]
    BY <2>1, <2>4
  <2> QED
    BY <2>2, <2>3, <2>4
<1>2. IInv /\ [Next]_vars =>
         [\A c \in Calls : pc[c] # "idle" /\ reply'[c] = "refused" => Lacks(c)]_vars
  BY <1>1
<1> QED
  BY <1>2, InvariantHolds, PTL DEF Spec, RefusedByRight

=============================================================================
