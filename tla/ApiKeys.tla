------------------------------- MODULE ApiKeys -------------------------------
(***************************************************************************)
(* API keys and the middlewares that admit a call                          *)
(* (middlewares/auth/middleware.go, databases/postgresql/apiKeyDB.go,      *)
(* routes/api/v1/auth.go generateTempAPIKey), with the calls that change   *)
(* what they look at: administrators enable and disable users by calls     *)
(* that pass the same middleware (routes/api/v1/admin/users.go), time      *)
(* passes, and the worker pool marks expired keys.                         *)
(*                                                                         *)
(* A call reads its key and then its user by two statements; every         *)
(* statement is one step and may fail.  The token's format and checksum,   *)
(* its hash and the user's password are abstracted to which key or which   *)
(* user a client can prove; last_used, which nothing reads, is left out.   *)
(* Every route sets Bypass to FALSE but that of the activation.            *)
(***************************************************************************)
EXTENDS Naturals

CONSTANTS
    Users,      \* ids of the rows of table users
    Admins,     \* those with the flag admin, which no route changes
    Primary,    \* the administrator with id 1
    Keys,       \* what generateAPIKey may return
    NoKey,      \* a token that is not a key of the server
    Prefix,     \* the first ten characters of a key
    Calls,      \* HTTP connections; each makes one call after the other
    Lifetime,   \* of a key; the code adds 4 hours
    MaxTime,    \* bound: the clock
    MaxFaults   \* bound: statements that fail

ASSUME ApiKeysAssumption ==
    /\ Primary \in Admins
    /\ Admins \subseteq Users
    /\ NoKey \notin Keys
    /\ Prefix \in [Keys -> Keys]
    /\ Lifetime \in Nat
    /\ MaxTime \in Nat
    /\ MaxFaults \in Nat

VARIABLES
    enabled,  \* users.enabled
    table,    \* api_keys: a function from the keys inserted to rows
    given,    \* the keys that were answered to a client
    now,      \* the clock of server and database
    pc,       \* where a call is
    token,    \* the key in its header
    need,     \* the scopes its route requires
    caller,   \* the user of the token, or who logs in
    reply,    \* its answer, "none" before
    seen,     \* history: the values caller's enabled has had during the call
    arrived,  \* history: when the call came in
    faults    \* bookkeeping of the bound

callVars == <<pc, token, need, caller, reply, seen, arrived>>
vars == <<enabled, table, given, now, callVars, faults>>

\* "create" and "handler" are past the middleware.
Positions == {"idle", "login", "create", "cleanup", "select", "user", "handler"}
Admitted == {"create", "handler"}

\* Of the scopes only these are told apart: those of APIKeyReadWriteScopes
\* ("basic") and the others, which FullAdminScopes has as well ("admin").
Scopes == {"basic", "admin"}
FullAdminScopes == Scopes
APIKeyReadWriteScopes == {"basic"}

\* What routes require: nothing (APIKeyMiddleware), or scopes that only
\* administrators' keys have.
Required == {{}, {"admin"}}

IsinScope(scopes, required) == required \subseteq scopes

-----------------------------------------------------------------------------
Init ==
    /\ enabled = [u \in Users |-> FALSE]
    /\ table = [k \in {} |-> 0]
    /\ given = {}
    /\ now = 0
    /\ pc = [c \in Calls |-> "idle"]
    /\ token = [c \in Calls |-> NoKey]
    /\ need = [c \in Calls |-> {}]
    /\ caller = [c \in Calls |-> Primary]
    /\ reply = [c \in Calls |-> "none"]
    /\ seen = [c \in Calls |-> {}]
    /\ arrived = [c \in Calls |-> 0]
    /\ faults = 0

Goes(c, to) ==
    /\ pc' = [pc EXCEPT ![c] = to]
    /\ UNCHANGED <<token, need, caller, reply, seen, arrived>>

\* The handler's variables are gone when it returns.
Ends(c, answer) ==
    /\ pc' = [pc EXCEPT ![c] = "idle"]
    /\ token' = [token EXCEPT ![c] = NoKey]
    /\ need' = [need EXCEPT ![c] = {}]
    /\ caller' = [caller EXCEPT ![c] = Primary]
    /\ reply' = [reply EXCEPT ![c] = answer]
    /\ arrived' = [arrived EXCEPT ![c] = 0]

Returns(c, answer) ==
    /\ Ends(c, answer)
    /\ seen' = [seen EXCEPT ![c] = {}]

\* A statement of the call fails: 401 or 500, nothing is changed.
Fails(c) ==
    /\ faults < MaxFaults
    /\ faults' = faults + 1
    /\ Returns(c, "faulted")
    /\ UNCHANGED <<enabled, table, given, now>>

Arrives(c, to, t, required, u) ==
    /\ pc[c] = "idle"
    /\ pc' = [pc EXCEPT ![c] = to]
    /\ token' = [token EXCEPT ![c] = t]
    /\ need' = [need EXCEPT ![c] = required]
    /\ caller' = [caller EXCEPT ![c] = u]
    /\ reply' = [reply EXCEPT ![c] = "none"]
    /\ seen' = [seen EXCEPT ![c] = {enabled[u]}]
    /\ arrived' = [arrived EXCEPT ![c] = now]
    /\ UNCHANGED <<enabled, table, given, now, faults>>

-----------------------------------------------------------------------------
(* POST /auth/token: LoginMiddleware, then generateTempAPIKey.             *)

Login(c) == \E u \in Users : Arrives(c, "login", NoKey, {}, u)

LoginMiddleware(c) ==
    /\ pc[c] = "login"
    /\ \/ /\ IF enabled[caller[c]] THEN Goes(c, "create")
                                   ELSE Returns(c, "refused")
          /\ UNCHANGED <<enabled, table, given, now, faults>>
       \/ Fails(c)

KeyScopes(u) == IF u \in Admins THEN FullAdminScopes ELSE APIKeyReadWriteScopes

\* CreateAPIKey; an insert that fails for the caller only leaves a row whose
\* key nobody was told.
CreateAPIKey(c) ==
    LET row == [owner |-> caller[c], scopes |-> KeyScopes(caller[c]),
                expires |-> now + Lifetime, status |-> "active"]
    IN /\ pc[c] = "create"
       /\ \/ \E k \in Keys \ DOMAIN table :
                /\ table' = [l \in DOMAIN table \cup {k} |-> IF l = k THEN row ELSE table[l]]
                /\ \/ /\ given' = given \cup {k}
                      /\ Returns(c, "done")
                      /\ UNCHANGED faults
                   \/ /\ faults < MaxFaults
                      /\ faults' = faults + 1
                      /\ Returns(c, "faulted")
                      /\ UNCHANGED given
                /\ UNCHANGED <<enabled, now>>
          \/ Fails(c)

-----------------------------------------------------------------------------
(* A call with a key: APIKeyMiddleware, or APIKeyMiddlewareRequireScopes   *)
(* with the scopes of its route.                                           *)

Arrive(c) ==
    \E required \in Required :
       \/ Arrives(c, "cleanup", NoKey, required, Primary)
       \/ \E k \in given : Arrives(c, "cleanup", k, required, table[k].owner)

\* Mutant: rows of expired keys are deleted.
ExpiredDeleted == [k \in {l \in DOMAIN table : table[l].expires >= now} |-> table[k]]

\* CleanupExpiredKeys, of a call or of the worker pool.
Expired ==
    [k \in DOMAIN table |->
        IF table[k].expires < now THEN [table[k] EXCEPT !.status = "expired"]
                                  ELSE table[k]]

\* An error is logged and nothing else.
Cleanup(c) ==
    /\ pc[c] = "cleanup"
    /\ \/ /\ table' = Expired
          /\ UNCHANGED faults
       \/ /\ faults < MaxFaults
          /\ faults' = faults + 1
          /\ UNCHANGED table
    /\ Goes(c, "select")
    /\ UNCHANGED <<enabled, given, now>>

\* The rows the query returns.
Rows(prefix) ==
    {k \in DOMAIN table :
        /\ Prefix[k] = prefix
        /\ table[k].status = "active"
        /\ table[k].expires > now}

\* Mutant: only one row of the prefix is compared with the token.
OneRow(t) ==
    t # NoKey /\ Rows(Prefix[t]) # {} /\ t = CHOOSE k \in Rows(Prefix[t]) : TRUE

\* Some row has the hash of the token; hashes tell keys apart.
Found(t) == t # NoKey /\ \E k \in Rows(Prefix[t]) : k = t

\* AuthenticateAPIKey's query, and the checks on the row it found.
Authenticate(c) ==
    /\ pc[c] = "select"
    /\ \/ /\ IF Found(token[c]) /\ IsinScope(table[token[c]].scopes, need[c])
             THEN Goes(c, "user")
             ELSE Returns(c, "refused")
          /\ UNCHANGED <<enabled, table, given, now, faults>>
       \/ Fails(c)

\* Mutant: the user is not read once the key was found.
KeyIsEnough(c) ==
    /\ pc[c] = "user"
    /\ Goes(c, "handler")
    /\ UNCHANGED <<enabled, table, given, now, faults>>

\* GetUserByID, by another statement.
CheckUser(c) ==
    /\ pc[c] = "user"
    /\ \/ /\ IF enabled[caller[c]] THEN Goes(c, "handler")
                                   ELSE Returns(c, "refused")
          /\ UNCHANGED <<enabled, table, given, now, faults>>
       \/ Fails(c)

\* The row of a user is updated while calls of that user are under way.
Witnessed(u, value) ==
    [c \in Calls |-> IF pc[c] # "idle" /\ caller[c] = u
                     THEN seen[c] \cup {value} ELSE seen[c]]

\* activateUser and deactivateUser for a route that needs "admin", anything
\* that leaves these tables alone for the others.
Handle(c) ==
    /\ pc[c] = "handler"
    /\ \/ /\ need[c] = {"admin"}
          /\ \E u \in Users, value \in BOOLEAN :
                /\ enabled' = [enabled EXCEPT ![u] = value]
                /\ seen' = [Witnessed(u, value) EXCEPT ![c] = {}]
          /\ Ends(c, "done")
          /\ UNCHANGED <<table, given, now, faults>>
       \/ /\ need[c] = {}
          /\ Returns(c, "done")
          /\ UNCHANGED <<enabled, table, given, now, faults>>
       \/ Fails(c)

Call(c) ==
    \/ Login(c)
    \/ LoginMiddleware(c)
    \/ CreateAPIKey(c)
    \/ Arrive(c)
    \/ Cleanup(c)
    \/ Authenticate(c)
    \/ CheckUser(c)
    \/ Handle(c)

-----------------------------------------------------------------------------
\* PATCH /admin/activation by the first administrator, who need not be enabled.
Activation ==
    /\ enabled' = [enabled EXCEPT ![Primary] = TRUE]
    /\ seen' = Witnessed(Primary, TRUE)
    /\ UNCHANGED <<table, given, now, pc, token, need, caller, reply, arrived, faults>>

\* The worker's job, once a minute.
ProcessClearExpiredAPIKeys ==
    /\ table' = Expired
    /\ UNCHANGED <<enabled, given, now, callVars, faults>>

Tick ==
    /\ now < MaxTime
    /\ now' = now + 1
    /\ UNCHANGED <<enabled, table, given, callVars, faults>>

Next ==
    \/ \E c \in Calls : Call(c)
    \/ Activation
    \/ ProcessClearExpiredAPIKeys
    \/ Tick

Spec == Init /\ [][Next]_vars

-----------------------------------------------------------------------------
(* Types: table rows, the calls and their histories.                       *)
KeyRow == [owner : Users, scopes : SUBSET Scopes, expires : Nat,
           status : {"active", "expired"}]

TypeOK ==
    /\ enabled \in [Users -> BOOLEAN]
    /\ DOMAIN table \subseteq Keys
    /\ table \in [DOMAIN table -> KeyRow]
    /\ given \subseteq DOMAIN table
    /\ now \in 0 .. MaxTime
    /\ pc \in [Calls -> Positions]
    /\ token \in [Calls -> given \cup {NoKey}]
    /\ need \in [Calls -> Required]
    /\ caller \in [Calls -> Users]
    /\ reply \in [Calls -> {"none", "refused", "faulted", "done"}]
    /\ seen \in [Calls -> SUBSET BOOLEAN]
    /\ arrived \in [Calls -> 0 .. now]
    /\ faults \in 0 .. MaxFaults

(* A deactivated user has no access: whoever is past a middleware was      *)
(* enabled at some moment since the call came in, holds a key that had not *)
(* expired then, however late expired keys are cleaned up, and does what   *)
(* administrators do only as an administrator.                             *)
AdmittedByRight ==
    \A c \in Calls : pc[c] \in Admitted =>
        /\ TRUE \in seen[c]
        /\ pc[c] = "handler" =>
              /\ token[c] \in given
              /\ table[token[c]].expires > arrived[c]
              /\ table[token[c]].owner = caller[c]
        /\ "admin" \in need[c] => caller[c] \in Admins

(* A call that is refused lacked something while it was under way: its     *)
(* token is no key, the key has expired, its scopes do not suffice, or the *)
(* user was disabled.  Another key with the same first ten characters      *)
(* makes no difference.                                                    *)
RefusedByRight ==
    [][\A c \in Calls : pc[c] # "idle" /\ reply'[c] = "refused" =>
        \/ FALSE \in seen[c]
        \/ pc[c] # "login" /\ token[c] = NoKey
        \/ pc[c] # "login" /\ table[token[c]].expires <= now
        \/ ~IsinScope(table[token[c]].scopes, need[c])]_vars

(* "A deactivated user can neither log in nor use the API"                 *)
(* (admin/users.go), taken at its word: no handler runs for a user who is  *)
(* disabled at that moment.                                                *)
NoHandlerWhileDisabled ==
    \A c \in Calls : pc[c] \in Admitted => enabled[caller[c]]

=============================================================================
