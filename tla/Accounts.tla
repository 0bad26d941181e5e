------------------------------ MODULE Accounts ------------------------------
(***************************************************************************)
(* Accounts and the access codes they are made with: registration          *)
(* (routes/api/v1/auth.go registerUser, userDB.go CreateUser,              *)
(* acceptCodeDB.go), the first administrator's code and its note in        *)
(* sys.json (main.go, sys/sys.go), what administrators do to users         *)
(* (routes/api/v1/admin/users.go, activation.go).                          *)
(*                                                                         *)
(* CreateUser is five SQL statements without a transaction; each is one    *)
(* step, so that registrations interleave as their handlers do, and any    *)
(* statement may fail, with or without its effect.  The process may stop   *)
(* at any point; the tables and sys.json remain.                           *)
(*                                                                         *)
(* A password, a secret and its hash are left out: a request names a code  *)
(* that was handed out, or 0 for anything else.  How a key admits an       *)
(* administrator's call is ApiKeys' subject: here it is admitted when the  *)
(* caller is an enabled administrator, and carried out later.              *)
(***************************************************************************)
EXTENDS Naturals, Sequences

CONSTANTS
    Requests,    \* registrations; a client's retry is a request of its own
    Names,       \* usernames
    Emails,
    MaxCodes,    \* bound: codes made
    MaxFaults,   \* bound: statements and file operations that fail
    MaxCrashes   \* bound: stops of the process

ASSUME AccountsAssumption ==
    /\ MaxCodes \in Nat
    /\ MaxFaults \in Nat
    /\ MaxCrashes \in Nat

VARIABLES
    users,     \* table users: a function from the ids inserted to rows
    serial,    \* the last id its sequence has given
    codes,     \* table accept_codes, in order of creation
    pc,        \* where a registration's handler is
    form,      \* what the request's body holds
    admin,     \* local variable admin of CreateUser
    id,        \* local variable user.ID of CreateUser, 0 before the insert
    reply,     \* what the client was told, "none" before
    server,    \* where main is; requests are served when it is "up"
    sysFile,   \* InitialAcceptCode in sys.json
    known,     \* the codes that were printed or answered
    admitted,  \* the administrators with a call past the middleware
    faults,    \* bookkeeping of the bounds
    crashes

tables == <<users, serial, codes>>
handlerVars == <<pc, form, admin, id, reply>>
startVars == <<server, sysFile>>
vars == <<tables, handlerVars, startVars, known, admitted, faults, crashes>>

Steps == {"exists", "readCode", "useCode", "insert", "readOwner", "own"}
Replies == {"created", "badRequest", "failed", "lost"}

Users == DOMAIN users
CodeIds == DOMAIN codes

NewCode(isAdmin) ==
    [admin |-> isAdmin, used |-> FALSE, expired |-> FALSE, user |-> 0]

\* The outcomes of a statement: done, failed without effect, or failed for
\* the caller only, its effect being in the table.
Outcomes == {"done"} \cup IF faults < MaxFaults THEN {"failed", "unsure"} ELSE {}

Counted(outcome) == faults' = IF outcome = "done" THEN faults ELSE faults + 1

-----------------------------------------------------------------------------
\* A first start: the tables are empty and sys.json says that no code was
\* made.  (The sys.json of the repository says that one was; with it nobody
\* ever becomes an administrator.)
Init ==
    /\ users = <<>>
    /\ serial = 0
    /\ codes = <<>>
    /\ pc = [r \in Requests |-> "idle"]
    /\ form \in [Requests -> [name : Names, email : Emails, code : 0 .. 0]]
    /\ admin = [r \in Requests |-> FALSE]
    /\ id = [r \in Requests |-> 0]
    /\ reply = [r \in Requests |-> "none"]
    /\ server = "starting"
    /\ sysFile = "unset"
    /\ known = {}
    /\ admitted = {}
    /\ faults = 0
    /\ crashes = 0

Goes(r, to) ==
    /\ pc' = [pc EXCEPT ![r] = to]
    /\ UNCHANGED reply

Returns(r, answer) ==
    /\ pc' = [pc EXCEPT ![r] = "returned"]
    /\ reply' = [reply EXCEPT ![r] = answer]

\* The start and the administrators' calls leave the registrations alone.
Elsewhere == UNCHANGED handlerVars

-----------------------------------------------------------------------------
(* Registration. *)

\* A body with a missing field or a malformed email is answered at once; it
\* touches nothing, and is the same as no request.
Register(r) ==
    /\ server = "up"
    /\ pc[r] = "idle"
    /\ Goes(r, "exists")
    /\ \E c \in known \cup {0} : form' = [form EXCEPT ![r].code = c]
    /\ UNCHANGED <<tables, admin, id, startVars, known, admitted, faults, crashes>>

SameAccount(row, f) == row.email = f.email \/ row.name = f.name

CheckExists(r) ==
    /\ pc[r] = "exists"
    /\ \E outcome \in Outcomes \ {"unsure"} :
          /\ Counted(outcome)
          /\ IF outcome = "failed" \/ \E u \in Users : SameAccount(users[u], form[r])
             THEN Returns(r, "failed")
             ELSE Goes(r, "readCode")
    /\ UNCHANGED <<tables, form, admin, id, startVars, known, admitted, crashes>>

\* The first half of ValidateAcceptCode: an unknown code, a used one and an
\* expired one are refused.
ReadCode(r) ==
    LET c == form[r].code
        refused == c = 0 \/ codes[c].used \/ codes[c].expired
    IN /\ pc[r] = "readCode"
       /\ \E outcome \in Outcomes \ {"unsure"} :
             /\ Counted(outcome)
             /\ IF outcome = "failed" \/ refused
                THEN /\ Returns(r, "badRequest")
                     /\ UNCHANGED admin
                ELSE /\ Goes(r, "useCode")
                     /\ admin' = [admin EXCEPT ![r] = codes[c].admin]
       /\ UNCHANGED <<tables, form, id, startVars, known, admitted, crashes>>

\* The second half marks the code as used, whatever it is by now.
UseCode(r) ==
    /\ pc[r] = "useCode"
    /\ \E outcome \in Outcomes :
          /\ Counted(outcome)
          /\ codes' = IF outcome = "failed" THEN codes
                      ELSE [codes EXCEPT ![form[r].code].used = TRUE]
          /\ IF outcome = "done" THEN Goes(r, "insert")
             ELSE Returns(r, "badRequest")
    /\ UNCHANGED <<users, serial, form, admin, id, startVars, known, admitted, crashes>>

Row(r) == [name |-> form[r].name, email |-> form[r].email,
           admin |-> admin[r], enabled |-> FALSE]

\* The table declares email as UNIQUE, the username not.
Conflicts(row) == \E u \in Users : users[u].email = row.email

\* An insert that fails may have taken an id from the sequence.
InsertUser(r) ==
    LET new == serial + 1
    IN /\ pc[r] = "insert"
       /\ \/ /\ ~Conflicts(Row(r))
             /\ \E outcome \in Outcomes \ {"failed"} :
                   /\ Counted(outcome)
                   /\ serial' = new
                   /\ users' = [u \in Users \cup {new} |-> IF u = new THEN Row(r) ELSE users[u]]
                   /\ IF outcome = "done"
                      THEN /\ Goes(r, "readOwner")
                           /\ id' = [id EXCEPT ![r] = new]
                      ELSE /\ Returns(r, "failed")
                           /\ UNCHANGED id
          \/ /\ Returns(r, "failed")
             /\ \/ /\ Conflicts(Row(r))
                   /\ serial' = new
                   /\ UNCHANGED faults
                \/ /\ "failed" \in Outcomes
                   /\ serial' \in {serial, new}
                   /\ Counted("failed")
             /\ UNCHANGED <<users, id>>
       /\ UNCHANGED <<codes, form, admin, startVars, known, admitted, crashes>>

\* RelationShipUser reads the code again.
ReadOwner(r) ==
    LET c == form[r].code
    IN /\ pc[r] = "readOwner"
       /\ \E outcome \in Outcomes \ {"unsure"} :
             /\ Counted(outcome)
             /\ IF outcome = "failed" \/ ~codes[c].used \/ codes[c].user # 0
                THEN Returns(r, "failed")
                ELSE Goes(r, "own")
       /\ UNCHANGED <<tables, form, admin, id, startVars, known, admitted, crashes>>

\* Mutant: the update has no condition on user_id.
Anyones(c) == TRUE

\* WHERE ... AND user_id IS NULL
Unowned(c) == codes[c].user = 0

Own(r) ==
    LET c == form[r].code
    IN /\ pc[r] = "own"
       /\ \E outcome \in Outcomes :
             /\ Counted(outcome)
             /\ codes' = IF outcome # "failed" /\ Unowned(c)
                         THEN [codes EXCEPT ![c].user = id[r]] ELSE codes
             /\ Returns(r, IF outcome = "done" /\ Unowned(c)
                                  THEN "created" ELSE "failed")
       /\ UNCHANGED <<users, serial, form, admin, id, startVars, known, admitted, crashes>>

Registration(r) ==
    \/ Register(r)
    \/ CheckExists(r)
    \/ ReadCode(r)
    \/ UseCode(r)
    \/ InsertUser(r)
    \/ ReadOwner(r)
    \/ Own(r)

-----------------------------------------------------------------------------
(* The start of the server: the first one makes the code of the first      *)
(* administrator, notes that in sys.json and only then prints the code.    *)

GetSys ==
    /\ server = "starting"
    /\ \E outcome \in Outcomes \ {"unsure"} :
          /\ Counted(outcome)
          /\ server' = IF outcome = "done" /\ sysFile = "unset"
                       THEN "generate" ELSE "up"
    /\ UNCHANGED <<tables, sysFile, known, admitted, crashes>>
    /\ Elsewhere

\* Mutant: nobody looks at the error.
GenerateUnchecked ==
    /\ server = "generate"
    /\ Len(codes) < MaxCodes
    /\ \E outcome \in Outcomes :
          /\ Counted(outcome)
          /\ codes' = IF outcome = "failed" THEN codes
                      ELSE Append(codes, NewCode(TRUE))
    /\ server' = "note"
    /\ UNCHANGED <<users, serial, sysFile, known, admitted, crashes>>
    /\ Elsewhere

\* GenerateAcceptCodeForAdmin
GenerateInitial ==
    /\ server = "generate"
    /\ Len(codes) < MaxCodes
    /\ \E outcome \in Outcomes :
          /\ Counted(outcome)
          /\ codes' = IF outcome = "failed" THEN codes
                      ELSE Append(codes, NewCode(TRUE))
          /\ server' = IF outcome = "done" THEN "note" ELSE "up"
    /\ UNCHANGED <<users, serial, sysFile, known, admitted, crashes>>
    /\ Elsewhere

\* Mutant: the code is printed whether or not sys.json could be written.
PrintAnyway ==
    /\ server = "note"
    /\ \/ /\ sysFile' = "set"
          /\ UNCHANGED faults
       \/ /\ faults < MaxFaults
          /\ sysFile' \in {"unset", "broken"}
          /\ faults' = faults + 1
    /\ server' = "print"
    /\ UNCHANGED <<tables, known, admitted, crashes>>
    /\ Elsewhere

\* sys.Edit: os.WriteFile empties the file before it writes it.
EditSys ==
    /\ server = "note"
    /\ \/ /\ sysFile' = "set"
          /\ server' = "print"
          /\ UNCHANGED faults
       \/ /\ faults < MaxFaults
          /\ sysFile' \in {"unset", "broken"}
          /\ server' = "up"
          /\ faults' = faults + 1
    /\ UNCHANGED <<tables, known, admitted, crashes>>
    /\ Elsewhere

\* Nothing makes a code between GenerateInitial and the print.
PrintInitial ==
    /\ server = "print"
    /\ known' = known \cup {Len(codes)}
    /\ server' = "up"
    /\ UNCHANGED <<tables, sysFile, admitted, faults, crashes>>
    /\ Elsewhere

\* The process stops and is started again: handlers and admitted calls are
\* gone, a file that was being written may be left empty.
Crash ==
    /\ crashes < MaxCrashes
    /\ crashes' = crashes + 1
    /\ server' = "starting"
    /\ sysFile' \in {sysFile} \cup IF server = "note" THEN {"broken"} ELSE {}
    /\ pc' = [r \in Requests |-> IF pc[r] = "idle" THEN "idle" ELSE "returned"]
    /\ reply' = [r \in Requests |-> IF pc[r] \in Steps THEN "lost" ELSE reply[r]]
    /\ admitted' = {}
    /\ UNCHANGED <<tables, form, admin, id, known, faults>>

Start == GetSys \/ GenerateInitial \/ EditSys \/ PrintInitial

-----------------------------------------------------------------------------
(* Administrators.                                                         *)

\* Any time after a call was admitted its handler runs.
Admit(u) ==
    /\ server = "up"
    /\ users[u].admin
    /\ users[u].enabled
    /\ u \notin admitted
    /\ admitted' = admitted \cup {u}
    /\ UNCHANGED <<tables, startVars, known, faults, crashes>>
    /\ Elsewhere

\* The code is in the answer, unless the statement failed.
GenerateAccessCode(u) ==
    /\ u \in admitted
    /\ admitted' = admitted \ {u}
    /\ Len(codes) < MaxCodes
    /\ \E outcome \in Outcomes :
          /\ Counted(outcome)
          /\ codes' = IF outcome = "failed" THEN codes
                      ELSE Append(codes, NewCode(FALSE))
          /\ known' = IF outcome = "done" THEN known \cup {Len(codes')} ELSE known
    /\ UNCHANGED <<users, serial, startVars, crashes>>
    /\ Elsewhere

\* activateUser and deactivateUser: an update of whatever row has the id.
SetEnabled(u, v, enabled) ==
    /\ u \in admitted
    /\ admitted' = admitted \ {u}
    /\ \E outcome \in Outcomes :
          /\ Counted(outcome)
          /\ users' = IF outcome = "failed" THEN users
                      ELSE [users EXCEPT ![v].enabled = enabled]
    /\ UNCHANGED <<serial, codes, startVars, known, crashes>>
    /\ Elsewhere

\* Mutant: any administrator may.
AnyAdminActivates(u) ==
    /\ server = "up"
    /\ users[u].admin
    /\ users' = [users EXCEPT ![u].enabled = TRUE]
    /\ UNCHANGED <<serial, codes, startVars, known, admitted, faults, crashes>>
    /\ Elsewhere

\* PATCH /admin/activation: LoginMiddleware lets an account pass that is not
\* enabled; only the administrator with id 1 may enable himself.
Activation(u) ==
    /\ server = "up"
    /\ users[u].admin
    /\ u = 1
    /\ users' = [users EXCEPT ![u].enabled = TRUE]
    /\ UNCHANGED <<serial, codes, startVars, known, admitted, faults, crashes>>
    /\ Elsewhere

Administration ==
    \/ \E u \in Users : Admit(u) \/ Activation(u)
    \/ \E u \in admitted :
          \/ GenerateAccessCode(u)
          \/ \E v \in Users, enabled \in BOOLEAN : SetEnabled(u, v, enabled)

\* A code expires 60 minutes (the first) or 24 hours (the others) after it
\* was made.
Expire(c) ==
    /\ ~codes[c].used
    /\ ~codes[c].expired
    /\ codes' = [codes EXCEPT ![c].expired = TRUE]
    /\ UNCHANGED <<users, serial, startVars, known, admitted, faults, crashes>>
    /\ Elsewhere

Next ==
    \/ \E r \in Requests : Registration(r)
    \/ Start
    \/ Crash
    \/ Administration
    \/ \E c \in CodeIds : Expire(c)

Spec == Init /\ [][Next]_vars

-----------------------------------------------------------------------------
(* Types: the tables, the handlers and the start.                          *)
UserRow == [name : Names, email : Emails, admin : BOOLEAN, enabled : BOOLEAN]

CodeRow == [admin : BOOLEAN, used : BOOLEAN, expired : BOOLEAN, user : Nat]

TypeOK ==
    /\ serial \in Nat
    /\ Users \subseteq 1 .. serial
    /\ users \in [Users -> UserRow]
    /\ codes \in Seq(CodeRow)
    /\ pc \in [Requests -> Steps \cup {"idle", "returned"}]
    /\ form \in [Requests -> [name : Names, email : Emails, code : Nat]]
    /\ \A r \in Requests : form[r].code \in CodeIds \cup {0}
    /\ admin \in [Requests -> BOOLEAN]
    /\ id \in [Requests -> Nat]
    /\ reply \in [Requests -> Replies \cup {"none"}]
    /\ server \in {"starting", "generate", "note", "print", "up"}
    /\ sysFile \in {"unset", "set", "broken"}
    /\ known \subseteq CodeIds
    /\ admitted \subseteq Users
    /\ faults \in 0 .. MaxFaults
    /\ crashes \in 0 .. MaxCrashes

(* However registrations race for a code or an email, whoever is told that *)
(* an account was created has it, with the rights of the code; the code is *)
(* assigned to that account, and no other account has its email.           *)
SuccessOwnsCode ==
    \A r \in Requests : reply[r] = "created" =>
        LET code == codes[form[r].code]
        IN /\ id[r] \in Users
           /\ code.used
           /\ code.user = id[r]
           /\ users[id[r]].admin = code.admin
           /\ users[id[r]].name = form[r].name
           /\ users[id[r]].email = form[r].email
           /\ \A u \in Users \ {id[r]} : users[u].email # form[r].email

(* Whatever burns ids, fails or restarts: nobody is enabled, no call of an *)
(* administrator is under way and no ordinary code or account exists       *)
(* before the account with id 1 does, and that account is an               *)
(* administrator's, as the activation route takes for granted.             *)
PrimaryAdminFirst ==
    LET begun == \/ \E u \in Users : ~users[u].admin \/ users[u].enabled
                 \/ \E c \in CodeIds : ~codes[c].admin
                 \/ admitted # {}
    IN begun => 1 \in Users /\ users[1].admin

(* However often the first start is cut short and repeated, at most one    *)
(* administrator's code is handed out.                                     *)
OnePrintedCode ==
    \A c, d \in known : codes[c].admin /\ codes[d].admin => c = d

(* Registration does what Invitations promises of access codes.            *)
Invited == INSTANCE Invitations WITH
    holder <- [c \in CodeIds |-> codes[c].user],
    member <- [r \in Requests |-> IF reply[r] = "created" THEN id[r] ELSE 0]

ImplementsInvitations == Invited!Spec

(* "Failed to create user": a registration that is answered so has created *)
(* none.                                                                   *)
FailureCreatesNothing ==
    \A r \in Requests : reply[r] = "failed" => id[r] \notin Users

(* "user with given email or username already exists": no two accounts     *)
(* have one username.                                                      *)
UniqueNames == \A u, v \in Users : users[u].name = users[v].name => u = v

(* While the server is up somebody can still become the first              *)
(* administrator, or has.                                                  *)
SomebodyCanAdminister ==
    server = "up" =>
        \/ sysFile = "unset"
        \/ \E c \in known : codes[c].admin /\ ~codes[c].used /\ ~codes[c].expired
        \/ \E r \in Requests : pc[r] \in Steps
        \/ 1 \in Users

=============================================================================
