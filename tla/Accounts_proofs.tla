-------------------------- MODULE Accounts_proofs --------------------------
(***************************************************************************)
(* Registration keeps its promises for any number of requests, codes,      *)
(* faults and restarts.  The argument follows a code through the           *)
(* statements of a registration: what CreateUser has learnt of its code    *)
(* stays true because a code's kind never changes, it is never unused and  *)
(* its owner is set once, to an id that no other registration has.  The    *)
(* first administrator comes first because until then every code, hence    *)
(* every row, is an administrator's and nobody is enabled.                 *)
(***************************************************************************)
EXTENDS Accounts, SequenceTheorems, TLAPS

Inserted(r) == pc[r] \in {"readOwner", "own"} \/ reply[r] = "created"

\* What CreateUser relies on between its statements.
CodeIsHeld ==
    \A r \in Requests :
        /\ pc[r] \in {"useCode", "insert", "readOwner", "own"} =>
              /\ form[r].code \in CodeIds
              /\ admin[r] = codes[form[r].code].admin
        /\ pc[r] \in {"insert", "readOwner", "own"} => codes[form[r].code].used

RowIsThere ==
    \A r \in Requests : Inserted(r) =>
        /\ form[r].code \in CodeIds
        /\ id[r] \in Users
        /\ users[id[r]].admin = codes[form[r].code].admin
        /\ users[id[r]].name = form[r].name
        /\ users[id[r]].email = form[r].email

CreatedIsOver ==
    \A r \in Requests : reply[r] = "created" =>
        /\ pc[r] = "returned"
        /\ codes[form[r].code].used
        /\ codes[form[r].code].user = id[r]

UniqueEmails == \A u, v \in Users : users[u].email = users[v].email => u = v

\* The owners of codes, and the accounts that wait for theirs, are distinct.
OwnersAreDistinct ==
    /\ \A c \in CodeIds : codes[c].user <= serial
    /\ \A r \in Requests : pc[r] \in {"readOwner", "own"} =>
          /\ \A c \in CodeIds : codes[c].user # id[r]
          /\ \A q \in Requests : pc[q] \in {"readOwner", "own"} /\ id[q] = id[r] => q = r

\* One first code: the start prints after it has set the note, and makes a
\* code only when the note was not set.
StartIsOnce ==
    /\ server \in {"generate", "note"} => sysFile = "unset"
    /\ server = "print" => sysFile = "set"
    /\ server \in {"note", "print"} => codes # <<>>
    /\ sysFile = "unset" \/ server = "print" => \A c \in known : ~codes[c].admin
    /\ admitted # {} => server = "up"

IInv == /\ TypeOK
        /\ CodeIsHeld
        /\ RowIsThere
        /\ CreatedIsOver
        /\ UniqueEmails
        /\ OwnersAreDistinct
        /\ StartIsOnce
        /\ PrimaryAdminFirst
        /\ OnePrintedCode
-----------------------------------------------------------------------------
(* The invariant holds before the first start. *)
LEMMA Initially == Init => IInv
<1> SUFFICES ASSUME Init PROVE IInv
  OBVIOUS
<1> USE AccountsAssumption DEF Init
<1>1. TypeOK
  BY DEF TypeOK, Users, CodeIds, Steps
<1>2. CodeIsHeld /\ RowIsThere /\ CreatedIsOver
  BY DEF CodeIsHeld, RowIsThere, CreatedIsOver, Inserted
<1>3. UniqueEmails /\ OwnersAreDistinct
  BY DEF UniqueEmails, OwnersAreDistinct, Users, CodeIds
<1>4. StartIsOnce /\ PrimaryAdminFirst /\ OnePrintedCode
  BY DEF StartIsOnce, PrimaryAdminFirst, OnePrintedCode, Users, CodeIds
<1> QED
  BY <1>1, <1>2, <1>3, <1>4 DEF IInv

-----------------------------------------------------------------------------
(* A registration's steps. *)

\* A registration step that only moves its own handler.
Moves(r) ==
    /\ UNCHANGED <<users, serial, codes, form, id, startVars, known, admitted, crashes>>
    /\ faults' \in 0 .. MaxFaults
    /\ admin' \in [Requests -> BOOLEAN]
    /\ \A q \in Requests \ {r} : /\ pc'[q] = pc[q]
                                 /\ reply'[q] = reply[q]
                                 /\ admin'[q] = admin[q]
    /\ pc' \in [Requests -> Steps \cup {"idle", "returned"}]
    /\ reply' \in [Requests -> Replies \cup {"none"}]

(* A step of a handler that reads leaves the invariant when what it goes   *)
(* on with is true.                                                        *)
LEMMA Reading ==
    ASSUME IInv, NEW r \in Requests, Moves(r),
           pc[r] \in Steps, reply'[r] # "created",
           pc'[r] = "useCode" => /\ form[r].code \in CodeIds
                                 /\ admin'[r] = codes[form[r].code].admin,
           pc'[r] \in {"returned", "readCode", "useCode"} \/ (pc[r] = "readOwner" /\ pc'[r] = "own"),
           pc'[r] = "own" => admin'[r] = admin[r]
    PROVE  IInv'
<1> USE DEF Moves
<1>1. TypeOK'
  BY DEF IInv, TypeOK, startVars, Users, CodeIds
<1>2. CodeIsHeld'
  BY DEF IInv, TypeOK, CodeIsHeld, CodeIds
<1>3. RowIsThere' /\ CreatedIsOver'
  BY DEF IInv, TypeOK, RowIsThere, CreatedIsOver, Inserted, CodeIds, Users, Steps
<1>4. UniqueEmails' /\ OwnersAreDistinct'
  <2>1. \A q \in Requests : pc'[q] \in {"readOwner", "own"} => pc[q] \in {"readOwner", "own"}
    OBVIOUS
  <2>2. UniqueEmails'
    BY DEF IInv, UniqueEmails, Users
  <2> QED
    BY <2>1, <2>2 DEF IInv, OwnersAreDistinct, CodeIds
<1>5. StartIsOnce' /\ PrimaryAdminFirst' /\ OnePrintedCode'
  BY DEF IInv, StartIsOnce, PrimaryAdminFirst, OnePrintedCode, CodeIds, Users, startVars
<1> QED
  BY <1>1, <1>2, <1>3, <1>4, <1>5 DEF IInv

(* The codes' rows. *)
LEMMA CodeRows ==
    ASSUME IInv, NEW c \in CodeIds
    PROVE  /\ codes[c] \in CodeRow
           /\ codes[c].admin \in BOOLEAN
           /\ codes[c].used \in BOOLEAN
           /\ codes[c].user \in Nat
<1>1. codes[c] \in CodeRow
  BY DEF IInv, TypeOK, CodeIds
<1> QED
  BY <1>1 DEF CodeRow

(* What a statement may count. *)
LEMMA Counting ==
    ASSUME IInv, NEW outcome \in Outcomes, Counted(outcome)
    PROVE  faults' \in 0 .. MaxFaults
BY AccountsAssumption DEF IInv, TypeOK, Outcomes, Counted

(* Registration leaves the start and the administrators alone. *)
LEMMA Registering ==
    ASSUME IInv, NEW r \in Requests, Registration(r)
    PROVE  IInv'
<1> USE DEF Steps
<1>0. ASSUME NEW outcome \in Outcomes, Counted(outcome) PROVE faults' \in 0 .. MaxFaults
  BY <1>0, Counting
<1>9. pc[r] \in Steps => reply[r] # "created"
  BY DEF IInv, CreatedIsOver
<1>1. CASE Register(r)
  <2> USE <1>1 DEF Register, Goes
  <2>0. reply[r] # "created" /\ ~Inserted(r)
    BY DEF IInv, CreatedIsOver, Inserted
  <2>1. TypeOK'
    <3>1. PICK c \in known \cup {0} : form' = [form EXCEPT ![r].code = c]
      OBVIOUS
    <3>2. c \in Nat /\ c \in CodeIds \cup {0}
      BY DEF IInv, TypeOK, CodeIds
    <3> DEFINE Body == [name : Names, email : Emails, code : Nat]
    <3>5. form \in [Requests -> Body]
      BY DEF IInv, TypeOK
    <3>6. [form[r] EXCEPT !.code = c] \in Body
      BY <3>2, <3>5
    <3>3. form' \in [Requests -> Body]
      BY <3>1, <3>5, <3>6 DEF Body
    <3>4. \A q \in Requests : form'[q].code \in CodeIds \cup {0}
      BY <3>1, <3>2 DEF IInv, TypeOK
    <3> QED
      BY <3>3, <3>4 DEF IInv, TypeOK, tables, startVars, Users, CodeIds
  <2>2. CodeIsHeld' /\ CreatedIsOver'
    BY <2>0 DEF IInv, TypeOK, CodeIsHeld, CreatedIsOver, tables, CodeIds
  <2>3. RowIsThere'
    <3>1. \A q \in Requests : Inserted(q)' => Inserted(q) /\ form'[q] = form[q]
      BY <2>0 DEF IInv, TypeOK, Inserted
    <3> QED
      BY <3>1 DEF IInv, RowIsThere, tables, CodeIds, Users
  <2>4. UniqueEmails' /\ OwnersAreDistinct'
    <3>1. \A q \in Requests : pc'[q] \in {"readOwner", "own"} => pc[q] \in {"readOwner", "own"}
      BY DEF IInv, TypeOK
    <3> QED
      BY <3>1 DEF IInv, UniqueEmails, OwnersAreDistinct, tables, CodeIds, Users
  <2>5. StartIsOnce' /\ PrimaryAdminFirst' /\ OnePrintedCode'
    BY DEF IInv, StartIsOnce, PrimaryAdminFirst, OnePrintedCode, CodeIds, Users, startVars, tables
  <2> QED
    BY <2>1, <2>2, <2>3, <2>4, <2>5 DEF IInv
<1>2. CASE CheckExists(r)
  <2>0. faults' \in 0 .. MaxFaults
    BY <1>0, <1>2 DEF CheckExists
  <2>2. \/ Goes(r, "readCode")
        \/ Returns(r, "failed")
    BY <1>2 DEF CheckExists
  <2>1. Moves(r) /\ reply'[r] # "created" /\ pc'[r] \in {"returned", "readCode"}
    BY <2>0, <2>2, <1>2, <1>9
       DEF CheckExists, Goes, Returns, Moves, IInv, TypeOK, tables, Replies
  <2> QED
    BY <2>1, <1>2, Reading DEF CheckExists
<1>3. CASE ReadCode(r)
  <2>0. faults' \in 0 .. MaxFaults
    BY <1>0, <1>3 DEF ReadCode
  <2>3. \/ Returns(r, "badRequest") /\ UNCHANGED admin
        \/ /\ Goes(r, "useCode")
           /\ form[r].code \in CodeIds
           /\ admin' = [admin EXCEPT ![r] = codes[form[r].code].admin]
    BY <1>3 DEF ReadCode, IInv, TypeOK
  <2>4. form[r].code \in CodeIds => codes[form[r].code].admin \in BOOLEAN
    BY CodeRows
  <2>1. Moves(r) /\ reply'[r] # "created" /\ pc'[r] \in {"returned", "useCode"}
    BY <2>0, <2>3, <2>4, <1>3, <1>9
       DEF ReadCode, Goes, Returns, Moves, IInv, TypeOK, tables, Replies
  <2>2. pc'[r] = "useCode" => form[r].code \in CodeIds /\ admin'[r] = codes[form[r].code].admin
    BY <1>3 DEF ReadCode, Goes, Returns, IInv, TypeOK
  <2> QED
    BY <2>1, <2>2, <1>3, Reading DEF ReadCode
<1>4. CASE UseCode(r)
  <2> DEFINE c == form[r].code
  <2> USE <1>4 DEF UseCode
  <2>0. /\ faults' \in 0 .. MaxFaults
        /\ UNCHANGED <<users, serial, form, admin, id, startVars, known, admitted, crashes>>
        /\ c \in CodeIds
        /\ admin[r] = codes[c].admin
    BY <1>0 DEF IInv, CodeIsHeld
  <2>1. codes' = codes \/ codes' = [codes EXCEPT ![c].used = TRUE]
    OBVIOUS
  <2>2. \/ Returns(r, "badRequest")
        \/ Goes(r, "insert") /\ codes' = [codes EXCEPT ![c].used = TRUE]
    OBVIOUS
  <2>3. /\ codes' \in Seq(CodeRow)
        /\ CodeIds' = CodeIds
        /\ \A d \in CodeIds : /\ codes'[d].admin = codes[d].admin
                              /\ codes'[d].user = codes[d].user
                              /\ codes[d].used => codes'[d].used
    <3>1. codes \in Seq(CodeRow) /\ CodeIds = 1 .. Len(codes)
      BY DEF IInv, TypeOK, CodeIds
    <3>2. [codes[c] EXCEPT !.used = TRUE] \in CodeRow
      BY <2>0, CodeRows DEF CodeRow
    <3>3. CASE codes' = [codes EXCEPT ![c].used = TRUE]
      <4>1. codes' \in Seq(CodeRow) /\ CodeIds' = CodeIds
        BY <2>0, <3>1, <3>2, <3>3 DEF CodeIds
      <4> QED
        BY <4>1, <2>0, <3>1, <3>3, CodeRows DEF CodeRow
    <3> QED
      BY <3>1, <3>3, <2>1 DEF CodeIds
  <2>4. pc'[r] = "insert" => codes'[c].used
    BY <2>0, <2>2, CodeRows DEF Returns, Goes, IInv, TypeOK, CodeRow, CodeIds
  <2>5. \A q \in Requests : /\ q # r => pc'[q] = pc[q] /\ reply'[q] = reply[q]
                            /\ Inserted(q)' => Inserted(q) /\ q # r
                            /\ reply'[q] = "created" => reply[q] = "created"
    BY <2>2, <1>9 DEF Returns, Goes, IInv, TypeOK, Inserted
  <2>6. TypeOK'
    BY <2>0, <2>2, <2>3 DEF IInv, TypeOK, Returns, Goes, Replies, startVars, Users
  <2>7. CodeIsHeld'
    BY <2>0, <2>2, <2>3, <2>4, <2>5 DEF IInv, TypeOK, CodeIsHeld, Returns, Goes
  <2>8. RowIsThere' /\ CreatedIsOver'
    BY <2>0, <2>3, <2>5, <1>9 DEF IInv, RowIsThere, CreatedIsOver, Inserted, Users
  <2>9. UniqueEmails' /\ OwnersAreDistinct'
    <3>1. \A q \in Requests : pc'[q] \in {"readOwner", "own"} => pc[q] \in {"readOwner", "own"}
      BY <2>2 DEF IInv, TypeOK, Returns, Goes
    <3> QED
      BY <3>1, <2>0, <2>3 DEF IInv, UniqueEmails, OwnersAreDistinct, Users
  <2>10. StartIsOnce'
    <3>1. codes # <<>> => codes' # <<>>
      BY <2>0, <2>3 DEF CodeIds, IInv, TypeOK
    <3> QED
      BY <3>1, <2>0, <2>3 DEF IInv, TypeOK, StartIsOnce, startVars
  <2>11. PrimaryAdminFirst' /\ OnePrintedCode'
    BY <2>0, <2>3 DEF IInv, TypeOK, PrimaryAdminFirst, OnePrintedCode, Users
  <2> QED
    BY <2>6, <2>7, <2>8, <2>9, <2>10, <2>11 DEF IInv
<1>5. CASE InsertUser(r)
  <2> DEFINE new == serial + 1
  <2> USE <1>5 DEF InsertUser
  <2>0. /\ UNCHANGED <<codes, form, admin, startVars, known, admitted, crashes>>
        /\ faults' \in 0 .. MaxFaults
        /\ serial' \in {serial, new}
        /\ serial \in Nat /\ new \notin Users
        /\ form[r].code \in CodeIds
        /\ admin[r] = codes[form[r].code].admin
        /\ codes[form[r].code].used
    <3>1. faults' \in 0 .. MaxFaults
      BY <1>0, AccountsAssumption DEF IInv, TypeOK, Outcomes
    <3>2. form[r].code \in CodeIds /\ admin[r] = codes[form[r].code].admin /\ codes[form[r].code].used
      BY DEF IInv, CodeIsHeld
    <3>3. serial \in Nat /\ new \notin Users
      BY DEF IInv, TypeOK
    <3> QED
      BY <3>1, <3>2, <3>3
  <2>1. CASE /\ Returns(r, "failed")
             /\ UNCHANGED <<users, id>>
    <3>1. \A q \in Requests : /\ reply'[q] = "created" => reply[q] = "created" /\ pc'[q] = pc[q]
                              /\ pc'[q] \in {"useCode", "insert", "readOwner", "own"} => pc'[q] = pc[q]
                              /\ Inserted(q)' => Inserted(q)
      BY <2>1, <1>9 DEF Returns, IInv, TypeOK, Inserted
    <3>2. TypeOK'
      BY <2>0, <2>1 DEF IInv, TypeOK, Returns, Replies, startVars, Users, CodeIds
    <3>3. CodeIsHeld' /\ RowIsThere' /\ CreatedIsOver'
      BY <2>0, <2>1, <3>1 DEF IInv, CodeIsHeld, RowIsThere, CreatedIsOver, CodeIds, Users
    <3>4. UniqueEmails'
      BY <2>1 DEF IInv, UniqueEmails, Users
    <3>5. OwnersAreDistinct'
      BY <2>0, <2>1, <3>1, CodeRows DEF IInv, OwnersAreDistinct, CodeIds
    <3>6. StartIsOnce' /\ PrimaryAdminFirst' /\ OnePrintedCode'
      BY <2>0, <2>1 DEF IInv, StartIsOnce, PrimaryAdminFirst, OnePrintedCode, CodeIds, Users, startVars
    <3> QED
      BY <3>2, <3>3, <3>4, <3>5, <3>6 DEF IInv
  <2>2. CASE /\ ~Conflicts(Row(r))
             /\ serial' = new
             /\ users' = [u \in Users \cup {new} |-> IF u = new THEN Row(r) ELSE users[u]]
             /\ \/ Goes(r, "readOwner") /\ id' = [id EXCEPT ![r] = new]
                \/ Returns(r, "failed") /\ UNCHANGED id
    <3>1. /\ Users' = Users \cup {new}
          /\ users'[new] = Row(r)
          /\ \A u \in Users : users'[u] = users[u]
      BY <2>0, <2>2 DEF Users
    <3>2. /\ Row(r) \in UserRow
          /\ Row(r).name = form[r].name
          /\ Row(r).email = form[r].email
          /\ Row(r).admin = admin[r]
          /\ ~Row(r).enabled
      BY DEF IInv, TypeOK, Row, UserRow
    <3>3. \A q \in Requests : /\ reply'[q] = "created" => reply[q] = "created" /\ pc'[q] = pc[q]
                              /\ pc'[q] \in {"useCode", "insert"} => pc'[q] = pc[q]
                              /\ q # r => pc'[q] = pc[q] /\ reply'[q] = reply[q] /\ id'[q] = id[q]
                              /\ Inserted(q)' => IF q = r THEN id'[r] = new ELSE Inserted(q)
                              /\ pc'[r] = "own" => FALSE
                              /\ pc'[r] = "readOwner" => id'[r] = new
      BY <2>2, <1>9 DEF Goes, Returns, IInv, TypeOK, Inserted
    <3>4. TypeOK'
      <4>1. users' \in [Users' -> UserRow] /\ Users' \subseteq 1 .. serial'
        BY <2>0, <2>2, <3>1, <3>2 DEF IInv, TypeOK
      <4>2. /\ pc' \in [Requests -> Steps \cup {"idle", "returned"}]
            /\ reply' \in [Requests -> Replies \cup {"none"}]
            /\ id' \in [Requests -> Nat]
        <5>1. /\ pc \in [Requests -> Steps \cup {"idle", "returned"}]
              /\ reply \in [Requests -> Replies \cup {"none"}]
              /\ id \in [Requests -> Nat]
              /\ new \in Nat
          BY <2>0 DEF IInv, TypeOK
        <5> QED
          BY <2>2, <5>1 DEF Goes, Returns, Replies
      <4> QED
        BY <2>0, <2>2, <3>1, <4>1, <4>2 DEF IInv, TypeOK, startVars, CodeIds
    <3>5. CodeIsHeld'
      BY <2>0, <3>3 DEF IInv, CodeIsHeld, CodeIds
    <3>6. RowIsThere'
      <4> SUFFICES ASSUME NEW q \in Requests, Inserted(q)'
                   PROVE  /\ form[q].code \in CodeIds
                          /\ id'[q] \in Users'
                          /\ users'[id'[q]].admin = codes[form[q].code].admin
                          /\ users'[id'[q]].name = form[q].name
                          /\ users'[id'[q]].email = form[q].email
        BY <2>0 DEF RowIsThere, CodeIds
      <4>1. CASE q = r
        BY <4>1, <2>0, <3>1, <3>2, <3>3
      <4>2. CASE q # r
        BY <4>2, <2>0, <3>1, <3>3 DEF IInv, RowIsThere
      <4> QED
        BY <4>1, <4>2
    <3>7. CreatedIsOver'
      BY <2>0, <3>3, <1>9 DEF IInv, CreatedIsOver
    <3>8. UniqueEmails'
      BY <2>2, <3>1, <3>2 DEF IInv, UniqueEmails, Conflicts
    <3>9. OwnersAreDistinct'
      <4>1. \A c \in CodeIds : codes[c].user <= serial /\ codes[c].user \in Nat
        BY CodeRows DEF IInv, OwnersAreDistinct
      <4>2. \A q \in Requests : pc[q] \in {"readOwner", "own"} => id[q] # new
        BY <2>0 DEF IInv, RowIsThere, Inserted
      <4> QED
        BY <2>0, <2>2, <3>3, <4>1, <4>2 DEF IInv, OwnersAreDistinct, CodeIds
    <3>10. PrimaryAdminFirst'
      <4>1. CASE \A c \in CodeIds : codes[c].admin
        BY <4>1, <2>0, <3>1, <3>2 DEF IInv, TypeOK, PrimaryAdminFirst, CodeIds
      <4>2. CASE ~\A c \in CodeIds : codes[c].admin
        BY <4>2, <2>0, <3>1 DEF IInv, PrimaryAdminFirst
      <4> QED
        BY <4>1, <4>2
    <3>11. StartIsOnce' /\ OnePrintedCode'
      BY <2>0 DEF IInv, StartIsOnce, OnePrintedCode, startVars
    <3> QED
      BY <3>4, <3>5, <3>6, <3>7, <3>8, <3>9, <3>10, <3>11 DEF IInv
  <2> QED
    BY <2>1, <2>2
<1>6. CASE ReadOwner(r)
  <2>0. faults' \in 0 .. MaxFaults
    BY <1>0, <1>6 DEF ReadOwner
  <2>2. \/ Goes(r, "own")
        \/ Returns(r, "failed")
    BY <1>6 DEF ReadOwner
  <2>1. Moves(r) /\ reply'[r] # "created" /\ pc'[r] \in {"returned", "own"} /\ admin'[r] = admin[r]
    BY <2>0, <2>2, <1>6, <1>9
       DEF ReadOwner, Goes, Returns, Moves, IInv, TypeOK, tables, Replies
  <2> QED
    BY <2>1, <1>6, Reading DEF ReadOwner
<1>7. CASE Own(r)
  <2> DEFINE c == form[r].code
  <2> USE <1>7 DEF Own
  <2>0. /\ UNCHANGED <<users, serial, form, admin, id, startVars, known, admitted, crashes>>
        /\ faults' \in 0 .. MaxFaults
        /\ c \in CodeIds
        /\ codes[c].used
        /\ id[r] \in Users
        /\ id[r] <= serial
    BY <1>0 DEF IInv, TypeOK, CodeIsHeld, RowIsThere, Inserted
  <2>1. \/ codes' = codes
        \/ Unowned(c) /\ codes' = [codes EXCEPT ![c].user = id[r]]
    OBVIOUS
  <2>2. \/ Returns(r, "failed")
        \/ /\ Returns(r, "created")
           /\ Unowned(c)
           /\ codes' = [codes EXCEPT ![c].user = id[r]]
    BY DEF Outcomes
  <2>3. /\ codes' \in Seq(CodeRow)
        /\ CodeIds' = CodeIds
        /\ \A d \in CodeIds : /\ codes'[d].admin = codes[d].admin
                              /\ codes'[d].used = codes[d].used
                              /\ codes'[d].user = codes[d].user
                                   \/ /\ codes[d].user = 0
                                      /\ d = c
                                      /\ codes'[d].user = id[r]
    <3>1. codes \in Seq(CodeRow) /\ CodeIds = 1 .. Len(codes)
      BY DEF IInv, TypeOK, CodeIds
    <3>2. [codes[c] EXCEPT !.user = id[r]] \in CodeRow
      BY <2>0, CodeRows DEF CodeRow, IInv, TypeOK
    <3>3. CASE Unowned(c) /\ codes' = [codes EXCEPT ![c].user = id[r]]
      <4>1. codes' \in Seq(CodeRow) /\ CodeIds' = CodeIds
        BY <2>0, <3>1, <3>2, <3>3 DEF CodeIds
      <4> QED
        BY <4>1, <2>0, <3>1, <3>3, CodeRows DEF CodeRow, Unowned
    <3> QED
      BY <3>1, <3>3, <2>1 DEF CodeIds
  <2>4. \A q \in Requests : /\ q # r => pc'[q] = pc[q] /\ reply'[q] = reply[q]
                            /\ pc'[r] = "returned"
                            /\ Inserted(q)' => Inserted(q)
    BY <2>2 DEF Returns, IInv, TypeOK, Inserted
  <2>5. TypeOK'
    BY <2>0, <2>2, <2>3 DEF IInv, TypeOK, Returns, Replies, startVars, Users
  <2>6. CodeIsHeld'
    BY <2>0, <2>3, <2>4 DEF IInv, CodeIsHeld
  <2>7. RowIsThere'
    BY <2>0, <2>3, <2>4 DEF IInv, RowIsThere, Users
  <2>8. CreatedIsOver'
    <3>1. reply'[r] = "created" => codes'[c].user = id[r]
      BY <2>0, <2>2, CodeRows DEF IInv, TypeOK, Returns, CodeIds, CodeRow
    <3>2. ASSUME NEW q \in Requests, q # r, reply[q] = "created"
          PROVE  codes[form[q].code].user # 0 /\ form[q].code \in CodeIds
      BY <3>2 DEF IInv, TypeOK, CreatedIsOver, RowIsThere, Inserted
    <3> QED
      BY <3>1, <3>2, <2>0, <2>3, <2>4 DEF IInv, CreatedIsOver
  <2>9. UniqueEmails'
    BY <2>0 DEF IInv, UniqueEmails, Users
  <2>10. OwnersAreDistinct'
    BY <2>0, <2>3, <2>4 DEF IInv, OwnersAreDistinct
  <2>11. StartIsOnce'
    <3>1. codes # <<>> => codes' # <<>>
      BY <2>0, <2>3 DEF CodeIds, IInv, TypeOK
    <3> QED
      BY <3>1, <2>0, <2>3 DEF IInv, TypeOK, StartIsOnce, startVars
  <2>12. PrimaryAdminFirst' /\ OnePrintedCode'
    BY <2>0, <2>3 DEF IInv, TypeOK, PrimaryAdminFirst, OnePrintedCode, Users
  <2> QED
    BY <2>5, <2>6, <2>7, <2>8, <2>9, <2>10, <2>11, <2>12 DEF IInv
<1> QED
  BY <1>1, <1>2, <1>3, <1>4, <1>5, <1>6, <1>7 DEF Registration

-----------------------------------------------------------------------------
(* The start, the administrators and time. *)

\* Neither a row of a user nor a code of his changes.
RegistrationsKept ==
    /\ UNCHANGED <<serial, handlerVars>>
    /\ Users' = Users
    /\ CodeIds \subseteq CodeIds'
    /\ \A u \in Users : /\ users'[u].admin = users[u].admin
                         /\ users'[u].name = users[u].name
                         /\ users'[u].email = users[u].email
    /\ \A c \in CodeIds : /\ codes'[c].admin = codes[c].admin
                           /\ codes'[c].used = codes[c].used
                           /\ codes'[c].user = codes[c].user
    /\ \A c \in CodeIds' \ CodeIds : codes'[c].user = 0

(* Such a step leaves what registrations rely on. *)
LEMMA RegistrationsAgree ==
    ASSUME IInv, RegistrationsKept
    PROVE  /\ CodeIsHeld' /\ RowIsThere' /\ CreatedIsOver'
           /\ UniqueEmails' /\ OwnersAreDistinct'
<1> USE DEF RegistrationsKept, handlerVars
<1>1. CodeIsHeld'
  BY DEF IInv, CodeIsHeld
<1>2. RowIsThere' /\ CreatedIsOver'
  BY DEF IInv, RowIsThere, CreatedIsOver, Inserted
<1>3. UniqueEmails'
  BY DEF IInv, UniqueEmails
<1>4. OwnersAreDistinct'
  <2>1. \A r \in Requests : pc[r] \in {"readOwner", "own"} => id[r] # 0 /\ serial \in Nat
    BY DEF IInv, TypeOK, RowIsThere, Inserted
  <2>2. \A c \in CodeIds' : codes'[c].user = 0 \/ (c \in CodeIds /\ codes'[c].user = codes[c].user)
    OBVIOUS
  <2>3. serial \in Nat
    BY DEF IInv, TypeOK
  <2>4. \A c \in CodeIds' : codes'[c].user <= serial'
    BY <2>2, <2>3 DEF IInv, OwnersAreDistinct
  <2> QED
    BY <2>1, <2>2, <2>4 DEF IInv, OwnersAreDistinct
<1> QED
  BY <1>1, <1>2, <1>3, <1>4

(* A code that is made is the last one. *)
LEMMA NewCodes ==
    ASSUME IInv, NEW isAdmin \in BOOLEAN, codes' = Append(codes, NewCode(isAdmin))
    PROVE  /\ codes' \in Seq(CodeRow)
           /\ CodeIds' = CodeIds \cup {Len(codes')}
           /\ Len(codes') \notin CodeIds
           /\ codes' # <<>>
           /\ codes'[Len(codes')] = NewCode(isAdmin)
           /\ \A c \in CodeIds : codes'[c] = codes[c]
<1>1. codes \in Seq(CodeRow) /\ NewCode(isAdmin) \in CodeRow
  BY DEF IInv, TypeOK, NewCode, CodeRow
<1> QED
  BY <1>1 DEF CodeIds

(* The start keeps the invariant. *)
LEMMA Starting ==
    ASSUME IInv, Start
    PROVE  IInv'
<1>0. ASSUME NEW outcome \in Outcomes, Counted(outcome) PROVE faults' \in 0 .. MaxFaults
  BY <1>0, Counting
<1>1. CASE GetSys
  <2> USE <1>1 DEF GetSys, Elsewhere, tables
  <2>1. RegistrationsKept
    BY DEF RegistrationsKept, Users, CodeIds
  <2>2. TypeOK'
    BY <1>0 DEF IInv, TypeOK, handlerVars, Users, CodeIds
  <2>3. StartIsOnce' /\ PrimaryAdminFirst' /\ OnePrintedCode'
    BY DEF IInv, StartIsOnce, PrimaryAdminFirst, OnePrintedCode, Users, CodeIds
  <2> QED
    BY <2>1, <2>2, <2>3, RegistrationsAgree DEF IInv
<1>2. CASE GenerateInitial
  <2> USE <1>2 DEF GenerateInitial, Elsewhere
  <2>1. CASE codes' = codes /\ server' = "up"
    <3>1. RegistrationsKept
      BY <2>1 DEF RegistrationsKept, Users, CodeIds
    <3>2. TypeOK'
      BY <1>0, <2>1 DEF IInv, TypeOK, handlerVars, Users, CodeIds
    <3>3. StartIsOnce' /\ PrimaryAdminFirst' /\ OnePrintedCode'
      BY <2>1 DEF IInv, StartIsOnce, PrimaryAdminFirst, OnePrintedCode, Users, CodeIds
    <3> QED
      BY <3>1, <3>2, <3>3, RegistrationsAgree DEF IInv
  <2>2. CASE codes' = Append(codes, NewCode(TRUE)) /\ server' \in {"note", "up"}
    <3>1. /\ codes' \in Seq(CodeRow)
          /\ CodeIds' = CodeIds \cup {Len(codes')}
          /\ codes' # <<>>
          /\ codes'[Len(codes')] = NewCode(TRUE)
          /\ \A c \in CodeIds : codes'[c] = codes[c]
      BY <2>2, NewCodes
    <3>6. NewCode(TRUE).admin /\ NewCode(TRUE).user = 0
      BY DEF NewCode
    <3>2. RegistrationsKept
      BY <3>1, <3>6 DEF RegistrationsKept, Users
    <3>3. TypeOK'
      BY <1>0, <2>2, <3>1 DEF IInv, TypeOK, handlerVars, Users
    <3>4. StartIsOnce' /\ OnePrintedCode'
      BY <2>2, <3>1 DEF IInv, TypeOK, StartIsOnce, OnePrintedCode
    <3>5. PrimaryAdminFirst'
      BY <3>1, <3>6 DEF IInv, PrimaryAdminFirst, Users
    <3> QED
      BY <3>2, <3>3, <3>4, <3>5, RegistrationsAgree DEF IInv
  <2> QED
    BY <2>1, <2>2 DEF Outcomes
<1>3. CASE EditSys
  <2> USE <1>3 DEF EditSys, Elsewhere, tables
  <2>1. RegistrationsKept
    BY DEF RegistrationsKept, Users, CodeIds
  <2>2. TypeOK'
    BY AccountsAssumption DEF IInv, TypeOK, handlerVars, Users, CodeIds
  <2>3. StartIsOnce' /\ PrimaryAdminFirst' /\ OnePrintedCode'
    BY DEF IInv, StartIsOnce, PrimaryAdminFirst, OnePrintedCode, Users, CodeIds
  <2> QED
    BY <2>1, <2>2, <2>3, RegistrationsAgree DEF IInv
<1>4. CASE PrintInitial
  <2> USE <1>4 DEF PrintInitial, Elsewhere, tables
  <2>1. RegistrationsKept
    BY DEF RegistrationsKept, Users, CodeIds
  <2>2. TypeOK'
    <3>1. Len(codes) \in CodeIds
      BY DEF IInv, TypeOK, StartIsOnce, CodeIds
    <3> QED
      BY <3>1 DEF IInv, TypeOK, handlerVars, Users, CodeIds
  <2>3. StartIsOnce' /\ PrimaryAdminFirst' /\ OnePrintedCode'
    BY DEF IInv, StartIsOnce, PrimaryAdminFirst, OnePrintedCode, Users, CodeIds
  <2> QED
    BY <2>1, <2>2, <2>3, RegistrationsAgree DEF IInv
<1> QED
  BY <1>1, <1>2, <1>3, <1>4 DEF Start

(* A stop of the process keeps it. *)
LEMMA Crashing ==
    ASSUME IInv, Crash
    PROVE  IInv'
<1> USE DEF Crash, tables
<1>1. TypeOK'
  <2>1. crashes' \in 0 .. MaxCrashes
    BY AccountsAssumption DEF IInv, TypeOK
  <2>2. /\ pc' \in [Requests -> Steps \cup {"idle", "returned"}]
        /\ reply' \in [Requests -> Replies \cup {"none"}]
    BY DEF IInv, TypeOK, Replies
  <2>3. sysFile' \in {"unset", "set", "broken"}
    BY DEF IInv, TypeOK
  <2> QED
    BY <2>1, <2>2, <2>3 DEF IInv, TypeOK, Users, CodeIds
<1>2. \A r \in Requests : /\ Inserted(r)' => Inserted(r)
                          /\ reply'[r] = "created" => reply[r] = "created" /\ pc'[r] = pc[r]
                          /\ pc'[r] \in {"idle", "returned"}
  <2>1. ASSUME NEW r \in Requests
        PROVE  /\ pc'[r] \in {"idle", "returned"}
               /\ reply'[r] = "created" => reply[r] = "created" /\ pc'[r] = pc[r]
    BY <2>1 DEF IInv, TypeOK, CreatedIsOver
  <2> QED
    BY <2>1 DEF Inserted
<1>3. CodeIsHeld' /\ RowIsThere' /\ CreatedIsOver' /\ UniqueEmails' /\ OwnersAreDistinct'
  BY <1>2 DEF IInv, CodeIsHeld, RowIsThere, CreatedIsOver, UniqueEmails, OwnersAreDistinct, Users, CodeIds
<1>4. StartIsOnce' /\ PrimaryAdminFirst' /\ OnePrintedCode'
  BY DEF IInv, TypeOK, StartIsOnce, PrimaryAdminFirst, OnePrintedCode, Users, CodeIds
<1> QED
  BY <1>1, <1>3, <1>4 DEF IInv

(* Whatever administrators do keeps it, and so does time. *)
LEMMA Administering ==
    ASSUME IInv, Administration \/ \E c \in CodeIds : Expire(c)
    PROVE  IInv'
<1>0. ASSUME NEW outcome \in Outcomes, Counted(outcome) PROVE faults' \in 0 .. MaxFaults
  BY <1>0, Counting
<1>1. ASSUME NEW u \in Users, Admit(u) PROVE IInv'
  <2> USE <1>1 DEF Admit, Elsewhere, tables
  <2>1. RegistrationsKept
    BY DEF RegistrationsKept, Users, CodeIds
  <2>2. TypeOK'
    BY DEF IInv, TypeOK, handlerVars, startVars, Users, CodeIds
  <2>3. StartIsOnce' /\ PrimaryAdminFirst' /\ OnePrintedCode'
    BY DEF IInv, StartIsOnce, PrimaryAdminFirst, OnePrintedCode, Users, CodeIds, startVars
  <2> QED
    BY <2>1, <2>2, <2>3, RegistrationsAgree DEF IInv
<1>2. ASSUME NEW u \in Users, NEW v \in Users, NEW enabled \in BOOLEAN,
             users' = users \/ users' = [users EXCEPT ![v].enabled = enabled],
             UNCHANGED <<serial, codes, startVars, known, crashes, handlerVars>>,
             faults' \in 0 .. MaxFaults,
             admitted' \subseteq admitted,
             1 \in Users /\ users[1].admin
      PROVE  IInv'
  <2> USE <1>2
  <2>1. /\ Users' = Users
        /\ users' \in [Users -> UserRow]
        /\ \A w \in Users : /\ users'[w].admin = users[w].admin
                             /\ users'[w].name = users[w].name
                             /\ users'[w].email = users[w].email
    <3>1. users \in [Users -> UserRow]
      BY DEF IInv, TypeOK
    <3>2. [users[v] EXCEPT !.enabled = enabled] \in UserRow
      BY <3>1 DEF UserRow
    <3>3. CASE users' = [users EXCEPT ![v].enabled = enabled]
      <4>1. Users' = Users /\ users' \in [Users -> UserRow]
        BY <3>1, <3>2, <3>3 DEF Users
      <4> QED
        BY <3>1, <3>3, <4>1 DEF UserRow
    <3> QED
      BY <3>1, <3>3 DEF Users
  <2>2. RegistrationsKept
    BY <2>1 DEF RegistrationsKept, CodeIds
  <2>3. TypeOK'
    BY <2>1 DEF IInv, TypeOK, handlerVars, startVars, CodeIds
  <2>4. StartIsOnce' /\ PrimaryAdminFirst' /\ OnePrintedCode'
    BY <2>1 DEF IInv, StartIsOnce, PrimaryAdminFirst, OnePrintedCode, CodeIds, startVars
  <2> QED
    BY <2>2, <2>3, <2>4, RegistrationsAgree DEF IInv
<1>3. admitted # {} => 1 \in Users /\ users[1].admin
  BY DEF IInv, PrimaryAdminFirst
<1>4. ASSUME NEW u \in Users, Activation(u) PROVE IInv'
  <2>1. u = 1 /\ users[1].admin /\ users' = [users EXCEPT ![u].enabled = TRUE]
    BY <1>4 DEF Activation
  <2>2. UNCHANGED <<serial, codes, startVars, known, crashes, handlerVars, faults, admitted>>
    BY <1>4 DEF Activation, Elsewhere
  <2>3. faults' \in 0 .. MaxFaults
    BY <2>2 DEF IInv, TypeOK
  <2> QED
    BY <1>2, <2>1, <2>2, <2>3
<1>5. ASSUME NEW u \in admitted, NEW v \in Users, NEW enabled \in BOOLEAN,
             SetEnabled(u, v, enabled)
      PROVE  IInv'
  <2>1. /\ users' = users \/ users' = [users EXCEPT ![v].enabled = enabled]
        /\ UNCHANGED <<serial, codes, startVars, known, crashes, handlerVars>>
        /\ faults' \in 0 .. MaxFaults
        /\ admitted' \subseteq admitted
    BY <1>0, <1>5 DEF SetEnabled, Elsewhere
  <2>2. u \in Users
    BY DEF IInv, TypeOK
  <2> QED
    BY <1>2, <1>3, <2>1, <2>2
<1>6. ASSUME NEW u \in admitted, GenerateAccessCode(u) PROVE IInv'
  <2>1. /\ UNCHANGED <<users, serial, startVars, crashes, handlerVars>>
        /\ faults' \in 0 .. MaxFaults
        /\ admitted' \subseteq admitted
        /\ server = "up"
    BY <1>0, <1>6 DEF GenerateAccessCode, Elsewhere, IInv, StartIsOnce
  <2>2. CASE codes' = codes /\ known' = known
    <3>1. RegistrationsKept
      BY <2>1, <2>2 DEF RegistrationsKept, Users, CodeIds
    <3>2. TypeOK' /\ StartIsOnce' /\ PrimaryAdminFirst' /\ OnePrintedCode'
      BY <2>1, <2>2 DEF IInv, TypeOK, StartIsOnce, PrimaryAdminFirst, OnePrintedCode, startVars, handlerVars, Users, CodeIds
    <3> QED
      BY <3>1, <3>2, RegistrationsAgree DEF IInv
  <2>3. CASE /\ codes' = Append(codes, NewCode(FALSE))
             /\ known' \in {known, known \cup {Len(codes')}}
    <3>1. /\ codes' \in Seq(CodeRow)
          /\ CodeIds' = CodeIds \cup {Len(codes')}
          /\ codes' # <<>>
          /\ codes'[Len(codes')] = NewCode(FALSE)
          /\ \A c \in CodeIds : codes'[c] = codes[c]
      BY <2>3, NewCodes
    <3>2. ~NewCode(FALSE).admin /\ NewCode(FALSE).user = 0
      BY DEF NewCode
    <3>3. RegistrationsKept
      BY <2>1, <3>1, <3>2 DEF RegistrationsKept, Users
    <3>4. TypeOK'
      BY <2>1, <2>3, <3>1 DEF IInv, TypeOK, handlerVars, startVars, Users
    <3>5. \A c \in known' : codes'[c].admin => c \in known /\ codes[c].admin
      <4>1. known \subseteq CodeIds
        BY DEF IInv, TypeOK
      <4> QED
        BY <2>3, <3>1, <3>2, <4>1
    <3>7. StartIsOnce'
      BY <2>1, <3>1, <3>5 DEF IInv, StartIsOnce, startVars
    <3>8. OnePrintedCode'
      BY <3>5 DEF IInv, OnePrintedCode
    <3>6. PrimaryAdminFirst'
      BY <1>3, <2>1 DEF PrimaryAdminFirst, Users
    <3> QED
      BY <3>3, <3>4, <3>6, <3>7, <3>8, RegistrationsAgree DEF IInv
  <2> QED
    BY <1>6, <2>2, <2>3 DEF GenerateAccessCode, Outcomes
<1>7. ASSUME NEW c \in CodeIds, Expire(c) PROVE IInv'
  <2> USE <1>7 DEF Expire, Elsewhere
  <2>1. /\ codes' \in Seq(CodeRow)
        /\ CodeIds' = CodeIds
        /\ \A d \in CodeIds : /\ codes'[d].admin = codes[d].admin
                              /\ codes'[d].used = codes[d].used
                              /\ codes'[d].user = codes[d].user
    <3>1. codes \in Seq(CodeRow) /\ CodeIds = 1 .. Len(codes)
      BY DEF IInv, TypeOK, CodeIds
    <3>2. [codes[c] EXCEPT !.expired = TRUE] \in CodeRow
      BY CodeRows DEF CodeRow
    <3>3. codes' \in Seq(CodeRow) /\ CodeIds' = CodeIds
      BY <3>1, <3>2 DEF CodeIds
    <3> QED
      BY <3>1, <3>3, CodeRows DEF CodeRow
  <2>2. RegistrationsKept
    BY <2>1 DEF RegistrationsKept, Users
  <2>3. TypeOK'
    BY <2>1 DEF IInv, TypeOK, handlerVars, startVars, Users
  <2>4. codes # <<>> => codes' # <<>>
    BY <2>1 DEF CodeIds, IInv, TypeOK
  <2>5. StartIsOnce' /\ PrimaryAdminFirst' /\ OnePrintedCode'
    BY <2>1, <2>4 DEF IInv, TypeOK, StartIsOnce, PrimaryAdminFirst, OnePrintedCode, Users, startVars
  <2> QED
    BY <2>2, <2>3, <2>5, RegistrationsAgree DEF IInv
<1> QED
  BY <1>1, <1>4, <1>5, <1>6, <1>7 DEF Administration

(* Every step keeps it. *)
LEMMA Inductive == IInv /\ [Next]_vars => IInv'
<1> SUFFICES ASSUME IInv, [Next]_vars PROVE IInv'
  OBVIOUS
<1>1. CASE UNCHANGED vars
  BY <1>1 DEF vars, tables, handlerVars, startVars, IInv, TypeOK, CodeIsHeld, RowIsThere, Inserted,
     CreatedIsOver, UniqueEmails, OwnersAreDistinct, StartIsOnce, PrimaryAdminFirst, OnePrintedCode,
     Users, CodeIds
<1> QED
  BY <1>1, Registering, Starting, Crashing, Administering DEF Next

LEMMA InvariantHolds == Spec => []IInv
BY Initially, Inductive, PTL DEF Spec

(* Every state of the tables, the handlers and the start is well typed.    *)
THEOREM TypeCorrect == Spec => []TypeOK
<1>1. IInv => TypeOK
  BY DEF IInv
<1> QED
  BY <1>1, InvariantHolds, PTL

(* Whoever is told that an account was created has it, its code and its    *)
(* email, for any number of registrations that race, statements that fail  *)
(* and restarts.                                                           *)
THEOREM SuccessAlwaysOwnsCode == Spec => []SuccessOwnsCode
<1>1. IInv => SuccessOwnsCode
  BY DEF IInv, SuccessOwnsCode, RowIsThere, CreatedIsOver, UniqueEmails, Inserted
<1> QED
  BY <1>1, InvariantHolds, PTL

(* Nothing is enabled, made or done by anybody before the account with     *)
(* id 1 exists, which is an administrator's.                               *)
THEOREM PrimaryAdminAlwaysFirst == Spec => []PrimaryAdminFirst
<1>1. IInv => PrimaryAdminFirst
  BY DEF IInv
<1> QED
  BY <1>1, InvariantHolds, PTL

(* However often the first start is repeated, one administrator's code at  *)
(* most is handed out.                                                     *)
THEOREM OneCodePrinted == Spec => []OnePrintedCode
<1>1. IInv => OnePrintedCode
  BY DEF IInv
<1> QED
  BY <1>1, InvariantHolds, PTL

-----------------------------------------------------------------------------
(* Registration implements Invitations. *)

HolderOf == [c \in CodeIds |-> codes[c].user]

MemberOf == [r \in Requests |-> IF reply[r] = "created" THEN id[r] ELSE 0]

(* A code that is made extends the list of holders. *)
LEMMA HolderOfAppend ==
    ASSUME IInv, NEW isAdmin \in BOOLEAN, codes' = Append(codes, NewCode(isAdmin))
    PROVE  HolderOf' = Append(HolderOf, 0)
<1> DEFINE n == Len(codes)
<1>1. /\ codes \in Seq(CodeRow)
      /\ n \in Nat
      /\ CodeIds = 1 .. n
  BY DEF IInv, TypeOK, CodeIds
<1>2. \A c \in CodeIds : codes[c].user \in Nat
  BY CodeRows
<1>3. HolderOf \in [1 .. n -> Nat]
  BY <1>1, <1>2 DEF HolderOf
<1>4. HolderOf \in Seq(Nat) /\ Len(HolderOf) = n
  BY <1>1, <1>3
<1>5. NewCode(isAdmin) \in CodeRow /\ NewCode(isAdmin).user = 0
  BY DEF NewCode, CodeRow
<1>6. /\ CodeIds' = 1 .. n + 1
      /\ codes'[n + 1].user = 0
      /\ \A c \in 1 .. n : codes'[c] = codes[c]
  BY <1>1, <1>5 DEF CodeIds
<1>7. HolderOf' = [c \in 1 .. n + 1 |-> codes'[c].user]
  BY <1>6 DEF HolderOf
<1>8. /\ Append(HolderOf, 0) \in [1 .. n + 1 -> Nat]
      /\ \A c \in 1 .. n + 1 : Append(HolderOf, 0)[c] = IF c = n + 1 THEN 0 ELSE HolderOf[c]
  <2>1. /\ Append(HolderOf, 0) \in Seq(Nat)
        /\ Len(Append(HolderOf, 0)) = n + 1
        /\ \A c \in 1 .. n : Append(HolderOf, 0)[c] = HolderOf[c]
        /\ Append(HolderOf, 0)[n + 1] = 0
    BY <1>4, AppendProperties
  <2>2. Append(HolderOf, 0) \in [1 .. n + 1 -> Nat]
    BY <2>1, LenProperties
  <2>3. \A c \in 1 .. n + 1 : c = n + 1 \/ c \in 1 .. n
    BY <1>1
  <2>4. n + 1 \notin 1 .. n
    BY <1>1
  <2> QED
    BY <2>1, <2>2, <2>3, <2>4
<1>9. ASSUME NEW c \in 1 .. n + 1
      PROVE  /\ codes'[c].user = IF c = n + 1 THEN 0 ELSE HolderOf[c]
             /\ codes'[c].user \in Nat
  BY <1>1, <1>2, <1>6 DEF HolderOf
<1>10. HolderOf' \in [1 .. n + 1 -> Nat] /\ \A c \in 1 .. n + 1 : HolderOf'[c] = codes'[c].user
  BY <1>7, <1>9
<1>11. \A c \in 1 .. n + 1 : HolderOf'[c] = Append(HolderOf, 0)[c]
  BY <1>8, <1>9, <1>10
<1>12. \A f, g \in [1 .. n + 1 -> Nat] : (\A c \in 1 .. n + 1 : f[c] = g[c]) => f = g
  OBVIOUS
<1> QED
  BY <1>8, <1>10, <1>11, <1>12

(* A step that leaves the owners of the codes alone and tells nobody of an *)
(* account is none of Invitations.                                         *)
LEMMA Unnoticed ==
    ASSUME IInv, CodeIds' = CodeIds,
           \A c \in CodeIds : codes'[c].user = codes[c].user,
           \A r \in Requests : reply'[r] = "created" <=> reply[r] = "created",
           \A r \in Requests : reply[r] = "created" => id'[r] = id[r]
    PROVE  UNCHANGED <<HolderOf, MemberOf>>
BY DEF HolderOf, MemberOf

(* Every step of a registration redeems its code or is not noticed. *)
LEMMA RegistrationInvited ==
    ASSUME IInv, NEW r \in Requests, Registration(r)
    PROVE  Invited!Next \/ UNCHANGED <<HolderOf, MemberOf>>
<1>1. pc[r] \in Steps \cup {"idle"} /\ reply[r] # "created"
  BY DEF IInv, TypeOK, CreatedIsOver, Registration, Register, CheckExists, ReadCode, UseCode,
     InsertUser, ReadOwner, Own, Steps
<1>4. ASSUME NEW q \in Requests, NEW c \in CodeIds, Invited!Redeem(q, c)
      PROVE  Invited!Next
  BY <1>4 DEF Invited!Next
<1>2. CASE ~Own(r)
  <2>1. \A q \in Requests : reply'[q] = "created" <=> reply[q] = "created"
    <3>1. \/ UNCHANGED reply
          \/ \E answer \in {"failed", "badRequest"} : reply' = [reply EXCEPT ![r] = answer]
      BY <1>2 DEF Registration, Register, CheckExists, ReadCode, UseCode, InsertUser, ReadOwner,
         Goes, Returns
    <3> QED
      BY <3>1, <1>1 DEF IInv, TypeOK
  <2>2. \A q \in Requests : reply[q] = "created" => id'[q] = id[q]
    <3>1. UNCHANGED id \/ id' = [id EXCEPT ![r] = serial + 1]
      BY <1>2 DEF Registration, Register, CheckExists, ReadCode, UseCode, InsertUser, ReadOwner
    <3> QED
      BY <3>1, <1>1 DEF IInv, TypeOK
  <2>3. CodeIds' = CodeIds /\ \A c \in CodeIds : codes'[c].user = codes[c].user
    <3>1. UNCHANGED codes \/ codes' = [codes EXCEPT ![form[r].code].used = TRUE]
      BY <1>2 DEF Registration, Register, CheckExists, ReadCode, UseCode, InsertUser, ReadOwner,
         tables
    <3>2. CodeIds = 1 .. Len(codes) /\ codes \in Seq(CodeRow)
      BY DEF IInv, TypeOK, CodeIds
    <3>3. CASE codes' = [codes EXCEPT ![form[r].code].used = TRUE]
      <4>1. CodeIds' = CodeIds
        BY <3>2, <3>3 DEF CodeIds
      <4> QED
        BY <4>1, <3>2, <3>3, CodeRows DEF CodeRow
    <3> QED
      BY <3>1, <3>3 DEF CodeIds
  <2> QED
    BY <2>1, <2>2, <2>3, Unnoticed
<1>3. CASE Own(r)
  <2> USE <1>3 DEF Own
  <2>0. PICK c \in CodeIds : c = form[r].code
    BY DEF IInv, CodeIsHeld
  <2>1. /\ id[r] \in Nat /\ id[r] # 0
        /\ \A d \in CodeIds : codes[d].user # id[r]
        /\ id' = id
    BY DEF IInv, TypeOK, RowIsThere, Inserted, OwnersAreDistinct
  <2>2. \/ codes' = codes /\ Returns(r, "failed")
        \/ /\ Unowned(c)
           /\ codes' = [codes EXCEPT ![c].user = id[r]]
           /\ Returns(r, "failed") \/ Returns(r, "created")
    BY <2>0 DEF Outcomes
  <2>3. CASE codes' = codes /\ Returns(r, "failed")
    BY <2>1, <2>3, <1>1, Unnoticed DEF Returns, IInv, TypeOK, CodeIds
  <2>4. CASE /\ Unowned(c)
             /\ codes' = [codes EXCEPT ![c].user = id[r]]
             /\ Returns(r, "failed") \/ Returns(r, "created")
    <3>1. CodeIds' = CodeIds /\ \A d \in CodeIds : codes[d] \in CodeRow
      BY <2>4, CodeRows DEF CodeIds, IInv, TypeOK
    <3>2. codes'[c].user = id[r]
      BY <2>1, <2>4, <3>1 DEF CodeIds, CodeRow, IInv, TypeOK
    <3>3. \A d \in CodeIds \ {c} : codes'[d].user = codes[d].user
      BY <2>4 DEF CodeIds, IInv, TypeOK
    <3>4. HolderOf' = [HolderOf EXCEPT ![c] = id[r]]
      BY <2>1, <3>1, <3>2, <3>3 DEF HolderOf
    <3>5. MemberOf' = MemberOf \/ MemberOf' = [MemberOf EXCEPT ![r] = id[r]]
      <4>1. reply \in [Requests -> Replies \cup {"none"}]
        BY DEF IInv, TypeOK
      <4>2. CASE Returns(r, "failed")
        BY <2>1, <4>1, <4>2, <1>1 DEF MemberOf, Returns
      <4>3. CASE Returns(r, "created")
        BY <2>1, <4>1, <4>3 DEF MemberOf, Returns
      <4> QED
        BY <2>4, <4>2, <4>3
    <3>6. /\ HolderOf[c] = 0
          /\ MemberOf[r] = 0
          /\ HolderOf'[c] = id[r]
          /\ DOMAIN HolderOf = CodeIds
          /\ \A d \in CodeIds : HolderOf[d] # id[r]
      BY <2>1, <2>4, <3>2, <3>1, <1>1 DEF HolderOf, MemberOf, Unowned
    <3>7. Invited!Redeem(r, c)
      BY <2>1, <3>4, <3>5, <3>6 DEF Invited!Redeem, HolderOf, MemberOf
    <3> QED
      BY <1>4, <2>1, <3>7
  <2> QED
    BY <2>2, <2>3, <2>4
<1> QED
  BY <1>2, <1>3

(* A code that is made is Invitations' Invite. *)
LEMMA MakingInvited ==
    ASSUME IInv, NEW isAdmin \in BOOLEAN, codes' = Append(codes, NewCode(isAdmin)),
           UNCHANGED <<reply, id>>
    PROVE  Invited!Next
<1>1. HolderOf' = Append(HolderOf, 0)
  BY HolderOfAppend
<1>2. MemberOf' = MemberOf
  BY DEF MemberOf
<1>3. Invited!Invite
  BY <1>1, <1>2 DEF Invited!Invite, HolderOf, MemberOf
<1> QED
  BY <1>3 DEF Invited!Next

(* So is every other step, or it is not noticed. *)
LEMMA OthersInvited ==
    ASSUME IInv, Start \/ Crash \/ Administration \/ \E c \in CodeIds : Expire(c)
    PROVE  Invited!Next \/ UNCHANGED <<HolderOf, MemberOf>>
<1>1. CASE UNCHANGED <<codes, reply, id>>
  BY <1>1 DEF HolderOf, MemberOf, CodeIds
<1>2. CASE \E isAdmin \in BOOLEAN : codes' = Append(codes, NewCode(isAdmin)) /\ UNCHANGED <<reply, id>>
  BY <1>2, MakingInvited
<1>3. ASSUME NEW c \in CodeIds, Expire(c) PROVE UNCHANGED <<HolderOf, MemberOf>>
  <2>1. codes' = [codes EXCEPT ![c].expired = TRUE] /\ UNCHANGED <<reply, id>>
    BY <1>3 DEF Expire, Elsewhere, handlerVars
  <2>2. CodeIds = 1 .. Len(codes) /\ codes \in Seq(CodeRow)
    BY DEF IInv, TypeOK, CodeIds
  <2>3. CodeIds' = CodeIds
    BY <2>1, <2>2 DEF CodeIds
  <2>4. \A d \in CodeIds : codes'[d].user = codes[d].user
    BY <2>1, <2>2, CodeRows DEF CodeRow
  <2> QED
    BY <2>1, <2>3, <2>4, Unnoticed
<1>4. CASE Crash
  <2>1. \A r \in Requests : reply'[r] = "created" <=> reply[r] = "created"
    BY <1>4 DEF Crash, IInv, TypeOK, CreatedIsOver, Steps
  <2> QED
    BY <2>1, <1>4, Unnoticed DEF Crash, tables, CodeIds
<1>5. CASE Start
  <2>1. CASE GetSys \/ EditSys \/ PrintInitial
    BY <2>1, <1>1 DEF GetSys, EditSys, PrintInitial, Elsewhere, handlerVars, tables
  <2>2. CASE GenerateInitial
    BY <2>2, <1>1, <1>2 DEF GenerateInitial, Elsewhere, handlerVars
  <2> QED
    BY <1>5, <2>1, <2>2 DEF Start
<1>6. CASE Administration
  <2>1. ASSUME NEW u, Admit(u) \/ Activation(u) PROVE UNCHANGED <<codes, reply, id>>
    BY <2>1 DEF Admit, Activation, Elsewhere, handlerVars, tables
  <2>2. ASSUME NEW u, NEW v, NEW enabled, SetEnabled(u, v, enabled)
        PROVE  UNCHANGED <<codes, reply, id>>
    BY <2>2 DEF SetEnabled, Elsewhere, handlerVars
  <2>3. ASSUME NEW u, GenerateAccessCode(u)
        PROVE  \/ UNCHANGED <<codes, reply, id>>
               \/ codes' = Append(codes, NewCode(FALSE)) /\ UNCHANGED <<reply, id>>
    BY <2>3 DEF GenerateAccessCode, Elsewhere, handlerVars
  <2> QED
    BY <1>6, <1>1, <1>2, <2>1, <2>2, <2>3 DEF Administration
<1> QED
  BY <1>3, <1>4, <1>5, <1>6

(* However registrations race, fail and are repeated, a code gives one     *)
(* account and a client is told of the one its code gave.                  *)
THEOREM KeepsInvitations == Spec => ImplementsInvitations
<1>1. Init => Invited!Init
  BY DEF Init, Invited!Init, CodeIds
<1>2. ASSUME IInv, [Next]_vars
      PROVE  [Invited!Next]_<<HolderOf, MemberOf>>
  <2>1. CASE UNCHANGED vars
    BY <2>1 DEF vars, tables, handlerVars, HolderOf, MemberOf, CodeIds
  <2> QED
    BY <1>2, <2>1, RegistrationInvited, OthersInvited DEF Next
<1>3. IInv /\ [Next]_vars
         => [Invited!Next]_<<[c \in CodeIds |-> codes[c].user],
                             [r \in Requests |-> IF reply[r] = "created" THEN id[r] ELSE 0]>>
  BY <1>2 DEF HolderOf, MemberOf
<1> QED
  BY <1>1, <1>3, InvariantHolds, PTL DEF Spec, ImplementsInvitations, Invited!Spec

=============================================================================
