------------------------- MODULE MarketSession_proofs -------------------------
(***************************************************************************)
(* The market's clock for any number of workers and any timetable.  What   *)
(* TLC shows for three workers and a day of eight minutes needs two things *)
(* in general: the database never holds all workers when a minute ends     *)
(* (otherwise MarketSession_hung.cfg breaks it), and the timetable is that *)
(* of a day which the market opens and closes, with the clearing before    *)
(* its opening (otherwise MarketSession_midnight.cfg does).                *)
(*                                                                         *)
(* The argument: as one worker is left, the job channel is empty when a    *)
(* minute ends, so a minute's three jobs are never dropped, and each       *)
(* session job is alone: a change it finds is the one it made itself, and  *)
(* while every Load of the timetable succeeds it announces it.             *)
(***************************************************************************)
EXTENDS MarketSession, FiniteSetTheorems, SequenceTheorems, TLAPS

\* One worker is left, and a minute's jobs fit into the channel.
EnoughWorkers ==
    /\ IsFiniteSet(Workers)
    /\ MaxStuck < Cardinality(Workers)
    /\ Len(JobTypes) <= JobCapacity

Opening == Timetable["pre"][1]
Closing == Timetable["post"][2]
Clearing == Opening - Lead["pre-30m"]

\* The sessions are those of one day, which the clearing precedes and after
\* which the connections end before the next one.
OrdinaryDay ==
    /\ \A s \in Sessions : /\ Opening <= Timetable[s][1]
                         /\ Timetable[s][1] <= Timetable[s][2]
                         /\ Timetable[s][2] <= Closing
    /\ Closing < DayLength
    /\ Lead["pre-30m"] \in 1 .. Opening
    /\ Grace <= Opening

-----------------------------------------------------------------------------
(* Where the minute's three jobs are: what waits in the channel and what   *)
(* is still to be sent make up the end of the list.                        *)
All == <<"get_session", "clear_expired_api_keys", "clear_redis_cache">>
LastTwo == <<"clear_expired_api_keys", "clear_redis_cache">>
LastOne == <<"clear_redis_cache">>

\* The session job has not been taken.
SessionDue ==
    \/ jobs = <<>> /\ toSend = All
    \/ jobs = <<"get_session">> /\ toSend = LastTwo
    \/ jobs = <<"get_session", "clear_expired_api_keys">> /\ toSend = LastOne
    \/ jobs = All /\ toSend = <<>>

\* It has, but not the clearing job.
ClearingDue ==
    \/ jobs = <<>> /\ toSend = LastTwo
    \/ jobs = <<"clear_expired_api_keys">> /\ toSend = LastOne
    \/ jobs = LastTwo /\ toSend = <<>>
    \/ jobs = <<>> /\ toSend = LastOne
    \/ jobs = LastOne /\ toSend = <<>>

NothingDue == jobs = <<>> /\ toSend = <<>>

\* At most one session job is anywhere.
OneSessionJob ==
    /\ SessionDue \/ ClearingDue \/ NothingDue
    /\ SessionDue => \A w \in Workers : pc[w] \notin InGetSession
    /\ \A v, w \in Workers : pc[v] \in InGetSession /\ pc[w] \in InGetSession => v = w

-----------------------------------------------------------------------------
\* The session job has updated the status, or failed to, in this minute.
StatusDone ==
    ~SessionDue /\ \A w \in Workers : pc[w] \notin {"get_session", "update"}

Compares == {"update", "remind", "compare", "announce"}
WillAnnounce == {"remind", "compare", "announce"}

\* A change made while every Load succeeds is due until its job announces it.
StatusFollows ==
    /\ StatusDone /\ ~edited => MarketStatus = getCurrentSession
    /\ \A w \in Workers :
          /\ pc[w] = "update" => previous[w] = MarketStatus
          /\ pc[w] \in WillAnnounce \cup {"schedule"} => MarketStatus = getCurrentSession
          /\ pc[w] \in WillAnnounce /\ previous[w] # MarketStatus => pending # "none"
          /\ pc[w] = "announce" => previous[w] # MarketStatus
    /\ pending = "none" => announced = MarketStatus
    /\ pending = "due" =>
          /\ ~edited /\ ~holiday
          /\ \E w \in Workers : pc[w] \in WillAnnounce /\ previous[w] # MarketStatus
    /\ holiday => MarketStatus = "closed"
    /\ minute = DayLength - 1 => ~edited

\* The books are cleared before the market opens.
ClearedBefore ==
    /\ ~missed => ~edited
    /\ ~missed /\ minute < Opening => MarketStatus = "closed"
    /\ book = "earlier" /\ ~missed /\ ~holiday =>
          \/ minute < Clearing
          \/ /\ minute = Clearing
             /\ \/ SessionDue \/ ClearingDue
                \/ \E w \in Workers : pc[w] = "clear_redis_cache"

\* The status "post" is of today, and connections end outside the sessions.
EndsBetween ==
    /\ MarketStatus = "post" => minute >= Timetable["post"][1]
    /\ \A w \in Workers :
          /\ pc[w] \in Compares \cup {"schedule"} /\ previous[w] = "post"
                => minute >= Timetable["post"][1]
          /\ pc[w] \in {"compare", "announce", "schedule"} => ~holiday
    /\ \A d \in disconnectAt : d < Opening \/ d >= Closing

IInv == TypeOK /\ OneSessionJob /\ StatusFollows /\ ClearedBefore /\ EndsBetween

-----------------------------------------------------------------------------
(* The timetable. *)

USE DEF Sessions, Status, Minutes, InGetSession, Positions

LEMMA SessionTypes ==
    /\ getCurrentSession \in Status
    /\ JobTypes = All
    /\ JobType = {"get_session", "clear_expired_api_keys", "clear_redis_cache"}
<1>1. getCurrentSession \in Status
  BY DEF getCurrentSession
<1>2. JobTypes = All
  BY DEF JobTypes, All
<1>3. DOMAIN JobTypes = 1 .. 3 /\ JobTypes[1] = "get_session"
      /\ JobTypes[2] = "clear_expired_api_keys" /\ JobTypes[3] = "clear_redis_cache"
  BY DEF JobTypes
<1>4. JobType = {"get_session", "clear_expired_api_keys", "clear_redis_cache"}
  BY <1>3 DEF JobType
<1> QED
  BY <1>1, <1>2, <1>4

LEMMA Timetables ==
    ASSUME OrdinaryDay, minute \in Minutes, holiday \in BOOLEAN
    PROVE  /\ \A s \in Sessions : OnTimetable(s) <=> Within(s)
           /\ \A s \in Sessions : OnTimetable(s) => ~holiday /\ Opening <= minute /\ minute < Closing
           /\ getCurrentSession # "closed" => OnTimetable(getCurrentSession)
           /\ getCurrentSession = "closed" => \A s \in Sessions : ~OnTimetable(s)
           /\ getCurrentSession = "post" => minute >= Timetable["post"][1]
           /\ getCurrentSession = "closed" /\ ~holiday /\ minute >= Timetable["post"][1] => minute >= Closing
<1>1. \A s \in Sessions : Timetable[s][1] \in Nat /\ Timetable[s][2] \in Nat
  BY SessionAssumption
<1>2. minute \in Int
  BY SessionAssumption
<1>3. \A s \in Sessions : OnTimetable(s) <=> Within(s)
  BY <1>1, <1>2 DEF OnTimetable, Within
<1>4. \A s \in Sessions : OnTimetable(s) => ~holiday /\ Opening <= minute /\ minute < Closing
  BY <1>1, <1>2, <1>3 DEF OrdinaryDay, Within, Opening, Closing
<1>5. /\ getCurrentSession # "closed" => OnTimetable(getCurrentSession)
      /\ getCurrentSession = "closed" => \A s \in Sessions : ~OnTimetable(s)
  BY <1>3 DEF getCurrentSession
<1>6. getCurrentSession = "post" => minute >= Timetable["post"][1]
  BY <1>1, <1>2, <1>3 DEF getCurrentSession, Within
<1>7. getCurrentSession = "closed" /\ ~holiday /\ minute >= Timetable["post"][1] => minute >= Closing
  BY <1>1, <1>2, <1>3, <1>5 DEF Within, Closing
<1> QED
  BY <1>3, <1>4, <1>5, <1>6, <1>7

(* What follows when a minute is over. *)
LEMMA AtTheEnd ==
    ASSUME EnoughWorkers, TypeOK, MinuteOver
    PROVE  /\ NothingDue
           /\ \A w \in Workers : pc[w] \in {"idle", "clear_expired_api_keys"}
<1>1. Stuck # Workers
  <2>1. Cardinality(Stuck) <= MaxStuck
    BY DEF MinuteOver
  <2>2. Cardinality(Workers) \in Nat
    BY FS_CardinalityType DEF EnoughWorkers
  <2> QED
    BY <2>1, <2>2, SessionAssumption DEF EnoughWorkers
<1> QED
  BY <1>1 DEF MinuteOver, Settled, Stuck, NothingDue

-----------------------------------------------------------------------------
(* Types. *)
LEMMA TypesKept == TypeOK /\ [Next]_vars => TypeOK'
<1> SUFFICES ASSUME TypeOK, [Next]_vars
             PROVE  TypeOK'
  OBVIOUS
<1> USE DEF TypeOK
<1>1. CASE Tick
  <2>1. (minute + 1) % DayLength \in Minutes
    BY SessionAssumption
  <2>2. JobTypes \in Seq(JobType)
    BY SessionTypes DEF All
  <2> QED
    BY <1>1, <2>1, <2>2 DEF Tick, subscriberVars, toldVars
<1>2. CASE CreateAndSendJob
  <2>1. Head(toSend) \in JobType /\ Tail(toSend) \in Seq(JobType)
    BY <1>2 DEF CreateAndSendJob
  <2>2. jobs' \in Seq(JobType) /\ Len(jobs') <= JobCapacity
    BY <1>2, <2>1, SessionAssumption DEF CreateAndSendJob
  <2> QED
    BY <1>2, <2>1, <2>2 DEF CreateAndSendJob, clockVars, subscriberVars, toldVars
<1>3. ASSUME NEW w \in Workers, Worker(w)
      PROVE  TypeOK'
  <2> USE DEF Moves, clockVars, subscriberVars, toldVars, Changes, ForgetAtEnd
  <2>1. CASE TakeJob(w)
    <3>1. Head(jobs) \in JobType /\ Tail(jobs) \in Seq(JobType) /\ Len(Tail(jobs)) <= JobCapacity
      BY <2>1, SessionAssumption DEF TakeJob
    <3> QED
      BY <2>1, <3>1 DEF TakeJob
  <2>2. CASE ReadPreviousStatus(w)
    BY <2>2 DEF ReadPreviousStatus
  <2>3. CASE UpdateMarketStatus(w)
    BY <2>3, SessionTypes DEF UpdateMarketStatus, PendingIf
  <2>4. CASE Remind(w)
    BY <2>4 DEF Remind
  <2>5. CASE Compare(w)
    BY <2>5 DEF Compare
  <2>6. CASE Announce(w)
    BY <2>6 DEF Announce
  <2>7. CASE ScheduleDisconnect(w)
    <3>1. (minute + Grace) % DayLength \in Minutes
      BY SessionAssumption
    <3> QED
      BY <2>7, <3>1 DEF ScheduleDisconnect
  <2>8. CASE ProcessClearExpiredAPIKeys(w)
    BY <2>8 DEF ProcessClearExpiredAPIKeys
  <2>9. CASE ProcessClearRedisCache(w)
    BY <2>9 DEF ProcessClearRedisCache
  <2> QED
    BY <1>3, <2>1, <2>2, <2>3, <2>4, <2>5, <2>6, <2>7, <2>8, <2>9 DEF Worker, ProcessGetSession
<1>4. CASE DisconnectAll
  BY <1>4 DEF DisconnectAll, clockVars, poolVars, subscriberVars, toldVars
<1>5. ASSUME NEW s \in Subscribers, Greet(s) \/ RegisterClient(s) \/ Leave(s)
      PROVE  TypeOK'
  <2> USE DEF clockVars, poolVars, toldVars
  <2>1. CASE Greet(s)
    BY <2>1 DEF Greet
  <2>2. CASE RegisterClient(s)
    BY <2>2 DEF RegisterClient
  <2>3. CASE Leave(s)
    BY <2>3 DEF Leave
  <2> QED
    BY <1>5, <2>1, <2>2, <2>3
<1>6. CASE PlaceOrder
  BY <1>6 DEF PlaceOrder, clockVars, poolVars, subscriberVars, toldVars
<1>7. CASE UNCHANGED vars
  BY <1>7 DEF vars, clockVars, poolVars, subscriberVars, toldVars
<1> QED
  BY <1>1, <1>2, <1>3, <1>4, <1>5, <1>6, <1>7 DEF Next

LEMMA TypesInitially == Init => TypeOK
<1> SUFFICES ASSUME Init
             PROVE  TypeOK
  OBVIOUS
<1>1. <<>> \in Seq(JobType) /\ Len(<<>>) <= JobCapacity
  BY SessionAssumption
<1> QED
  BY <1>1, SessionTypes, SessionAssumption DEF Init, TypeOK, Changes

(* The clock, the pool, the status and the subscribers are well typed, and *)
(* the job channel keeps its bound, for any number of workers and any      *)
(* timetable (workerPool.go, exchanges.go, session.go).                    *)
THEOREM TypeCorrect == Spec => []TypeOK
BY TypesInitially, TypesKept, PTL DEF Spec

-----------------------------------------------------------------------------
(* The invariant. *)

LEMMA Initially == OrdinaryDay /\ Init => IInv
<1> SUFFICES ASSUME OrdinaryDay, Init
             PROVE  IInv
  OBVIOUS
<1>0. TypeOK
  BY TypesInitially
<1>1. OneSessionJob
  BY DEF Init, OneSessionJob, NothingDue, SessionDue, All
<1>2. holiday => getCurrentSession = "closed"
  BY DEF getCurrentSession, Within
<1>3. StatusFollows
  BY <1>2 DEF Init, StatusFollows, Compares, WillAnnounce
<1>4. minute < Opening => getCurrentSession = "closed"
  <2>1. minute \in Int /\ Opening \in Int
    BY SessionAssumption DEF Init, Opening
  <2>2. getCurrentSession # "closed" => Opening <= minute
    BY <1>0, SessionTypes, Timetables DEF TypeOK
  <2> QED
    BY <2>1, <2>2
<1>5. ClearedBefore
  BY <1>4 DEF Init, ClearedBefore
<1>6. EndsBetween
  BY <1>0, Timetables DEF Init, EndsBetween, TypeOK, Compares
<1> QED
  BY <1>0, <1>1, <1>3, <1>5, <1>6 DEF IInv

\* Nothing of what the jobs do; the books may be filled.
Quiet ==
    /\ UNCHANGED <<clockVars, MarketStatus, jobs, toSend, previous, toldVars>>
    /\ disconnectAt' \subseteq disconnectAt
    /\ book' = "earlier" => book = "earlier"
    /\ \A w \in Workers :
          \/ pc'[w] = pc[w]
          \/ pc[w] = "clear_expired_api_keys" /\ pc'[w] = "idle"

LEMMA QuietSteps ==
    ASSUME IInv, TypeOK', Quiet
    PROVE  IInv'
<1> USE DEF clockVars, toldVars
<1>1. getCurrentSession' = getCurrentSession
  BY DEF Quiet, getCurrentSession, Within
<1>2. \A w \in Workers : \/ pc'[w] = pc[w]
                         \/ pc[w] = "clear_expired_api_keys" /\ pc'[w] = "idle"
  BY DEF Quiet
<1>3. OneSessionJob'
  BY <1>2 DEF IInv, Quiet, OneSessionJob, SessionDue, ClearingDue, NothingDue
<1>4. SessionDue' = SessionDue /\ ClearingDue' = ClearingDue
  BY DEF Quiet, SessionDue, ClearingDue
<1>5. StatusFollows'
  BY <1>1, <1>2, <1>4 DEF IInv, Quiet, StatusFollows, StatusDone, Compares, WillAnnounce
<1>6. ClearedBefore'
  BY <1>2, <1>4 DEF IInv, Quiet, ClearedBefore, Opening, Clearing
<1>7. EndsBetween'
  BY <1>2 DEF IInv, Quiet, EndsBetween, Compares, Opening, Closing
<1> QED
  BY <1>3, <1>5, <1>6, <1>7 DEF IInv

LEMMA TickKeeps ==
    ASSUME EnoughWorkers, OrdinaryDay, IInv, TypeOK', Tick
    PROVE  IInv'
<1>1. /\ NothingDue
      /\ \A w \in Workers : pc[w] \in {"idle", "clear_expired_api_keys"}
  BY AtTheEnd DEF IInv, Tick
<1>2. /\ jobs' = <<>> /\ toSend' = All /\ pc' = pc
      /\ UNCHANGED <<MarketStatus, previous, disconnectAt, announced, pending>>
  BY <1>1, SessionTypes DEF Tick, NothingDue, toldVars
<1>3. SessionDue'
  BY <1>2 DEF SessionDue
<1>4. OneSessionJob'
  BY <1>1, <1>2, <1>3 DEF OneSessionJob
<1>5. /\ StatusDone
      /\ pending # "due"
      /\ ~edited => MarketStatus = getCurrentSession
  <2>1. ~SessionDue
    BY <1>1 DEF SessionDue, NothingDue, All
  <2>2. StatusDone
    BY <1>1, <2>1 DEF StatusDone
  <2> QED
    BY <1>1, <2>2 DEF IInv, StatusFollows, WillAnnounce
<1>6. /\ minute \in Minutes /\ holiday \in BOOLEAN
      /\ minute' = IF minute = DayLength - 1 THEN 0 ELSE minute + 1
  <2>1. minute \in Minutes /\ holiday \in BOOLEAN /\ minute' = (minute + 1) % DayLength
    BY DEF IInv, TypeOK, Tick
  <2>2. DayLength \in Nat \ {0}
    BY SessionAssumption
  <2> QED
    BY <2>1, <2>2
<1>7. minute = DayLength - 1 => MarketStatus = "closed"
  <2>1. minute = DayLength - 1 => ~edited
    BY DEF IInv, StatusFollows
  <2>2. minute = DayLength - 1 => minute >= Closing
    BY <1>6, SessionAssumption DEF OrdinaryDay, Closing
  <2> QED
    <3>1. getCurrentSession # "closed" => minute < Closing
      BY <1>6, SessionTypes, Timetables
    <3>2. minute \in Int /\ Closing \in Int
      BY <1>6, SessionAssumption DEF Closing
    <3> QED
      BY <1>5, <2>1, <2>2, <3>1, <3>2
<1>8. minute' = DayLength - 1 => ~edited'
  BY DEF Tick
<1>9. minute' # 0 => holiday' = holiday /\ book' = book /\ missed' = (missed \/ edited')
  BY DEF Tick
<1>10. minute' = 0 => missed' = edited'
  BY DEF Tick
<1>11. StatusFollows'
  <2>1. ~StatusDone'
    BY <1>3 DEF StatusDone
  <2>2. holiday' => MarketStatus = "closed"
    <3>1. minute' = 0 => minute = DayLength - 1
      BY <1>6
    <3>2. holiday => MarketStatus = "closed"
      BY DEF IInv, StatusFollows
    <3> QED
      BY <1>7, <1>9, <3>1, <3>2
  <2> QED
    BY <1>1, <1>2, <1>5, <1>8, <2>1, <2>2 DEF IInv, StatusFollows, WillAnnounce
<1>12. ClearedBefore'
  <2>1. ~missed' => ~edited'
    BY <1>9, <1>10
  <2>2. ~missed' /\ minute' < Opening => MarketStatus = "closed"
    <3>1. CASE minute' = 0
      <4>1. minute = DayLength - 1
        BY <1>6, <3>1
      <4> QED
        BY <1>7, <4>1
    <3>2. CASE minute' # 0
      <4>1. Opening \in Int
        BY SessionAssumption DEF Opening
      <4>2. minute' < Opening => minute < Opening
        BY <1>6, <3>2, <4>1
      <4>3. ~missed' => ~missed
        BY <1>9, <3>2
      <4> QED
        BY <4>2, <4>3 DEF IInv, ClearedBefore
    <3> QED
      BY <3>1, <3>2
  <2>3. book' = "earlier" /\ ~missed' /\ ~holiday' => minute' <= Clearing
    <3>1. Clearing \in Nat
      BY SessionAssumption DEF OrdinaryDay, Clearing, Opening
    <3>2. CASE minute' = 0
      BY <3>1, <3>2
    <3>3. CASE minute' # 0
      <4>1. ~ClearingDue /\ ~SessionDue
        BY <1>1 DEF NothingDue, ClearingDue, SessionDue, All, LastTwo, LastOne
      <4>2. book = "earlier" /\ ~missed /\ ~holiday => minute < Clearing
        BY <1>1, <4>1 DEF IInv, ClearedBefore
      <4>3. minute < Clearing => minute' <= Clearing
        BY <1>6, <3>1, <3>3
      <4>4. ~missed' => ~missed
        BY <1>9, <3>3
      <4>5. holiday' = holiday /\ book' = book
        BY <1>9, <3>3
      <4>6. ASSUME book' = "earlier", ~missed', ~holiday'
            PROVE  minute < Clearing
        BY <4>2, <4>4, <4>5, <4>6
      <4> QED
        BY <4>3, <4>6
    <3> QED
      BY <3>2, <3>3
  <2> QED
    BY <1>2, <1>3, <1>6, <2>1, <2>2, <2>3, SessionAssumption
       DEF ClearedBefore, OrdinaryDay, Clearing, Opening
<1>13. EndsBetween'
  <2>1. MarketStatus = "post" => minute' >= Timetable["post"][1]
    BY <1>6, <1>7, SessionAssumption DEF IInv, EndsBetween
  <2> QED
    BY <1>1, <1>2, <2>1 DEF IInv, EndsBetween, Compares, Opening, Closing
<1> QED
  BY <1>4, <1>11, <1>12, <1>13 DEF IInv

(* The lists of a minute's jobs, one by one. *)
LEMMA Heads ==
    /\ Head(All) = "get_session" /\ All # <<>>
    /\ Head(LastTwo) = "clear_expired_api_keys" /\ LastTwo # <<>>
    /\ Head(LastOne) = "clear_redis_cache" /\ LastOne # <<>>
    /\ Head(<<"get_session">>) = "get_session"
    /\ Head(<<"get_session", "clear_expired_api_keys">>) = "get_session"
    /\ Head(<<"clear_expired_api_keys">>) = "clear_expired_api_keys"
BY DEF All, LastTwo, LastOne

LEMMA Tails ==
    /\ Tail(All) = LastTwo /\ Tail(LastTwo) = LastOne /\ Tail(LastOne) = <<>>
    /\ Tail(<<"get_session">>) = <<>>
    /\ Tail(<<"get_session", "clear_expired_api_keys">>) = <<"clear_expired_api_keys">>
    /\ Tail(<<"clear_expired_api_keys">>) = <<>>
BY DEF All, LastTwo, LastOne

LEMMA Appends ==
    /\ Append(<<>>, "get_session") = <<"get_session">>
    /\ Append(<<"get_session">>, "clear_expired_api_keys") = <<"get_session", "clear_expired_api_keys">>
    /\ Append(<<"get_session", "clear_expired_api_keys">>, "clear_redis_cache") = All
    /\ Append(<<>>, "clear_expired_api_keys") = <<"clear_expired_api_keys">>
    /\ Append(<<"clear_expired_api_keys">>, "clear_redis_cache") = LastTwo
    /\ Append(<<>>, "clear_redis_cache") = LastOne
<1>1. \A a : Append(<<>>, a) = <<a>>
  OBVIOUS
<1>2. ASSUME NEW a, NEW b
      PROVE  Append(<<a>>, b) = <<a, b>>
  <2>1. <<a>> \in Seq({a, b}) /\ <<a, b>> \in Seq({a, b}) /\ Append(<<a>>, b) \in Seq({a, b})
    OBVIOUS
  <2>2. Len(Append(<<a>>, b)) = 2 /\ Len(<<a, b>>) = 2
    OBVIOUS
  <2>3. \A i \in 1 .. 2 : Append(<<a>>, b)[i] = <<a, b>>[i]
    OBVIOUS
  <2> QED
    BY <2>1, <2>2, <2>3, SeqEqual
<1>3. ASSUME NEW a, NEW b, NEW c
      PROVE  Append(<<a, b>>, c) = <<a, b, c>>
  <2>1. /\ <<a, b>> \in Seq({a, b, c}) /\ <<a, b, c>> \in Seq({a, b, c})
        /\ Append(<<a, b>>, c) \in Seq({a, b, c})
    OBVIOUS
  <2>2. Len(Append(<<a, b>>, c)) = 3 /\ Len(<<a, b, c>>) = 3
    OBVIOUS
  <2>3. \A i \in 1 .. 3 : Append(<<a, b>>, c)[i] = <<a, b, c>>[i]
    OBVIOUS
  <2> QED
    BY <2>1, <2>2, <2>3, SeqEqual
<1> QED
  BY <1>1, <1>2, <1>3 DEF All, LastTwo, LastOne

LEMMA Lengths ==
    /\ Len(<<>>) < 3 /\ Len(<<"get_session">>) < 3 /\ Len(<<"clear_expired_api_keys">>) < 3
    /\ Len(<<"get_session", "clear_expired_api_keys">>) < 3
    /\ All # LastTwo /\ All # LastOne /\ LastTwo # LastOne
    /\ <<"get_session">> \notin {<<>>, <<"clear_expired_api_keys">>, LastOne, LastTwo}
    /\ <<"get_session", "clear_expired_api_keys">> \notin {<<>>, <<"clear_expired_api_keys">>, LastOne, LastTwo}
    /\ <<"clear_expired_api_keys">> # <<>>
BY DEF All, LastTwo, LastOne

LEMMA SendKeeps ==
    ASSUME IInv, TypeOK', CreateAndSendJob, EnoughWorkers
    PROVE  IInv'
<1> USE DEF clockVars, toldVars
<1>1. /\ SessionDue => SessionDue'
      /\ ClearingDue => ClearingDue'
      /\ ~NothingDue /\ ~SessionDue => ~SessionDue'
  <2>1. JobCapacity \in Nat /\ 3 <= JobCapacity
    BY SessionTypes, SessionAssumption DEF EnoughWorkers, All
  <2>2. Len(jobs) < 3 => jobs' = Append(jobs, Head(toSend))
    BY <2>1 DEF CreateAndSendJob, IInv, TypeOK
  <2>3. toSend # <<>> /\ toSend' = Tail(toSend)
    BY DEF CreateAndSendJob
  <2>4. SessionDue => SessionDue'
    BY <2>2, <2>3, Heads, Tails, Appends, Lengths DEF SessionDue
  <2>5. ClearingDue => ClearingDue' /\ ~SessionDue'
    BY <2>2, <2>3, Heads, Tails, Appends, Lengths DEF ClearingDue, SessionDue
  <2> QED
    BY <2>4, <2>5 DEF IInv, OneSessionJob
<1>2. ~NothingDue
  BY DEF CreateAndSendJob, NothingDue
<1>3. getCurrentSession' = getCurrentSession
  BY DEF CreateAndSendJob, getCurrentSession, Within
<1>4. OneSessionJob'
  BY <1>1, <1>2 DEF IInv, OneSessionJob, CreateAndSendJob
<1>5. StatusFollows'
  BY <1>1, <1>2, <1>3 DEF IInv, StatusFollows, StatusDone, CreateAndSendJob
<1>6. ClearedBefore'
  BY <1>1, <1>2 DEF IInv, ClearedBefore, CreateAndSendJob, Opening, Clearing
<1>7. EndsBetween'
  BY DEF IInv, EndsBetween, CreateAndSendJob, Opening, Closing
<1> QED
  BY <1>4, <1>5, <1>6, <1>7 DEF IInv

LEMMA TakeKeeps ==
    ASSUME IInv, TypeOK', NEW w \in Workers, TakeJob(w)
    PROVE  IInv'
<1> USE DEF clockVars, toldVars, Moves
<1>1. /\ pc[w] = "idle" /\ pc' = [pc EXCEPT ![w] = Head(jobs)]
      /\ pc \in [Workers -> Positions]
  BY DEF IInv, TypeOK, TakeJob
<1>2. \/ SessionDue /\ Head(jobs) = "get_session" /\ ~SessionDue' /\ (ClearingDue')
      \/ /\ ~SessionDue /\ ~SessionDue' /\ ClearingDue
         /\ Head(jobs) = "clear_expired_api_keys" /\ ClearingDue'
      \/ /\ ~SessionDue /\ ~SessionDue' /\ ClearingDue
         /\ Head(jobs) = "clear_redis_cache" /\ NothingDue'
  <2>1. jobs # <<>> /\ jobs' = Tail(jobs) /\ toSend' = toSend
    BY DEF TakeJob
  <2>2. SessionDue => Head(jobs) = "get_session" /\ ~SessionDue' /\ ClearingDue'
    BY <2>1, Heads, Tails, Lengths DEF SessionDue, ClearingDue
  <2>3. ClearingDue =>
           /\ ~SessionDue /\ ~SessionDue'
           /\ \/ Head(jobs) = "clear_expired_api_keys" /\ ClearingDue'
              \/ Head(jobs) = "clear_redis_cache" /\ NothingDue'
    BY <2>1, Heads, Tails, Lengths DEF SessionDue, ClearingDue, NothingDue
  <2> QED
    BY <2>1, <2>2, <2>3 DEF IInv, OneSessionJob, NothingDue
<1>3. getCurrentSession' = getCurrentSession
  BY DEF TakeJob, getCurrentSession, Within
<1>4. OneSessionJob'
  BY <1>1, <1>2 DEF IInv, OneSessionJob
<1>5. StatusFollows'
  <2>1. \A v \in Workers : v # w => pc'[v] = pc[v]
    BY <1>1
  <2>2. StatusDone' => StatusDone
    BY <1>1, <1>2 DEF StatusDone
  <2>3. pc'[w] \notin Compares \cup WillAnnounce \cup {"schedule"}
    BY <1>1, <1>2 DEF Compares, WillAnnounce
  <2> QED
    BY <1>1, <1>3, <2>1, <2>2, <2>3 DEF IInv, StatusFollows, TakeJob, WillAnnounce, Compares
<1>6. ClearedBefore'
  BY <1>1, <1>2 DEF IInv, ClearedBefore, TakeJob, Opening, Clearing
<1>7. EndsBetween'
  BY <1>1, <1>2 DEF IInv, EndsBetween, TakeJob, Opening, Closing, Compares
<1> QED
  BY <1>4, <1>5, <1>6, <1>7 DEF IInv

-----------------------------------------------------------------------------
(* The session job.  Its worker w is the only one in it, and goes on. *)
LEMMA Alone ==
    ASSUME IInv, NEW w \in Workers, NEW from, NEW to,
           from \in InGetSession, to \in InGetSession \cup {"idle"}, Moves(w, from, to),
           UNCHANGED <<jobs, toSend>>
    PROVE  /\ ~SessionDue /\ ~SessionDue'
           /\ ClearingDue' = ClearingDue
           /\ OneSessionJob'
           /\ pc'[w] = to /\ pc[w] = from
           /\ \A v \in Workers : v # w => pc'[v] = pc[v] /\ pc[v] \notin InGetSession
           /\ \A v \in Workers : pc'[v] = "clear_redis_cache" <=> pc[v] = "clear_redis_cache"
<1>1. pc'[w] = to /\ pc[w] = from /\ \A v \in Workers : v # w => pc'[v] = pc[v]
  BY DEF IInv, TypeOK, Moves
<1>2. /\ ~SessionDue /\ (SessionDue' <=> SessionDue) /\ ClearingDue' = ClearingDue
      /\ NothingDue' = NothingDue
  BY <1>1 DEF IInv, OneSessionJob, SessionDue, ClearingDue, NothingDue
<1>3. \A v \in Workers : v # w => pc[v] \notin InGetSession
  BY <1>1 DEF IInv, OneSessionJob
<1>4. OneSessionJob'
  BY <1>1, <1>2, <1>3 DEF IInv, OneSessionJob
<1> QED
  BY <1>1, <1>2, <1>3, <1>4

LEMMA ReadKeeps ==
    ASSUME IInv, TypeOK', NEW w \in Workers, ReadPreviousStatus(w)
    PROVE  IInv'
<1> USE DEF clockVars, toldVars
<1>1. /\ ~SessionDue /\ ~SessionDue' /\ ClearingDue' = ClearingDue
      /\ OneSessionJob'
      /\ pc'[w] = "update" /\ pc[w] = "get_session"
      /\ \A v \in Workers : v # w => pc'[v] = pc[v] /\ pc[v] \notin InGetSession
      /\ \A v \in Workers : pc'[v] = "clear_redis_cache" <=> pc[v] = "clear_redis_cache"
  BY Alone DEF ReadPreviousStatus
<1>2. \A v \in Workers : previous'[v] = IF v = w THEN MarketStatus ELSE previous[v]
  BY DEF IInv, TypeOK, ReadPreviousStatus
<1>3. getCurrentSession' = getCurrentSession
  BY DEF ReadPreviousStatus, getCurrentSession, Within
<1>4. StatusFollows'
  <2>1. ~StatusDone'
    BY <1>1 DEF StatusDone
  <2> QED
    BY <1>1, <1>2, <1>3, <2>1 DEF IInv, StatusFollows, ReadPreviousStatus, Compares, WillAnnounce
<1>5. ClearedBefore'
  BY <1>1 DEF IInv, ClearedBefore, ReadPreviousStatus, Opening, Clearing
<1>6. EndsBetween'
  BY <1>1, <1>2 DEF IInv, EndsBetween, ReadPreviousStatus, Compares, Opening, Closing
<1> QED
  BY <1>1, <1>4, <1>5, <1>6 DEF IInv

LEMMA UpdateKeeps ==
    ASSUME OrdinaryDay, IInv, TypeOK', NEW w \in Workers, UpdateMarketStatus(w)
    PROVE  IInv'
<1> USE DEF clockVars, toldVars
<1>0. PICK loaded \in Load :
         /\ Moves(w, "update", IF loaded THEN "remind" ELSE "idle")
         /\ MarketStatus' = IF loaded THEN getCurrentSession ELSE MarketStatus
  BY DEF UpdateMarketStatus
<1>1. /\ ~SessionDue /\ ~SessionDue' /\ ClearingDue' = ClearingDue
      /\ OneSessionJob'
      /\ pc'[w] = IF loaded THEN "remind" ELSE "idle"
      /\ pc[w] = "update"
      /\ \A v \in Workers : v # w => pc'[v] = pc[v] /\ pc[v] \notin InGetSession
      /\ \A v \in Workers : pc'[v] = "clear_redis_cache" <=> pc[v] = "clear_redis_cache"
  BY <1>0, Alone DEF UpdateMarketStatus
<1>2. getCurrentSession' = getCurrentSession
  BY DEF UpdateMarketStatus, getCurrentSession, Within
<1>3. /\ loaded => MarketStatus' = getCurrentSession
      /\ ~loaded => MarketStatus' = MarketStatus /\ edited
  BY <1>0 DEF Load
<1>4. UNCHANGED <<minute, holiday, edited, missed, disconnectAt, announced, book>>
  BY DEF UpdateMarketStatus
<1>5. minute \in Minutes /\ holiday \in BOOLEAN /\ minute \in Int /\ Opening \in Int
  BY SessionAssumption DEF IInv, TypeOK, Opening
<1>6. /\ \A v \in Workers : v # w => previous'[v] = previous[v]
      /\ loaded => previous'[w] = previous[w]
  BY <1>1 DEF UpdateMarketStatus, ForgetAtEnd, IInv, TypeOK
<1>7. StatusFollows'
  <2>1. previous[w] = MarketStatus
    BY <1>1 DEF IInv, StatusFollows
  <2>2. holiday => getCurrentSession = "closed" /\ MarketStatus = "closed"
    BY DEF getCurrentSession, Within, IInv, StatusFollows
  <2>3. pending # "due"
    BY <1>1 DEF IInv, StatusFollows, WillAnnounce
  <2>4. pending' = PendingIf(MarketStatus' # MarketStatus)
    BY DEF UpdateMarketStatus
  <2>5. CASE MarketStatus' # MarketStatus
    <3>1. loaded /\ MarketStatus' = getCurrentSession /\ ~holiday
      BY <1>3, <2>2, <2>5
    <3>2. pending' = IF edited THEN "edited" ELSE "due"
      BY <2>4, <2>5 DEF PendingIf
    <3>3. pc'[w] = "remind" /\ previous'[w] # MarketStatus'
      BY <1>1, <1>6, <2>1, <2>5, <3>1
    <3> QED
      BY <1>1, <1>2, <1>4, <3>1, <3>2, <3>3 DEF IInv, StatusFollows, WillAnnounce
  <2>6. CASE MarketStatus' = MarketStatus
    <3>1. pending' = pending
      BY <2>4, <2>6 DEF PendingIf
    <3>2. StatusDone' /\ ~edited' => MarketStatus' = getCurrentSession'
      BY <1>2, <1>3, <1>4
    <3>3. \A v \in Workers : pc'[v] \in WillAnnounce => v = w /\ loaded
      BY <1>1 DEF WillAnnounce
    <3>4. loaded => previous'[w] = MarketStatus'
      BY <1>6, <2>1, <2>6
    <3>5. \A v \in Workers : pc'[v] \notin {"update", "announce", "schedule"}
      BY <1>1
    <3> QED
      BY <1>2, <1>3, <1>4, <2>3, <2>6, <3>1, <3>2, <3>3, <3>4, <3>5 DEF IInv, StatusFollows
  <2> QED
    BY <2>5, <2>6
<1>8. ClearedBefore'
  <2>1. getCurrentSession # "closed" => Opening <= minute
    BY <1>5, SessionTypes, Timetables
  <2>2. ~missed /\ minute < Opening => MarketStatus' = "closed"
    BY <1>3, <1>5, <2>1 DEF IInv, ClearedBefore
  <2> QED
    BY <1>1, <1>4, <2>2 DEF IInv, ClearedBefore, Opening, Clearing
<1>9. EndsBetween'
  <2>1. MarketStatus' = "post" => minute >= Timetable["post"][1]
    BY <1>3, <1>5, Timetables DEF IInv, EndsBetween
  <2> QED
    BY <1>1, <1>4, <1>6, <2>1 DEF IInv, EndsBetween, Compares, Opening, Closing
<1> QED
  BY <1>1, <1>7, <1>8, <1>9 DEF IInv

LEMMA RemindKeeps ==
    ASSUME IInv, TypeOK', NEW w \in Workers, Remind(w)
    PROVE  IInv'
<1> USE DEF clockVars, toldVars
<1>0. PICK loaded \in Load :
         Moves(w, "remind", IF NoSessionTime(loaded) THEN "idle" ELSE "compare")
  BY DEF Remind
<1>1. /\ ~SessionDue /\ ~SessionDue' /\ ClearingDue' = ClearingDue
      /\ OneSessionJob'
      /\ pc'[w] = IF NoSessionTime(loaded) THEN "idle" ELSE "compare"
      /\ pc[w] = "remind"
      /\ \A v \in Workers : v # w => pc'[v] = pc[v] /\ pc[v] \notin InGetSession
      /\ \A v \in Workers : pc'[v] = "clear_redis_cache" <=> pc[v] = "clear_redis_cache"
  BY <1>0, Alone DEF Remind
<1>2. getCurrentSession' = getCurrentSession
  BY DEF Remind, getCurrentSession, Within
<1>3. NoSessionTime(loaded) => holiday \/ edited
  BY DEF Load, NoSessionTime
<1>4. /\ \A v \in Workers : v # w => previous'[v] = previous[v]
      /\ ~NoSessionTime(loaded) => previous'[w] = previous[w]
  BY <1>1 DEF Remind, ForgetAtEnd, IInv, TypeOK
<1>5. StatusFollows'
  <2>1. StatusDone
    BY <1>1 DEF StatusDone
  <2>2. UNCHANGED <<minute, holiday, edited, MarketStatus, announced, pending>>
    BY DEF Remind
  <2>3. pending = "due" =>
           /\ ~NoSessionTime(loaded)
           /\ pc'[w] \in WillAnnounce /\ previous'[w] # MarketStatus
    BY <1>1, <1>3, <1>4 DEF IInv, StatusFollows, WillAnnounce
  <2>4. \A v \in Workers :
           /\ pc'[v] \notin {"update", "announce", "schedule"}
           /\ pc'[v] \in WillAnnounce => /\ v = w /\ previous'[v] = previous[v]
                                        /\ pc[v] \in WillAnnounce
    BY <1>1, <1>4 DEF WillAnnounce
  <2> QED
    BY <1>2, <2>1, <2>2, <2>3, <2>4 DEF IInv, StatusFollows
<1>6. ClearedBefore'
  BY <1>1 DEF IInv, ClearedBefore, Remind, Opening, Clearing
<1>7. EndsBetween'
  BY <1>1, <1>4 DEF IInv, EndsBetween, Remind, NoSessionTime, Compares, Opening, Closing
<1> QED
  BY <1>1, <1>5, <1>6, <1>7 DEF IInv

LEMMA CompareKeeps ==
    ASSUME IInv, TypeOK', NEW w \in Workers, Compare(w)
    PROVE  IInv'
<1> USE DEF clockVars, toldVars
<1>1. /\ ~SessionDue /\ ~SessionDue' /\ ClearingDue' = ClearingDue
      /\ OneSessionJob'
      /\ pc'[w] = IF previous[w] # MarketStatus THEN "announce" ELSE "schedule"
      /\ pc[w] = "compare"
      /\ \A v \in Workers : v # w => pc'[v] = pc[v] /\ pc[v] \notin InGetSession
      /\ \A v \in Workers : pc'[v] = "clear_redis_cache" <=> pc[v] = "clear_redis_cache"
  BY Alone DEF Compare
<1>2. getCurrentSession' = getCurrentSession
  BY DEF Compare, getCurrentSession, Within
<1>3. StatusDone /\ MarketStatus = getCurrentSession
  BY <1>1 DEF IInv, StatusFollows, WillAnnounce, StatusDone
<1>4. StatusFollows'
  BY <1>1, <1>2, <1>3 DEF IInv, StatusFollows, Compare, WillAnnounce
<1>5. ClearedBefore'
  BY <1>1 DEF IInv, ClearedBefore, Compare, Opening, Clearing
<1>6. EndsBetween'
  BY <1>1 DEF IInv, EndsBetween, Compare, Compares, Opening, Closing
<1> QED
  BY <1>1, <1>4, <1>5, <1>6 DEF IInv

LEMMA AnnounceKeeps ==
    ASSUME IInv, TypeOK', NEW w \in Workers, Announce(w)
    PROVE  IInv' /\ pending # "none"
<1> USE DEF clockVars, toldVars
<1>1. /\ ~SessionDue /\ ~SessionDue' /\ ClearingDue' = ClearingDue
      /\ OneSessionJob'
      /\ pc'[w] = "schedule"
      /\ pc[w] = "announce"
      /\ \A v \in Workers : v # w => pc'[v] = pc[v] /\ pc[v] \notin InGetSession
      /\ \A v \in Workers : pc'[v] = "clear_redis_cache" <=> pc[v] = "clear_redis_cache"
  BY Alone DEF Announce
<1>2. getCurrentSession' = getCurrentSession
  BY DEF Announce, getCurrentSession, Within
<1>3. /\ pending # "none" /\ StatusDone /\ MarketStatus = getCurrentSession
  BY <1>1 DEF IInv, StatusFollows, WillAnnounce, StatusDone
<1>4. StatusFollows'
  BY <1>1, <1>2, <1>3 DEF IInv, StatusFollows, Announce, WillAnnounce
<1>5. ClearedBefore'
  BY <1>1 DEF IInv, ClearedBefore, Announce, Opening, Clearing
<1>6. EndsBetween'
  BY <1>1 DEF IInv, EndsBetween, Announce, Compares, Opening, Closing
<1> QED
  BY <1>1, <1>3, <1>4, <1>5, <1>6 DEF IInv

LEMMA ScheduleKeeps ==
    ASSUME OrdinaryDay, IInv, TypeOK', NEW w \in Workers, ScheduleDisconnect(w)
    PROVE  IInv'
<1> USE DEF clockVars, toldVars
<1>1. /\ ~SessionDue /\ ~SessionDue' /\ ClearingDue' = ClearingDue
      /\ OneSessionJob'
      /\ pc'[w] = "idle"
      /\ pc[w] = "schedule"
      /\ \A v \in Workers : v # w => pc'[v] = pc[v] /\ pc[v] \notin InGetSession
      /\ \A v \in Workers : pc'[v] = "clear_redis_cache" <=> pc[v] = "clear_redis_cache"
  BY Alone DEF ScheduleDisconnect
<1>2. getCurrentSession' = getCurrentSession
  BY DEF ScheduleDisconnect, getCurrentSession, Within
<1>3. StatusDone /\ MarketStatus = getCurrentSession /\ ~holiday
  BY <1>1 DEF IInv, StatusDone, StatusFollows, EndsBetween
<1>7. \A v \in Workers : v # w => previous'[v] = previous[v]
  BY DEF ScheduleDisconnect, ForgetAtEnd, IInv, TypeOK
<1>4. StatusFollows'
  BY <1>1, <1>2, <1>3, <1>7 DEF IInv, StatusFollows, ScheduleDisconnect, WillAnnounce
<1>5. ClearedBefore'
  BY <1>1 DEF IInv, ClearedBefore, ScheduleDisconnect, Opening, Clearing
<1>6. EndsBetween'
  <2>1. /\ minute \in Minutes /\ holiday \in BOOLEAN
        /\ minute \in Int /\ Opening \in Nat /\ Closing \in Nat /\ Timetable["post"][1] \in Nat
        /\ DayLength \in Nat \ {0} /\ Grace \in Nat
    BY SessionAssumption DEF IInv, TypeOK, Opening, Closing
  <2>2. previous[w] = "post" /\ MarketStatus = "closed" => minute >= Closing
    <3>1. previous[w] = "post" => minute >= Timetable["post"][1]
      BY <1>1 DEF IInv, EndsBetween
    <3> QED
      BY <1>3, <2>1, <3>1, Timetables
  <2>3. Opening <= Closing /\ Closing < DayLength /\ Grace <= Opening
    BY <2>1, SessionAssumption DEF OrdinaryDay, Opening, Closing
  <2> DEFINE d == (minute + Grace) % DayLength
  <2>4. minute >= Closing => d < Opening \/ d >= Closing
    <3> SUFFICES ASSUME minute >= Closing
                 PROVE  d < Opening \/ d >= Closing
      OBVIOUS
    <3>1. CASE minute + Grace < DayLength
      <4>1. d = minute + Grace
        BY <2>1, <3>1
      <4> QED
        BY <2>1, <4>1
    <3>2. CASE minute + Grace >= DayLength
      <4>1. d = minute + Grace - DayLength
        BY <2>1, <2>3, <3>2
      <4> QED
        BY <2>1, <2>3, <4>1
    <3> QED
      BY <2>1, <3>1, <3>2
  <2>5. \A e \in disconnectAt' : e < Opening \/ e >= Closing
    BY <2>2, <2>4 DEF IInv, EndsBetween, ScheduleDisconnect
  <2> QED
    BY <1>1, <1>7, <2>5 DEF IInv, EndsBetween, ScheduleDisconnect, Compares, Opening, Closing
<1> QED
  BY <1>1, <1>4, <1>5, <1>6 DEF IInv

-----------------------------------------------------------------------------
(* The clearing job. *)
LEMMA ClearKeeps ==
    ASSUME OrdinaryDay, IInv, TypeOK', NEW w \in Workers, ProcessClearRedisCache(w)
    PROVE  IInv'
<1> USE DEF clockVars, toldVars
<1>1. /\ pc[w] = "clear_redis_cache" /\ pc'[w] = "idle"
      /\ \A v \in Workers : v # w => pc'[v] = pc[v]
  BY DEF IInv, TypeOK, ProcessClearRedisCache, Moves
<1>2. getCurrentSession' = getCurrentSession
  BY DEF ProcessClearRedisCache, getCurrentSession, Within
<1>3. SessionDue' = SessionDue /\ ClearingDue' = ClearingDue /\ NothingDue' = NothingDue
  BY DEF ProcessClearRedisCache, SessionDue, ClearingDue, NothingDue
<1>4. OneSessionJob'
  BY <1>1, <1>3 DEF IInv, OneSessionJob
<1>5. StatusFollows'
  <2>1. StatusDone' => StatusDone
    BY <1>1, <1>3 DEF StatusDone
  <2> QED
    BY <1>1, <1>2, <2>1 DEF IInv, StatusFollows, ProcessClearRedisCache, Compares, WillAnnounce
<1>6. ClearedBefore'
  <2>1. ~missed => Load = {TRUE}
    BY DEF IInv, ClearedBefore, Load
  <2>2. minute = Clearing => minute < Opening
    <3>1. Opening \in Nat /\ Lead["pre-30m"] \in 1 .. Opening
      BY SessionAssumption DEF OrdinaryDay, Opening
    <3> QED
      BY <3>1 DEF Clearing
  <2>3. ASSUME book' = "earlier", ~missed, ~holiday
        PROVE  minute < Clearing
    <3>1. book = "earlier"
      BY <2>3 DEF ProcessClearRedisCache
    <3>2. minute # Clearing
      <4> SUFFICES ASSUME minute = Clearing
                   PROVE  FALSE
        OBVIOUS
      <4>1. MarketStatus = "closed"
        BY <2>2, <2>3 DEF IInv, ClearedBefore
      <4>2. IsTimeOf("pre-30m")
        BY DEF IsTimeOf, Clearing, Opening
      <4>3. book' = "empty"
        <5>1. PICK loaded \in Load :
                 book' = IF /\ ~NoSessionTime(loaded)
                            /\ MarketStatus = "closed"
                            /\ IsTimeOf("pre-30m")
                           THEN "empty" ELSE book
          BY DEF ProcessClearRedisCache
        <5>2. ~NoSessionTime(loaded)
          <6>1. loaded = TRUE
            BY <2>1, <2>3
          <6>2. ~holiday
            BY <2>3
          <6> QED
            BY <6>1, <6>2, Zenon DEF NoSessionTime
        <5> QED
          BY <4>1, <4>2, <5>1, <5>2
      <4> QED
        BY <2>3, <4>3
    <3> QED
      BY <2>3, <3>1, <3>2 DEF IInv, ClearedBefore
  <2> QED
    BY <2>3 DEF IInv, ClearedBefore, ProcessClearRedisCache, Opening, Clearing
<1>7. EndsBetween'
  BY <1>1 DEF IInv, EndsBetween, ProcessClearRedisCache, Compares, Opening, Closing
<1> QED
  BY <1>4, <1>5, <1>6, <1>7 DEF IInv

-----------------------------------------------------------------------------
LEMMA StepKeeps ==
    ASSUME EnoughWorkers, OrdinaryDay, IInv, [Next]_vars
    PROVE  IInv'
<1>0. TypeOK'
  BY TypesKept DEF IInv
<1> USE <1>0
<1>1. CASE Tick
  BY <1>1, TickKeeps
<1>2. CASE CreateAndSendJob
  BY <1>2, SendKeeps
<1>3. ASSUME NEW w \in Workers, Worker(w)
      PROVE  IInv'
  <2>1. CASE ProcessClearExpiredAPIKeys(w)
    <3>1. Quiet
      BY <2>1 DEF Quiet, ProcessClearExpiredAPIKeys, Moves, clockVars, toldVars, IInv, TypeOK
    <3> QED
      BY <3>1, QuietSteps
  <2> QED
    BY <1>3, <2>1, TakeKeeps, ReadKeeps, UpdateKeeps, RemindKeeps, CompareKeeps, AnnounceKeeps,
       ScheduleKeeps, ClearKeeps DEF Worker, ProcessGetSession
<1>4. CASE \/ DisconnectAll \/ PlaceOrder \/ UNCHANGED vars
           \/ \E s \in Subscribers : Greet(s) \/ RegisterClient(s) \/ Leave(s)
  <2>1. Quiet
    BY <1>4 DEF Quiet, DisconnectAll, PlaceOrder, Greet, RegisterClient, Leave,
                vars, clockVars, poolVars, subscriberVars, toldVars
  <2> QED
    BY <2>1, QuietSteps
<1> QED
  BY <1>1, <1>2, <1>3, <1>4 DEF Next

THEOREM InvariantHolds ==
    ASSUME EnoughWorkers, OrdinaryDay
    PROVE  Spec => []IInv
<1>1. Init => IInv
  BY Initially
<1>2. IInv /\ [Next]_vars => IInv'
  BY StepKeeps
<1> QED
  BY <1>1, <1>2, PTL DEF Spec

(* As long as the database leaves one worker, the status is the            *)
(* timetable's when a minute ends in which every Load succeeded, and what  *)
(* was last announced is the status unless it last changed in a minute in  *)
(* which PJSe.json was edited (processGetSession, workerPool.go:39).       *)
THEOREM StatusAlwaysCurrent ==
    ASSUME EnoughWorkers, OrdinaryDay
    PROVE  Spec => []StatusIsCurrent
<1>1. ASSUME IInv
      PROVE  StatusIsCurrent
  <2> SUFFICES ASSUME MinuteOver
               PROVE  /\ pending # "edited" => announced = MarketStatus
                      /\ ~edited => MarketStatus = getCurrentSession
    BY <1>1, SessionTypes, Timetables DEF StatusIsCurrent, IInv, TypeOK
  <2>1. NothingDue /\ \A w \in Workers : pc[w] \in {"idle", "clear_expired_api_keys"}
    BY <1>1, AtTheEnd DEF IInv
  <2>2. ~SessionDue
    BY <2>1 DEF NothingDue, SessionDue, All
  <2>3. StatusDone
    BY <2>1, <2>2 DEF StatusDone
  <2>4. pending \in Changes /\ pending # "due"
    BY <1>1, <2>1 DEF IInv, TypeOK, StatusFollows, WillAnnounce
  <2> QED
    BY <1>1, <2>3, <2>4 DEF IInv, StatusFollows, Changes
<1> QED
  BY <1>1, InvariantHolds, PTL

(* Under the same conditions a broadcast of the status always follows a    *)
(* change that was not broadcast yet, whatever changes were left           *)
(* unannounced before it (workerPool.go:84).                               *)
THEOREM AlwaysAnnouncedOnce ==
    ASSUME EnoughWorkers, OrdinaryDay
    PROVE  Spec => AnnouncedOnce
<1>1. ASSUME IInv, [Next]_vars
      PROVE  [\A w \in Workers : Announce(w) => pending # "none"]_vars
  BY <1>1, TypesKept, AnnounceKeeps DEF IInv
<1> QED
  BY <1>1, InvariantHolds, PTL DEF Spec, AnnouncedOnce

(* The market never opens on orders of an earlier day                      *)
(* (processClearRedisCache, workerPool.go:114).                            *)
THEOREM BooksAlwaysOfToday ==
    ASSUME EnoughWorkers, OrdinaryDay
    PROVE  Spec => []BooksAreOfToday
<1>1. ASSUME IInv
      PROVE  BooksAreOfToday
  <2> SUFFICES ASSUME MinuteOver, ~missed, MarketStatus # "closed", book = "earlier"
               PROVE  FALSE
    BY DEF BooksAreOfToday
  <2>1. NothingDue /\ \A w \in Workers : pc[w] \in {"idle", "clear_expired_api_keys"}
    BY <1>1, AtTheEnd DEF IInv
  <2>2. ~SessionDue /\ ~ClearingDue
    BY <2>1 DEF NothingDue, SessionDue, ClearingDue, All, LastTwo, LastOne
  <2>3. ~holiday
    BY <1>1 DEF IInv, StatusFollows
  <2>4. minute < Clearing
    BY <1>1, <2>1, <2>2, <2>3 DEF IInv, ClearedBefore
  <2>5. ~(minute < Opening)
    BY <1>1 DEF IInv, ClearedBefore
  <2>6. /\ minute \in Int /\ Opening \in Nat
        /\ Lead["pre-30m"] \in 1 .. Opening
    BY <1>1, SessionAssumption DEF IInv, TypeOK, OrdinaryDay, Opening
  <2> QED
    BY <2>4, <2>5, <2>6 DEF Clearing
<1> QED
  BY <1>1, InvariantHolds, PTL

(* DisconnectAll ends no connection of a running session                   *)
(* (workerPool.go:98).                                                     *)
THEOREM AlwaysDisconnectedWhileClosed ==
    ASSUME EnoughWorkers, OrdinaryDay
    PROVE  Spec => []DisconnectedWhileClosed
<1>1. ASSUME IInv
      PROVE  DisconnectedWhileClosed
  <2>1. minute \in Int /\ Opening \in Int /\ Closing \in Int
    BY <1>1, SessionAssumption DEF IInv, TypeOK, Opening, Closing
  <2>2. minute \in disconnectAt => ~(Opening <= minute /\ minute < Closing)
    BY <1>1, <2>1 DEF IInv, EndsBetween
  <2> QED
    BY <1>1, <2>2, Timetables DEF IInv, TypeOK, DisconnectedWhileClosed
<1> QED
  BY <1>1, InvariantHolds, PTL

===============================================================================
