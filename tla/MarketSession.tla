--------------------------- MODULE MarketSession ---------------------------
(***************************************************************************)
(* The market's clock: once a minute a scheduler puts three jobs into a    *)
(* channel, three workers carry them out (exchanges/channels/              *)
(* workerPool.go), the status of the market follows the timetable          *)
(* (exchanges/exchanges.go), and the subscribers of the session socket     *)
(* are told of its changes (routes/ws/session.go).                         *)
(*                                                                         *)
(* Time is the minute of the day.  What a worker computes and broadcasts   *)
(* is done within the minute; only the database, asked without a timeout,  *)
(* may hold a worker longer.  Subscribers are assumed to read what they    *)
(* are sent: a broadcast reaches the registered ones in one step, and what *)
(* a peer that does not read does to a broadcaster is WSHub's subject.     *)
(***************************************************************************)
EXTENDS Integers, Sequences, FiniteSets

CONSTANTS
    Workers,      \* RunWorkerPool starts three
    JobCapacity,  \* of the job channel, 5 in the code
    DayLength,    \* minutes of a day
    Timetable,    \* <<open, close>> of "pre", "regular" and "post" (PJSe.json)
    Lead,         \* minutes before the opening at which a reminder is sent
    Grace,        \* minutes from the close to the end of the connections, 10
    Subscribers,  \* connections to the session socket
    MaxStuck      \* bound: workers the database holds at the end of a minute

Sessions == {"pre", "regular", "post"}
Status == Sessions \cup {"closed"}
Reminders == {"pre-30m", "pre-5m", "pre-1m"}
Minutes == 0 .. DayLength - 1

ASSUME SessionAssumption ==
    /\ JobCapacity \in Nat
    /\ DayLength \in Nat \ {0}
    /\ Timetable \in [Sessions -> Nat \X Nat]
    /\ Lead \in [Reminders -> Nat]
    /\ Grace \in Nat
    /\ MaxStuck \in Nat

VARIABLES
    minute,        \* of the day
    holiday,       \* today's sessions are all null: a weekend, say
    edited,        \* PJSe.json is being edited, say: a Load may fail
    missed,        \* history: it was so at some minute of the day
    MarketStatus,  \* exchanges.MarketStatus
    jobs,          \* the job channel
    toSend,        \* jobs the scheduler has still to send in this minute
    pc,            \* where a worker is
    previous,      \* its local previousStatus
    disconnectAt,  \* minutes for which DisconnectAll is scheduled
    announced,     \* history: the status last broadcast, or the first one
    pending,       \* history: the status changed since; how, see Changes
    subscription,  \* of a subscriber: "none", "greeted" or "registered"
    known,         \* the status a subscriber was last told
    book           \* orders in the books: none, of today, of an earlier day

clockVars == <<minute, holiday, edited, missed>>
poolVars == <<jobs, toSend, pc, previous>>
toldVars == <<announced, pending>>
subscriberVars == <<subscription, known>>
vars == <<clockVars, MarketStatus, poolVars, disconnectAt, toldVars,
          subscriberVars, book>>

JobTypes == <<"get_session", "clear_expired_api_keys", "clear_redis_cache">>
JobType == {JobTypes[i] : i \in DOMAIN JobTypes}

\* Positions in processGetSession, and those of the two other jobs.
InGetSession == {"get_session", "update", "remind", "compare", "announce", "schedule"}
Positions == {"idle"} \cup InGetSession \cup JobType

\* No change is pending; one is due; or one was made while the file was edited.
Changes == {"none", "due", "edited"}

-----------------------------------------------------------------------------
\* Each Load of PJSe.json looks at the file anew (os.Stat, and a read when it
\* is newer than the cached one): of two in one job, one may fail alone.
Load == IF edited THEN BOOLEAN ELSE {TRUE}

\* After or equal to the opening, before the closing time.  A closing time of
\* "24:00" does not parse; the zero time it leaves is later than any minute,
\* as DayLength is.
Within(session) ==
    /\ ~holiday
    /\ Timetable[session][1] <= minute
    /\ minute < Timetable[session][2]

getCurrentSession ==
    IF Within("pre") THEN "pre"
    ELSE IF Within("regular") THEN "regular"
    ELSE IF Within("post") THEN "post"
    ELSE "closed"

\* GetChangeSessionTime returns nil without sessions or without the file.
NoSessionTime(loaded) == holiday \/ ~loaded

\* Mutant: the clearing is due at the opening itself.
IsOpening(reminder) == minute = Timetable["pre"][1]

\* The minute itself is compared, so that a time before midnight never comes.
IsTimeOf(reminder) == minute = Timetable["pre"][1] - Lead[reminder]

-----------------------------------------------------------------------------
\* main updates the status before it starts the pool; the books are empty.
Init ==
    /\ minute \in Minutes
    /\ holiday \in BOOLEAN
    /\ edited = FALSE
    /\ missed = FALSE
    /\ MarketStatus = getCurrentSession
    /\ jobs = <<>>
    /\ toSend = <<>>
    /\ pc = [w \in Workers |-> "idle"]
    /\ previous = [w \in Workers |-> "closed"]
    /\ disconnectAt = {}
    /\ announced = MarketStatus
    /\ pending = "none"
    /\ subscription = [s \in Subscribers |-> "none"]
    /\ known = [s \in Subscribers |-> "closed"]
    /\ book = "empty"

Stuck == {w \in Workers : pc[w] = "clear_expired_api_keys"}

\* Nothing is left to do in this minute but to wait for the database.
Settled ==
    /\ toSend = <<>>
    /\ \A w \in Workers : pc[w] = "idle" \/ w \in Stuck
    /\ jobs # <<>> => Stuck = Workers
    /\ minute \notin disconnectAt

\* The next minute: the ticker starts createAndSendJob.  A timetable is not
\* edited from the close until midnight, hours later: it is read in the last
\* minute of the day.
MinuteOver == Settled /\ Cardinality(Stuck) <= MaxStuck

Tick ==
    /\ MinuteOver
    /\ minute' = (minute + 1) % DayLength
    /\ edited' \in BOOLEAN
    /\ minute' = DayLength - 1 => ~edited'
    /\ IF minute' = 0
         THEN /\ holiday' \in BOOLEAN
              /\ missed' = edited'
              /\ book' = IF book = "today" THEN "earlier" ELSE book
         ELSE /\ missed' = (missed \/ edited')
              /\ UNCHANGED <<holiday, book>>
    /\ toSend' = JobTypes
    /\ UNCHANGED <<MarketStatus, jobs, pc, previous, disconnectAt, toldVars,
                   subscriberVars>>

\* A job is skipped when the channel is full.
CreateAndSendJob ==
    /\ toSend # <<>>
    /\ jobs' = IF Len(jobs) < JobCapacity THEN Append(jobs, Head(toSend))
                                          ELSE jobs
    /\ toSend' = Tail(toSend)
    /\ UNCHANGED <<clockVars, MarketStatus, pc, previous, disconnectAt,
                   toldVars, subscriberVars, book>>

(* A worker. *)
Moves(w, from, to) ==
    /\ pc[w] = from
    /\ pc' = [pc EXCEPT ![w] = to]

\* A local variable ends with its job.
ForgetAtEnd(w) ==
    previous' = [previous EXCEPT ![w] = IF pc'[w] = "idle" THEN "closed" ELSE @]

TakeJob(w) ==
    /\ jobs # <<>>
    /\ Moves(w, "idle", Head(jobs))
    /\ jobs' = Tail(jobs)
    /\ UNCHANGED <<clockVars, MarketStatus, toSend, previous, disconnectAt,
                   toldVars, subscriberVars, book>>

ReadPreviousStatus(w) ==
    /\ Moves(w, "get_session", "update")
    /\ previous' = [previous EXCEPT ![w] = MarketStatus]
    /\ UNCHANGED <<clockVars, MarketStatus, jobs, toSend, disconnectAt,
                   toldVars, subscriberVars, book>>

PendingIf(changed) ==
    IF changed THEN IF edited THEN "edited" ELSE "due" ELSE pending

\* Mutant: an unreadable timetable is used.
UpdateUnchecked(w) ==
    /\ Moves(w, "update", "remind")
    /\ \E loaded \in Load :
          MarketStatus' = IF loaded THEN getCurrentSession ELSE "cannot_load"
    /\ pending' = PendingIf(MarketStatus' # MarketStatus)
    /\ UNCHANGED <<clockVars, jobs, toSend, previous, disconnectAt, announced,
                   subscriberVars, book>>

\* A file that cannot be read leaves the status as it is and ends the job.
UpdateMarketStatus(w) ==
    /\ \E loaded \in Load :
          /\ Moves(w, "update", IF loaded THEN "remind" ELSE "idle")
          /\ MarketStatus' = IF loaded THEN getCurrentSession
                                       ELSE MarketStatus
    /\ pending' = PendingIf(MarketStatus' # MarketStatus)
    /\ ForgetAtEnd(w)
    /\ UNCHANGED <<clockVars, jobs, toSend, disconnectAt, announced,
                   subscriberVars, book>>

\* The file is loaded a second time.  The job ends here on a day without
\* sessions, or when this load fails, with the status already changed;
\* otherwise the reminders, which carry no status, are broadcast.
Remind(w) ==
    /\ \E loaded \in Load :
          Moves(w, "remind",
                IF NoSessionTime(loaded) THEN "idle" ELSE "compare")
    /\ ForgetAtEnd(w)
    /\ UNCHANGED <<clockVars, MarketStatus, jobs, toSend, disconnectAt,
                   toldVars, subscriberVars, book>>

Compare(w) ==
    /\ Moves(w, "compare", IF previous[w] # MarketStatus THEN "announce"
                                                         ELSE "schedule")
    /\ UNCHANGED <<clockVars, MarketStatus, jobs, toSend, previous,
                   disconnectAt, toldVars, subscriberVars, book>>

\* Mutant: the status before the change is broadcast.
AnnouncePrevious(w) ==
    /\ Moves(w, "announce", "schedule")
    /\ announced' = previous[w]
    /\ pending' = "none"
    /\ known' = [s \in Subscribers |->
                    IF subscription[s] = "registered" THEN previous[w]
                                                      ELSE known[s]]
    /\ UNCHANGED <<clockVars, MarketStatus, jobs, toSend, previous,
                   disconnectAt, subscription, book>>

Announce(w) ==
    /\ Moves(w, "announce", "schedule")
    /\ announced' = MarketStatus
    /\ pending' = "none"
    /\ known' = [s \in Subscribers |->
                    IF subscription[s] = "registered" THEN MarketStatus
                                                      ELSE known[s]]
    /\ UNCHANGED <<clockVars, MarketStatus, jobs, toSend, previous,
                   disconnectAt, subscription, book>>

\* Mutant: every change of the status ends the connections.
ScheduleAlways(w) ==
    /\ Moves(w, "schedule", "idle")
    /\ disconnectAt' =
          IF previous[w] # MarketStatus
            THEN disconnectAt \cup {(minute + Grace) % DayLength}
            ELSE disconnectAt
    /\ ForgetAtEnd(w)
    /\ UNCHANGED <<clockVars, MarketStatus, jobs, toSend, toldVars,
                   subscriberVars, book>>

ScheduleDisconnect(w) ==
    /\ Moves(w, "schedule", "idle")
    /\ disconnectAt' =
          IF previous[w] = "post" /\ MarketStatus = "closed"
            THEN disconnectAt \cup {(minute + Grace) % DayLength}
            ELSE disconnectAt
    /\ ForgetAtEnd(w)
    /\ UNCHANGED <<clockVars, MarketStatus, jobs, toSend, toldVars,
                   subscriberVars, book>>

ProcessGetSession(w) ==
    \/ ReadPreviousStatus(w) \/ UpdateMarketStatus(w) \/ Remind(w)
    \/ Compare(w) \/ Announce(w) \/ ScheduleDisconnect(w)

\* The database answers, with an error or without one.
ProcessClearExpiredAPIKeys(w) ==
    /\ Moves(w, "clear_expired_api_keys", "idle")
    /\ UNCHANGED <<clockVars, MarketStatus, jobs, toSend, previous,
                   disconnectAt, toldVars, subscriberVars, book>>

\* The books, the ledgers and the hubs' logs are emptied together.
ProcessClearRedisCache(w) ==
    /\ Moves(w, "clear_redis_cache", "idle")
    /\ \E loaded \in Load :
          book' = IF /\ ~NoSessionTime(loaded)
                     /\ MarketStatus = "closed"
                     /\ IsTimeOf("pre-30m")
                    THEN "empty" ELSE book
    /\ UNCHANGED <<clockVars, MarketStatus, jobs, toSend, previous,
                   disconnectAt, toldVars, subscriberVars>>

Worker(w) ==
    \/ TakeJob(w)
    \/ ProcessGetSession(w)
    \/ ProcessClearExpiredAPIKeys(w)
    \/ ProcessClearRedisCache(w)

\* The timer of ScheduleDisconnect: the other three hubs are emptied.
DisconnectAll ==
    /\ minute \in disconnectAt
    /\ disconnectAt' = disconnectAt \ {minute}
    /\ UNCHANGED <<clockVars, MarketStatus, poolVars, toldVars,
                   subscriberVars, book>>

(* A handler of the session socket, and the order routes. *)
Greet(s) ==
    /\ subscription[s] = "none"
    /\ subscription' = [subscription EXCEPT ![s] = "greeted"]
    /\ known' = [known EXCEPT ![s] = MarketStatus]
    /\ UNCHANGED <<clockVars, MarketStatus, poolVars, disconnectAt, toldVars,
                   book>>

RegisterClient(s) ==
    /\ subscription[s] = "greeted"
    /\ subscription' = [subscription EXCEPT ![s] = "registered"]
    /\ UNCHANGED <<clockVars, MarketStatus, poolVars, disconnectAt, toldVars,
                   known, book>>

\* The greeting cannot be written, or the connection ends.
Leave(s) ==
    /\ subscription[s] # "none"
    /\ subscription' = [subscription EXCEPT ![s] = "none"]
    /\ known' = [known EXCEPT ![s] = "closed"]
    /\ UNCHANGED <<clockVars, MarketStatus, poolVars, disconnectAt, toldVars,
                   book>>

PlaceOrder ==
    /\ MarketStatus # "closed"
    /\ book = "empty"
    /\ book' = "today"
    /\ UNCHANGED <<clockVars, MarketStatus, poolVars, disconnectAt, toldVars,
                   subscriberVars>>

Next ==
    \/ Tick \/ CreateAndSendJob
    \/ \E w \in Workers : Worker(w)
    \/ DisconnectAll
    \/ \E s \in Subscribers : Greet(s) \/ RegisterClient(s) \/ Leave(s)
    \/ PlaceOrder

Spec == Init /\ [][Next]_vars

-----------------------------------------------------------------------------
TypeOK ==
    /\ minute \in Minutes
    /\ holiday \in BOOLEAN
    /\ edited \in BOOLEAN
    /\ missed \in BOOLEAN
    /\ MarketStatus \in Status
    /\ jobs \in Seq(JobType)
    /\ Len(jobs) <= JobCapacity
    /\ toSend \in Seq(JobType)
    /\ pc \in [Workers -> Positions]
    /\ previous \in [Workers -> Status]
    /\ disconnectAt \subseteq Minutes
    /\ announced \in Status
    /\ pending \in Changes
    /\ subscription \in [Subscribers -> {"none", "greeted", "registered"}]
    /\ known \in [Subscribers -> Status]
    /\ book \in {"empty", "today", "earlier"}

\* What the timetable says of this minute, read without the code.
OnTimetable(session) ==
    ~holiday /\ minute \in Timetable[session][1] .. (Timetable[session][2] - 1)

(* While one worker is left that the database does not hold, the status is *)
(* the timetable's before the minute is over (UpdateMarketStatus,          *)
(* exchanges.go:224), if every Load of this minute succeeds; and no change *)
(* of it made in such a minute stays unannounced, whatever jobs run beside *)
(* the one that made it (workerPool.go:84).  A change made while the file  *)
(* is edited may stay so: see ChangesAreAnnounced.                         *)
StatusIsCurrent ==
    MinuteOver =>
        /\ pending # "edited" => announced = MarketStatus
        /\ ~edited => IF \E session \in Sessions : OnTimetable(session)
                      THEN MarketStatus \in Sessions /\ OnTimetable(MarketStatus)
                      ELSE MarketStatus = "closed"

(* What a subscriber of "the real-time session status" (session.go:33)     *)
(* expects, and does not get: the status is the one last announced.  When  *)
(* the first Load of a job succeeds and the second fails, the status is    *)
(* changed and the job ends (workerPool.go:42, 48-51); the next minute's   *)
(* job finds nothing changed, and neither the change is announced nor,     *)
(* after the close, the end of the connections scheduled.                  *)
ChangesAreAnnounced == MinuteOver => announced = MarketStatus

(* "Only if the session changed": a status is broadcast only if it changed *)
(* since the last broadcast (the comment at workerPool.go:85), unless jobs *)
(* of several minutes are released together.                               *)
AnnouncedOnce ==
    [][\A w \in Workers : Announce(w) => pending # "none"]_vars

(* The market never opens on orders of an earlier day: the one job that    *)
(* clears them runs at its minute, unless the timetable was edited on that *)
(* day (workerPool.go:114, 122).                                           *)
BooksAreOfToday ==
    MinuteOver /\ ~missed /\ MarketStatus # "closed" => book # "earlier"

(* The connections that are ended after the close are not those of the     *)
(* next session (workerPool.go:98).                                        *)
DisconnectedWhileClosed ==
    minute \in disconnectAt => ~\E session \in Sessions : OnTimetable(session)

(* The same line: whoever is registered knows the status, unless its       *)
(* change was not announced.  Not so: the greeting is written before the   *)
(* client is registered (session.go:59, 71).                               *)
SubscribersKnowStatus ==
    MinuteOver /\ announced = MarketStatus => \A s \in Subscribers :
        subscription[s] = "registered" => known[s] = MarketStatus

=============================================================================
