------------------------------ MODULE Analytics ------------------------------
(***************************************************************************)
(* PortfolioAnalyticsService.analyze asks for the prices of all symbols at *)
(* once, and each attempt of the yfinance adapter runs on a thread of the  *)
(* pool that also hashes and verifies passwords. A thread cannot be        *)
(* cancelled: a download whose request has given up holds it to its end.   *)
(* What the cache does for one symbol is MarketDataCache's subject; here   *)
(* it is how its get_price_bars ends.                                      *)
(***************************************************************************)
EXTENDS Integers, Sequences, FiniteSets, SequencesExt

CONSTANTS
  Requests,    \* analyses that may be in progress at once
  Logins,      \* logins and registrations that may be in progress at once
  Symbols,
  Threads,     \* of the event loop's default executor
  MaxAttempts, \* of RetryingMarketDataProvider
  NoJob, Password

ASSUME PoolAssumption ==
  /\ Threads # {} /\ MaxAttempts \in Nat \ {0} /\ Password \notin Symbols
  /\ NoJob \notin [who : Requests \cup Logins, what : Symbols \cup {Password},
                   awaited : BOOLEAN]

VARIABLES
  req,      \* the analysis each request is at
  task,     \* [Requests -> [Symbols -> the get_price_bars of the fan-out]]
  login,    \* whether each login waits for its password
  queue,    \* jobs no thread has taken
  thread    \* [Threads -> the job it runs]

vars == <<req, task, login, queue, thread>>

Idle == [at |-> "idle", answer |-> "none", stale |-> FALSE]
NoTask == [at |-> "none", attempt |-> 0]

(* awaited: whether anybody still waits for the job's result.              *)
Job(who, what) == [who |-> who, what |-> what, awaited |-> TRUE]

Pending == {"cache", "thread", "backoff"}
Ended == {"fresh", "stale", "failed"}
Asked(r) == {s \in Symbols : task[r][s].at # "none"}

Init ==
  /\ req = [r \in Requests |-> Idle]
  /\ task = [r \in Requests |-> [s \in Symbols |-> NoTask]]
  /\ login = [l \in Logins |-> "idle"]
  /\ queue = <<>>
  /\ thread = [t \in Threads |-> NoJob]

(* A task that has ended counts no attempts.                               *)
Move(r, s, step) ==
  task' = [task EXCEPT ![r][s] =
             [at |-> step, attempt |-> IF step \in Ended THEN 0 ELSE @.attempt]]

(* The ledger is read in a unit of work that is over when prices are asked *)
(* for; gather starts one task a symbol.                                   *)
Analyze(r, symbols) ==
  /\ req[r].at = "idle"
  /\ symbols # {}
  /\ req' = [req EXCEPT ![r].at = "gather"]
  /\ task' = [task EXCEPT ![r] =
       [s \in Symbols |-> IF s \in symbols THEN [NoTask EXCEPT !.at = "cache"] ELSE NoTask]]
  /\ UNCHANGED <<login, queue, thread>>

(* A portfolio that is not found, a range without holdings.                *)
Unavailable(r) ==
  /\ req[r].at = "idle"
  /\ req' = [req EXCEPT ![r].at = "done", ![r].answer = "unavailable"]
  /\ UNCHANGED <<task, login, queue, thread>>

CacheHit(r, s) ==
  /\ task[r][s].at = "cache"
  /\ Move(r, s, "fresh")
  /\ UNCHANGED <<req, login, queue, thread>>

(* Attempt 1 after a miss, or another one after a backoff: to_thread.      *)
Download(r, s) ==
  /\ task[r][s].at \in {"cache", "backoff"}
  /\ task' = [task EXCEPT ![r][s] = [at |-> "thread", attempt |-> @.attempt + 1]]
  /\ queue' = Append(queue, Job(r, s))
  /\ UNCHANGED <<req, login, thread>>

(* hash or verify of AuthenticationService, to_thread as well.             *)
Submit(l) ==
  /\ login[l] = "idle"
  /\ login' = [login EXCEPT ![l] = "thread"]
  /\ queue' = Append(queue, Job(l, Password))
  /\ UNCHANGED <<req, task, thread>>

(* Mutant: the newest job first.                                           *)
TakeLast(t) ==
  /\ thread[t] = NoJob /\ queue # <<>>
  /\ thread' = [thread EXCEPT ![t] = Last(queue)]
  /\ queue' = Front(queue)
  /\ UNCHANGED <<req, task, login>>

(* A free thread takes the oldest job.                                     *)
Take(t) ==
  /\ thread[t] = NoJob /\ queue # <<>>
  /\ thread' = [thread EXCEPT ![t] = Head(queue)]
  /\ queue' = Tail(queue)
  /\ UNCHANGED <<req, task, login>>

(* How get_price_bars ends when the upstream operation gives up on a       *)
(* retryable error: with the retained copy, or raising.                    *)
GivenUp == {"stale", "failed"}

(* The adapter maps what the download raised: transient errors are retried *)
(* while attempts are left, the others fail the task.                      *)
Outcomes(attempt) ==
  {"fresh", "failed"} \cup (IF attempt < MaxAttempts THEN {"backoff"} ELSE GivenUp)

(* A job ends, a download by its own timeout at the latest; its result is  *)
(* dropped if nobody awaits it.                                            *)
Finish(t) ==
  LET job == thread[t]
  IN /\ job # NoJob
     /\ thread' = [thread EXCEPT ![t] = NoJob]
     /\ CASE ~job.awaited -> UNCHANGED <<task, login>>
          [] job.awaited /\ job.what = Password ->
               login' = [login EXCEPT ![job.who] = "idle"] /\ task' = task
          [] job.awaited /\ job.what # Password ->
               /\ \E outcome \in Outcomes(task[job.who][job.what].attempt) :
                    Move(job.who, job.what, outcome)
               /\ login' = login
     /\ UNCHANGED <<req, queue>>

(* A job that no thread has taken yet is not run at all.                   *)
Cancel(job) ==
  \/ \E i \in DOMAIN queue : queue[i] = job /\ queue' = RemoveAt(queue, i)
  \/ (\A i \in DOMAIN queue : queue[i] # job) /\ queue' = queue

(* Mutant: the thread's job still counts as awaited.                       *)
DeadlineUncancelled(r, s) ==
  /\ task[r][s].at \in {"thread", "backoff"}
  /\ \E outcome \in GivenUp : Move(r, s, outcome)
  /\ Cancel(Job(r, s))
  /\ UNCHANGED <<req, login, thread>>

(* Mutant: the deadline is only looked at between attempts.                *)
DeadlineOfSleep(r, s) ==
  /\ task[r][s].at = "backoff"
  /\ \E outcome \in GivenUp : Move(r, s, outcome)
  /\ UNCHANGED <<req, login, queue, thread>>

(* asyncio.timeout: a job that is still queued is cancelled with its task, *)
(* one that runs is only abandoned.                                        *)
Deadline(r, s) ==
  /\ task[r][s].at \in {"thread", "backoff"}
  /\ \E outcome \in GivenUp : Move(r, s, outcome)
  /\ Cancel(Job(r, s))
  /\ thread' = [t \in Threads |-> IF thread[t] = Job(r, s)
                                  THEN [thread[t] EXCEPT !.awaited = FALSE] ELSE thread[t]]
  /\ UNCHANGED <<req, login>>

(* All results are there; the valuation may still refuse them.             *)
Answer(r) ==
  /\ req[r].at = "gather"
  /\ \A s \in Asked(r) : task[r][s].at \in {"fresh", "stale"}
  /\ \E answer \in {"analytics", "unavailable"} :
       req' = [req EXCEPT ![r] = [at |-> "done", answer |-> answer,
                                  stale |-> \E s \in Asked(r) : task[r][s].at = "stale"]]
  /\ UNCHANGED <<task, login, queue, thread>>

(* gather raises the first exception at once; the other tasks run on.      *)
Fail(r) ==
  /\ req[r].at = "gather"
  /\ \E s \in Asked(r) : task[r][s].at = "failed"
  /\ req' = [req EXCEPT ![r].at = "done", ![r].answer = "market_data"]
  /\ UNCHANGED <<task, login, queue, thread>>

(* The response is out and the last task of the request has ended.         *)
Rest(r) ==
  /\ req[r].at = "done"
  /\ \A s \in Asked(r) : task[r][s].at \in Ended
  /\ req' = [req EXCEPT ![r] = Idle]
  /\ task' = [task EXCEPT ![r] = [s \in Symbols |-> NoTask]]
  /\ UNCHANGED <<login, queue, thread>>

Fetch(r, s) == CacheHit(r, s) \/ Download(r, s) \/ Deadline(r, s)
Conclude(r) == Answer(r) \/ Fail(r)
Work(t) == Take(t) \/ Finish(t)

Next ==
  \/ \E r \in Requests :
       \/ (\E symbols \in SUBSET Symbols : Analyze(r, symbols)) \/ Unavailable(r)
       \/ Conclude(r) \/ Rest(r)
       \/ \E s \in Symbols : Fetch(r, s)
  \/ \E l \in Logins : Submit(l)
  \/ \E t \in Threads : Work(t)

Spec == Init /\ [][Next]_vars

(* The event loop runs what is ready; Redis answers or times out, sleeps   *)
(* end and deadlines pass; a free thread takes a job. That a job ends is   *)
(* not the loop's to say: the library may hang.                            *)
Fairness ==
  /\ \A t \in Threads : WF_vars(Take(t))
  /\ \A r \in Requests : WF_vars(Conclude(r)) /\ \A s \in Symbols : WF_vars(Fetch(r, s))

FairSpec == Spec /\ Fairness

-----------------------------------------------------------------------------
(* Whoever waits for a thread has exactly one job, queued or running, and  *)
(* a job that says it is awaited is; a retry never runs beside the attempt *)
(* it repeats, and a late result never reaches another attempt's task.     *)
JobsAccounted ==
  LET Holders(job) == Cardinality({i \in DOMAIN queue : queue[i] = job})
                        + Cardinality({t \in Threads : thread[t] = job})
  IN  /\ \A r \in Requests, s \in Symbols :
           Holders(Job(r, s)) = IF task[r][s].at = "thread" THEN 1 ELSE 0
      /\ \A l \in Logins :
           Holders(Job(l, Password)) = IF login[l] = "thread" THEN 1 ELSE 0

(* Every analysis is answered, even if its downloads never end and hold    *)
(* all threads of the pool.                                                *)
EveryAnalysisAnswered == \A r \in Requests : req[r].at = "gather" ~> req[r].at = "done"

(* Downloads for clients who gave up delay a password check, but not for   *)
(* good: if the timeout each download is given ends it, every login and    *)
(* registration gets its thread.                                           *)
JobsEnd == \A t \in Threads : WF_vars(Finish(t))
EveryPasswordChecked ==
  JobsEnd => \A l \in Logins : login[l] = "thread" ~> login[l] = "idle"
=============================================================================
