--------------------------- MODULE AnalyticsProofs ---------------------------
(***************************************************************************)
(* Proof that every job of the thread pool is accounted for, for any       *)
(* number of analyses, logins, symbols, threads and attempts. Jobs that    *)
(* are awaited are in one place each, and they are the jobs of those who   *)
(* wait; a job nobody awaits any more can do no harm where it runs.        *)
(***************************************************************************)
EXTENDS Analytics, SequenceTheorems, FiniteSetTheorems, TLAPS

Analyses == [at : {"idle", "gather", "done"}, stale : BOOLEAN,
             answer : {"none", "analytics", "unavailable", "market_data"}]
Tasks == [at : Pending \cup Ended \cup {"none"}, attempt : Nat]
Downloads == {Job(r, s) : r \in Requests, s \in Symbols}
Checks == {Job(l, Password) : l \in Logins}
Jobs == Downloads \cup Checks
Orphan(job) == [job EXCEPT !.awaited = FALSE]
Orphans == {Orphan(job) : job \in Jobs}
Places == DOMAIN queue

(* The jobs of those who wait for a thread or for what one computes.       *)
Waits(job) ==
  \/ \E r \in Requests, s \in Symbols : job = Job(r, s) /\ task[r][s].at = "thread"
  \/ \E l \in Logins : job = Job(l, Password) /\ login[l] = "thread"

TypeOK ==
  /\ req \in [Requests -> Analyses]
  /\ task \in [Requests -> [Symbols -> Tasks]]
  /\ login \in [Logins -> {"idle", "thread"}]
  /\ queue \in Seq(Jobs)
  /\ thread \in [Threads -> {NoJob} \cup Jobs \cup Orphans]

(* A request asks for nothing before it is made: a fan-out never meets the *)
(* tasks of the one before.                                                *)
QuietInv == \A r \in Requests : req[r].at = "idle" => Asked(r) = {}

(* An awaited job is queued once or run by one thread.                     *)
OnceInv ==
  /\ \A i, k \in Places : queue[i] = queue[k] => i = k
  /\ \A t, u \in Threads : thread[t] = thread[u] /\ thread[t] \in Jobs => t = u
  /\ \A i \in Places, t \in Threads : queue[i] # thread[t]

(* Awaited jobs are those of who waits, and nobody waits in vain.          *)
WaitInv ==
  /\ \A i \in Places : Waits(queue[i])
  /\ \A t \in Threads : thread[t] \in Jobs => Waits(thread[t])
  /\ \A job \in Jobs : Waits(job) =>
       (\E i \in Places : queue[i] = job) \/ (\E t \in Threads : thread[t] = job)

IInv == TypeOK /\ QuietInv /\ OnceInv /\ WaitInv

-----------------------------------------------------------------------------
(* A job is of whom and for what it was made, and is none of the others.   *)
LEMMA JobFacts ==
  /\ \A w, x, v, y : Job(w, x) = Job(v, y) => w = v /\ x = y
  /\ \A w, x : Job(w, x).who = w /\ Job(w, x).what = x
  /\ \A job \in Jobs : job.awaited
  /\ \A job \in Orphans : ~job.awaited
  /\ NoJob \notin Jobs \cup Orphans /\ Jobs \cap Orphans = {}
  /\ Downloads \cap Checks = {}
<1>1. \A w, x, v, y : Job(w, x) = Job(v, y) => w = v /\ x = y
  <2> SUFFICES ASSUME NEW w, NEW x, NEW v, NEW y, Job(w, x) = Job(v, y)
               PROVE  w = v /\ x = y
    OBVIOUS
  <2>1. Job(w, x).who = w /\ Job(w, x).what = x /\ Job(v, y).who = v /\ Job(v, y).what = y
    BY DEF Job
  <2> QED
    BY <2>1
<1>2. \A job \in Jobs : job \in [who : Requests \cup Logins, what : Symbols \cup {Password},
                                 awaited : BOOLEAN] /\ job.awaited
  <2>1. ASSUME NEW w \in Requests \cup Logins, NEW x \in Symbols \cup {Password}
        PROVE  Job(w, x) \in [who : Requests \cup Logins, what : Symbols \cup {Password},
                              awaited : BOOLEAN] /\ Job(w, x).awaited
    BY DEF Job
  <2> QED
    BY <2>1 DEF Jobs, Downloads, Checks
<1>3. \A job \in Orphans : job \in [who : Requests \cup Logins, what : Symbols \cup {Password},
                                    awaited : BOOLEAN] /\ ~job.awaited
  BY <1>2 DEF Orphans, Orphan
<1>4. Downloads \cap Checks = {}
  BY <1>1, PoolAssumption DEF Downloads, Checks
<1>5. \A w, x : Job(w, x).who = w /\ Job(w, x).what = x
  BY DEF Job
<1> QED
  BY <1>1, <1>2, <1>3, <1>4, <1>5, PoolAssumption

(* Whose job it is decides whether somebody waits for it.                  *)
LEMMA WaitFacts ==
  /\ \A r \in Requests, s \in Symbols :
       Job(r, s) \in Jobs /\ (Waits(Job(r, s)) <=> task[r][s].at = "thread")
  /\ \A l \in Logins :
       Job(l, Password) \in Jobs /\ (Waits(Job(l, Password)) <=> login[l] = "thread")
<1>1. ASSUME NEW r \in Requests, NEW s \in Symbols
      PROVE  Job(r, s) \in Jobs /\ (Waits(Job(r, s)) <=> task[r][s].at = "thread")
  BY JobFacts DEF Jobs, Downloads, Checks, Waits
<1>2. ASSUME NEW l \in Logins
      PROVE  Job(l, Password) \in Jobs /\ (Waits(Job(l, Password)) <=> login[l] = "thread")
  BY JobFacts DEF Jobs, Downloads, Checks, Waits
<1> QED
  BY <1>1, <1>2

(* The invariant accounts for all jobs.                                    *)
LEMMA IInvAccounts == IInv => JobsAccounted
<1> SUFFICES ASSUME IInv PROVE JobsAccounted
  OBVIOUS
<1> DEFINE InQueue(job) == {i \in Places : queue[i] = job}
           OnThread(job) == {t \in Threads : thread[t] = job}
           Holders(job) == Cardinality(InQueue(job)) + Cardinality(OnThread(job))
<1>1. ASSUME NEW job \in Jobs
      PROVE  Holders(job) = IF Waits(job) THEN 1 ELSE 0
  <2>1. CASE \E i \in Places : queue[i] = job
    <3>1. PICK i \in Places : queue[i] = job
      BY <2>1
    <3>2. InQueue(job) = {i} /\ OnThread(job) = {}
      BY <3>1 DEF IInv, OnceInv
    <3>3. Cardinality(InQueue(job)) = 1 /\ Cardinality(OnThread(job)) = 0
      BY <3>2, FS_Singleton, FS_EmptySet
    <3>4. Waits(job)
      BY <3>1 DEF IInv, WaitInv
    <3> HIDE DEF InQueue, OnThread
    <3> QED
      BY <3>3, <3>4
  <2>2. CASE \E t \in Threads : thread[t] = job
    <3>1. PICK t \in Threads : thread[t] = job
      BY <2>2
    <3>2. OnThread(job) = {t} /\ InQueue(job) = {}
      BY <3>1 DEF IInv, OnceInv
    <3>3. Cardinality(OnThread(job)) = 1 /\ Cardinality(InQueue(job)) = 0
      BY <3>2, FS_Singleton, FS_EmptySet
    <3>4. Waits(job)
      BY <3>1 DEF IInv, WaitInv
    <3> HIDE DEF InQueue, OnThread
    <3> QED
      BY <3>3, <3>4
  <2>3. CASE (\A i \in Places : queue[i] # job) /\ (\A t \in Threads : thread[t] # job)
    <3>1. InQueue(job) = {} /\ OnThread(job) = {} /\ ~Waits(job)
      BY <2>3 DEF IInv, WaitInv
    <3>2. Cardinality(InQueue(job)) = 0 /\ Cardinality(OnThread(job)) = 0
      BY <3>1, FS_EmptySet
    <3> HIDE DEF InQueue, OnThread
    <3> QED
      BY <3>1, <3>2
  <2> QED
    BY <2>1, <2>2, <2>3
<1>2. \A job : Holders(job) = Cardinality({i \in DOMAIN queue : queue[i] = job})
                                + Cardinality({t \in Threads : thread[t] = job})
  BY DEF Places
<1> HIDE DEF Holders
<1> QED
  BY <1>1, <1>2, WaitFacts DEF JobsAccounted

-----------------------------------------------------------------------------
(* The invariant holds before the first request.                           *)
LEMMA InitIInv == Init => IInv
<1> SUFFICES ASSUME Init PROVE IInv
  OBVIOUS
<1>1. queue = <<>> /\ Places = {} /\ queue \in Seq(Jobs)
  BY DEF Init, Places
<1>2. \A t \in Threads : thread[t] = NoJob
  BY DEF Init
<1>3. \A job : ~Waits(job)
  BY DEF Init, Waits, NoTask
<1>4. TypeOK
  BY <1>1 DEF Init, TypeOK, Tasks, NoTask, Analyses, Idle
<1>5. QuietInv
  BY DEF Init, QuietInv, Asked, NoTask
<1>6. OnceInv /\ WaitInv
  BY <1>1, <1>2, <1>3, JobFacts DEF OnceInv, WaitInv
<1> QED
  BY <1>4, <1>5, <1>6 DEF IInv

(* A step that starts and ends nobody's wait and leaves the pool alone.    *)
LEMMA NoWaitStep ==
  ASSUME IInv, UNCHANGED <<queue, thread, login>>, QuietInv', req' \in [Requests -> Analyses],
         task' \in [Requests -> [Symbols -> Tasks]],
         \A r \in Requests, s \in Symbols : task'[r][s].at = "thread" <=> task[r][s].at = "thread"
  PROVE  IInv'
<1>1. \A job : Waits(job)' <=> Waits(job)
  BY DEF Waits
<1>2. Places' = Places
  BY DEF Places
<1>3. TypeOK'
  BY DEF IInv, TypeOK
<1>4. OnceInv' /\ WaitInv'
  BY <1>1, <1>2 DEF IInv, OnceInv, WaitInv
<1> QED
  BY <1>3, <1>4 DEF IInv

(* Requests come, are answered and rest; a symbol may be cached.           *)
LEMMA RequestStep ==
  ASSUME IInv, NEW r \in Requests,
         \/ \E symbols \in SUBSET Symbols : Analyze(r, symbols)
         \/ Unavailable(r) \/ Conclude(r) \/ Rest(r)
         \/ \E s \in Symbols : CacheHit(r, s)
  PROVE  IInv'
<1>1. ASSUME NEW symbols \in SUBSET Symbols, Analyze(r, symbols)
      PROVE  IInv'
  <2>1. \A s \in Symbols : task[r][s].at = "none"
    BY <1>1 DEF Analyze, IInv, QuietInv, Asked
  <2>2. task' \in [Requests -> [Symbols -> Tasks]]
    BY <1>1 DEF Analyze, IInv, TypeOK, Tasks, NoTask, Pending
  <2>3. \A x \in Requests, s \in Symbols :
          task'[x][s].at = "thread" <=> task[x][s].at = "thread"
    BY <1>1, <2>1 DEF Analyze, IInv, TypeOK, NoTask
  <2>4. req' \in [Requests -> Analyses] /\ QuietInv'
    <3>1. req' \in [Requests -> Analyses] /\ req'[r].at = "gather"
      BY <1>1 DEF Analyze, IInv, TypeOK, Analyses
    <3>2. \A x \in Requests \ {r} : req'[x] = req[x] /\ task'[x] = task[x]
      BY <1>1 DEF Analyze, IInv, TypeOK
    <3> QED
      BY <3>1, <3>2 DEF IInv, QuietInv, Asked
  <2> QED
    BY <1>1, <2>2, <2>3, <2>4, NoWaitStep DEF Analyze
<1>2. CASE Unavailable(r) \/ Conclude(r)
  <2>1. UNCHANGED <<task, login, queue, thread>>
    BY <1>2 DEF Unavailable, Conclude, Answer, Fail
  <2>2. req' \in [Requests -> Analyses] /\ req'[r].at = "done"
    <3>1. CASE Unavailable(r)
      BY <3>1 DEF Unavailable, IInv, TypeOK, Analyses
    <3>2. CASE Answer(r)
      BY <3>2 DEF Answer, IInv, TypeOK, Analyses
    <3>3. CASE Fail(r)
      BY <3>3 DEF Fail, IInv, TypeOK, Analyses
    <3> QED
      BY <1>2, <3>1, <3>2, <3>3 DEF Conclude
  <2>3. \A x \in Requests \ {r} : req'[x] = req[x]
    BY <1>2 DEF Unavailable, Conclude, Answer, Fail, IInv, TypeOK
  <2>4. QuietInv'
    BY <2>1, <2>2, <2>3 DEF IInv, QuietInv, Asked
  <2> QED
    BY <2>1, <2>2, <2>4, NoWaitStep DEF IInv, TypeOK
<1>3. CASE Rest(r)
  <2>1. \A s \in Symbols : task[r][s].at # "thread"
    BY <1>3 DEF Rest, Asked, Ended
  <2>2. task' \in [Requests -> [Symbols -> Tasks]]
    BY <1>3 DEF Rest, IInv, TypeOK, Tasks, NoTask
  <2>3. \A x \in Requests, s \in Symbols :
          task'[x][s].at = "thread" <=> task[x][s].at = "thread"
    BY <1>3, <2>1 DEF Rest, IInv, TypeOK, NoTask
  <2>4. req' \in [Requests -> Analyses] /\ QuietInv'
    BY <1>3 DEF Rest, IInv, QuietInv, TypeOK, Asked, NoTask, Analyses, Idle
  <2> QED
    BY <1>3, <2>2, <2>3, <2>4, NoWaitStep DEF Rest
<1>4. ASSUME NEW s \in Symbols, CacheHit(r, s)
      PROVE  IInv'
  <2>1. task' \in [Requests -> [Symbols -> Tasks]]
    BY <1>4 DEF CacheHit, Move, IInv, TypeOK, Tasks, Ended
  <2>2. \A x \in Requests, y \in Symbols :
          task'[x][y].at = "thread" <=> task[x][y].at = "thread"
    BY <1>4 DEF CacheHit, Move, IInv, TypeOK
  <2>3. req' \in [Requests -> Analyses] /\ QuietInv'
    BY <1>4 DEF CacheHit, Move, IInv, QuietInv, TypeOK, Asked
  <2> QED
    BY <1>4, <2>1, <2>2, <2>3, NoWaitStep DEF CacheHit
<1> QED
  BY <1>1, <1>2, <1>3, <1>4

(* Somebody who does not wait yet puts a job at the end of the queue.      *)
LEMMA EnqueueStep ==
  ASSUME IInv, NEW job \in Jobs, ~Waits(job), queue' = Append(queue, job), thread' = thread,
         \A j \in Jobs : Waits(j)' <=> Waits(j) \/ j = job
  PROVE  queue' \in Seq(Jobs) /\ OnceInv' /\ WaitInv'
<1>1. /\ queue' \in Seq(Jobs) /\ Places = 1 .. Len(queue) /\ Len(queue) \in Nat
      /\ Places' = Places \cup {Len(queue) + 1} /\ Len(queue) + 1 \notin Places
      /\ \A i \in Places : queue'[i] = queue[i] /\ queue[i] \in Jobs
      /\ queue'[Len(queue) + 1] = job
  BY AppendProperties, LenProperties DEF IInv, TypeOK, Places
<1>2. (\A i \in Places : queue[i] # job) /\ (\A t \in Threads : thread[t] # job)
  BY DEF IInv, WaitInv
<1>3. OnceInv'
  BY <1>1, <1>2 DEF IInv, OnceInv
<1>4. WaitInv'
  BY <1>1 DEF IInv, WaitInv
<1> QED
  BY <1>1, <1>3, <1>4

(* A request submits a download to the pool.                               *)
LEMMA DownloadStep ==
  ASSUME IInv, NEW r \in Requests, NEW s \in Symbols, Download(r, s)
  PROVE  IInv'
<1>1. task' \in [Requests -> [Symbols -> Tasks]]
  BY DEF Download, IInv, TypeOK, Tasks, Pending
<1>2. \A x \in Requests, y \in Symbols :
        task'[x][y].at = "thread" <=> task[x][y].at = "thread" \/ (x = r /\ y = s)
  BY DEF Download, IInv, TypeOK
<1>3. Job(r, s) \in Jobs /\ ~Waits(Job(r, s))
  BY WaitFacts DEF Download
<1>4. \A j \in Jobs : Waits(j)' <=> Waits(j) \/ j = Job(r, s)
  BY <1>2, JobFacts DEF Waits, Download
<1>5. queue' \in Seq(Jobs) /\ OnceInv' /\ WaitInv'
  BY <1>3, <1>4, EnqueueStep DEF Download
<1>6. QuietInv'
  BY DEF Download, IInv, QuietInv, TypeOK, Asked
<1> QED
  BY <1>1, <1>5, <1>6 DEF Download, IInv, TypeOK

(* A login submits its password hash to the pool.                          *)
LEMMA SubmitStep ==
  ASSUME IInv, NEW l \in Logins, Submit(l)
  PROVE  IInv'
<1>1. Job(l, Password) \in Jobs /\ ~Waits(Job(l, Password))
  BY WaitFacts DEF Submit
<1>2. \A x \in Logins : login'[x] = "thread" <=> login[x] = "thread" \/ x = l
  BY DEF Submit, IInv, TypeOK
<1>3. \A j \in Jobs : Waits(j)' <=> Waits(j) \/ j = Job(l, Password)
  BY <1>2, JobFacts DEF Waits, Submit
<1>4. queue' \in Seq(Jobs) /\ OnceInv' /\ WaitInv'
  BY <1>1, <1>3, EnqueueStep DEF Submit
<1> QED
  BY <1>4 DEF Submit, IInv, TypeOK, QuietInv, Asked

(* The oldest job moves from the queue to a thread that is free.           *)
LEMMA TakeStep ==
  ASSUME IInv, NEW t \in Threads, Take(t)
  PROVE  IInv'
<1>1. /\ Places = 1 .. Len(queue) /\ Len(queue) \in Nat \ {0} /\ Head(queue) = queue[1]
      /\ queue' \in Seq(Jobs) /\ Places' = 1 .. Len(queue) - 1
      /\ \A i \in Places : queue[i] \in Jobs
      /\ \A i \in Places' : queue'[i] = queue[i + 1]
  BY HeadTailProperties, LenProperties, EmptySeq DEF Take, IInv, TypeOK, Places
<1>2. /\ thread[t] = NoJob /\ thread'[t] = queue[1] /\ queue[1] \in Jobs
      /\ \A u \in Threads \ {t} : thread'[u] = thread[u]
  BY <1>1 DEF Take, IInv, TypeOK
<1>3. TypeOK'
  BY <1>1, <1>2 DEF Take, IInv, TypeOK
<1>4. OnceInv'
  <2>1. \A i, k \in Places' : queue'[i] = queue'[k] => i = k
    BY <1>1 DEF IInv, OnceInv
  <2>2. \A u \in Threads \ {t} : thread[u] # queue[1]
    BY <1>1 DEF IInv, OnceInv
  <2>3. \A u, v \in Threads : thread'[u] = thread'[v] /\ thread'[u] \in Jobs => u = v
    BY <1>2, <2>2 DEF IInv, OnceInv
  <2>4. \A i \in Places', u \in Threads : queue'[i] # thread'[u]
    BY <1>1, <1>2 DEF IInv, OnceInv
  <2> QED
    BY <2>1, <2>3, <2>4 DEF OnceInv
<1>5. WaitInv'
  <2>1. \A j : Waits(j)' <=> Waits(j)
    BY DEF Take, Waits
  <2>2. \A i \in Places' : Waits(queue'[i])
    BY <1>1 DEF IInv, WaitInv
  <2>3. \A u \in Threads : thread'[u] \in Jobs => Waits(thread'[u])
    BY <1>1, <1>2 DEF IInv, WaitInv
  <2>4. ASSUME NEW j \in Jobs, Waits(j)
        PROVE  (\E i \in Places' : queue'[i] = j) \/ (\E u \in Threads : thread'[u] = j)
    <3>1. CASE \E i \in Places : queue[i] = j
      <4>1. PICK i \in Places : queue[i] = j
        BY <3>1
      <4>2. CASE i = 1
        BY <4>1, <4>2, <1>2
      <4>3. CASE i # 1
        <5>1. i - 1 \in Places' /\ queue'[i - 1] = j
          BY <4>1, <4>3, <1>1
        <5> QED
          BY <5>1
      <4> QED
        BY <4>2, <4>3
    <3>2. CASE \E u \in Threads : thread[u] = j
      BY <3>2, <1>2, JobFacts
    <3> QED
      BY <2>4, <3>1, <3>2 DEF IInv, WaitInv
  <2> QED
    BY <2>1, <2>2, <2>3, <2>4 DEF WaitInv
<1> QED
  BY <1>3, <1>4, <1>5 DEF Take, IInv, QuietInv, Asked

-----------------------------------------------------------------------------
(* A job ends on its thread: whoever awaits it waits no more, and if       *)
(* nobody does, nobody is touched.                                         *)
LEMMA FinishStep ==
  ASSUME IInv, NEW t \in Threads, Finish(t)
  PROVE  IInv'
<1> DEFINE job == thread[t]
<1>1. /\ queue' = queue /\ req' = req /\ Places' = Places /\ job # NoJob /\ thread'[t] = NoJob
      /\ thread' \in [Threads -> {NoJob} \cup Jobs \cup Orphans]
      /\ \A u \in Threads \ {t} : thread'[u] = thread[u]
  BY DEF Finish, IInv, TypeOK, Places
<1>2. OnceInv'
  <2>1. \A i \in Places : queue[i] \in Jobs
    BY ElementOfSeq, LenProperties DEF IInv, TypeOK, Places
  <2> HIDE DEF job
  <2> QED
    BY <1>1, <2>1, JobFacts DEF IInv, OnceInv
<1>3. job \in Jobs <=> job.awaited
  <2>1. job \in Jobs \cup Orphans
    BY <1>1 DEF IInv, TypeOK
  <2> HIDE DEF job
  <2> QED
    BY <2>1, JobFacts
<1>4. /\ task' \in [Requests -> [Symbols -> Tasks]] /\ login' \in [Logins -> {"idle", "thread"}]
      /\ QuietInv' /\ \A j \in Jobs : Waits(j)' <=> Waits(j) /\ j # job
  <2>1. CASE ~job.awaited
    <3>1. UNCHANGED <<task, login>>
      BY <2>1 DEF Finish
    <3>2. \A j : Waits(j)' <=> Waits(j)
      BY <3>1 DEF Waits
    <3> QED
      BY <3>1, <3>2, <2>1, <1>1, <1>3 DEF IInv, TypeOK, QuietInv, Asked
  <2>2. CASE job.awaited /\ job.what = Password
    <3>1. PICK l \in Logins : job = Job(l, Password)
      BY <2>2, <1>3, JobFacts, PoolAssumption DEF Jobs, Downloads, Checks
    <3>2. task' = task /\ login' = [login EXCEPT ![l] = "idle"]
      BY <2>2, <3>1 DEF Finish, Job
    <3>3. \A x \in Logins : login'[x] = "thread" <=> login[x] = "thread" /\ x # l
      BY <3>2 DEF IInv, TypeOK
    <3>4. \A j \in Jobs : Waits(j)' <=> Waits(j) /\ j # job
      BY <3>1, <3>2, <3>3, JobFacts, PoolAssumption DEF Waits
    <3> QED
      BY <3>2, <3>4, <1>1 DEF IInv, TypeOK, QuietInv, Asked
  <2>3. CASE job.awaited /\ job.what # Password
    <3>1. PICK r \in Requests, s \in Symbols : job = Job(r, s)
      BY <2>3, <1>3, JobFacts DEF Jobs, Downloads, Checks
    <3>2. task[r][s].at = "thread"
      BY <3>1, <2>3, <1>3, WaitFacts DEF IInv, WaitInv
    <3>3. PICK outcome \in {"fresh", "failed", "backoff", "stale"} : Move(r, s, outcome)
      BY <2>3, <3>1 DEF Finish, Job, Outcomes, GivenUp
    <3>4. login' = login
      BY <2>3 DEF Finish
    <3>5. task' \in [Requests -> [Symbols -> Tasks]]
      BY <3>3 DEF Move, IInv, TypeOK, Tasks, Ended, Pending
    <3>6. \A x \in Requests, y \in Symbols :
            task'[x][y].at = "thread" <=> task[x][y].at = "thread" /\ ~(x = r /\ y = s)
      BY <3>3 DEF Move, IInv, TypeOK
    <3>7. \A j \in Jobs : Waits(j)' <=> Waits(j) /\ j # job
      BY <3>1, <3>4, <3>6, JobFacts, PoolAssumption DEF Waits
    <3>8. QuietInv'
      BY <3>2, <3>3, <1>1 DEF Move, IInv, QuietInv, TypeOK, Asked
    <3> QED
      BY <3>4, <3>5, <3>7, <3>8 DEF IInv, TypeOK
  <2> QED
    BY <2>1, <2>2, <2>3
<1>5. WaitInv'
  <2>1. \A i \in Places : queue[i] # job
    BY DEF IInv, OnceInv
  <2>2. \A i \in Places : queue[i] \in Jobs
    BY ElementOfSeq, LenProperties DEF IInv, TypeOK, Places
  <2>3. \A u \in Threads \ {t} : thread[u] \in Jobs => thread[u] # job
    BY DEF IInv, OnceInv
  <2> QED
    BY <1>1, <1>4, <2>1, <2>2, <2>3, JobFacts DEF IInv, WaitInv
<1> QED
  BY <1>1, <1>2, <1>4, <1>5 DEF IInv, TypeOK

(* A deadline passes: the task stops to wait, and its job, if there is     *)
(* one, is taken from the queue or stays on its thread for nobody.         *)
LEMMA DeadlineStep ==
  ASSUME IInv, NEW r \in Requests, NEW s \in Symbols, Deadline(r, s)
  PROVE  IInv'
<1> DEFINE job == Job(r, s)
<1>1. PICK outcome \in {"stale", "failed"} : Move(r, s, outcome)
  BY DEF Deadline, GivenUp
<1>2. task' \in [Requests -> [Symbols -> Tasks]]
  BY <1>1 DEF Move, IInv, TypeOK, Tasks, Ended
<1>3. \A x \in Requests, y \in Symbols :
        task'[x][y].at = "thread" <=> task[x][y].at = "thread" /\ ~(x = r /\ y = s)
  BY <1>1 DEF Move, IInv, TypeOK
<1>4. job \in Jobs
  BY WaitFacts
<1>5. \A j \in Jobs : Waits(j)' <=> Waits(j) /\ j # job
  BY <1>3, JobFacts, PoolAssumption DEF Waits, Deadline
<1>6. QuietInv'
  BY <1>1 DEF Deadline, Move, IInv, QuietInv, TypeOK, Asked
<1>7. /\ thread' \in [Threads -> {NoJob} \cup Jobs \cup Orphans]
      /\ \A t \in Threads : thread'[t] \in Jobs <=> thread[t] \in Jobs /\ thread[t] # job
      /\ \A t \in Threads : thread'[t] \in Jobs => thread'[t] = thread[t]
      /\ \A t \in Threads : thread[t] # job => thread'[t] = thread[t]
  <2>1. ASSUME NEW t \in Threads, thread[t] = job
        PROVE  thread'[t] = Orphan(job) /\ Orphan(job) \in Orphans
    BY <2>1, <1>4 DEF Deadline, Orphan, Orphans
  <2>2. ASSUME NEW t \in Threads, thread[t] # job
        PROVE  thread'[t] = thread[t]
    BY <2>2 DEF Deadline
  <2>3. thread' = [t \in Threads |-> thread'[t]]
    BY DEF Deadline
  <2>4. \A t \in Threads : thread[t] \in {NoJob} \cup Jobs \cup Orphans
    BY DEF IInv, TypeOK
  <2> HIDE DEF job
  <2>5. \A t \in Threads : thread'[t] \in {NoJob} \cup Jobs \cup Orphans
    BY <2>1, <2>2, <2>4
  <2> QED
    BY <1>4, <2>1, <2>2, <2>3, <2>5, JobFacts
<1>8. /\ queue' \in Seq(Jobs)
      /\ \A i \in Places' : \E k \in Places : queue'[i] = queue[k] /\ queue[k] # job
      /\ \A k \in Places : queue[k] # job => \E i \in Places' : queue'[i] = queue[k]
      /\ \A i, k \in Places' : queue'[i] = queue'[k] => i = k
  <2>1. queue \in Seq(Jobs) /\ Places = 1 .. Len(queue) /\ Len(queue) \in Nat
        /\ \A i \in Places : queue[i] \in Jobs
    BY LenProperties, ElementOfSeq DEF IInv, TypeOK, Places
  <2>2. ASSUME \A i \in Places : queue[i] # job, queue' = queue
        PROVE  <1>8!:
    BY <2>1, <2>2 DEF Places, IInv, OnceInv
  <2>3. ASSUME NEW i \in Places, queue[i] = job, queue' = RemoveAt(queue, i)
        PROVE  <1>8!:
    <3> DEFINE left == SubSeq(queue, 1, i - 1)
               right == SubSeq(queue, i + 1, Len(queue))
    <3>1. /\ left \in Seq(Jobs) /\ Len(left) = i - 1
          /\ \A k \in 1 .. i - 1 : left[k] = queue[k]
      BY <2>1, SubSeqProperties
    <3>2. /\ right \in Seq(Jobs) /\ Len(right) = Len(queue) - i
          /\ \A k \in 1 .. Len(queue) - i : right[k] = queue[k + i]
      BY <2>1, SubSeqProperties
    <3>3. /\ queue' \in Seq(Jobs) /\ Len(queue') = Len(queue) - 1
          /\ \A k \in 1 .. Len(queue) - 1 :
               queue'[k] = IF k <= i - 1 THEN left[k] ELSE right[k - (i - 1)]
      <4>1. queue' = left \o right
        BY <2>3 DEF RemoveAt
      <4> HIDE DEF left, right
      <4>2. i \in 1 .. Len(queue)
        BY <2>1
      <4>3. /\ left \o right \in Seq(Jobs) /\ Len(left \o right) = Len(left) + Len(right)
            /\ \A k \in 1 .. Len(left) + Len(right) :
                 (left \o right)[k] = IF k <= Len(left) THEN left[k] ELSE right[k - Len(left)]
        BY <3>1, <3>2, ConcatProperties
      <4>4. Len(left) + Len(right) = Len(queue) - 1
        BY <2>1, <3>1, <3>2, <4>2
      <4> QED
        BY <3>1, <4>1, <4>3, <4>4
    <3>4. \A k \in 1 .. Len(queue) - 1 :
            queue'[k] = IF k <= i - 1 THEN queue[k] ELSE queue[k + 1]
      <4> HIDE DEF left, right
      <4> QED
        BY <2>1, <3>1, <3>2, <3>3
    <3>5. Places' = 1 .. Len(queue) - 1
      BY <3>3, LenProperties DEF Places
    <3>6. \A k, n \in Places : queue[k] = queue[n] => k = n
      BY DEF IInv, OnceInv
    <3> HIDE DEF job
    <3>7. \A k \in Places' : \E n \in Places : queue'[k] = queue[n] /\ queue[n] # job
      <4> SUFFICES ASSUME NEW k \in Places'
                   PROVE  \E n \in Places : queue'[k] = queue[n] /\ queue[n] # job
        OBVIOUS
      <4>1. CASE k <= i - 1
        <5>1. k \in Places /\ k # i /\ queue'[k] = queue[k]
          BY <4>1, <2>1, <3>4, <3>5
        <5> QED
          BY <5>1, <2>3, <3>6
      <4>2. CASE k > i - 1
        <5>1. k + 1 \in Places /\ k + 1 # i /\ queue'[k] = queue[k + 1]
          BY <4>2, <2>1, <3>4, <3>5
        <5> QED
          BY <5>1, <2>3, <3>6
      <4> QED
        BY <4>1, <4>2, <2>1, <3>5
    <3>8. \A n \in Places : queue[n] # job => \E k \in Places' : queue'[k] = queue[n]
      <4> SUFFICES ASSUME NEW n \in Places, queue[n] # job
                   PROVE  \E k \in Places' : queue'[k] = queue[n]
        OBVIOUS
      <4>1. CASE n < i
        BY <4>1, <2>1, <3>4, <3>5
      <4>2. CASE n > i
        <5>1. n - 1 \in Places' /\ queue'[n - 1] = queue[n]
          BY <4>2, <2>1, <3>4, <3>5
        <5> QED
          BY <5>1
      <4> QED
        BY <4>1, <4>2, <2>1, <2>3
    <3>9. \A k, n \in Places' : queue'[k] = queue'[n] => k = n
      BY <2>1, <3>4, <3>5, <3>6
    <3> QED
      BY <3>3, <3>7, <3>8, <3>9
  <2> QED
    BY <2>2, <2>3 DEF Deadline, Cancel, Places
<1> HIDE DEF job
<1>9. OnceInv'
  <2>1. \A t, u \in Threads : thread'[t] = thread'[u] /\ thread'[t] \in Jobs => t = u
    BY <1>7 DEF IInv, OnceInv
  <2>2. ASSUME NEW i \in Places', NEW t \in Threads, queue'[i] = thread'[t]
        PROVE  FALSE
    <3>1. PICK k \in Places : queue'[i] = queue[k] /\ queue[k] # job /\ queue[k] \in Jobs
      BY <1>8, ElementOfSeq, LenProperties DEF IInv, TypeOK, Places
    <3>2. thread'[t] = thread[t]
      BY <2>2, <3>1, <1>7
    <3> QED
      BY <2>2, <3>1, <3>2 DEF IInv, OnceInv
  <2> QED
    BY <1>8, <2>1, <2>2 DEF OnceInv
<1>10. WaitInv'
  <2>1. \A k \in Places : queue[k] \in Jobs
    BY ElementOfSeq, LenProperties DEF IInv, TypeOK, Places
  <2>2. \A j \in Jobs : (\E i \in Places' : queue'[i] = j) => Waits(j)'
    BY <1>5, <1>8, <2>1 DEF IInv, WaitInv
  <2>3. \A j \in Jobs : (\E t \in Threads : thread'[t] = j) => Waits(j)'
    BY <1>5, <1>7 DEF IInv, WaitInv
  <2>4. ASSUME NEW j \in Jobs, Waits(j)'
        PROVE  (\E i \in Places' : queue'[i] = j) \/ (\E t \in Threads : thread'[t] = j)
    BY <2>4, <1>5, <1>7, <1>8 DEF IInv, WaitInv
  <2>5. \A i \in Places' : queue'[i] \in Jobs
    BY <1>8, <2>1
  <2> QED
    BY <2>2, <2>3, <2>4, <2>5 DEF WaitInv
<1> QED
  BY <1>2, <1>6, <1>7, <1>8, <1>9, <1>10 DEF IInv, TypeOK, Deadline

-----------------------------------------------------------------------------
(* The inductive invariant of the thread pool and of those who use it.     *)
THEOREM PoolInvariance == Spec => []IInv
<1>1. IInv /\ [Next]_vars => IInv'
  <2> SUFFICES ASSUME IInv, [Next]_vars PROVE IInv'
    OBVIOUS
  <2>1. CASE UNCHANGED vars
    BY <2>1 DEF vars, IInv, TypeOK, QuietInv, OnceInv, WaitInv, Asked, Places, Waits
  <2>2. ASSUME NEW r \in Requests, NEW s \in Symbols, Fetch(r, s)
        PROVE  IInv'
    BY <2>2, RequestStep, DownloadStep, DeadlineStep DEF Fetch
  <2>3. ASSUME NEW t \in Threads, Work(t)
        PROVE  IInv'
    BY <2>3, TakeStep, FinishStep DEF Work
  <2> QED
    BY <2>1, <2>2, <2>3, RequestStep, SubmitStep DEF Next
<1> QED
  BY <1>1, InitIInv, PTL DEF Spec

(* Whoever waits for a thread of the shared pool has exactly one job there *)
(* and every job that counts as awaited is waited for: neither a deadline  *)
(* nor a retry leaves a second one behind or takes one from another task.  *)
THEOREM JobsAreAccounted == Spec => []JobsAccounted
  BY PoolInvariance, IInvAccounts, PTL
=============================================================================
