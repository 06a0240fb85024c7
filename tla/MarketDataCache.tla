--------------------------- MODULE MarketDataCache ---------------------------
(***************************************************************************)
(* CachedMarketDataProvider around RetryingMarketDataProvider, for one key *)
(* (provider, symbol and date range) shared by concurrent analyses.  Each  *)
(* Redis call and each upstream attempt is a step, and time passes between *)
(* them; due bounds how long a step may last, as the socket and operation  *)
(* timeouts do.  end_date is in the past from Midnight on.                 *)
(***************************************************************************)
EXTENDS Integers

CONSTANTS
  Workers,        \* requests that may be in progress at once
  MutableTTL, HistoricalTTL, StaleTTL,
  MaxAttempts, Backoff, OperationTimeout, RedisTimeout,
  Midnight,       \* the first instant with end_date < today
  LastStart,      \* bound of the model: no request starts later
  NoCopy,         \* a missing key; the bars of a request that has none
  Garbage         \* a payload _deserialize_price_bars refuses

ASSUME ParametersAssumption ==
  /\ {MutableTTL, HistoricalTTL, StaleTTL, MaxAttempts, OperationTimeout, RedisTimeout}
       \subseteq Nat \ {0}
  /\ {Backoff, Midnight, LastStart} \subseteq Nat

VARIABLES
  now,
  fresh,     \* what Redis holds under key
  shadow,    \* what Redis holds under key:stale
  req        \* the request in progress on each worker

cacheVars == <<now, fresh, shadow, req>>

Horizon == LastStart + OperationTimeout + 3 * RedisTimeout

(* Bars that came in at got, held until expires.                           *)
Copy == [got : 0..Horizon, expires : Nat]
Usable(copy) == copy \notin {NoCopy, Garbage}

(* at: the await the request is in; due: that await ends by then;          *)
(* available: cache_available; deadline: of asyncio.timeout; ttl:          *)
(* fresh_ttl; failure: how the upstream operation failed.                  *)
Idle == [at |-> "idle", started |-> 0, due |-> 0, available |-> TRUE, attempt |-> 0,
         deadline |-> 0, ttl |-> 0, bars |-> NoCopy, outcome |-> "none",
         failure |-> "none"]

CacheInit ==
  /\ now = 0 /\ fresh = NoCopy /\ shadow = NoCopy
  /\ req = [w \in Workers |-> Idle]

At(w, step) == req[w].at = step
Become(w, r) == req' = [req EXCEPT ![w] = r]
Await(r, step, limit) == [r EXCEPT !.at = step, !.due = limit]

(* The locals of an operation that has ended are gone.                     *)
LeaveUpstream(r) == [r EXCEPT !.attempt = 0, !.deadline = 0]
Answer(r, kind) ==
  [Idle EXCEPT !.at = "answered", !.started = r.started, !.bars = r.bars,
               !.failure = r.failure, !.outcome = kind]

(* get_price_bars is called: the first await is the Redis GET.             *)
Start(w) ==
  /\ At(w, "idle") /\ now <= LastStart
  /\ Become(w, Await([Idle EXCEPT !.started = now], "get", now + RedisTimeout))
  /\ UNCHANGED <<now, fresh, shadow>>

(* The retrying provider is entered: its deadline and its first attempt.   *)
EnterUpstream(r) ==
  Await([r EXCEPT !.deadline = now + OperationTimeout, !.attempt = 1],
        "call", now + OperationTimeout)

GetHit(w) ==
  /\ At(w, "get") /\ Usable(fresh)
  /\ Become(w, Answer([req[w] EXCEPT !.bars = fresh], "hit"))
  /\ UNCHANGED <<now, fresh, shadow>>

(* A miss or a corrupt payload.                                            *)
GetMiss(w) ==
  /\ At(w, "get") /\ ~Usable(fresh)
  /\ Become(w, EnterUpstream(req[w]))
  /\ UNCHANGED <<now, fresh, shadow>>

GetFails(w) ==
  /\ At(w, "get")
  /\ Become(w, EnterUpstream([req[w] EXCEPT !.available = FALSE]))
  /\ UNCHANGED <<now, fresh, shadow>>

FreshTTL(t) == IF t < Midnight THEN MutableTTL ELSE HistoricalTTL

(* Bars arrive; the TTL is chosen by the clock of this instant.            *)
Fetched(r) ==
  IF r.available
  THEN Await([LeaveUpstream(r) EXCEPT !.bars = [got |-> now, expires |-> 0],
                                      !.ttl = FreshTTL(now)],
             "set", now + RedisTimeout)
  ELSE Answer([r EXCEPT !.bars = [got |-> now, expires |-> 0]], "fetched")

CallSucceeds(w) ==
  /\ At(w, "call")
  /\ Become(w, Fetched(req[w]))
  /\ UNCHANGED <<now, fresh, shadow>>

(* A MarketDataRetryableError leaves the retrying provider: only a request *)
(* whose first GET worked looks for the retained copy.                     *)
Exhausted(r) ==
  IF r.available
  THEN Await([LeaveUpstream(r) EXCEPT !.failure = "transient"], "getStale", now + RedisTimeout)
  ELSE Answer([r EXCEPT !.failure = "transient"], "error")

CallFailsTransiently(w) ==
  /\ At(w, "call")
  /\ Become(w, IF req[w].attempt = MaxAttempts
               THEN Exhausted(req[w])
               ELSE Await(req[w], "sleep", now + Backoff * 2 ^ (req[w].attempt - 1)))
  /\ UNCHANGED <<now, fresh, shadow>>

(* Mutant: every provider error falls back to the retained copy.           *)
CallFailsForGoodToStale(w) ==
  /\ At(w, "call")
  /\ Become(w, Await([req[w] EXCEPT !.failure = "invalid"], "getStale", now + RedisTimeout))
  /\ UNCHANGED <<now, fresh, shadow>>

(* Not found, malformed data: neither retried nor replaced by a stale copy.*)
CallFailsForGood(w) ==
  /\ At(w, "call")
  /\ Become(w, Answer([req[w] EXCEPT !.failure = "invalid"], "error"))
  /\ UNCHANGED <<now, fresh, shadow>>

(* Mutant: the timeout is that of an attempt, not of the operation.        *)
WakeAnew(w) ==
  /\ At(w, "sleep") /\ now = req[w].due
  /\ Become(w, Await([req[w] EXCEPT !.attempt = @ + 1, !.deadline = now + OperationTimeout],
                     "call", now + OperationTimeout))
  /\ UNCHANGED <<now, fresh, shadow>>

(* The backoff is over: the next attempt, under the same deadline.         *)
Wake(w) ==
  /\ At(w, "sleep") /\ now = req[w].due
  /\ Become(w, Await([req[w] EXCEPT !.attempt = @ + 1], "call", req[w].deadline))
  /\ UNCHANGED <<now, fresh, shadow>>

(* Mutant: the deadline only cancels a backoff; the attempt runs on.       *)
TimeoutOfSleep(w) ==
  /\ At(w, "sleep") /\ now = req[w].deadline
  /\ Become(w, Exhausted(req[w]))
  /\ UNCHANGED <<now, fresh, shadow>>

(* asyncio.timeout cancels the attempt or the sleep.                       *)
Timeout(w) ==
  /\ req[w].at \in {"call", "sleep"} /\ now = req[w].deadline
  /\ Become(w, Exhausted(req[w]))
  /\ UNCHANGED <<now, fresh, shadow>>

GetStaleHit(w) ==
  /\ At(w, "getStale") /\ Usable(shadow)
  /\ Become(w, Answer([req[w] EXCEPT !.bars = shadow], "stale"))
  /\ UNCHANGED <<now, fresh, shadow>>

(* The retained copy is missing or corrupt, or Redis fails.                *)
GetStaleFails(w) ==
  /\ At(w, "getStale")
  /\ Become(w, Answer(req[w], "error"))
  /\ UNCHANGED <<now, fresh, shadow>>

(* Mutant: the two TTLs are swapped.                                       *)
SetFreshForLong(w) ==
  /\ At(w, "set")
  /\ fresh' = [req[w].bars EXCEPT !.expires = now + StaleTTL]
  /\ Become(w, Await(req[w], "setStale", now + RedisTimeout))
  /\ UNCHANGED <<now, shadow>>

SetFresh(w) ==
  /\ At(w, "set")
  /\ fresh' = [req[w].bars EXCEPT !.expires = now + req[w].ttl]
  /\ Become(w, Await(req[w], "setStale", now + RedisTimeout))
  /\ UNCHANGED <<now, shadow>>

SetStale(w) ==
  /\ At(w, "setStale")
  /\ shadow' = [req[w].bars EXCEPT !.expires = now + StaleTTL]
  /\ Become(w, Answer(req[w], "fetched"))
  /\ UNCHANGED <<now, fresh>>

(* A RedisError on either SET, whether or not Redis stored the value: the  *)
(* other key is not written, and the result is returned.                   *)
SetFails(w) ==
  /\ req[w].at \in {"set", "setStale"}
  /\ \/ UNCHANGED <<fresh, shadow>>
     \/ /\ At(w, "set") /\ shadow' = shadow
        /\ fresh' = [req[w].bars EXCEPT !.expires = now + req[w].ttl]
     \/ /\ At(w, "setStale") /\ fresh' = fresh
        /\ shadow' = [req[w].bars EXCEPT !.expires = now + StaleTTL]
  /\ Become(w, Answer(req[w], "fetched"))
  /\ now' = now

(* The caller takes the answer and may call again.                         *)
Return(w) ==
  /\ At(w, "answered")
  /\ Become(w, Idle)
  /\ UNCHANGED <<now, fresh, shadow>>

Awaiting(w) == req[w].at \notin {"idle", "answered"}

(* Time never passes the end of an await; Redis drops what has expired.    *)
Tick ==
  /\ now < Horizon
  /\ \A w \in Workers :
       /\ ~At(w, "answered")
       /\ Awaiting(w) => now < req[w].due
       /\ At(w, "sleep") => now < req[w].deadline
  /\ now' = now + 1
  /\ LET Kept(copy) == IF Usable(copy) /\ copy.expires <= now' THEN NoCopy ELSE copy
     IN fresh' = Kept(fresh) /\ shadow' = Kept(shadow)
  /\ req' = req

(* Redis may evict a key, or hold what another version of the code wrote.  *)
Damage ==
  /\ \/ fresh' \in {NoCopy, Garbage} /\ shadow' = shadow
     \/ shadow' \in {NoCopy, Garbage} /\ fresh' = fresh
  /\ UNCHANGED <<now, req>>

Get(w) == GetHit(w) \/ GetMiss(w) \/ GetFails(w)
Call(w) == CallSucceeds(w) \/ CallFailsTransiently(w) \/ CallFailsForGood(w)
GetStale(w) == GetStaleHit(w) \/ GetStaleFails(w)
Set(w) == SetFresh(w) \/ SetStale(w) \/ SetFails(w)

CacheNext ==
  \/ Tick \/ Damage
  \/ \E w \in Workers :
       Start(w) \/ Get(w) \/ Call(w) \/ Wake(w) \/ Timeout(w) \/ GetStale(w) \/ Set(w)
         \/ Return(w)

CacheSpec == CacheInit /\ [][CacheNext]_cacheVars

(* Time diverges, however many requests come and go within an instant;     *)
(* the event loop resumes a request whose await is over, and Redis answers *)
(* or times out.  Upstream owes nothing: Call has no fairness, only the    *)
(* timer of the deadline has.                                              *)
Fairness ==
  /\ SF_cacheVars(Tick)
  /\ \A w \in Workers :
       /\ WF_cacheVars(Get(w)) /\ WF_cacheVars(GetStale(w)) /\ WF_cacheVars(Set(w))
       /\ WF_cacheVars(Wake(w)) /\ WF_cacheVars(Timeout(w)) /\ WF_cacheVars(Return(w))

FairSpec == CacheSpec /\ Fairness

-----------------------------------------------------------------------------
(* Every answer says what happened. A retained copy is only returned after *)
(* this request's own upstream operation failed transiently, is never      *)
(* corrupt, and its bars came in at most the retention and two Redis       *)
(* timeouts ago, whichever requests stored copies in between. A request    *)
(* fails only if its upstream operation did, and bars in hand are always   *)
(* returned, whatever Redis answered before or after.                      *)
AnswersHonest == \A w \in Workers :
  /\ req[w].outcome = "stale" =>
       /\ req[w].failure = "transient"
       /\ Usable(req[w].bars)
       /\ now - req[w].bars.got < StaleTTL + 2 * RedisTimeout
  /\ req[w].outcome = "error" => req[w].failure # "none"
  /\ req[w].outcome = "fetched" =>
       req[w].failure = "none" /\ req[w].bars.got >= req[w].started

(* A cache hit is never older than the TTL of bars of its kind and one     *)
(* Redis timeout, whoever stored it and whatever slower requests wrote over*)
(* it meanwhile.                                                           *)
HitAge == \A w \in Workers : req[w].outcome = "hit" =>
  /\ Usable(req[w].bars)
  /\ now - req[w].bars.got < FreshTTL(req[w].bars.got) + RedisTimeout

(* The whole request, retries, backoff and Redis included, ends within the *)
(* operation deadline and three Redis timeouts.                            *)
RequestBounded == \A w \in Workers : Awaiting(w) =>
  now - req[w].started <= OperationTimeout + 3 * RedisTimeout

(* Every request is answered, even if upstream never replies: the deadline,*)
(* not upstream, ends it.                                                  *)
EveryRequestAnswered == \A w \in Workers : Awaiting(w) ~> At(w, "answered")
=============================================================================
