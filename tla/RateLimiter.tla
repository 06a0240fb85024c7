----------------------------- MODULE RateLimiter -----------------------------
(***************************************************************************)
(* RedisFixedWindowRateLimiter.enforce, for one rule and one identifier:   *)
(* several instances of the service, each with a clock of its own, count   *)
(* requests in Redis, whose clock only measures how long a key lives.      *)
(* Time passes in ticks, a fraction of a second, so that the roundings of  *)
(* the window's end, of EXPIRE and of TTL are those of the code.           *)
(***************************************************************************)
EXTENDS Integers, FiniteSets, FiniteSetsExt

CONSTANTS
  Workers,      \* requests that may be in progress at once
  Skew,         \* [Workers -> ticks]: how far the clock of its instance is ahead
  Limit, Window, \* rule.limit and rule.window_seconds, the latter in ticks
  Second,       \* ticks of a second
  Delay,        \* the longest time from the reading of the clock to the script
  LastStart, MaxRequests, \* bounds of the model: of the time and number of requests
  NoKey

ASSUME RuleAssumption ==
  /\ {Limit, Window, Second} \subseteq Nat \ {0} /\ Window % Second = 0 /\ Second % 2 = 0
  /\ {Delay, LastStart, MaxRequests} \subseteq Nat
  /\ IsFiniteSet(Workers) /\ Workers # {} /\ Skew \in [Workers -> Nat]
  /\ NoKey \notin [count : Nat \ {0}, expires : Nat]

VARIABLES
  now,
  counter,   \* [Buckets -> what Redis holds under the key of a bucket]
  req,       \* the request in progress on each worker
  arrived,   \* [Buckets -> Nat]: requests whose clock read a time of the bucket
  admitted   \* [Buckets -> Nat]: those the count admitted before any clock left
             \* it, since Redis last lost the key

vars == <<now, counter, req, arrived, admitted>>

Horizon == LastStart + Delay
Buckets == {(t + Skew[w]) \div Window : t \in 0..Horizon, w \in Workers}

(* No clock has left the bucket at the instant t.                          *)
Open(bucket, t) == \A w \in Workers : t + Skew[w] < (bucket + 1) * Window

(* at: the await; ran: when the script ran; hint: retry_after_seconds.     *)
Idle == [at |-> "idle", bucket |-> 0, expiresIn |-> 0, due |-> 0, ran |-> 0, hint |-> 0]

Init ==
  /\ now = 0
  /\ counter = [b \in Buckets |-> NoKey]
  /\ req = [w \in Workers |-> Idle]
  /\ arrived = [b \in Buckets |-> 0] /\ admitted = [b \in Buckets |-> 0]

(* Mutant: the last second of the window is cut off.                       *)
ExpiresInFloor(clock, bucket) ==
  LET left == ((bucket + 1) * Window - clock) \div Second
  IN  IF left < 1 THEN 1 ELSE left

(* Mutant: a key lives for a whole window from its first request.          *)
ExpiresInWindow(clock, bucket) == Window \div Second

(* max(1, ceil(window_end - now)), in seconds.                             *)
ExpiresIn(clock, bucket) ==
  LET left == (bucket + 1) * Window - clock
  IN  (left + Second - 1) \div Second

Requests == MapThenSumSet(LAMBDA b : arrived[b], Buckets)

(* enforce is called: the clock is read once, for the key and its expiry.  *)
Start(w) ==
  LET clock  == now + Skew[w]
      bucket == clock \div Window
  IN /\ req[w].at = "idle" /\ now <= LastStart
     /\ Requests < MaxRequests
     /\ req' = [req EXCEPT ![w] =
          [at |-> "eval", bucket |-> bucket, expiresIn |-> ExpiresIn(clock, bucket),
           due |-> now + Delay, ran |-> 0, hint |-> 0]]
     /\ arrived' = [arrived EXCEPT ![bucket] = @ + 1]
     /\ UNCHANGED <<now, counter, admitted>>

(* namespace:v1:scope:bucket:digest, for one scope and one digest.         *)
Key(r) == r.bucket

(* INCR, and EXPIRE by the first of them.                                  *)
Incremented(r) ==
  IF counter[Key(r)] = NoKey
  THEN [count |-> 1, expires |-> now + r.expiresIn * Second]
  ELSE [counter[Key(r)] EXCEPT !.count = @ + 1]

(* TTL, which Redis rounds to the nearest second.                          *)
TTL(key) == (key.expires - now + Second \div 2) \div Second

(* count > rule.limit raises RateLimitExceededError(max(1, ttl)).          *)
Decided(r, key) ==
  IF key.count > Limit
  THEN [at |-> "blocked", bucket |-> r.bucket, expiresIn |-> 0, due |-> 0, ran |-> now,
        hint |-> IF TTL(key) < 1 THEN 1 ELSE TTL(key)]
  ELSE [Idle EXCEPT !.at = "allowed"]

(* The script runs, as one step of Redis, and its reply arrives.           *)
Eval(w) ==
  LET r   == req[w]
      key == Incremented(r)
  IN /\ r.at = "eval"
     /\ counter' = [counter EXCEPT ![Key(r)] = key]
     /\ req' = [req EXCEPT ![w] = Decided(r, key)]
     /\ admitted' = IF key.count <= Limit /\ Open(r.bucket, now)
                    THEN [admitted EXCEPT ![r.bucket] = @ + 1] ELSE admitted
     /\ UNCHANGED <<now, arrived>>

(* rate_limit_bypass: an error or a malformed reply, whether or not the    *)
(* script ran, lets the request pass.                                      *)
Bypass(w) ==
  /\ req[w].at = "eval"
  /\ counter' \in {counter, [counter EXCEPT ![Key(req[w])] = Incremented(req[w])]}
  /\ req' = [req EXCEPT ![w] = [Idle EXCEPT !.at = "bypassed"]]
  /\ UNCHANGED <<now, arrived, admitted>>

(* The route goes on, or the handler answers 429 with Retry-After.         *)
Return(w) ==
  /\ req[w].at \in {"allowed", "blocked", "bypassed"}
  /\ req' = [req EXCEPT ![w] = Idle]
  /\ UNCHANGED <<now, counter, arrived, admitted>>

Tick ==
  /\ now < Horizon
  /\ \A w \in Workers : req[w].at = "eval" => now < req[w].due
  /\ now' = now + 1
  /\ counter' = [b \in Buckets |->
       IF counter[b] # NoKey /\ counter[b].expires <= now' THEN NoKey ELSE counter[b]]
  /\ UNCHANGED <<req, arrived, admitted>>

(* Redis restarts empty or evicts the key, and what it admitted with it.   *)
Evict(b) ==
  /\ counter[b] # NoKey
  /\ counter' = [counter EXCEPT ![b] = NoKey]
  /\ admitted' = [admitted EXCEPT ![b] = 0]
  /\ UNCHANGED <<now, req, arrived>>

Next ==
  \/ Tick
  \/ \E w \in Workers : Start(w) \/ Eval(w) \/ Bypass(w) \/ Return(w)
  \/ \E b \in Buckets : Evict(b)

Spec == Init /\ [][Next]_vars

-----------------------------------------------------------------------------
Counter == [count : Nat \ {0}, expires : Nat]
Request == [at : {"idle", "eval", "allowed", "blocked", "bypassed"},
            bucket : Int, expiresIn : Int, due : Int, ran : Int, hint : Int]

(* Type invariant of the counters and of enforce's locals.                 *)
TypeOK ==
  /\ now \in Nat /\ now <= Horizon
  /\ counter \in [Buckets -> Counter \cup {NoKey}]
  /\ req \in [Workers -> Request]
  /\ arrived \in [Buckets -> Nat] /\ admitted \in [Buckets -> Nat]

(* One window, one budget. Nobody is refused within it: a request is only  *)
(* blocked in a window that has already had Limit others, whatever earlier *)
(* windows, slow requests, skewed clocks or a forgetful Redis left behind. *)
(* And until the first clock leaves a window, Redis admits Limit of its    *)
(* requests and no more unless it loses the key; the key does not expire   *)
(* and start again, however its expiry is rounded.                         *)
OneBudget ==
  /\ \A w \in Workers : req[w].at = "blocked" => arrived[req[w].bucket] > Limit
  /\ \A b \in Buckets : admitted[b] <= Limit

(* Retry-After leads the first of the clocks out of the window, but for    *)
(* the half second by which Redis may round the TTL down, and not far      *)
(* beyond the window: by the time a late first request may add and two     *)
(* roundings.                                                              *)
RetryAfterUseful == \A w \in Workers : req[w].at = "blocked" =>
  LET retry == req[w].ran + req[w].hint * Second
  IN  /\ ~Open(req[w].bucket, retry + Second \div 2)
      /\ retry <= (req[w].bucket + 1) * Window + Delay + 2 * Second
=============================================================================
