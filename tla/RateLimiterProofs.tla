-------------------------- MODULE RateLimiterProofs --------------------------
(***************************************************************************)
(* Proofs about the rate limiter, for any number of requests at once and   *)
(* instances with clocks ahead by any amount, any rule and any delay of a  *)
(* script.                                                                 *)
(***************************************************************************)
EXTENDS RateLimiter, FiniteSetTheorems, TLAPS

(* The requests of a bucket whose script has not been run.                 *)
Waiting(b) == {w \in Workers : req[w].at = "eval" /\ req[w].bucket = b}

(* What Redis has counted under a key.                                     *)
Counted(b) == IF counter[b] = NoKey THEN 0 ELSE counter[b].count

(* A script that will run gives its key a life that lasts until the clock  *)
(* of its instance leaves the window, and not much longer.                 *)
EvalOK(w) == req[w].at = "eval" =>
  /\ req[w].bucket \in Buckets /\ req[w].expiresIn > 0
  /\ now <= req[w].due
  /\ now + req[w].expiresIn * Second + Skew[w] >= (req[w].bucket + 1) * Window
  /\ req[w].due + req[w].expiresIn * Second < (req[w].bucket + 1) * Window + Delay + Second

(* A key outlives its window by the same measure.                          *)
KeyOK(b) == counter[b] # NoKey =>
  /\ now < counter[b].expires
  /\ \E w \in Workers : counter[b].expires + Skew[w] >= (b + 1) * Window
  /\ counter[b].expires < (b + 1) * Window + Delay + Second

(* While no clock has left a window, its key counts all it has admitted.   *)
BudgetOK(b) ==
  /\ Open(b, now) => admitted[b] <= Counted(b)
  /\ admitted[b] <= Limit

(* Redis counts no more than arrived.                                      *)
CountOK(b) == Counted(b) + Cardinality(Waiting(b)) <= arrived[b]

(* A refusal was due, and its hint leads out of the window.                *)
BlockedOK(w) == req[w].at = "blocked" =>
  /\ req[w].bucket \in Buckets /\ arrived[req[w].bucket] > Limit
  /\ LET retry == req[w].ran + req[w].hint * Second
     IN  /\ ~Open(req[w].bucket, retry + Second \div 2)
         /\ retry <= (req[w].bucket + 1) * Window + Delay + 2 * Second

RateInv ==
  /\ TypeOK
  /\ \A w \in Workers : EvalOK(w) /\ BlockedOK(w)
  /\ \A b \in Buckets : KeyOK(b) /\ BudgetOK(b) /\ CountOK(b)

-----------------------------------------------------------------------------
(* What a quotient is.                                                     *)
LEMMA Quotient ==
  ASSUME NEW x \in Int, NEW d \in Nat \ {0}
  PROVE  x \div d \in Int /\ (x \div d) * d <= x /\ x < (x \div d) * d + d
BY Z3

(* A window ends after the clock that reads a time of it.                  *)
LEMMA ClockInWindow ==
  ASSUME NEW w \in Workers, now \in Nat
  PROVE  LET clock  == now + Skew[w]
             bucket == clock \div Window
         IN  /\ bucket \in Nat
             /\ bucket * Window <= clock /\ clock < (bucket + 1) * Window
<1> DEFINE clock == now + Skew[w]
           bucket == clock \div Window
<1>1. clock \in Nat /\ Window \in Nat \ {0}
  BY RuleAssumption
<1> HIDE DEF clock
<1>2. bucket \in Int /\ bucket * Window <= clock /\ clock < bucket * Window + Window
  BY <1>1, Quotient
<1>3. bucket >= 0
  BY <1>1, Z3
<1> HIDE DEF bucket
<1>4. bucket \in Nat /\ bucket * Window <= clock /\ clock < (bucket + 1) * Window
  BY <1>1, <1>2, <1>3
<1> QED
  BY <1>4 DEF bucket, clock

(* The seconds a key is given reach the end of the window and stop within  *)
(* a second of it.                                                         *)
LEMMA ExpiresInReaches ==
  ASSUME NEW clock \in Int, NEW b \in Int, clock < (b + 1) * Window
  PROVE  LET left == (b + 1) * Window - clock
         IN  /\ ExpiresIn(clock, b) \in Int /\ ExpiresIn(clock, b) > 0
             /\ left <= ExpiresIn(clock, b) * Second
             /\ ExpiresIn(clock, b) * Second < left + Second
<1> DEFINE left == (b + 1) * Window - clock
           q == (left + Second - 1) \div Second
<1>1. left \in Int /\ left > 0 /\ Second \in Nat \ {0} /\ Window \in Int
  BY RuleAssumption
<1> HIDE DEF left
<1>2. q \in Int /\ q * Second <= left + Second - 1 /\ left + Second - 1 < q * Second + Second
  BY <1>1, Quotient
<1>3. q > 0
  BY <1>1, <1>2
<1>4. ExpiresIn(clock, b) = q
  BY DEF ExpiresIn, left
<1> HIDE DEF q
<1> QED
  BY <1>1, <1>2, <1>3, <1>4 DEF left

(* A request that moves leaves the waiting of its bucket, and joins them if*)
(* it is at the script.                                                    *)
LEMMA WaitingMoves ==
  ASSUME TypeOK, NEW w \in Workers, NEW STATE x, NEW b,
         req' = [req EXCEPT ![w] = x]
  PROVE  Waiting(b)' = IF x.at = "eval" /\ x.bucket = b
                       THEN Waiting(b) \cup {w} ELSE Waiting(b) \ {w}
<1>1. Waiting(b)' = {v \in Workers : req'[v].at = "eval" /\ req'[v].bucket = b}
  BY DEF Waiting
<1>2. \A v \in Workers : req'[v] = IF v = w THEN x ELSE req[v]
  BY DEF TypeOK
<1> QED
  BY <1>1, <1>2 DEF Waiting

(* Which makes one more, or one less.                                      *)
LEMMA WaitingCounts ==
  ASSUME NEW w \in Workers, NEW b
  PROVE  LET n == Cardinality(Waiting(b))
         IN  /\ n \in Nat
             /\ w \notin Waiting(b) => Cardinality(Waiting(b) \cup {w}) = n + 1
             /\ w \in Waiting(b) => Cardinality(Waiting(b) \ {w}) = n - 1
<1>1. IsFiniteSet(Waiting(b))
  BY RuleAssumption, FS_Subset DEF Waiting
<1> QED
  BY <1>1, FS_CardinalityType, FS_AddElement, FS_RemoveElement

(* The counts are natural numbers.                                         *)
LEMMA CountedType ==
  ASSUME TypeOK, NEW b \in Buckets
  PROVE  Counted(b) \in Nat /\ arrived[b] \in Nat /\ Cardinality(Waiting(b)) \in Nat
<1>1. Cardinality(Waiting(b)) \in Nat
  BY RuleAssumption, FS_Subset, FS_CardinalityType DEF Waiting
<1> QED
  BY <1>1 DEF TypeOK, Counted, Counter

(* What has left a window by now has left it later.                        *)
LEMMA OpenEarlier ==
  ASSUME NEW b \in Int, NEW t \in Int, NEW u \in Int, t <= u, Open(b, u)
  PROVE  Open(b, t)
BY RuleAssumption DEF Open

(* A worker at rest, and the instants and buckets there are.               *)
LEMMA IdleOK ==
  /\ Idle \in Request
  /\ Idle.at = "idle" /\ Idle.bucket = 0 /\ Idle.ran = 0 /\ Idle.hint = 0
BY DEF Idle, Request

(* The windows are numbers, and the horizon is one.                        *)
LEMMA BucketsType == Buckets \subseteq Int /\ Horizon \in Nat
<1>1. ASSUME NEW t \in 0..Horizon, NEW w \in Workers
      PROVE  (t + Skew[w]) \div Window \in Int
  <2>1. t + Skew[w] \in Int /\ Window \in Nat \ {0}
    BY RuleAssumption DEF Horizon
  <2> QED
    BY <2>1, Quotient
<1> QED
  BY <1>1, RuleAssumption DEF Buckets, Horizon

-----------------------------------------------------------------------------
(* A request reads its clock and is on its way to the script.              *)
LEMMA StartOK ==
  ASSUME RateInv, NEW w \in Workers, Start(w)
  PROVE  RateInv'
<1> DEFINE clock == now + Skew[w]
           c == clock \div Window
           e == ExpiresIn(clock, c)
           x == [at |-> "eval", bucket |-> c, expiresIn |-> e,
                 due |-> now + Delay, ran |-> 0, hint |-> 0]
<1>1. /\ req[w].at = "idle" /\ now <= LastStart
      /\ req' = [req EXCEPT ![w] = x] /\ arrived' = [arrived EXCEPT ![c] = @ + 1]
      /\ UNCHANGED <<now, counter, admitted>>
  BY DEF Start
<1>2. /\ TypeOK /\ now \in Nat /\ Second \in Nat \ {0} /\ Window \in Nat \ {0}
      /\ Delay \in Nat /\ Skew[w] \in Nat /\ clock \in Nat
  BY RuleAssumption DEF RateInv, TypeOK
<1>3. c \in Nat /\ c * Window <= clock /\ clock < (c + 1) * Window
  BY <1>2, ClockInWindow
<1>4. c \in Buckets
  BY <1>1, <1>2, RuleAssumption DEF Buckets, Horizon
<1>5. /\ e \in Int /\ e > 0
      /\ (c + 1) * Window - clock <= e * Second
      /\ e * Second < (c + 1) * Window - clock + Second
  <2> HIDE DEF clock, c
  <2> QED
    BY <1>2, <1>3, ExpiresInReaches
<1> HIDE DEF e, c, clock
<1>6. /\ x.at = "eval" /\ x.bucket = c /\ x.expiresIn = e /\ x.due = now + Delay
      /\ x \in Request
  BY <1>2, <1>3, <1>5 DEF Request
<1> HIDE DEF x
<1>7. TypeOK'
  BY <1>1, <1>2, <1>4, <1>6 DEF TypeOK
<1>8. \A v \in Workers : req'[v] = IF v = w THEN x ELSE req[v]
  BY <1>1, <1>2 DEF TypeOK
<1>9. ASSUME NEW v \in Workers
      PROVE  EvalOK(v)' /\ BlockedOK(v)'
  <2>1. CASE v = w
    <3>1. req'[v] = x /\ now' = now
      BY <2>1, <1>1, <1>8
    <3>2. now + x.expiresIn * Second + Skew[w] >= (c + 1) * Window
      BY <1>2, <1>3, <1>5, <1>6 DEF clock
    <3>3. x.due + x.expiresIn * Second < (c + 1) * Window + Delay + Second
      BY <1>2, <1>3, <1>5, <1>6 DEF clock
    <3> QED
      BY <2>1, <3>1, <3>2, <3>3, <1>2, <1>4, <1>5, <1>6 DEF EvalOK, BlockedOK
  <2>2. CASE v # w
    <3>1. req'[v] = req[v] /\ now' = now
      BY <2>2, <1>1, <1>8
    <3>2. EvalOK(v) /\ BlockedOK(v)
      BY DEF RateInv
    <3>3. \A b \in Buckets : arrived'[b] \in Int /\ arrived'[b] >= arrived[b]
      BY <1>1, <1>2 DEF TypeOK
    <3>4. Limit \in Int /\ (\A b \in Buckets : arrived[b] \in Int)
      BY <1>2, RuleAssumption DEF TypeOK
    <3> QED
      BY <3>1, <3>2, <3>3, <3>4 DEF EvalOK, BlockedOK, Open
  <2> QED
    BY <2>1, <2>2
<1>10. ASSUME NEW b \in Buckets
       PROVE  KeyOK(b)' /\ BudgetOK(b)' /\ CountOK(b)'
  <2>1. KeyOK(b) /\ BudgetOK(b) /\ CountOK(b)
    BY DEF RateInv
  <2>2. KeyOK(b)' /\ BudgetOK(b)' /\ Counted(b)' = Counted(b)
    BY <1>1, <2>1 DEF KeyOK, BudgetOK, Counted, Open
  <2>3. Cardinality(Waiting(b))' = Cardinality(Waiting(b)) + (IF b = c THEN 1 ELSE 0)
    <3>1. w \notin Waiting(b)
      BY <1>1 DEF Waiting
    <3>2. Waiting(b) \ {w} = Waiting(b)
      BY <3>1
    <3>3. Waiting(b)' = IF b = c THEN Waiting(b) \cup {w} ELSE Waiting(b) \ {w}
      BY <1>1, <1>2, <1>6, WaitingMoves
    <3>4. /\ Cardinality(Waiting(b)) \in Nat
          /\ Cardinality(Waiting(b) \cup {w}) = Cardinality(Waiting(b)) + 1
      BY <3>1, WaitingCounts
    <3> QED
      BY <3>2, <3>3, <3>4
  <2>4. arrived'[b] = arrived[b] + (IF b = c THEN 1 ELSE 0)
    BY <1>1, <1>2 DEF TypeOK
  <2>5. Counted(b) \in Nat /\ arrived[b] \in Nat /\ Cardinality(Waiting(b)) \in Nat
    BY <1>2, CountedType
  <2>6. Counted(b)' + Cardinality(Waiting(b))' <= arrived'[b]
    BY <2>1, <2>2, <2>3, <2>4, <2>5 DEF CountOK
  <2> QED
    BY <2>2, <2>6 DEF CountOK
<1> QED
  BY <1>7, <1>9, <1>10 DEF RateInv

(* What the script leaves under the key of its request.                    *)
LEMMA IncrementedOK ==
  ASSUME RateInv, NEW w \in Workers, req[w].at = "eval"
  PROVE  LET b == req[w].bucket
             k == Incremented(req[w])
         IN  /\ b \in Buckets /\ k \in Counter /\ k # NoKey
             /\ k.count = Counted(b) + 1
             /\ now < k.expires
             /\ \E v \in Workers : k.expires + Skew[v] >= (b + 1) * Window
             /\ k.expires < (b + 1) * Window + Delay + Second
<1> DEFINE b == req[w].bucket
           k == Incremented(req[w])
<1>1. /\ TypeOK /\ now \in Nat /\ Second \in Nat \ {0} /\ Window \in Nat \ {0}
      /\ Delay \in Nat /\ Skew[w] \in Nat /\ NoKey \notin Counter
  BY RuleAssumption DEF RateInv, TypeOK, Counter
<1>2. /\ b \in Buckets /\ b \in Int /\ req[w].expiresIn \in Int /\ req[w].due \in Int
      /\ EvalOK(w) /\ KeyOK(b)
  BY <1>1 DEF RateInv, EvalOK, TypeOK, Request
<1>3. CASE counter[b] = NoKey
  <2>1. k = [count |-> 1, expires |-> now + req[w].expiresIn * Second]
    BY <1>3 DEF Incremented, Key
  <2>2. Counted(b) = 0
    BY <1>3 DEF Counted
  <2>3. /\ req[w].expiresIn * Second \in Int /\ req[w].expiresIn * Second > 0
        /\ now + req[w].expiresIn * Second + Skew[w] >= (b + 1) * Window
        /\ now + req[w].expiresIn * Second < (b + 1) * Window + Delay + Second
    BY <1>1, <1>2 DEF EvalOK
  <2>4. k.count = 1 /\ k.expires = now + req[w].expiresIn * Second /\ k \in Counter
    BY <1>1, <2>1, <2>3 DEF Counter
  <2> QED
    BY <1>1, <1>2, <2>2, <2>3, <2>4
<1>4. CASE counter[b] # NoKey
  <2>1. counter[b] \in Counter
    BY <1>1, <1>2, <1>4 DEF TypeOK
  <2>2. k = [counter[b] EXCEPT !.count = @ + 1]
    BY <1>4 DEF Incremented, Key
  <2>3. k.count = counter[b].count + 1 /\ k.expires = counter[b].expires /\ k \in Counter
    BY <2>1, <2>2 DEF Counter
  <2>4. Counted(b) = counter[b].count
    BY <1>4 DEF Counted
  <2> QED
    BY <1>1, <1>2, <1>4, <2>3, <2>4 DEF KeyOK
<1> QED
  BY <1>3, <1>4

(* A request leaves the script, which may or may not have been run.        *)
LEMMA LeaveOK ==
  ASSUME RateInv, NEW w \in Workers, req[w].at = "eval",
         NEW STATE x, x \in Request, x.at # "eval",
         req' = [req EXCEPT ![w] = x], now' = now, arrived' = arrived,
         counter' \in {counter, [counter EXCEPT ![req[w].bucket] = Incremented(req[w])]}
  PROVE  /\ now' \in Nat /\ now' <= Horizon
         /\ counter' \in [Buckets -> Counter \cup {NoKey}]
         /\ req' \in [Workers -> Request] /\ arrived' \in [Buckets -> Nat]
         /\ \A v \in Workers : EvalOK(v)'
         /\ \A v \in Workers \ {w} : BlockedOK(v)'
         /\ \A b \in Buckets : KeyOK(b)' /\ CountOK(b)' /\ Counted(b) <= Counted(b)'
<1> DEFINE c == req[w].bucket
           k == Incremented(req[w])
<1>1. /\ TypeOK /\ c \in Buckets /\ k \in Counter /\ k # NoKey /\ k.count = Counted(c) + 1
      /\ now < k.expires
      /\ \E v \in Workers : k.expires + Skew[v] >= (c + 1) * Window
      /\ k.expires < (c + 1) * Window + Delay + Second
  BY IncrementedOK DEF RateInv
<1> HIDE DEF k
<1>2. counter' = counter \/ counter' = [counter EXCEPT ![c] = k]
  BY DEF k
<1>3. /\ now' \in Nat /\ now' <= Horizon
      /\ counter' \in [Buckets -> Counter \cup {NoKey}]
      /\ req' \in [Workers -> Request] /\ arrived' \in [Buckets -> Nat]
  BY <1>1, <1>2 DEF TypeOK
<1>4. \A v \in Workers : req'[v] = IF v = w THEN x ELSE req[v]
  BY <1>1 DEF TypeOK
<1>5. \A v \in Workers : EvalOK(v)'
  BY <1>4 DEF RateInv, EvalOK
<1>6. \A v \in Workers \ {w} : BlockedOK(v)'
  BY <1>4 DEF RateInv, BlockedOK, Open
<1>7. ASSUME NEW b \in Buckets
      PROVE  KeyOK(b)' /\ CountOK(b)' /\ Counted(b) <= Counted(b)'
  <2>1. KeyOK(b) /\ CountOK(b)
    BY DEF RateInv
  <2>2. counter'[b] = counter[b] \/ (b = c /\ counter'[b] = k)
    BY <1>1, <1>2 DEF TypeOK
  <2>3. KeyOK(b)'
    BY <1>1, <2>1, <2>2 DEF KeyOK
  <2>4. /\ Counted(b)' \in Nat /\ Counted(b) <= Counted(b)'
        /\ Counted(b)' <= Counted(b) + (IF b = c THEN 1 ELSE 0)
    <3>1. CASE counter'[b] = counter[b]
      BY <3>1, <1>1, CountedType DEF Counted
    <3>2. CASE b = c /\ counter'[b] = k
      BY <3>2, <1>1, CountedType DEF Counted
    <3> QED
      BY <2>2, <3>1, <3>2
  <2>5. w \in Waiting(b) <=> b = c
    BY DEF Waiting
  <2>6. Cardinality(Waiting(b))' = Cardinality(Waiting(b)) - (IF b = c THEN 1 ELSE 0)
    <3>1. Waiting(b)' = Waiting(b) \ {w}
      BY <1>1, WaitingMoves
    <3>2. CASE b = c
      BY <2>5, <3>1, <3>2, WaitingCounts
    <3>3. CASE b # c
      <4>1. Waiting(b) \ {w} = Waiting(b)
        BY <2>5, <3>3
      <4>2. Cardinality(Waiting(b))' = Cardinality(Waiting(b))
        BY <3>1, <4>1
      <4>3. Cardinality(Waiting(b)) \in Nat
        BY WaitingCounts
      <4> QED
        BY <3>3, <4>2, <4>3
    <3> QED
      BY <3>2, <3>3
  <2>7. Counted(b)' + Cardinality(Waiting(b))' <= arrived'[b]
    BY <1>1, <2>1, <2>4, <2>6, CountedType DEF CountOK
  <2> QED
    BY <2>3, <2>4, <2>7 DEF CountOK
<1> QED
  BY <1>3, <1>5, <1>6, <1>7

(* Retry-After, rounded as Redis rounds the TTL, is at most half a second  *)
(* short of the life of the key, and at most a second longer.              *)
LEMMA HintReaches ==
  ASSUME NEW k \in Counter, now \in Nat, now < k.expires
  PROVE  LET hint == IF TTL(k) < 1 THEN 1 ELSE TTL(k)
         IN  /\ hint \in Int
             /\ now + hint * Second + Second \div 2 >= k.expires
             /\ now + hint * Second <= k.expires + Second
<1> DEFINE half == Second \div 2
           left == k.expires - now
           ttl  == TTL(k)
           hint == IF ttl < 1 THEN 1 ELSE ttl
<1>1. Second \in Nat \ {0} /\ Second % 2 = 0
  BY RuleAssumption
<1>2. half \in Int /\ 2 * half = Second
  BY <1>1, Z3
<1>3. left \in Int /\ left > 0 /\ k.expires = now + left
  BY DEF Counter
<1>4. ttl = (left + half) \div Second
  BY DEF TTL
<1> HIDE DEF half, left, ttl
<1>5. ttl \in Int /\ ttl * Second <= left + half /\ left + half < ttl * Second + Second
  BY <1>1, <1>2, <1>3, <1>4, Quotient
<1>6. /\ hint \in Int
      /\ now + hint * Second + half >= now + left
      /\ now + hint * Second <= now + left + Second
  <2>1. CASE ttl < 1
    <3>1. hint = 1 /\ hint * Second = Second
      BY <2>1, <1>1
    <3>2. left + half < Second
      <4>1. ttl * Second <= 0
        BY <1>1, <1>5, <2>1
      <4> QED
        BY <1>1, <1>2, <1>3, <1>5, <4>1
    <3> QED
      BY <1>1, <1>2, <1>3, <3>1, <3>2
  <2>2. CASE ~(ttl < 1)
    <3>1. hint = ttl
      BY <2>2
    <3>2. ttl * Second \in Int
      BY <1>1, <1>5
    <3> QED
      BY <1>1, <1>2, <1>3, <1>5, <3>1, <3>2
  <2> QED
    BY <2>1, <2>2
<1> QED
  BY <1>3, <1>6 DEF half, ttl

(* The script runs: it admits within the budget, and refuses with a hint.  *)
LEMMA EvalStepOK ==
  ASSUME RateInv, NEW w \in Workers, Eval(w)
  PROVE  RateInv'
<1> DEFINE c == req[w].bucket
           k == Incremented(req[w])
           x == Decided(req[w], k)
<1>1. /\ req[w].at = "eval"
      /\ counter' = [counter EXCEPT ![c] = k]
      /\ req' = [req EXCEPT ![w] = x]
      /\ admitted' = IF k.count <= Limit /\ Open(c, now)
                     THEN [admitted EXCEPT ![c] = @ + 1] ELSE admitted
      /\ now' = now /\ arrived' = arrived
  BY DEF Eval, Key
<1>2. /\ TypeOK /\ c \in Buckets /\ k \in Counter /\ k # NoKey /\ k.count = Counted(c) + 1
      /\ now < k.expires
      /\ \E v \in Workers : k.expires + Skew[v] >= (c + 1) * Window
      /\ k.expires < (c + 1) * Window + Delay + Second
  BY <1>1, IncrementedOK DEF RateInv
<1>3. now \in Nat /\ Limit \in Nat /\ Second \in Nat \ {0} /\ Delay \in Nat /\ Window \in Nat
  BY <1>2, RuleAssumption DEF TypeOK
<1>4. c \in Int /\ k.count \in Nat /\ k.expires \in Nat
  BY <1>2, BucketsType DEF Counter
<1> HIDE DEF k
<1> DEFINE hint == IF TTL(k) < 1 THEN 1 ELSE TTL(k)
<1>5. /\ hint \in Int
      /\ now + hint * Second + Second \div 2 >= k.expires
      /\ now + hint * Second <= k.expires + Second
  BY <1>2, <1>3, HintReaches
<1> HIDE DEF hint
<1>6. /\ x \in Request /\ x.at \in {"blocked", "allowed"}
      /\ x.at = "blocked" => /\ k.count > Limit /\ x.bucket = c /\ x.ran = now
                             /\ x.hint = hint
  <2>1. CASE k.count > Limit
    <3>1. x = [at |-> "blocked", bucket |-> c, expiresIn |-> 0, due |-> 0, ran |-> now,
               hint |-> hint]
      BY <2>1 DEF Decided, hint
    <3> HIDE DEF x
    <3> QED
      BY <1>3, <1>4, <1>5, <2>1, <3>1 DEF Request
  <2>2. CASE ~(k.count > Limit)
    <3>1. x = [Idle EXCEPT !.at = "allowed"]
      BY <2>2 DEF Decided
    <3> HIDE DEF x
    <3> QED
      BY <3>1, IdleOK DEF Request
  <2> QED
    BY <2>1, <2>2
<1> HIDE DEF x
<1>7. /\ now' \in Nat /\ now' <= Horizon
      /\ counter' \in [Buckets -> Counter \cup {NoKey}]
      /\ req' \in [Workers -> Request] /\ arrived' \in [Buckets -> Nat]
      /\ \A v \in Workers : EvalOK(v)'
      /\ \A v \in Workers \ {w} : BlockedOK(v)'
      /\ \A b \in Buckets : KeyOK(b)' /\ CountOK(b)' /\ Counted(b) <= Counted(b)'
  <2>1. x.at # "eval" /\ x \in Request
    BY <1>6
  <2>2. counter' \in {counter, [counter EXCEPT ![req[w].bucket] = Incremented(req[w])]}
    BY <1>1 DEF k
  <2> QED
    BY <1>1, <2>1, <2>2, LeaveOK
<1>8. admitted' \in [Buckets -> Nat]
  BY <1>1, <1>2 DEF TypeOK
<1>9. \A b \in Buckets : b = c => Counted(b)' = k.count
  BY <1>1, <1>2 DEF TypeOK, Counted
<1>10. BlockedOK(w)'
  <2>1. req'[w] = x
    BY <1>1, <1>2 DEF TypeOK
  <2>2. ASSUME x.at = "blocked"
        PROVE  /\ arrived'[c] > Limit
               /\ ~Open(c, now + hint * Second + Second \div 2)
               /\ now + hint * Second <= (c + 1) * Window + Delay + 2 * Second
    <3>1. arrived'[c] > Limit
      <4> SUFFICES ASSUME NEW b \in Buckets, b = c
                   PROVE  arrived'[b] > Limit
        BY <1>2
      <4>1. Counted(b)' + Cardinality(Waiting(b))' <= arrived'[b]
        BY <1>7 DEF CountOK
      <4>2. Cardinality(Waiting(b))' \in Nat
        <5>1. IsFiniteSet(Waiting(b)')
          BY RuleAssumption, FS_Subset DEF Waiting
        <5> QED
          BY <5>1, FS_CardinalityType
      <4>3. arrived'[b] \in Nat /\ Counted(b)' = k.count
        BY <1>7, <1>9
      <4> QED
        BY <1>3, <1>4, <1>6, <2>2, <4>1, <4>2, <4>3
    <3>2. ~Open(c, now + hint * Second + Second \div 2)
      <4> DEFINE t == now + hint * Second + Second \div 2
      <4>1. t \in Int /\ t >= k.expires
        <5>1. Second \div 2 \in Int /\ hint * Second \in Int
          BY <1>3, <1>5, Quotient
        <5> QED
          BY <1>3, <1>5, <5>1
      <4> HIDE DEF t
      <4>2. PICK v \in Workers : k.expires + Skew[v] >= (c + 1) * Window
        BY <1>2
      <4>3. Skew[v] \in Nat
        BY RuleAssumption
      <4>4. ~(t + Skew[v] < (c + 1) * Window)
        BY <1>3, <1>4, <4>1, <4>2, <4>3
      <4>5. ~Open(c, t)
        BY <4>4 DEF Open
      <4> QED
        BY <4>5 DEF t
    <3>3. now + hint * Second <= (c + 1) * Window + Delay + 2 * Second
      BY <1>2, <1>3, <1>4, <1>5
    <3> QED
      BY <3>1, <3>2, <3>3
  <2>3. x.at = "blocked" =>
          /\ x.bucket \in Buckets /\ arrived'[x.bucket] > Limit
          /\ ~Open(x.bucket, x.ran + x.hint * Second + Second \div 2)
          /\ x.ran + x.hint * Second <= (x.bucket + 1) * Window + Delay + 2 * Second
    BY <1>2, <1>6, <2>2
  <2> QED
    BY <2>1, <2>3 DEF BlockedOK, Open
<1>11. ASSUME NEW b \in Buckets
       PROVE  BudgetOK(b)'
  <2>1. /\ BudgetOK(b) /\ admitted[b] \in Nat /\ Counted(b) \in Nat
        /\ Counted(b) <= Counted(b)' /\ Open(b, now)' = Open(b, now)
    BY <1>1, <1>2, <1>7, CountedType DEF RateInv, TypeOK, Open
  <2>2. CASE b = c /\ k.count <= Limit /\ Open(c, now)
    <3>1. admitted'[b] = admitted[b] + 1
      BY <1>1, <1>2, <2>2 DEF TypeOK
    <3> QED
      BY <1>2, <1>3, <1>4, <1>9, <2>1, <2>2, <3>1 DEF BudgetOK
  <2>3. CASE ~(b = c /\ k.count <= Limit /\ Open(c, now))
    <3>1. admitted'[b] = admitted[b]
      BY <1>1, <1>2, <2>3 DEF TypeOK
    <3>2. Counted(b)' \in Int
      BY <1>2, <1>7 DEF Counted, Counter
    <3> QED
      BY <1>3, <2>1, <3>1, <3>2 DEF BudgetOK
  <2> QED
    BY <2>2, <2>3
<1> QED
  BY <1>7, <1>8, <1>10, <1>11 DEF RateInv, TypeOK

(* An error lets a request pass.                                           *)
LEMMA BypassOK ==
  ASSUME RateInv, NEW w \in Workers, Bypass(w)
  PROVE  RateInv'
<1> DEFINE x == [Idle EXCEPT !.at = "bypassed"]
<1>1. /\ req[w].at = "eval"
      /\ counter' \in {counter, [counter EXCEPT ![req[w].bucket] = Incremented(req[w])]}
      /\ req' = [req EXCEPT ![w] = x]
      /\ now' = now /\ arrived' = arrived /\ admitted' = admitted
  BY DEF Bypass, Key
<1>2. x \in Request /\ x.at = "bypassed"
  BY IdleOK DEF Request
<1> HIDE DEF x
<1>3. /\ now' \in Nat /\ now' <= Horizon
      /\ counter' \in [Buckets -> Counter \cup {NoKey}]
      /\ req' \in [Workers -> Request] /\ arrived' \in [Buckets -> Nat]
      /\ \A v \in Workers : EvalOK(v)'
      /\ \A v \in Workers \ {w} : BlockedOK(v)'
      /\ \A b \in Buckets : KeyOK(b)' /\ CountOK(b)' /\ Counted(b) <= Counted(b)'
  <2>1. x.at # "eval" /\ x \in Request
    BY <1>2
  <2> QED
    BY <1>1, <2>1, LeaveOK
<1>4. BlockedOK(w)'
  BY <1>1, <1>2 DEF RateInv, TypeOK, BlockedOK
<1>5. ASSUME NEW b \in Buckets
      PROVE  BudgetOK(b)'
  <2>1. /\ BudgetOK(b) /\ admitted[b] \in Nat /\ Counted(b) \in Nat
        /\ Counted(b) <= Counted(b)' /\ Open(b, now)' = Open(b, now)
    BY <1>1, <1>3, CountedType DEF RateInv, TypeOK, Open
  <2>2. Counted(b)' \in Int
    BY <1>3 DEF Counted, Counter
  <2> QED
    BY <1>1, <2>1, <2>2 DEF BudgetOK
<1> QED
  BY <1>1, <1>3, <1>4, <1>5 DEF RateInv, TypeOK

(* A worker is free again.                                                 *)
LEMMA ReturnOK ==
  ASSUME RateInv, NEW w \in Workers, Return(w)
  PROVE  RateInv'
<1>1. /\ req[w].at # "eval" /\ req' = [req EXCEPT ![w] = Idle]
      /\ UNCHANGED <<now, counter, arrived, admitted>>
  BY DEF Return
<1>2. TypeOK /\ TypeOK'
  BY <1>1, IdleOK DEF RateInv, TypeOK
<1>3. \A v \in Workers : req'[v] = IF v = w THEN Idle ELSE req[v]
  BY <1>1, <1>2 DEF TypeOK
<1>4. \A v \in Workers : EvalOK(v)' /\ BlockedOK(v)'
  BY <1>1, <1>3, IdleOK DEF RateInv, EvalOK, BlockedOK, Open
<1>5. ASSUME NEW b \in Buckets
      PROVE  KeyOK(b)' /\ BudgetOK(b)' /\ CountOK(b)'
  <2>1. Waiting(b)' = Waiting(b)
    <3>1. Waiting(b)' = {v \in Workers : req'[v].at = "eval" /\ req'[v].bucket = b}
      BY DEF Waiting
    <3> QED
      BY <1>1, <1>3, <3>1, IdleOK DEF Waiting
  <2>2. Counted(b)' = Counted(b)
    BY <1>1 DEF Counted
  <2> QED
    BY <1>1, <2>1, <2>2 DEF RateInv, KeyOK, BudgetOK, CountOK, Open
<1> QED
  BY <1>2, <1>4, <1>5 DEF RateInv

(* Time passes: a key that expires does so when a clock has left its       *)
(* window, and no script is left waiting beyond its delay.                 *)
LEMMA TickOK ==
  ASSUME RateInv, Tick
  PROVE  RateInv'
<1>1. /\ now < Horizon /\ now' = now + 1
      /\ \A w \in Workers : req[w].at = "eval" => now < req[w].due
      /\ counter' = [b \in Buckets |->
           IF counter[b] # NoKey /\ counter[b].expires <= now' THEN NoKey ELSE counter[b]]
      /\ req' = req /\ arrived' = arrived /\ admitted' = admitted
  BY DEF Tick
<1>2. /\ TypeOK /\ now \in Nat /\ Horizon \in Nat /\ Second \in Nat /\ Window \in Nat
      /\ Delay \in Nat
  BY BucketsType, RuleAssumption DEF RateInv, TypeOK
<1>3. TypeOK'
  BY <1>1, <1>2 DEF TypeOK
<1>4. ASSUME NEW w \in Workers
      PROVE  EvalOK(w)' /\ BlockedOK(w)'
  <2>1. EvalOK(w) /\ BlockedOK(w) /\ Skew[w] \in Nat /\ req[w] \in Request
    BY <1>2, RuleAssumption DEF RateInv, TypeOK
  <2>2. BlockedOK(w)'
    BY <1>1, <2>1 DEF BlockedOK, Open
  <2>3. EvalOK(w)'
    BY <1>1, <1>2, <2>1 DEF EvalOK, Request
  <2> QED
    BY <2>2, <2>3
<1>5. ASSUME NEW b \in Buckets
      PROVE  KeyOK(b)' /\ BudgetOK(b)' /\ CountOK(b)'
  <2>1. KeyOK(b) /\ BudgetOK(b) /\ CountOK(b) /\ b \in Int
    BY BucketsType DEF RateInv
  <2>2. Waiting(b)' = Waiting(b)
    BY <1>1 DEF Waiting
  <2>3. /\ Counted(b) \in Nat /\ arrived[b] \in Nat /\ Cardinality(Waiting(b)) \in Nat
        /\ Limit \in Nat /\ admitted[b] \in Nat
    BY <1>2, CountedType, RuleAssumption DEF TypeOK
  <2>4. Open(b, now)' => Open(b, now)
    <3>1. Open(b, now)' <=> Open(b, now + 1)
      BY <1>1 DEF Open
    <3>2. Open(b, now + 1) => Open(b, now)
      BY <1>2, <2>1, OpenEarlier
    <3> QED
      BY <3>1, <3>2
  <2>5. CASE counter'[b] = counter[b] /\ (counter[b] = NoKey \/ now' < counter[b].expires)
    <3>1. Counted(b)' = Counted(b)
      BY <2>5 DEF Counted
    <3>2. KeyOK(b)'
      BY <2>1, <2>5 DEF KeyOK
    <3> QED
      BY <1>1, <2>1, <2>2, <2>4, <3>1, <3>2 DEF BudgetOK, CountOK
  <2>6. CASE counter[b] # NoKey /\ counter[b].expires <= now' /\ counter'[b] = NoKey
    <3>1. Counted(b)' = 0 /\ KeyOK(b)'
      BY <2>6 DEF Counted, KeyOK
    <3>2. CountOK(b)'
      BY <1>1, <2>1, <2>2, <2>3, <3>1 DEF CountOK
    <3>3. ~Open(b, now)'
      <4>1. PICK w \in Workers : counter[b].expires + Skew[w] >= (b + 1) * Window
        BY <2>1, <2>6 DEF KeyOK
      <4>2. counter[b].expires \in Nat /\ Skew[w] \in Nat
        BY <1>2, <2>6, RuleAssumption DEF TypeOK, Counter
      <4>3. ~(now' + Skew[w] < (b + 1) * Window)
        BY <1>1, <1>2, <2>1, <2>6, <4>1, <4>2
      <4> QED
        BY <4>3 DEF Open
    <3>4. BudgetOK(b)'
      BY <1>1, <2>1, <3>3 DEF BudgetOK
    <3> QED
      BY <3>1, <3>2, <3>4
  <2> QED
    <3>1. counter[b] # NoKey => counter[b].expires \in Nat
      BY <1>2 DEF TypeOK, Counter
    <3> QED
      BY <1>1, <1>2, <2>5, <2>6, <3>1
<1> QED
  BY <1>3, <1>4, <1>5 DEF RateInv

(* Redis loses a key.                                                      *)
LEMMA EvictOK ==
  ASSUME RateInv, NEW e \in Buckets, Evict(e)
  PROVE  RateInv'
<1>1. /\ counter' = [counter EXCEPT ![e] = NoKey]
      /\ admitted' = [admitted EXCEPT ![e] = 0]
      /\ now' = now /\ req' = req /\ arrived' = arrived
  BY DEF Evict
<1>2. TypeOK /\ Limit \in Nat
  BY RuleAssumption DEF RateInv
<1>3. TypeOK'
  BY <1>1, <1>2 DEF TypeOK
<1>4. \A w \in Workers : EvalOK(w)' /\ BlockedOK(w)'
  BY <1>1 DEF RateInv, EvalOK, BlockedOK, Open
<1>5. ASSUME NEW b \in Buckets
      PROVE  KeyOK(b)' /\ BudgetOK(b)' /\ CountOK(b)'
  <2>1. KeyOK(b) /\ BudgetOK(b) /\ CountOK(b)
    BY DEF RateInv
  <2>2. Waiting(b)' = Waiting(b) /\ Open(b, now)' = Open(b, now)
    BY <1>1 DEF Waiting, Open
  <2>3. Counted(b) \in Nat /\ arrived[b] \in Nat /\ Cardinality(Waiting(b)) \in Nat
    BY <1>2, CountedType
  <2>4. CASE b = e
    <3>1. counter'[b] = NoKey /\ admitted'[b] = 0 /\ Counted(b)' = 0
      BY <1>1, <1>2, <2>4 DEF TypeOK, Counted
    <3> QED
      BY <1>1, <1>2, <2>1, <2>2, <2>3, <3>1 DEF KeyOK, BudgetOK, CountOK
  <2>5. CASE b # e
    <3>1. counter'[b] = counter[b] /\ admitted'[b] = admitted[b] /\ Counted(b)' = Counted(b)
      BY <1>1, <1>2, <2>5 DEF TypeOK, Counted
    <3> QED
      BY <1>1, <2>1, <2>2, <3>1 DEF KeyOK, BudgetOK, CountOK
  <2> QED
    BY <2>4, <2>5
<1> QED
  BY <1>3, <1>4, <1>5 DEF RateInv

-----------------------------------------------------------------------------
(* The inductive invariant of the counters and the requests.               *)
THEOREM RateInvariance == Spec => []RateInv
<1>1. Init => RateInv
  <2> SUFFICES ASSUME Init PROVE RateInv
    OBVIOUS
  <2>1. /\ now = 0 /\ Horizon \in Nat /\ Limit \in Nat
        /\ \A b \in Buckets : counter[b] = NoKey /\ arrived[b] = 0 /\ admitted[b] = 0
        /\ \A w \in Workers : req[w] = Idle
    BY BucketsType, RuleAssumption DEF Init
  <2>2. TypeOK
    BY <2>1, IdleOK DEF Init, TypeOK
  <2>3. \A b \in Buckets : Waiting(b) = {}
    BY <2>1, IdleOK DEF Waiting
  <2>4. \A b \in Buckets : Counted(b) = 0 /\ Cardinality(Waiting(b)) = 0
    BY <2>1, <2>3, FS_EmptySet DEF Counted
  <2>5. \A b \in Buckets : KeyOK(b) /\ BudgetOK(b) /\ CountOK(b)
    BY <2>1, <2>4 DEF KeyOK, BudgetOK, CountOK
  <2>6. \A w \in Workers : EvalOK(w) /\ BlockedOK(w)
    BY <2>1, IdleOK DEF EvalOK, BlockedOK
  <2> QED
    BY <2>2, <2>5, <2>6 DEF RateInv
<1>2. RateInv /\ [Next]_vars => RateInv'
  <2> SUFFICES ASSUME RateInv, [Next]_vars PROVE RateInv'
    OBVIOUS
  <2>1. CASE Tick
    BY <2>1, TickOK
  <2>2. ASSUME NEW w \in Workers, Start(w) PROVE RateInv'
    BY <2>2, StartOK
  <2>3. ASSUME NEW w \in Workers, Eval(w) PROVE RateInv'
    BY <2>3, EvalStepOK
  <2>4. ASSUME NEW w \in Workers, Bypass(w) PROVE RateInv'
    BY <2>4, BypassOK
  <2>5. ASSUME NEW w \in Workers, Return(w) PROVE RateInv'
    BY <2>5, ReturnOK
  <2>6. ASSUME NEW b \in Buckets, Evict(b) PROVE RateInv'
    BY <2>6, EvictOK
  <2>7. CASE UNCHANGED vars
    BY <2>7 DEF vars, RateInv, TypeOK, EvalOK, BlockedOK, KeyOK, BudgetOK, CountOK,
                Counted, Waiting, Open
  <2> QED
    BY <2>1, <2>2, <2>3, <2>4, <2>5, <2>6, <2>7 DEF Next
<1> QED
  BY <1>1, <1>2, PTL DEF Spec

(* Type correctness, for any instances, skews and rule.                    *)
THEOREM TypeCorrect == Spec => []TypeOK
<1>1. RateInv => TypeOK
  BY DEF RateInv
<1> QED
  BY <1>1, RateInvariance, PTL

(* Nobody is refused within the budget of a window, and while no clock has *)
(* left a window no more than the budget is admitted, unless Redis loses   *)
(* the key.                                                                *)
THEOREM OneBudgetAWindow == Spec => []OneBudget
<1>1. RateInv => OneBudget
  BY DEF RateInv, OneBudget, BlockedOK, BudgetOK
<1> QED
  BY <1>1, RateInvariance, PTL

(* A client that waits for Retry-After has left the window by the first of *)
(* the clocks, and has not waited long beyond it.                          *)
THEOREM RetryAfterLeadsOut == Spec => []RetryAfterUseful
<1>1. RateInv => RetryAfterUseful
  BY DEF RateInv, RetryAfterUseful, BlockedOK
<1> QED
  BY <1>1, RateInvariance, PTL
=============================================================================
