---------------------------- MODULE TokenBucket -----------------------------
(***************************************************************************)
(* The token bucket of broker/rate_limit.py and of its copy in             *)
(* toss_trading/runtime/rate_limit.py.  The unit of time is what the        *)
(* bucket needs to refill one token; lag is the time since updated_at.      *)
(* A lag beyond the largest capacity adds nothing, so it saturates there.   *)
(***************************************************************************)
EXTENDS Integers

CONSTANTS MaxCapacity    \* the largest limit a response header announces

ASSUME CapacityAssumption == MaxCapacity \in Nat \ {0}

VARIABLES
  capacity,   \* the bucket's capacity, announced by X-RateLimit-Limit
  tokens,     \* the tokens left when the bucket was last touched
  lag,        \* time since updated_at
  ideal       \* history: what the broker would still grant

bucketVars == <<capacity, tokens, lag, ideal>>

Least(a, b) == IF a <= b THEN a ELSE b

BucketType ==
  /\ capacity \in 1..MaxCapacity
  /\ tokens \in 0..MaxCapacity
  /\ lag \in 0..MaxCapacity
  /\ ideal \in Int

\* __post_init__: a bucket starts full.
BucketInit ==
  /\ capacity = MaxCapacity
  /\ tokens = capacity
  /\ lag = 0
  /\ ideal = capacity

\* Bug: the credit is not capped by the capacity.
LevelUncapped == tokens + lag

\* What the bucket holds once the elapsed time is credited.
Level == Least(capacity, tokens + lag)

\* try_acquire with enough tokens.
Take(n) ==
  /\ Level >= n
  /\ tokens' = Level - n
  /\ lag' = 0
  /\ ideal' = ideal - n
  /\ UNCHANGED capacity

\* try_acquire without enough tokens: the credit is still written back.  The
\* caller is told how long to wait.
Refuse(n) ==
  /\ Level < n
  /\ tokens' = Level
  /\ lag' = 0
  /\ UNCHANGED <<capacity, ideal>>

\* Bug: the wait ignores what the bucket already holds.
WaitSecondsFromEmpty(n) == n

WaitSeconds(n) == n - Level

\* update_from_headers with a limit, a number of remaining tokens, or both
\* (-1: the header is absent).  updated_at stays as it was.
UpdateFromHeaders(limit, remaining) ==
  /\ capacity' = IF limit >= 1 THEN limit ELSE capacity
  /\ tokens' = IF remaining >= 0 THEN Least(capacity', remaining) ELSE tokens
  /\ ideal' = IF remaining >= 0 THEN Least(capacity', remaining) ELSE Least(capacity', ideal)
  /\ UNCHANGED lag

\* The monotonic clock advances by the time of one token.
Elapse ==
  /\ lag' = Least(lag + 1, MaxCapacity)
  /\ ideal' = Least(ideal + 1, capacity)
  /\ UNCHANGED <<capacity, tokens>>
=============================================================================
