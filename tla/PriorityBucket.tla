--------------------------- MODULE PriorityBucket ---------------------------
(***************************************************************************)
(* PriorityTokenBucket of broker/rate_limit.py: threads queue by priority   *)
(* on one condition variable and the thread at the head of the heap takes   *)
(* tokens from the shared bucket.                                          *)
(*                                                                         *)
(* A thread draws its sequence number before it owns the condition's lock,  *)
(* so numbers may be pushed out of order.  Under the lock it pushes its     *)
(* marker and runs the loop body once: the head takes its tokens or waits   *)
(* with a timeout, any other thread waits without one.  A wait returns only *)
(* after notify_all or its timeout.                                        *)
(***************************************************************************)
EXTENDS TokenBucket

CONSTANTS
  Threads,      \* the threads that share the bucket
  Priorities,   \* the priorities they ask with, small is urgent (ReadPriority)
  Asks,         \* the numbers of tokens they ask for
  Limits,       \* the X-RateLimit-Limit values seen, -1 for an absent header
  Remains,      \* the X-RateLimit-Remaining values seen, -1 for absent
  MayRaise,     \* threads an exception may throw out of their wait
  MaxCalls,     \* bound on the calls of acquire
  MaxHeaders    \* bound on the responses whose headers update the bucket

ASSUME PriorityAssumption ==
  /\ Priorities \subseteq Nat
  /\ Asks \subseteq Nat
  /\ Limits \subseteq {-1} \cup 1..MaxCapacity
  /\ Remains \subseteq {-1} \cup 0..MaxCapacity
  /\ MayRaise \subseteq Threads
  /\ MaxCalls \in Nat /\ MaxHeaders \in Nat

VARIABLES
  sequence,   \* the next number of itertools.count
  queue,      \* the markers on the heap, as <<priority, number>>
  pc,         \* where each thread is in acquire
  ticket,     \* the marker of its current or last call
  ask,        \* the tokens that call wants
  due,        \* time left of a wait with a timeout
  notified,   \* waiting threads that notify_all has woken
  headers     \* responses applied so far

vars == <<bucketVars, sequence, queue, pc, ticket, ask, due, notified, headers>>

Marker == Priorities \X (0..MaxCalls)

NoTicket == <<0, 0 - 1>>

Waiting == {t \in Threads : pc[t] \in {"timed", "parked"}}

TypeOK ==
  /\ BucketType
  /\ sequence \in 0..MaxCalls
  /\ queue \subseteq Marker
  /\ pc \in [Threads -> {"idle", "drawn", "timed", "parked"}]
  /\ ticket \in [Threads -> Marker \cup {NoTicket}]
  /\ ask \in [Threads -> Asks \cup {0}]
  /\ due \in [Threads -> Nat]
  /\ notified \subseteq Waiting
  /\ headers \in 0..MaxHeaders

Init ==
  /\ BucketInit
  /\ sequence = 0
  /\ queue = {}
  /\ pc = [t \in Threads |-> "idle"]
  /\ ticket = [t \in Threads |-> NoTicket]
  /\ ask = [t \in Threads |-> 0]
  /\ due = [t \in Threads |-> 0]
  /\ notified = {}
  /\ headers = 0

-----------------------------------------------------------------------------
\* heapq's order on (priority, number).
Before(m, k) == m[1] < k[1] \/ (m[1] = k[1] /\ m[2] < k[2])

AtHead(m, heap) == m \in heap /\ \A k \in heap : k = m \/ Before(m, k)

\* The first line of acquire, outside the lock.
Draw(t, priority, n) ==
  /\ pc[t] = "idle"
  /\ sequence < MaxCalls
  /\ ticket' = [ticket EXCEPT ![t] = <<priority, sequence>>]
  /\ sequence' = sequence + 1
  /\ ask' = [ask EXCEPT ![t] = n]
  /\ pc' = [pc EXCEPT ![t] = "drawn"]
  /\ UNCHANGED <<bucketVars, queue, due, notified, headers>>

\* Bug: the thread that got its tokens leaves without notify_all.
GrantSilent(t, heap) ==
  /\ AtHead(ticket[t], heap)
  /\ ask[t] > 0
  /\ Take(ask[t])
  /\ queue' = heap \ {ticket[t]}
  /\ pc' = [pc EXCEPT ![t] = "idle"]
  /\ notified' = notified \ {t}
  /\ UNCHANGED due

\* The four ends of one pass of the loop with the given heap.
Grant(t, heap) ==
  /\ AtHead(ticket[t], heap)
  /\ ask[t] > 0
  /\ Take(ask[t])
  /\ queue' = heap \ {ticket[t]}
  /\ pc' = [pc EXCEPT ![t] = "idle"]
  /\ notified' = Waiting \ {t}
  /\ UNCHANGED due

Sleep(t, heap) ==
  /\ AtHead(ticket[t], heap)
  /\ ask[t] > 0
  /\ Refuse(ask[t])
  /\ queue' = heap
  /\ pc' = [pc EXCEPT ![t] = "timed"]
  /\ due' = [due EXCEPT ![t] = WaitSeconds(ask[t])]
  /\ notified' = notified \ {t}

Park(t, heap) ==
  /\ ~ AtHead(ticket[t], heap)
  /\ queue' = heap
  /\ pc' = [pc EXCEPT ![t] = "parked"]
  /\ notified' = notified \ {t}
  /\ UNCHANGED <<bucketVars, due>>

\* try_acquire raises on a request for no tokens: the marker stays on the heap.
Reject(t, heap) ==
  /\ AtHead(ticket[t], heap)
  /\ ask[t] = 0
  /\ queue' = heap
  /\ pc' = [pc EXCEPT ![t] = "idle"]
  /\ notified' = notified \ {t}
  /\ UNCHANGED <<bucketVars, due>>

Pass(t, heap) ==
  /\ Grant(t, heap) \/ Sleep(t, heap) \/ Park(t, heap) \/ Reject(t, heap)
  /\ UNCHANGED <<sequence, ticket, ask, headers>>

Enter(t) ==
  /\ pc[t] = "drawn"
  /\ Pass(t, queue \cup {ticket[t]})

\* Bug: the head waits without its timeout.
WakeNotified(t) ==
  /\ t \in notified
  /\ Pass(t, queue)

Wake(t) ==
  /\ \/ t \in notified
     \/ pc[t] = "timed" /\ due[t] = 0
  /\ Pass(t, queue)

\* An exception delivered to the waiting thread leaves its marker behind.
Raise(t) ==
  /\ t \in MayRaise
  /\ t \in Waiting
  /\ pc' = [pc EXCEPT ![t] = "idle"]
  /\ notified' = notified \ {t}
  /\ UNCHANGED <<bucketVars, sequence, queue, ticket, ask, due, headers>>

\* The thread that got an answer from the broker applies its headers to the
\* bucket; the bucket has a lock of its own.
Header(limit, remaining) ==
  /\ headers < MaxHeaders
  /\ UpdateFromHeaders(limit, remaining)
  /\ headers' = headers + 1
  /\ UNCHANGED <<sequence, queue, pc, ticket, ask, due, notified>>

Clock ==
  /\ Elapse
  /\ due' = [t \in Threads |-> IF due[t] = 0 THEN 0 ELSE due[t] - 1]
  /\ UNCHANGED <<sequence, queue, pc, ticket, ask, notified, headers>>

Next ==
  \/ \E t \in Threads :
       \/ \E priority \in Priorities, n \in Asks : Draw(t, priority, n)
       \/ Enter(t)
       \/ Wake(t)
       \/ Raise(t)
  \/ \E limit \in Limits, remaining \in Remains : Header(limit, remaining)
  \/ Clock

\* The interpreter schedules every runnable thread and the monotonic clock runs.
Fairness ==
  /\ \A t \in Threads : WF_vars(Enter(t)) /\ WF_vars(Wake(t))
  /\ WF_vars(Clock)

Spec == Init /\ [][Next]_vars

FairSpec == Spec /\ Fairness

-----------------------------------------------------------------------------
(* Properties                                                              *)

\* No wakeup is lost: the thread whose marker heads the heap never sleeps
\* without a timeout unless notify_all has already woken it.  Priorities may
\* displace a sleeping head at any time (acquire).
NoLostWakeup ==
  \A t \in Threads :
    (pc[t] = "parked" /\ AtHead(ticket[t], queue)) => t \in notified

\* A head that waits with a timeout waits no longer than the bucket needs, so
\* it never sleeps through tokens it could have had (try_acquire's answer).
NoOversleep ==
  \A t \in Threads :
    (pc[t] = "timed" /\ AtHead(ticket[t], queue) /\ headers = 0 /\ due[t] > 0)
      => Level < ask[t]

\* As long as no header has corrected the bucket, it never grants what a bucket
\* of the same size at the broker would refuse (try_acquire).
Conforms == headers = 0 => ideal >= 0

\* A marker whose thread has left its call without popping it.
Orphans == queue \ {ticket[t] : t \in Waiting}

\* A waiting thread asks for more than the bucket holds when it is full.
Oversized == {t \in Waiting : ask[t] > capacity}

\* Every call of acquire returns, as long as calls and header corrections come
\* to an end, no call left its marker behind on the heap and none asks for more
\* than the capacity, which a header may lower under a waiting call (acquire).
EveryCallReturns ==
  \A t \in Threads :
    (pc[t] = "drawn") ~> (pc[t] = "idle" \/ Orphans # {} \/ Oversized # {})
=============================================================================
