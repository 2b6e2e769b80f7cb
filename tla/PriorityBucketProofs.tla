------------------------ MODULE PriorityBucketProofs ------------------------
(***************************************************************************)
(* The priority queue on the shared token bucket never loses a wakeup, for  *)
(* any number of threads, priorities, calls and header corrections, and     *)
(* also when exceptions throw threads out of their wait.                    *)
(***************************************************************************)
EXTENDS PriorityBucket, TLAPS

\* Threads inside a call own different markers, and a waiting thread's marker
\* is on the heap.
MarkerInv ==
  /\ \A t \in Threads : pc[t] # "idle" => ticket[t] \in Marker /\ ticket[t][2] < sequence
  /\ \A t, s \in Threads :
       (t # s /\ pc[t] # "idle" /\ pc[s] # "idle") => ticket[t] # ticket[s]
  /\ \A t \in Waiting : ticket[t] \in queue

QueueInv == TypeOK /\ MarkerInv /\ NoLostWakeup

LEMMA LevelType == BucketType => Level \in 0..MaxCapacity
BY CapacityAssumption DEF BucketType, Level, Least

LEMMA TakeType ==
  ASSUME BucketType, NEW n \in Nat, Take(n)
  PROVE  BucketType'
BY LevelType, CapacityAssumption DEF BucketType, Take

LEMMA RefuseType ==
  ASSUME BucketType, NEW n \in Nat, Refuse(n)
  PROVE  BucketType' /\ WaitSeconds(n) \in Nat
BY LevelType, CapacityAssumption DEF BucketType, Refuse, WaitSeconds

LEMMA HeaderType ==
  ASSUME BucketType, NEW limit \in Limits, NEW remaining \in Remains,
         UpdateFromHeaders(limit, remaining)
  PROVE  BucketType'
<1>1. limit \in {-1} \cup 1..MaxCapacity /\ remaining \in {-1} \cup 0..MaxCapacity
  BY PriorityAssumption
<1>2. QED
  BY <1>1, CapacityAssumption DEF BucketType, UpdateFromHeaders, Least

LEMMA ElapseType == ASSUME BucketType, Elapse PROVE BucketType'
BY CapacityAssumption DEF BucketType, Elapse, Least

LEMMA AskType == ASSUME TypeOK, NEW t \in Threads PROVE ask[t] \in Nat
<1>1. ask[t] \in Asks \/ ask[t] = 0
  BY DEF TypeOK
<1>2. \A n \in Asks : n \in Nat
  BY PriorityAssumption
<1>3. QED
  BY <1>1, <1>2

\* One pass of the loop keeps the types.  The heap is the queue, to which a
\* thread that enters has just added its own marker.
LEMMA PassType ==
  ASSUME TypeOK, NEW t \in Threads, NEW heap \in SUBSET Marker, Pass(t, heap)
  PROVE  TypeOK'
<1>1. ask[t] \in Nat
  BY AskType
<1>2. UNCHANGED <<sequence, ticket, ask, headers>>
  BY DEF Pass
<1>3. CASE Grant(t, heap)
  <2>1. BucketType'
    BY <1>1, <1>3, TakeType DEF Grant, TypeOK
  <2>2. QED
    BY <1>2, <1>3, <2>1 DEF Grant, TypeOK, Waiting
<1>4. CASE Sleep(t, heap)
  <2>1. BucketType' /\ WaitSeconds(ask[t]) \in Nat
    BY <1>1, <1>4, RefuseType DEF Sleep, TypeOK
  <2>2. QED
    BY <1>2, <1>4, <2>1 DEF Sleep, TypeOK, Waiting
<1>5. CASE Park(t, heap)
  <2>1. BucketType'
    BY <1>5 DEF Park, TypeOK, BucketType, bucketVars
  <2>2. QED
    BY <1>2, <1>5, <2>1 DEF Park, TypeOK, Waiting
<1>6. CASE Reject(t, heap)
  <2>1. BucketType'
    BY <1>6 DEF Reject, TypeOK, BucketType, bucketVars
  <2>2. QED
    BY <1>2, <1>6, <2>1 DEF Reject, TypeOK, Waiting
<1>7. QED
  BY <1>3, <1>4, <1>5, <1>6 DEF Pass

\* What one pass does to the markers and to the other threads.
LEMMA PassQueue ==
  ASSUME QueueInv, NEW s \in Threads, pc[s] # "idle",
         NEW heap \in SUBSET Marker, heap = queue \cup {ticket[s]}, Pass(s, heap)
  PROVE  MarkerInv' /\ NoLostWakeup'
<1>1. /\ UNCHANGED <<sequence, ticket>>
      /\ \A t \in Threads : t # s => pc'[t] = pc[t]
      /\ \A t \in Threads : t # s => (t \in Waiting' <=> t \in Waiting)
  BY DEF Pass, Grant, Sleep, Park, Reject, QueueInv, TypeOK, Waiting
<1>2. \A t \in Waiting : t # s => ticket[t] \in queue /\ ticket[t] # ticket[s]
  BY DEF QueueInv, MarkerInv, Waiting
<1>3. Waiting' \subseteq Threads
  BY DEF Waiting
<1>4. MarkerInv'
  <2>1. \A t \in Threads : pc'[t] # "idle" => ticket'[t] \in Marker /\ ticket'[t][2] < sequence'
    BY <1>1 DEF QueueInv, MarkerInv
  <2>2. \A t, u \in Threads :
          (t # u /\ pc'[t] # "idle" /\ pc'[u] # "idle") => ticket'[t] # ticket'[u]
    BY <1>1 DEF QueueInv, MarkerInv
  <2>3. \A t \in Waiting' : ticket'[t] \in queue'
    <3>1. CASE Grant(s, heap)
      BY <1>1, <1>2, <1>3, <3>1 DEF Grant, Waiting, QueueInv, TypeOK
    <3>2. CASE Sleep(s, heap) \/ Park(s, heap) \/ Reject(s, heap)
      BY <1>1, <1>2, <1>3, <3>2 DEF Sleep, Park, Reject
    <3>3. QED
      BY <3>1, <3>2 DEF Pass
  <2>4. QED
    BY <2>1, <2>2, <2>3 DEF MarkerInv
<1>5. NoLostWakeup'
  <2> SUFFICES ASSUME NEW t \in Threads, pc'[t] = "parked", AtHead(ticket'[t], queue')
               PROVE  t \in notified'
    BY DEF NoLostWakeup
  <2>1. CASE Grant(s, heap)
    BY <1>1, <2>1 DEF Grant, Waiting, QueueInv, TypeOK
  <2>2. CASE Sleep(s, heap) \/ Park(s, heap) \/ Reject(s, heap)
    <3>1. queue' = heap /\ notified' = notified \ {s}
      BY <2>2 DEF Sleep, Park, Reject
    <3>2. t # s
      BY <1>1, <2>2, <3>1 DEF Sleep, Park, Reject, QueueInv, TypeOK
    <3>3. AtHead(ticket[t], queue)
      BY <1>1, <1>2, <3>1, <3>2 DEF AtHead, Waiting
    <3>4. QED
      BY <1>1, <3>1, <3>2, <3>3 DEF QueueInv, NoLostWakeup
  <2>3. QED
    BY <2>1, <2>2 DEF Pass
<1>6. QED
  BY <1>4, <1>5

LEMMA QueueStep == QueueInv /\ [Next]_vars => QueueInv'
<1> SUFFICES ASSUME QueueInv, [Next]_vars PROVE QueueInv'
  OBVIOUS
<1>0. TypeOK /\ MarkerInv /\ NoLostWakeup
  BY DEF QueueInv
<1>1. ASSUME NEW t \in Threads, NEW priority \in Priorities, NEW n \in Asks, Draw(t, priority, n)
      PROVE  QueueInv'
  <2>1. <<priority, sequence>> \in Marker /\ sequence \in Nat /\ sequence' \in 0..MaxCalls
    BY <1>0, <1>1, PriorityAssumption DEF Draw, TypeOK, Marker
  <2>2. TypeOK'
    <3>1. BucketType' /\ UNCHANGED <<queue, due, headers>> /\ notified' = notified
      BY <1>0, <1>1 DEF Draw, TypeOK, BucketType, bucketVars
    <3>2. notified' \subseteq Waiting'
      BY <1>0, <1>1, <3>1 DEF Draw, TypeOK, Waiting
    <3>3. QED
      BY <1>0, <1>1, <2>1, <3>1, <3>2 DEF Draw, TypeOK
  <2>3. /\ queue' = queue /\ notified' = notified /\ sequence' = sequence + 1
        /\ pc'[t] = "drawn" /\ ticket'[t] = <<priority, sequence>>
        /\ \A s \in Threads : s # t => pc'[s] = pc[s] /\ ticket'[s] = ticket[s]
    BY <1>0, <1>1 DEF Draw, TypeOK
  <2>4. \A s \in Threads : pc[s] # "idle" =>
          ticket[s] \in Marker /\ ticket[s][2] < sequence /\ ticket[s][2] \in Nat
    BY <1>0 DEF MarkerInv, Marker
  <2>5. MarkerInv'
    <3>1. \A s \in Threads : pc'[s] # "idle" => ticket'[s] \in Marker /\ ticket'[s][2] < sequence'
      BY <2>1, <2>3, <2>4
    <3>2. \A s \in Threads : (s # t /\ pc[s] # "idle") => ticket[s] # <<priority, sequence>>
      BY <2>1, <2>4
    <3>3. \A s, u \in Threads :
            (s # u /\ pc'[s] # "idle" /\ pc'[u] # "idle") => ticket'[s] # ticket'[u]
      BY <1>0, <2>3, <3>2 DEF MarkerInv
    <3>4. \A s \in Waiting' : ticket'[s] \in queue'
      BY <1>0, <2>3 DEF MarkerInv, Waiting
    <3>5. QED
      BY <3>1, <3>3, <3>4 DEF MarkerInv
  <2>6. NoLostWakeup'
    BY <1>0, <2>3 DEF NoLostWakeup
  <2>7. QED
    BY <2>2, <2>5, <2>6 DEF QueueInv
<1>2. ASSUME NEW t \in Threads, Enter(t) PROVE QueueInv'
  <2>1. pc[t] # "idle" /\ Pass(t, queue \cup {ticket[t]})
    BY <1>2 DEF Enter
  <2>2. queue \cup {ticket[t]} \in SUBSET Marker
    BY <1>0, <2>1 DEF TypeOK, MarkerInv
  <2>3. QED
    BY <1>0, <2>1, <2>2, PassType, PassQueue DEF QueueInv
<1>3. ASSUME NEW t \in Threads, Wake(t) PROVE QueueInv'
  <2>1. t \in Waiting /\ Pass(t, queue)
    BY <1>0, <1>3 DEF Wake, TypeOK, Waiting
  <2>2. pc[t] # "idle" /\ queue = queue \cup {ticket[t]} /\ queue \in SUBSET Marker
    BY <1>0, <2>1 DEF TypeOK, MarkerInv, Waiting
  <2>3. QED
    BY <1>0, <2>1, <2>2, PassType, PassQueue DEF QueueInv
<1>4. ASSUME NEW t \in Threads, Raise(t) PROVE QueueInv'
  <2>1. /\ UNCHANGED <<queue, ticket, sequence>> /\ notified' = notified \ {t}
        /\ pc'[t] = "idle" /\ \A s \in Threads : s # t => pc'[s] = pc[s]
    BY <1>0, <1>4 DEF Raise, TypeOK
  <2>2. TypeOK'
    BY <1>0, <1>4 DEF Raise, TypeOK, Waiting, BucketType, bucketVars
  <2>3. MarkerInv'
    BY <1>0, <2>1 DEF MarkerInv, Waiting
  <2>4. NoLostWakeup'
    BY <1>0, <2>1 DEF NoLostWakeup
  <2>5. QED
    BY <2>2, <2>3, <2>4 DEF QueueInv
<1>5. ASSUME NEW limit \in Limits, NEW remaining \in Remains, Header(limit, remaining)
      PROVE  QueueInv'
  <2>1. BucketType'
    BY <1>0, <1>5, HeaderType DEF Header, TypeOK
  <2>2. UNCHANGED <<sequence, queue, pc, ticket, ask, due, notified>> /\ headers' \in 0..MaxHeaders
    BY <1>0, <1>5, PriorityAssumption DEF Header, TypeOK
  <2>3. QED
    BY <1>0, <2>1, <2>2 DEF QueueInv, TypeOK, MarkerInv, NoLostWakeup, Waiting
<1>6. CASE Clock
  <2>1. BucketType'
    BY <1>0, <1>6, ElapseType DEF Clock, TypeOK
  <2>2. due' \in [Threads -> Nat]
    BY <1>0, <1>6 DEF Clock, TypeOK
  <2>3. UNCHANGED <<sequence, queue, pc, ticket, ask, notified, headers>>
    BY <1>6 DEF Clock
  <2>4. QED
    BY <1>0, <2>1, <2>2, <2>3 DEF QueueInv, TypeOK, MarkerInv, NoLostWakeup, Waiting
<1>7. CASE UNCHANGED vars
  BY <1>0, <1>7 DEF QueueInv, TypeOK, MarkerInv, NoLostWakeup, Waiting, BucketType, vars, bucketVars
<1>8. QED
  BY <1>1, <1>2, <1>3, <1>4, <1>5, <1>6, <1>7 DEF Next

\* Every reachable state keeps the types, the ownership of the markers and the
\* guarantee that the head of the heap is never left asleep.
THEOREM QueueInvariant == Spec => []QueueInv
<1>1. Init => QueueInv
  BY CapacityAssumption, PriorityAssumption
     DEF Init, BucketInit, QueueInv, TypeOK, BucketType, MarkerInv, NoLostWakeup, Waiting
<1>2. QED
  BY <1>1, QueueStep, PTL DEF Spec

\* acquire never leaves the head of the heap asleep without a timeout or a
\* notification, whatever the priorities, the calls and the exceptions.
THEOREM WakeupsAreNeverLost == Spec => []NoLostWakeup
<1>1. QueueInv => NoLostWakeup
  BY DEF QueueInv
<1>2. QED
  BY <1>1, QueueInvariant, PTL
-----------------------------------------------------------------------------
(* Conformance                                                             *)

\* Until a header corrects it, the bucket holds exactly what the broker would
\* still grant.
LevelIsIdeal == headers = 0 => ideal = Level

LEMMA PassLevel ==
  ASSUME TypeOK, LevelIsIdeal, NEW t \in Threads, NEW heap, Pass(t, heap)
  PROVE  LevelIsIdeal'
<1>1. headers' = headers
  BY DEF Pass
<1>2. ask[t] \in Nat
  BY AskType
<1>3. Level \in 0..MaxCapacity /\ Level <= capacity /\ capacity \in 1..MaxCapacity
  BY CapacityAssumption DEF TypeOK, BucketType, Level, Least
<1>4. CASE Grant(t, heap)
  BY <1>1, <1>2, <1>3, <1>4, CapacityAssumption
     DEF Grant, Take, LevelIsIdeal, Level, Least
<1>5. CASE Sleep(t, heap)
  BY <1>1, <1>2, <1>3, <1>5, CapacityAssumption
     DEF Sleep, Refuse, LevelIsIdeal, Level, Least
<1>6. CASE Park(t, heap) \/ Reject(t, heap)
  BY <1>1, <1>6 DEF Park, Reject, LevelIsIdeal, Level, bucketVars
<1>7. QED
  BY <1>4, <1>5, <1>6 DEF Pass

LEMMA LevelStep == TypeOK /\ LevelIsIdeal /\ [Next]_vars => LevelIsIdeal'
<1> SUFFICES ASSUME TypeOK, LevelIsIdeal, [Next]_vars PROVE LevelIsIdeal'
  OBVIOUS
<1>1. ASSUME NEW t \in Threads, Enter(t) \/ Wake(t) PROVE LevelIsIdeal'
  BY <1>1, PassLevel DEF Enter, Wake
<1>2. CASE Clock
  BY <1>2, CapacityAssumption
     DEF Clock, Elapse, TypeOK, BucketType, LevelIsIdeal, Level, Least
<1>3. ASSUME NEW limit \in Limits, NEW remaining \in Remains, Header(limit, remaining)
      PROVE  LevelIsIdeal'
  BY <1>3 DEF Header, LevelIsIdeal, TypeOK
<1>4. CASE UNCHANGED <<bucketVars, headers>>
  BY <1>4 DEF LevelIsIdeal, Level, bucketVars
<1>5. QED
  BY <1>1, <1>2, <1>3, <1>4 DEF Next, Draw, Raise, vars

\* The bucket on its own never grants what the broker's bucket would refuse.
THEOREM BucketConforms == Spec => []Conforms
<1>1. Init => LevelIsIdeal
  BY CapacityAssumption DEF Init, BucketInit, LevelIsIdeal, Level, Least
<1>2. QueueInv => TypeOK
  BY DEF QueueInv
<1>3. TypeOK /\ LevelIsIdeal => Conforms
  BY LevelType, CapacityAssumption DEF TypeOK, LevelIsIdeal, Conforms
<1>4. QED
  BY <1>1, <1>2, <1>3, LevelStep, QueueInvariant, PTL DEF Spec

-----------------------------------------------------------------------------
(* Sleep                                                                   *)

\* Until a header corrects the bucket, the rest of a sleep is at most what the
\* bucket still lacks, whether or not the sleeper is still the head.
SleepFits ==
  \A t \in Threads :
    (pc[t] = "timed" /\ headers = 0 /\ due[t] > 0) => due[t] <= ask[t] - Level

\* A pass lowers the level by what it grants and leaves it otherwise.
LEMMA PassLowers ==
  ASSUME TypeOK, NEW t \in Threads, NEW heap, Pass(t, heap)
  PROVE  Level' \in Nat /\ Level' <= Level
<1>1. ask[t] \in Nat
  BY AskType
<1>2. Level \in 0..MaxCapacity /\ Level <= capacity /\ capacity \in 1..MaxCapacity
  BY LevelType, CapacityAssumption DEF TypeOK, BucketType, Level, Least
<1>3. CASE Grant(t, heap)
  BY <1>1, <1>2, <1>3 DEF Grant, Take, Level, Least
<1>4. CASE Sleep(t, heap)
  BY <1>1, <1>2, <1>4 DEF Sleep, Refuse, Level, Least
<1>5. CASE Park(t, heap) \/ Reject(t, heap)
  <2>1. Level' = Level
    BY <1>5 DEF Park, Reject, Level, bucketVars
  <2> QED
    BY <1>2, <2>1
<1> QED
  BY <1>3, <1>4, <1>5 DEF Pass

LEMMA PassSleep ==
  ASSUME TypeOK, SleepFits, NEW s \in Threads, NEW heap, Pass(s, heap)
  PROVE  SleepFits'
<1> SUFFICES ASSUME NEW t \in Threads, pc'[t] = "timed", headers' = 0, due'[t] > 0
             PROVE  due'[t] <= ask'[t] - Level'
  BY DEF SleepFits
<1>1. ask' = ask /\ headers' = headers /\ ask[t] \in Nat /\ due[t] \in Nat
  BY AskType DEF Pass, TypeOK
<1>2. Level \in 0..MaxCapacity /\ Level' \in Nat /\ Level' <= Level
  BY LevelType, PassLowers DEF TypeOK
<1>3. CASE t # s
  <2>1. pc'[t] = pc[t] /\ due'[t] = due[t]
    BY <1>3 DEF Pass, Grant, Sleep, Park, Reject, TypeOK
  <2> QED
    BY <1>1, <1>2, <2>1, CapacityAssumption DEF SleepFits
<1>4. CASE t = s
  <2>1. Sleep(s, heap)
    BY <1>4 DEF Pass, Grant, Park, Reject, TypeOK
  <2>2. due'[t] = ask[t] - Level
    BY <1>4, <2>1 DEF Sleep, WaitSeconds, TypeOK
  <2> QED
    BY <1>1, <1>2, <2>2, CapacityAssumption
<1> QED
  BY <1>3, <1>4

LEMMA SleepStep == TypeOK /\ SleepFits /\ [Next]_vars => SleepFits'
<1> SUFFICES ASSUME TypeOK, SleepFits, [Next]_vars PROVE SleepFits'
  OBVIOUS
<1>1. ASSUME NEW t \in Threads, Enter(t) \/ Wake(t) PROVE SleepFits'
  BY <1>1, PassSleep DEF Enter, Wake
<1>2. CASE Clock
  <2> SUFFICES ASSUME NEW t \in Threads, pc'[t] = "timed", headers' = 0, due'[t] > 0
               PROVE  due'[t] <= ask'[t] - Level'
    BY DEF SleepFits
  <2>1. UNCHANGED <<pc, ask, headers>> /\ ask[t] \in Nat /\ due[t] \in Nat
    BY <1>2, AskType DEF Clock, TypeOK
  <2>2. due[t] > 0 /\ due'[t] = due[t] - 1
    BY <1>2, <2>1 DEF Clock
  <2>3. Level \in Nat /\ Level' \in Nat /\ Level' <= Level + 1
    BY <1>2, CapacityAssumption DEF Clock, Elapse, TypeOK, BucketType, Level, Least
  <2> QED
    BY <2>1, <2>2, <2>3 DEF SleepFits
<1>3. ASSUME NEW limit \in Limits, NEW remaining \in Remains, Header(limit, remaining)
      PROVE  SleepFits'
  BY <1>3 DEF Header, SleepFits, TypeOK
<1>4. ASSUME NEW t \in Threads, NEW priority \in Priorities, NEW n \in Asks, Draw(t, priority, n)
      PROVE  SleepFits'
  <2>1. Level' = Level /\ UNCHANGED <<due, headers>>
    BY <1>4 DEF Draw, Level, bucketVars
  <2>2. \A s \in Threads : pc'[s] = "timed" => pc[s] = "timed" /\ ask'[s] = ask[s]
    BY <1>4 DEF Draw, TypeOK
  <2> QED
    BY <2>1, <2>2 DEF SleepFits
<1>5. ASSUME NEW t \in Threads, Raise(t) PROVE SleepFits'
  <2>1. Level' = Level /\ UNCHANGED <<due, headers, ask>>
    BY <1>5 DEF Raise, Level, bucketVars
  <2>2. \A s \in Threads : pc'[s] = "timed" => pc[s] = "timed"
    BY <1>5 DEF Raise, TypeOK
  <2> QED
    BY <2>1, <2>2 DEF SleepFits
<1>6. CASE UNCHANGED vars
  <2>1. Level' = Level /\ UNCHANGED <<due, headers, ask, pc>>
    BY <1>6 DEF vars, Level, bucketVars
  <2> QED
    BY <2>1 DEF SleepFits
<1> QED
  BY <1>1, <1>2, <1>3, <1>4, <1>5, <1>6 DEF Next

\* A thread never sleeps on when the bucket already holds what it asked for, as
\* long as no header has corrected the bucket: whatever the other threads take
\* meanwhile, the wait that try_acquire computed stays short enough.
THEOREM SleepersAreNotLate == Spec => []NoOversleep
<1>1. Init => SleepFits
  BY DEF Init, SleepFits
<1>2. QueueInv => TypeOK
  BY DEF QueueInv
<1>3. TypeOK /\ SleepFits => NoOversleep
  <2> SUFFICES ASSUME TypeOK, SleepFits, NEW t \in Threads, pc[t] = "timed", headers = 0, due[t] > 0
               PROVE  Level < ask[t]
    BY DEF NoOversleep
  <2>1. ask[t] \in Nat /\ due[t] \in Nat /\ Level \in 0..MaxCapacity
    BY AskType, LevelType DEF TypeOK
  <2> QED
    BY <2>1, CapacityAssumption DEF SleepFits
<1> QED
  BY <1>1, <1>2, <1>3, QueueInvariant, SleepStep, PTL DEF Spec
=============================================================================
