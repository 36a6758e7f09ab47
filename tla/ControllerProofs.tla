-------------------------- MODULE ControllerProofs --------------------------
(****************************************************************************)
(* Leader and Controller: type correctness, that no two workers, of one     *)
(* operator or of two, ever hold the same cluster, and that no operator     *)
(* forgets a change before a pass that starts after it has succeeded.       *)
(****************************************************************************)
EXTENDS Controller, TLAPS

\* A queue holds no key twice.
Distinct(s) == \A i, j \in DOMAIN s : s[i] = s[j] => i = j

\* A leader holds the lease, and a candidate that waits for it has not waited longer than
\* the leader has gone without renewing it.
LeaderInv ==
  /\ \A p \in Operators : leading[p] => up[p] /\ holder = p
  /\ \A p, q \in Operators :
       leading[p] /\ p # q /\ up[q] /\ ~ leading[q] /\ ~ news[q] => age[q] <= since[p]

\* Only a leader's workers have keys.
JobInv ==
  \A p \in Operators, w \in Workers :
    job[p][w] # Idle => leading[p] /\ job[p][w].key \in Clusters

\* Two workers of an operator have different keys, and what is queued no worker has.
QueueInv ==
  \A p \in Operators :
    /\ \A v, w \in Workers : v # w /\ job[p][v] # Idle => job[p][v].key # job[p][w].key
    /\ Distinct(queue[p])
    /\ \A i \in DOMAIN queue[p] : \A w \in Workers : queue[p][i] # job[p][w].key

IInv == TypeOK /\ LeaderInv /\ JobInv /\ QueueInv
-----------------------------------------------------------------------------
(* Sequences without repetition. *)

\* Appending a new element keeps a sequence free of repetition.
LEMMA AppendDistinct ==
  ASSUME NEW S, NEW s \in Seq(S), NEW e \in S, Distinct(s), \A i \in DOMAIN s : s[i] # e
  PROVE  /\ Append(s, e) \in Seq(S) /\ Distinct(Append(s, e))
         /\ \A i \in DOMAIN Append(s, e) :
              Append(s, e)[i] = e \/ \E j \in DOMAIN s : Append(s, e)[i] = s[j]
<1>1. /\ Append(s, e) \in Seq(S) /\ DOMAIN Append(s, e) = 1..(Len(s) + 1)
      /\ DOMAIN s = 1..Len(s) /\ Len(s) \in Nat
  OBVIOUS
<1>2. \A i \in 1..(Len(s) + 1) : Append(s, e)[i] = IF i = Len(s) + 1 THEN e ELSE s[i]
  OBVIOUS
<1>3. \A i \in 1..(Len(s) + 1) : i # Len(s) + 1 => i \in 1..Len(s)
  BY <1>1
<1> QED
  BY <1>1, <1>2, <1>3 DEF Distinct

\* The elements of a sequence are in its set.
LEMMA ElementOf ==
  ASSUME NEW S, NEW s \in Seq(S), NEW i \in DOMAIN s
  PROVE  s[i] \in S
  OBVIOUS

\* The empty sequence has no repetition.
LEMMA EmptyDistinct == DOMAIN <<>> = {} /\ Distinct(<<>>)
<1>1. DOMAIN <<>> = {} OBVIOUS
<1> QED BY <1>1 DEF Distinct

\* The head of a sequence without repetition is not in its tail.
LEMMA TailDistinct ==
  ASSUME NEW S, NEW s \in Seq(S), s # <<>>, Distinct(s)
  PROVE  /\ Head(s) \in S /\ Tail(s) \in Seq(S) /\ Distinct(Tail(s))
         /\ \A i \in DOMAIN Tail(s) :
              Tail(s)[i] # Head(s) /\ \E j \in DOMAIN s : Tail(s)[i] = s[j]
         /\ \E j \in DOMAIN s : Head(s) = s[j]
<1>1. /\ Tail(s) \in Seq(S) /\ DOMAIN Tail(s) = 1..(Len(s) - 1)
      /\ DOMAIN s = 1..Len(s) /\ Len(s) \in Nat /\ Len(s) > 0
      /\ Head(s) = s[1] /\ Head(s) \in S
  OBVIOUS
<1>2. \A i \in 1..(Len(s) - 1) : Tail(s)[i] = s[i + 1]
  OBVIOUS
<1>3. \A i \in 1..(Len(s) - 1) : i + 1 \in 1..Len(s) /\ i + 1 # 1 /\ i \in Nat
  BY <1>1
<1>4. 1 \in 1..Len(s)
  BY <1>1
<1>5. \A i, j \in 1..(Len(s) - 1) : i + 1 = j + 1 => i = j
  OBVIOUS
<1>6. Distinct(Tail(s))
  BY <1>1, <1>2, <1>3, <1>5 DEF Distinct
<1> QED
  BY <1>1, <1>2, <1>3, <1>4, <1>6 DEF Distinct
-----------------------------------------------------------------------------
(* The lease. *)

\* Every step of a process or of the clock keeps the types and the invariant of the lease.
LEMMA LeaseStep ==
  ASSUME LeaderType, LeaderInv, NEW p \in Operators,
         Acquire(p) \/ Observe(p) \/ RenewLease(p) \/ Stop(p) \/ StartProcess(p) \/ Tick
  PROVE  LeaderType' /\ LeaderInv'
<1> USE LeaderAssumption DEF LeaderAssumption, LeaderType, LeaderInv
<1>1. CASE Acquire(p)
  <2>1. \A q \in Operators : q # p => ~ leading[q]
    BY <1>1 DEF Acquire
  <2> QED BY <1>1, <2>1 DEF Acquire, Write
<1>2. CASE Observe(p) BY <1>2 DEF Observe
<1>3. CASE RenewLease(p) BY <1>3 DEF RenewLease, Write
<1>4. CASE Stop(p) BY <1>4 DEF Stop
<1>5. CASE StartProcess(p) BY <1>5 DEF StartProcess
<1>6. CASE Tick
  <2>1. \A q \in Operators : leading[q] => since[q] + 1 \in 0..Renew /\ since[q] \in 0..Renew
    BY <1>6 DEF Tick
  <2>2. \A q \in Operators : age[q] < Lease => age[q] + 1 \in 0..Lease
    OBVIOUS
  <2>3. LeaderType'
    BY <1>6, <2>1, <2>2 DEF Tick
  <2>4. LeaderInv'
    BY <1>6, <2>1, <2>2 DEF Tick
  <2> QED BY <2>3, <2>4
<1> QED BY <1>1, <1>2, <1>3, <1>4, <1>5, <1>6
-----------------------------------------------------------------------------
(* The work queue. *)

\* The idle job is a job, with a key no cluster has.
LEMMA IdleJob ==
  /\ Idle \in Jobs /\ Idle.key = "" /\ Idle.step = "idle" /\ "" \notin Clusters
  BY ControllerAssumption DEF ControllerAssumption, Idle, Jobs

\* A key is with a worker exactly if it is the key of a job that is not idle.
LEMMA ProcessingIs ==
  ASSUME WorkType, JobInv, NEW p \in Operators, NEW k \in Clusters
  PROVE  k \in Processing(p) <=> \E w \in Workers : job[p][w] # Idle /\ job[p][w].key = k
  BY IdleJob DEF Processing, JobInv

\* Adding a key keeps the queue free of repetition and of keys that workers have.
LEMMA AddKeeps ==
  ASSUME WorkType, JobInv, QueueInv, NEW p \in Operators, NEW K \in SUBSET Clusters,
         \A a, b \in K : a = b, Add(p, K), UNCHANGED <<job, leading>>,
         backoff' \in [Operators -> SUBSET Clusters]
  PROVE  WorkType' /\ JobInv' /\ QueueInv'
<1>2. JobInv'
  BY DEF JobInv
<1>3. redo' \in [Operators -> SUBSET Clusters]
  BY DEF Add, WorkType
<1>4. CASE K \subseteq Processing(p) \cup Queued(p)
  <2>1. queue' = queue
    BY <1>4 DEF Add, WorkType
  <2> QED
    BY <1>2, <1>3, <2>1 DEF WorkType, QueueInv
<1>5. CASE ~ (K \subseteq Processing(p) \cup Queued(p))
  <2> DEFINE k == CHOOSE k \in K : TRUE
  <2>1. k \in K /\ k \in Clusters /\ k \notin Processing(p) /\ k \notin Queued(p)
    BY <1>5
  <2>2. queue' = [queue EXCEPT ![p] = Append(@, k)]
    BY <1>5 DEF Add
  <2> HIDE DEF k
  <2>3. \A i \in DOMAIN queue[p] : queue[p][i] # k
    BY <2>1 DEF Queued
  <2>4. queue[p] \in Seq(Clusters) /\ Distinct(queue[p])
    BY DEF WorkType, QueueInv
  <2>5. /\ Append(queue[p], k) \in Seq(Clusters) /\ Distinct(Append(queue[p], k))
        /\ \A i \in DOMAIN Append(queue[p], k) : Append(queue[p], k)[i] = k
              \/ \E j \in DOMAIN queue[p] : Append(queue[p], k)[i] = queue[p][j]
    BY <2>1, <2>3, <2>4, AppendDistinct
  <2>6. WorkType'
    BY <1>3, <2>2, <2>5 DEF WorkType
  <2>7. \A q \in Operators : queue'[q] = IF q = p THEN Append(queue[p], k) ELSE queue[q]
    BY <2>2 DEF WorkType
  <2>8. \A w \in Workers : job[p][w].key # k
    BY <2>1, IdleJob DEF Processing
  <2>9. ASSUME NEW q \in Operators
        PROVE  /\ Distinct(queue'[q])
               /\ \A i \in DOMAIN queue'[q] : \A w \in Workers : queue'[q][i] # job[q][w].key
    <3>1. CASE q = p
      <4>1. queue'[q] = Append(queue[p], k) BY <2>7, <3>1
      <4>2. ASSUME NEW i \in DOMAIN Append(queue[p], k), NEW w \in Workers
            PROVE  Append(queue[p], k)[i] # job[p][w].key
        <5>1. CASE Append(queue[p], k)[i] = k BY <2>8, <5>1
        <5>2. CASE \E j \in DOMAIN queue[p] : Append(queue[p], k)[i] = queue[p][j]
          BY <5>2 DEF QueueInv
        <5> QED BY <2>5, <5>1, <5>2
      <4> QED BY <2>5, <3>1, <4>1, <4>2
    <3>2. CASE q # p
      BY <3>2, <2>7 DEF QueueInv
    <3> QED BY <3>1, <3>2
  <2>10. QueueInv'
    BY <2>9 DEF QueueInv
  <2> QED BY <1>2, <2>6, <2>10
<1> QED BY <1>4, <1>5

\* A worker that has finished gives its key back, to the queue if it was added meanwhile.
LEMMA DoneKeeps ==
  ASSUME WorkType, JobInv, QueueInv, NEW p \in Operators, NEW w \in Workers, NEW ok \in BOOLEAN,
         job[p][w] # Idle, Done(p, w, ok), UNCHANGED leading
  PROVE  WorkType' /\ JobInv' /\ QueueInv'
<1> DEFINE k == job[p][w].key
<1>1. k \in Clusters
  BY DEF JobInv
<1>2. /\ job' = [job EXCEPT ![p][w] = Idle]
      /\ backoff' = [backoff EXCEPT ![p] = IF ok THEN @ ELSE @ \cup {k}]
      /\ redo' = [redo EXCEPT ![p] = @ \ {k}]
      /\ queue' = [queue EXCEPT ![p] = IF k \in redo[p] THEN Append(@, k) ELSE @]
  BY DEF Done
<1>3. \A v \in Workers : v # w => job[p][v].key # k
  BY DEF QueueInv
<1>4. queue[p] \in Seq(Clusters) /\ Distinct(queue[p]) /\ \A i \in DOMAIN queue[p] : queue[p][i] # k
  BY DEF WorkType, QueueInv
<1> HIDE DEF k
<1>5. /\ queue'[p] \in Seq(Clusters) /\ Distinct(queue'[p])
      /\ \A i \in DOMAIN queue'[p] :
           queue'[p][i] = k \/ \E j \in DOMAIN queue[p] : queue'[p][i] = queue[p][j]
  <2>1. CASE k \in redo[p]
    BY <1>1, <1>2, <1>4, <2>1, AppendDistinct DEF WorkType
  <2>2. CASE k \notin redo[p]
    BY <1>2, <1>4, <2>2 DEF WorkType
  <2> QED BY <2>1, <2>2
<1>6. WorkType'
  <2>1. job' \in [Operators -> [Workers -> Jobs]]
    BY <1>2, IdleJob DEF WorkType
  <2>2. backoff' \in [Operators -> SUBSET Clusters] /\ redo' \in [Operators -> SUBSET Clusters]
    BY <1>1, <1>2 DEF WorkType
  <2>3. queue' \in [Operators -> Seq(Clusters)]
    BY <1>2, <1>5 DEF WorkType
  <2> QED BY <2>1, <2>2, <2>3 DEF WorkType
<1>7. \A q \in Operators, v \in Workers :
        job'[q][v] = IF q = p /\ v = w THEN Idle ELSE job[q][v]
  BY <1>2 DEF WorkType
<1>8. JobInv'
  BY <1>7 DEF JobInv
<1>9. \A v \in Workers : job'[p][v].key # k
  BY <1>1, <1>3, <1>7, IdleJob
<1>10. \A q \in Operators, v \in Workers : job'[q][v].key \in {"", job[q][v].key}
  BY <1>7, IdleJob
<1>11. \A q \in Operators : q # p => queue'[q] = queue[q]
  BY <1>2 DEF WorkType
<1>12. ASSUME NEW q \in Operators
       PROVE  /\ Distinct(queue'[q])
              /\ \A i \in DOMAIN queue'[q] : \A v \in Workers : queue'[q][i] # job'[q][v].key
  <2>1. ASSUME NEW i \in DOMAIN queue[q], NEW v \in Workers
        PROVE  queue[q][i] # job'[q][v].key
    <3>1. queue[q][i] \in Clusters
      BY ElementOf DEF WorkType
    <3>2. queue[q][i] # job[q][v].key
      BY DEF QueueInv
    <3> QED BY <1>10, <3>1, <3>2, IdleJob
  <2>2. CASE q = p
    <3>1. ASSUME NEW i \in DOMAIN queue'[p], NEW v \in Workers
          PROVE  queue'[p][i] # job'[p][v].key
      <4>1. CASE queue'[p][i] = k BY <1>9, <4>1
      <4>2. CASE \E l \in DOMAIN queue[p] : queue'[p][i] = queue[p][l]
        BY <2>1, <2>2, <4>2
      <4> QED BY <1>5, <4>1, <4>2
    <3> QED BY <1>5, <2>2, <3>1
  <2>3. CASE q # p
    BY <1>11, <1>12, <2>1, <2>3 DEF QueueInv
  <2> QED BY <2>2, <2>3
<1>13. ASSUME NEW q \in Operators, NEW v \in Workers, NEW u \in Workers,
              v # u, job'[q][v] # Idle
       PROVE  job'[q][v].key # job'[q][u].key
  <2>1. job'[q][v] = job[q][v] /\ job[q][v] # Idle /\ job[q][v].key \in Clusters
    BY <1>7, <1>13 DEF JobInv
  <2>2. job[q][v].key # job[q][u].key
    BY <1>13, <2>1 DEF QueueInv
  <2> QED BY <1>10, <2>1, <2>2, IdleJob
<1> QED
  BY <1>6, <1>8, <1>12, <1>13 DEF QueueInv

\* A worker that goes on to its next step keeps its key.
LEMMA StepKeeps ==
  ASSUME WorkType, JobInv, QueueInv, NEW p \in Operators, NEW w \in Workers, NEW j \in Jobs,
         job[p][w] # Idle, j # Idle, j.key = job[p][w].key,
         job' = [job EXCEPT ![p][w] = j], UNCHANGED <<queue, redo, backoff, leading>>
  PROVE  WorkType' /\ JobInv' /\ QueueInv'
<1>1. \A q \in Operators, v \in Workers :
        job'[q][v] = IF q = p /\ v = w THEN j ELSE job[q][v]
  BY DEF WorkType
<1>2. WorkType'
  BY DEF WorkType
<1>3. \A q \in Operators, v \in Workers :
        job'[q][v].key = job[q][v].key /\ (job'[q][v] = Idle <=> job[q][v] = Idle)
  BY <1>1
<1>4. JobInv'
  BY <1>3 DEF JobInv
<1>5. QueueInv'
  BY <1>3 DEF QueueInv
<1> QED BY <1>2, <1>4, <1>5

\* A worker takes the first key of the queue.
LEMMA TakeKeeps ==
  ASSUME WorkType, JobInv, QueueInv, NEW p \in Operators, NEW w \in Workers,
         processNextWorkItem(p, w)
  PROVE  WorkType' /\ JobInv' /\ QueueInv'
<1> DEFINE k == Head(queue[p])
           j == [Idle EXCEPT !.key = k, !.step = "get"]
<1>1. /\ leading[p] /\ leading' = leading /\ job[p][w] = Idle
      /\ job' = [job EXCEPT ![p][w] = j] /\ queue' = [queue EXCEPT ![p] = Tail(@)]
      /\ UNCHANGED <<redo, backoff>>
  BY DEF processNextWorkItem, leaderVars
<1>2. queue[p] \in Seq(Clusters) /\ Distinct(queue[p]) /\ queue[p] # <<>>
  BY DEF WorkType, QueueInv, processNextWorkItem
<1>3. /\ k \in Clusters /\ Tail(queue[p]) \in Seq(Clusters) /\ Distinct(Tail(queue[p]))
      /\ \A i \in DOMAIN Tail(queue[p]) : Tail(queue[p])[i] # k
           /\ \E l \in DOMAIN queue[p] : Tail(queue[p])[i] = queue[p][l]
      /\ \E l \in DOMAIN queue[p] : k = queue[p][l]
  BY <1>2, TailDistinct
<1>4. \A v \in Workers : job[p][v].key # k
  BY <1>3 DEF QueueInv
<1> HIDE DEF k
<1>5. j \in Jobs /\ j.key = k /\ j # Idle
  BY <1>3 DEF Jobs, Idle
<1> HIDE DEF j
<1>6. \A q \in Operators, v \in Workers :
        job'[q][v] = IF q = p /\ v = w THEN j ELSE job[q][v]
  BY <1>1 DEF WorkType
<1>7. \A q \in Operators : queue'[q] = IF q = p THEN Tail(queue[p]) ELSE queue[q]
  BY <1>1 DEF WorkType
<1>8. WorkType'
  BY <1>1, <1>3, <1>5 DEF WorkType
<1>9. JobInv'
  BY <1>1, <1>3, <1>5, <1>6 DEF JobInv
<1>10. \A q \in Operators : \A v, u \in Workers :
         v # u /\ job'[q][v] # Idle => job'[q][v].key # job'[q][u].key
  BY <1>4, <1>5, <1>6 DEF QueueInv
<1>11. ASSUME NEW q \in Operators
       PROVE  /\ Distinct(queue'[q])
              /\ \A i \in DOMAIN queue'[q] : \A v \in Workers : queue'[q][i] # job'[q][v].key
  <2>1. CASE q = p
    <3>1. queue'[q] = Tail(queue[p]) BY <1>7, <2>1
    <3>2. ASSUME NEW i \in DOMAIN Tail(queue[p]), NEW v \in Workers
          PROVE  Tail(queue[p])[i] # job'[p][v].key
      <4>1. CASE v = w BY <1>3, <1>5, <1>6, <4>1
      <4>2. CASE v # w BY <1>3, <1>6, <4>2 DEF QueueInv
      <4> QED BY <4>1, <4>2
    <3> QED BY <1>3, <2>1, <3>1, <3>2
  <2>2. CASE q # p
    BY <1>6, <1>7, <2>2 DEF QueueInv
  <2> QED BY <2>1, <2>2
<1> QED
  BY <1>8, <1>9, <1>10, <1>11 DEF QueueInv

\* A process that dies takes its queue and its jobs along.
LEMMA ForgottenKeeps ==
  ASSUME WorkType, JobInv, QueueInv, InformerType, LeaderType, NEW p \in Operators, Forgotten(p),
         leading' = [leading EXCEPT ![p] = FALSE]
  PROVE  WorkType' /\ JobInv' /\ QueueInv' /\ InformerType'
<1>1. \A q \in Operators :
        /\ queue'[q] = IF q = p THEN <<>> ELSE queue[q]
        /\ job'[q] = IF q = p THEN [w \in Workers |-> Idle] ELSE job[q]
        /\ leading'[q] = IF q = p THEN FALSE ELSE leading[q]
  BY DEF Forgotten, WorkType, LeaderType
<1>2. WorkType'
  <2>1. <<>> \in Seq(Clusters) OBVIOUS
  <2>2. queue' \in [Operators -> Seq(Clusters)]
    BY <2>1 DEF WorkType, Forgotten
  <2>3. job' \in [Operators -> [Workers -> Jobs]]
    BY IdleJob DEF WorkType, Forgotten
  <2>4. redo' \in [Operators -> SUBSET Clusters] /\ backoff' \in [Operators -> SUBSET Clusters]
    BY DEF WorkType, Forgotten
  <2> QED BY <2>2, <2>3, <2>4 DEF WorkType
<1>3. InformerType'
  BY DEF InformerType, Forgotten, Absent, Unknown
<1>4. \A w \in Workers : job'[p][w] = Idle
  BY <1>1
<1>5. JobInv'
  BY <1>1, <1>4 DEF JobInv
<1>6. Distinct(queue'[p]) /\ DOMAIN queue'[p] = {}
  BY <1>1, EmptyDistinct
<1>7. ASSUME NEW q \in Operators
      PROVE  /\ \A v, w \in Workers : v # w /\ job'[q][v] # Idle => job'[q][v].key # job'[q][w].key
             /\ Distinct(queue'[q])
             /\ \A i \in DOMAIN queue'[q] : \A w \in Workers : queue'[q][i] # job'[q][w].key
  <2>1. CASE q = p
    <3>1. \A v \in Workers : job'[q][v] = Idle BY <1>4, <2>1
    <3>2. Distinct(queue'[q]) /\ DOMAIN queue'[q] = {} BY <1>6, <2>1
    <3> QED BY <3>1, <3>2
  <2>2. CASE q # p
    <3>1. queue'[q] = queue[q] /\ job'[q] = job[q] BY <1>1, <2>2
    <3> QED BY <3>1 DEF QueueInv
  <2> QED BY <2>1, <2>2
<1> QED BY <1>2, <1>3, <1>5, <1>7 DEF QueueInv
-----------------------------------------------------------------------------
(* The steps. *)

\* What the environment spends it has left.
LEMMA Spent ==
  ASSUME left \in [Budget -> Nat], Change \/ Trouble
  PROVE  left' \in [Budget -> Nat]
<1> USE DEF Budget
<1>1. CASE Change
  <2>1. left["changes"] - 1 \in Nat BY <1>1 DEF Change
  <2> QED BY <1>1, <2>1 DEF Change
<1>2. CASE Trouble
  <2>1. left["troubles"] - 1 \in Nat BY <1>2 DEF Trouble
  <2> QED BY <1>2, <2>1 DEF Trouble
<1> QED BY <1>1, <1>2

\* The initial states satisfy the inductive invariant.
LEMMA InitIInv == Init => IInv
<1> SUFFICES ASSUME Init PROVE IInv OBVIOUS
<1>1. LeaderType /\ LeaderInv
  BY LeaderAssumption DEF LeaderAssumption, Init, LeaderInit, LeaderType, LeaderInv
<1>2. StoreType /\ InformerType
  BY DEF Init, StoreType, InformerType, Absent, Unknown
<1>3. left \in [Budget -> Nat]
  <2>1. MaxChanges \in Nat /\ MaxTroubles \in Nat
    BY ControllerAssumption DEF ControllerAssumption
  <2>2. left = [changes |-> MaxChanges, troubles |-> MaxTroubles]
    BY DEF Init
  <2> QED BY <2>1, <2>2 DEF Budget
<1>4. WorkType
  <2>1. <<>> \in Seq(Clusters) OBVIOUS
  <2> QED BY <2>1, IdleJob DEF Init, WorkType
<1>5. JobInv
  BY DEF Init, JobInv
<1>6. QueueInv
  BY EmptyDistinct DEF Init, QueueInv
<1> QED BY <1>1, <1>2, <1>3, <1>4, <1>5, <1>6 DEF IInv, TypeOK

\* The handlers and the queue's timer keep it.
LEMMA EventsKeep ==
  ASSUME IInv, NEW p \in Operators, ClusterEvent(p) \/ DeploymentEvent(p) \/ Resync(p) \/ AddAfter(p)
  PROVE  IInv'
<1> USE DEF IInv, TypeOK
<1>1. ASSUME NEW K \in SUBSET Clusters, \A a, b \in K : a = b, Add(p, K),
             UNCHANGED <<leaderVars, store, job, synced>>, InformerType',
             backoff' \in [Operators -> SUBSET Clusters], left' \in [Budget -> Nat]
      PROVE  IInv'
  <2>1. WorkType' /\ JobInv' /\ QueueInv'
    BY <1>1, AddKeeps DEF leaderVars
  <2>2. LeaderType' /\ LeaderInv'
    BY <1>1 DEF leaderVars, LeaderType, LeaderInv
  <2>3. StoreType'
    BY <1>1 DEF store, StoreType
  <2> QED BY <1>1, <2>1, <2>2, <2>3
<1>2. CASE ClusterEvent(p)
  <2>1. PICK c \in Clusters :
          /\ known' = [known EXCEPT ![p][c] = [uid |-> cluster[c].uid, rv |-> cluster[c].rv]]
          /\ initial' = [initial EXCEPT ![p] = @ \ {c}] /\ Add(p, {c})
          /\ UNCHANGED <<leaderVars, store, knownD, backoff, job, synced, left>>
    BY <1>2 DEF ClusterEvent, enqueueCluster
  <2>2. InformerType'
    BY <2>1 DEF InformerType, StoreType
  <2> QED BY <1>1, <2>1, <2>2 DEF WorkType
<1>3. CASE DeploymentEvent(p)
  <2>1. PICK d \in Deployments :
          /\ knownD' = [knownD EXCEPT ![p][d] =
                          [exists |-> deploy[d].exists, rv |-> deploy[d].rv]]
          /\ Add(p, resolveOnecloudClusterFromDeployment(p, d))
          /\ UNCHANGED <<leaderVars, store, known, initial, backoff, job, synced, left>>
    BY <1>3 DEF DeploymentEvent
  <2>2. InformerType'
    BY <2>1 DEF InformerType, StoreType
  <2>3. /\ resolveOnecloudClusterFromDeployment(p, d) \in SUBSET Clusters
        /\ \A a, b \in resolveOnecloudClusterFromDeployment(p, d) : a = b
    BY ControllerAssumption DEF ControllerAssumption, resolveOnecloudClusterFromDeployment
  <2> QED BY <1>1, <2>1, <2>2, <2>3 DEF WorkType
<1>4. CASE Resync(p)
  <2>1. PICK c \in Clusters : /\ Add(p, {c}) /\ Trouble
                              /\ UNCHANGED <<leaderVars, store, informers, backoff, job, synced>>
    BY <1>4 DEF Resync, enqueueCluster
  <2>2. InformerType' /\ left' \in [Budget -> Nat]
    BY <2>1, Spent DEF informers, InformerType
  <2> QED BY <1>1, <2>1, <2>2 DEF WorkType
<1>5. CASE AddAfter(p)
  <2>1. PICK k \in backoff[p] : /\ Add(p, {k}) /\ backoff' = [backoff EXCEPT ![p] = @ \ {k}]
                                /\ UNCHANGED <<leaderVars, store, informers, job, synced, left>>
    BY <1>5 DEF AddAfter
  <2>2. k \in Clusters /\ backoff' \in [Operators -> SUBSET Clusters]
    BY <2>1 DEF WorkType
  <2>3. InformerType'
    BY <2>1 DEF informers, InformerType
  <2> QED BY <1>1, <2>1, <2>2, <2>3
<1> QED BY <1>2, <1>3, <1>4, <1>5

\* The workers keep it.
LEMMA WorkersKeep ==
  ASSUME IInv, NEW p \in Operators, NEW w \in Workers, Worker(p, w) \/ SyncFails(p, w)
  PROVE  IInv'
<1> USE DEF IInv, TypeOK
<1>1. ASSUME WorkType', JobInv', QueueInv', StoreType', left' \in [Budget -> Nat],
             UNCHANGED <<leaderVars, informers>>
      PROVE  IInv'
  BY <1>1 DEF leaderVars, informers, LeaderType, LeaderInv, InformerType
<1>2. ASSUME job[p][w].step # "idle"
      PROVE  job[p][w] # Idle /\ job[p][w].key \in Clusters /\ job[p][w] \in Jobs
  BY <1>2, IdleJob DEF JobInv, WorkType
<1>3. CASE processNextWorkItem(p, w)
  <2>1. WorkType' /\ JobInv' /\ QueueInv'
    BY <1>3, TakeKeeps
  <2>2. UNCHANGED <<leaderVars, informers, store, synced, left>>
    BY <1>3 DEF processNextWorkItem
  <2> QED BY <1>1, <2>1, <2>2 DEF store, StoreType
<1>4. CASE SyncFails(p, w)
  <2>1. Done(p, w, FALSE) /\ job[p][w] # Idle /\ UNCHANGED <<leaderVars, store, informers, synced>>
    BY <1>4 DEF SyncFails
  <2>2. WorkType' /\ JobInv' /\ QueueInv'
    BY <2>1, DoneKeeps DEF leaderVars
  <2>3. left' \in [Budget -> Nat]
    BY <1>4, Spent DEF SyncFails
  <2> QED BY <1>1, <2>1, <2>2, <2>3 DEF store, StoreType
<1>5. CASE syncGet(p, w)
  <2> DEFINE c == job[p][w].key
  <2>1. /\ job[p][w] # Idle /\ c \in Clusters /\ job[p][w] \in Jobs
        /\ UNCHANGED <<leaderVars, store, informers, left>>
    BY <1>2, <1>5 DEF syncGet
  <2>2. CASE cluster[c].uid = 0
    <3>1. Done(p, w, TRUE) /\ synced' = [synced EXCEPT ![c] = now]
      BY <1>5, <2>2 DEF syncGet
    <3>2. WorkType' /\ JobInv' /\ QueueInv'
      BY <2>1, <3>1, DoneKeeps DEF leaderVars
    <3>3. StoreType'
      BY <2>1, <3>1 DEF store, StoreType
    <3> QED BY <1>1, <2>1, <3>2, <3>3
  <2>3. CASE cluster[c].uid # 0
    <3> DEFINE j == [job[p][w] EXCEPT !.step = "update", !.rv = cluster[c].rv, !.began = now]
    <3>1. job' = [job EXCEPT ![p][w] = j] /\ UNCHANGED <<queue, redo, backoff, synced>>
      BY <1>5, <2>3 DEF syncGet
    <3>2. j \in Jobs /\ j.key = job[p][w].key /\ j.step = "update"
      BY <2>1 DEF Jobs, StoreType
    <3>3. j # Idle
      BY <3>2, IdleJob
    <3> HIDE DEF j
    <3>4. WorkType' /\ JobInv' /\ QueueInv'
      BY <2>1, <3>1, <3>2, <3>3, StepKeeps DEF leaderVars
    <3> QED BY <1>1, <2>1, <3>1, <3>4 DEF store, StoreType
  <2> QED BY <2>2, <2>3
<1>6. CASE syncUpdate(p, w)
  <2> DEFINE c == job[p][w].key
  <2>1. /\ job[p][w] # Idle /\ c \in Clusters /\ job[p][w] \in Jobs
        /\ UNCHANGED <<leaderVars, deploy, changed, informers, synced, left>>
    BY <1>2, <1>6 DEF syncUpdate
  <2>2. CASE cluster[c].rv # job[p][w].rv
    <3>1. Done(p, w, FALSE) /\ UNCHANGED <<now, cluster>>
      BY <1>6, <2>2 DEF syncUpdate
    <3>2. WorkType' /\ JobInv' /\ QueueInv'
      BY <2>1, <3>1, DoneKeeps DEF leaderVars
    <3> QED BY <1>1, <2>1, <3>1, <3>2 DEF StoreType
  <2>3. CASE cluster[c].rv = job[p][w].rv
    <3> DEFINE j == [job[p][w] EXCEPT !.step = "pass"]
    <3>1. job' = [job EXCEPT ![p][w] = j] /\ UNCHANGED <<queue, redo, backoff>>
      BY <1>6, <2>3 DEF syncUpdate
    <3>2. j \in Jobs /\ j.key = job[p][w].key /\ j.step = "pass"
      BY <2>1 DEF Jobs
    <3>3. j # Idle
      BY <3>2, IdleJob
    <3> HIDE DEF j
    <3>4. WorkType' /\ JobInv' /\ QueueInv'
      BY <2>1, <3>1, <3>2, <3>3, StepKeeps DEF leaderVars
    <3>5. StoreType'
      <4>1. CASE cluster[c].raw
        <5>1. /\ now' = now + 1
              /\ cluster' = [cluster EXCEPT ![c] = [@ EXCEPT !.rv = now + 1, !.raw = FALSE]]
          BY <1>6, <2>3, <4>1 DEF syncUpdate
        <5>2. [cluster[c] EXCEPT !.rv = now + 1, !.raw = FALSE] \in [uid : Nat, rv : Nat, raw : BOOLEAN]
          <6>1. cluster[c] \in [uid : Nat, rv : Nat, raw : BOOLEAN] /\ now + 1 \in Nat
            BY <2>1 DEF StoreType
          <6> QED BY <6>1
        <5> QED BY <2>1, <5>1, <5>2 DEF StoreType
      <4>2. CASE ~ cluster[c].raw
        BY <1>6, <2>1, <2>3, <4>2 DEF syncUpdate, StoreType
      <4> QED BY <4>1, <4>2
    <3> QED BY <1>1, <2>1, <3>4, <3>5
  <2> QED BY <2>2, <2>3
<1>7. CASE syncCluster(p, w)
  <2>1. /\ job[p][w] # Idle /\ job[p][w].key \in Clusters /\ job[p][w] \in Jobs
        /\ Done(p, w, TRUE) /\ UNCHANGED <<leaderVars, store, informers, left>>
        /\ synced' = [synced EXCEPT ![job[p][w].key] = job[p][w].began]
    BY <1>2, <1>7 DEF syncCluster
  <2>2. WorkType' /\ JobInv' /\ QueueInv'
    BY <2>1, DoneKeeps DEF leaderVars
  <2>3. StoreType'
    BY <2>1 DEF store, StoreType, Jobs
  <2> QED BY <1>1, <2>1, <2>2, <2>3
<1> QED BY <1>3, <1>4, <1>5, <1>6, <1>7 DEF Worker

\* The processes and the clock keep it.
LEMMA ProcessesKeep ==
  ASSUME IInv, NEW p \in Operators,
         Lead(p) \/ Run(p) \/ Crash(p) \/ LeaseLost(p) \/ Tombstone(p) \/ Time
  PROVE  IInv'
<1> USE DEF IInv, TypeOK
<1>1. CASE Lead(p) \/ Time
  <2>1. LeaderType' /\ LeaderInv'
    BY <1>1, LeaseStep DEF Lead, Time
  <2>2. UNCHANGED <<store, informers, work, synced, left>>
    BY <1>1 DEF Lead, Time
  <2>3. \A q \in Operators : leading[q] => leading'[q]
    BY <1>1 DEF Lead, Time, Acquire, Observe, RenewLease, Tick, LeaderType
  <2>4. WorkType' /\ QueueInv' /\ InformerType' /\ StoreType'
    BY <2>2 DEF work, informers, store, WorkType, QueueInv, InformerType, StoreType
  <2>5. JobInv'
    BY <2>2, <2>3 DEF work, JobInv
  <2> QED BY <2>1, <2>2, <2>4, <2>5
<1>2. CASE Run(p)
  <2>1. LeaderType' /\ LeaderInv'
    BY <1>2, LeaseStep DEF Run
  <2>2. /\ UNCHANGED <<store, work, synced, left, leading>>
        /\ initial' = [initial EXCEPT ![p] = { c \in Clusters : cluster[c].uid # 0 }]
    BY <1>2 DEF Run, StartProcess
  <2>3. WorkType' /\ QueueInv' /\ JobInv' /\ StoreType'
    BY <2>2 DEF work, store, WorkType, QueueInv, JobInv, StoreType
  <2>4. InformerType'
    <3>1. \A c \in Clusters :
            (IF cluster[c].uid = 0 THEN [uid |-> 0, rv |-> cluster[c].rv] ELSE Absent)
              \in [uid : Nat, rv : Nat]
      BY DEF StoreType, Absent
    <3>2. \A d \in Deployments :
            (IF deploy[d].exists THEN Unknown ELSE [exists |-> FALSE, rv |-> deploy[d].rv])
              \in [exists : BOOLEAN, rv : Nat]
      BY DEF StoreType, Unknown
    <3> QED BY <1>2, <2>2, <3>1, <3>2 DEF Run, InformerType
  <2> QED BY <2>1, <2>2, <2>3, <2>4
<1>3. CASE Crash(p) \/ LeaseLost(p) \/ Tombstone(p)
  <2>1. Stop(p) /\ Forgotten(p) /\ UNCHANGED <<store, synced>>
    BY <1>3 DEF Crash, LeaseLost, Tombstone, onStopped
  <2>2. LeaderType' /\ LeaderInv'
    BY <2>1, LeaseStep
  <2>3. leading' = [leading EXCEPT ![p] = FALSE]
    BY <2>1 DEF Stop
  <2>4. WorkType' /\ JobInv' /\ QueueInv' /\ InformerType'
    BY <2>1, <2>3, ForgottenKeeps
  <2>5. left' \in [Budget -> Nat]
    BY <1>3, Spent DEF Crash, LeaseLost, Tombstone
  <2>6. StoreType'
    BY <2>1 DEF store, StoreType
  <2> QED BY <2>2, <2>4, <2>5, <2>6
<1> QED BY <1>1, <1>2, <1>3

\* So does what happens to the objects of the API server.
LEMMA ChangesKeep ==
  ASSUME IInv, ClusterChanges \/ DeploymentChanges
  PROVE  IInv'
<1> USE DEF IInv, TypeOK
<1>1. UNCHANGED <<leaderVars, informers, work, synced>>
  BY DEF ClusterChanges, DeploymentChanges
<1>2. left' \in [Budget -> Nat]
  BY Spent DEF ClusterChanges, DeploymentChanges
<1>3. StoreType'
  <2>1. now + 1 \in Nat BY DEF StoreType
  <2>2. CASE ClusterChanges
    <3>1. PICK c \in Clusters :
            \E u \in {0, cluster[c].uid, now + 1}, r \in {TRUE, cluster[c].raw} :
              /\ now' = now + 1 /\ changed' = [changed EXCEPT ![c] = now + 1] /\ UNCHANGED deploy
              /\ cluster' = [cluster EXCEPT ![c] = [uid |-> u, rv |-> now + 1, raw |-> r]]
      BY <2>2 DEF ClusterChanges
    <3>2. cluster[c].uid \in Nat /\ cluster[c].raw \in BOOLEAN
      BY DEF StoreType
    <3>3. PICK u \in Nat, r \in BOOLEAN :
            cluster' = [cluster EXCEPT ![c] = [uid |-> u, rv |-> now + 1, raw |-> r]]
      BY <2>1, <3>1, <3>2
    <3>4. cluster' \in [Clusters -> [uid : Nat, rv : Nat, raw : BOOLEAN]]
      BY <2>1, <3>3 DEF StoreType
    <3> QED BY <1>1, <2>1, <3>1, <3>4 DEF StoreType
  <2>3. CASE DeploymentChanges
    <3>1. PICK d \in Deployments, e \in BOOLEAN :
            LET o == IF deploy[d].exists THEN deploy[d].owner ELSE cluster[OwnerOf[d]].uid IN
            /\ now' = now + 1 /\ UNCHANGED cluster
            /\ deploy' = [deploy EXCEPT ![d] = [exists |-> e, owner |-> o, rv |-> now + 1]]
            /\ changed' \in {changed, [changed EXCEPT ![OwnerOf[d]] = now + 1]}
      BY <2>3 DEF DeploymentChanges
    <3>2. OwnerOf[d] \in Clusters /\ cluster[OwnerOf[d]].uid \in Nat /\ deploy[d].owner \in Nat
      BY ControllerAssumption DEF ControllerAssumption, StoreType
    <3> QED BY <1>1, <2>1, <3>1, <3>2 DEF StoreType
  <2> QED BY <2>2, <2>3
<1> QED
  BY <1>1, <1>2, <1>3
  DEF leaderVars, informers, work, LeaderType, LeaderInv, InformerType, WorkType, JobInv, QueueInv

\* The inductive step.
LEMMA NextIInv == IInv /\ [Next]_vars => IInv'
<1> SUFFICES ASSUME IInv, [Next]_vars PROVE IInv' OBVIOUS
<1>1. CASE Time
  <2>1. CASE Operators = {}
    BY <1>1, <2>1
    DEF Time, Tick, store, informers, work, IInv, TypeOK, LeaderType, LeaderInv, StoreType,
        InformerType, WorkType, JobInv, QueueInv
  <2>2. CASE Operators # {}
    <3>1. PICK p \in Operators : TRUE BY <2>2
    <3> QED BY <1>1, <3>1, ProcessesKeep
  <2> QED BY <2>1, <2>2
<1>2. CASE ClusterChanges \/ DeploymentChanges
  BY <1>2, ChangesKeep
<1>3. ASSUME NEW p \in Operators,
             \/ Lead(p) \/ Run(p) \/ Crash(p) \/ LeaseLost(p) \/ Tombstone(p)
             \/ Goroutines(p) \/ Resync(p) \/ \E w \in Workers : SyncFails(p, w)
      PROVE  IInv'
  BY <1>3, ProcessesKeep, EventsKeep, WorkersKeep DEF Goroutines
<1>4. CASE UNCHANGED vars
  BY <1>4
  DEF vars, leaderVars, store, informers, work, IInv, TypeOK, LeaderType, LeaderInv, StoreType,
      InformerType, WorkType, JobInv, QueueInv
<1> QED BY <1>1, <1>2, <1>3, <1>4 DEF Next

\* Keys of jobs differ: within an operator by the queue, between operators by the lease.
LEMMA KeysDiffer == IInv => OneWorkerPerCluster
<1> SUFFICES ASSUME IInv, NEW p \in Operators, NEW q \in Operators, NEW v \in Workers,
                    NEW w \in Workers, <<p, v>> # <<q, w>>, job[p][v] # Idle
             PROVE  job[p][v].key # job[q][w].key
  BY DEF OneWorkerPerCluster
<1>1. leading[p] /\ holder = p /\ job[p][v].key \in Clusters
  BY DEF IInv, JobInv, LeaderInv
<1>2. CASE p = q
  BY <1>2 DEF IInv, QueueInv
<1>3. CASE p # q
  <2>1. ~ leading[q] BY <1>1, <1>3 DEF IInv, LeaderInv
  <2>2. job[q][w] = Idle BY <2>1 DEF IInv, JobInv
  <2> QED BY <1>1, <2>2, IdleJob
<1> QED BY <1>2, <1>3

-----------------------------------------------------------------------------
(* Nothing is forgotten. *)

\* No version is newer than the newest the API server has given out.
ClockInv ==
  /\ \A c \in Clusters : cluster[c].rv <= now /\ changed[c] <= now /\ synced[c] <= now
  /\ \A d \in Deployments : deploy[d].rv <= now
  /\ \A p \in Operators :
       /\ \A c \in Clusters : known[p][c].rv <= now
       /\ \A d \in Deployments : knownD[p][d].rv <= now
       /\ \A w \in Workers : job[p][w].began <= now

\* An informer that has the newest version of a cluster has its UID.
CacheInv ==
  /\ \A c \in Clusters : cluster[c].rv = 0 => cluster[c].uid = 0
  /\ \A p \in Operators, c \in Clusters :
       known[p][c].rv = cluster[c].rv => known[p][c].uid = cluster[c].uid

\* A pass that runs has started after everything an earlier one has recorded.
PassInv ==
  \A p \in Operators, w \in Workers :
    job[p][w].step \in {"update", "pass"} => synced[job[p][w].key] <= job[p][w].began

\* Where an operator may note a cluster: in the queue or where it waits for it, in an event
\* still to come (of a deployment only if its handler will find the owner), in a pass.
Pending(p, c) == c \in Queued(p) \cup redo[p] \cup backoff[p] \cup initial[p]
Behind(p, c) ==
  \/ known[p][c].rv # cluster[c].rv
  \/ \E d \in Deployments :
       OwnerOf[d] = c /\ deploy[d].owner = cluster[c].uid /\ knownD[p][d].rv # deploy[d].rv
Underway(p, c) ==
  \E w \in Workers :
    job[p][w].key = c /\ (job[p][w].step = "get" \/ job[p][w].began >= changed[c])

Due(c) == cluster[c].uid # 0 /\ synced[c] < changed[c]
KeptInv ==
  \A p \in Operators, c \in Clusters :
    up[p] /\ Due(c) => Pending(p, c) \/ Behind(p, c) \/ Underway(p, c)

NInv == ClockInv /\ CacheInv /\ PassInv /\ KeptInv

Elements(s) == { s[i] : i \in DOMAIN s }

\* The elements of a longer sequence.
LEMMA AppendElements ==
  ASSUME NEW S, NEW s \in Seq(S), NEW e \in S
  PROVE  Elements(Append(s, e)) = Elements(s) \cup {e}
<1>1. /\ DOMAIN Append(s, e) = 1..(Len(s) + 1) /\ DOMAIN s = 1..Len(s) /\ Len(s) \in Nat
      /\ Append(s, e)[Len(s) + 1] = e
  OBVIOUS
<1>2. \A i \in 1..Len(s) : Append(s, e)[i] = s[i] /\ i \in 1..(Len(s) + 1)
  OBVIOUS
<1>3. \A i \in 1..(Len(s) + 1) : i = Len(s) + 1 \/ i \in 1..Len(s)
  BY <1>1
<1> QED BY <1>1, <1>2, <1>3 DEF Elements

\* The elements of a sequence are its head and those of its tail.
LEMMA TailElements ==
  ASSUME NEW S, NEW s \in Seq(S), s # <<>>
  PROVE  Elements(s) \subseteq {Head(s)} \cup Elements(Tail(s))
<1>1. /\ DOMAIN Tail(s) = 1..(Len(s) - 1) /\ DOMAIN s = 1..Len(s) /\ Len(s) \in Nat
      /\ Head(s) = s[1]
  OBVIOUS
<1>2. \A j \in 1..(Len(s) - 1) : Tail(s)[j] = s[j + 1]
  OBVIOUS
<1>3. \A i \in 1..Len(s) : i = 1 \/ (i - 1 \in 1..(Len(s) - 1) /\ (i - 1) + 1 = i)
  BY <1>1
<1>4. \A i \in 1..Len(s) : s[i] = Head(s) \/ \E j \in 1..(Len(s) - 1) : Tail(s)[j] = s[i]
  BY <1>1, <1>2, <1>3
<1> QED BY <1>1, <1>4 DEF Elements

\* The keys of a queue are its elements.
LEMMA QueuedElements ==
  ASSUME NEW p \in Operators
  PROVE  Queued(p) = Elements(queue[p]) /\ Queued(p)' = Elements(queue'[p])
  BY DEF Queued, Elements

\* Add loses nothing, and the key is then queued, or to be queued when its worker is done.
LEMMA AddNotes ==
  ASSUME WorkType, NEW p \in Operators, NEW K \in SUBSET Clusters,
         \A a, b \in K : a = b, Add(p, K)
  PROVE  /\ \A q \in Operators : Queued(q) \subseteq Queued(q)' /\ redo[q] \subseteq redo'[q]
         /\ \A k \in K : k \in Queued(p)' \cup redo'[p]
<1>1. /\ \A q \in Operators : redo[q] \subseteq redo'[q]
      /\ \A k \in K : k \in Processing(p) => k \in redo'[p]
  BY DEF Add, WorkType
<1>2. CASE K \subseteq Processing(p) \cup Queued(p)
  <2>1. queue' = queue BY <1>2 DEF Add, WorkType
  <2> QED BY <1>1, <1>2, <2>1 DEF Queued
<1>3. CASE ~ (K \subseteq Processing(p) \cup Queued(p))
  <2> DEFINE e == CHOOSE k \in K : TRUE
  <2>1. e \in K /\ e \in Clusters /\ \A k \in K : k = e
    BY <1>3
  <2>2. queue' = [queue EXCEPT ![p] = Append(@, e)]
    BY <1>3 DEF Add
  <2> HIDE DEF e
  <2>3. queue[p] \in Seq(Clusters) BY DEF WorkType
  <2>4. Elements(Append(queue[p], e)) = Elements(queue[p]) \cup {e}
    BY <2>1, <2>3, AppendElements
  <2>5. \A q \in Operators : queue'[q] = IF q = p THEN Append(queue[p], e) ELSE queue[q]
    BY <2>2 DEF WorkType
  <2>6. \A q \in Operators : Queued(q) \subseteq Queued(q)'
    BY <2>4, <2>5, QueuedElements
  <2>7. e \in Queued(p)'
    BY <2>4, <2>5, QueuedElements
  <2> QED BY <1>1, <2>1, <2>6, <2>7
<1> QED BY <1>2, <1>3

\* Done loses nothing: what was added meanwhile is queued, what failed waits for its turn.
LEMMA DoneNotes ==
  ASSUME WorkType, JobInv, NEW p \in Operators, NEW w \in Workers, NEW ok \in BOOLEAN,
         job[p][w] # Idle, Done(p, w, ok), UNCHANGED initial
  PROVE  /\ \A q \in Operators, c \in Clusters : Pending(q, c) => Pending(q, c)'
         /\ ~ ok => \A c \in Clusters : c = job[p][w].key => Pending(p, c)'
         /\ \A q \in Operators, v \in Workers :
              job'[q][v] = IF q = p /\ v = w THEN Idle ELSE job[q][v]
<1> DEFINE k == job[p][w].key
<1>1. k \in Clusters BY DEF JobInv
<1>2. /\ job' = [job EXCEPT ![p][w] = Idle]
      /\ backoff' = [backoff EXCEPT ![p] = IF ok THEN @ ELSE @ \cup {k}]
      /\ redo' = [redo EXCEPT ![p] = @ \ {k}]
      /\ queue' = [queue EXCEPT ![p] = IF k \in redo[p] THEN Append(@, k) ELSE @]
  BY DEF Done
<1>3. \A q \in Operators, v \in Workers :
        job'[q][v] = IF q = p /\ v = w THEN Idle ELSE job[q][v]
  BY <1>2 DEF WorkType
<1> HIDE DEF k
<1>4. (\A q \in Operators : backoff[q] \subseteq backoff'[q]) /\ (~ ok => k \in backoff'[p])
  BY <1>2 DEF WorkType
<1>5. queue[p] \in Seq(Clusters) BY DEF WorkType
<1>6. \A q \in Operators : Queued(q) \subseteq Queued(q)' /\ redo[q] \subseteq redo'[q] \cup Queued(q)'
  <2>1. CASE k \in redo[p]
    <3>1. \A q \in Operators : queue'[q] = IF q = p THEN Append(queue[p], k) ELSE queue[q]
      BY <1>2, <2>1 DEF WorkType
    <3>2. Elements(Append(queue[p], k)) = Elements(queue[p]) \cup {k}
      BY <1>1, <1>5, AppendElements
    <3>3. (\A q \in Operators : Queued(q) \subseteq Queued(q)') /\ k \in Queued(p)'
      BY <3>1, <3>2, QueuedElements
    <3>4. \A q \in Operators : redo'[q] = IF q = p THEN redo[p] \ {k} ELSE redo[q]
      BY <1>2 DEF WorkType
    <3> QED BY <3>3, <3>4
  <2>2. CASE k \notin redo[p]
    <3>1. queue' = queue /\ \A q \in Operators : redo'[q] = redo[q]
      BY <1>2, <2>2 DEF WorkType
    <3> QED BY <3>1 DEF Queued
  <2> QED BY <2>1, <2>2
<1>7. \A q \in Operators, c \in Clusters : Pending(q, c) => Pending(q, c)'
  BY <1>4, <1>6 DEF Pending
<1>8. ~ ok => \A c \in Clusters : c = k => Pending(p, c)'
  BY <1>4 DEF Pending
<1> QED BY <1>3, <1>7, <1>8 DEF k

\* The initial states note everything: no operator runs.
LEMMA InitNInv == Init => NInv
<1> SUFFICES ASSUME Init PROVE NInv OBVIOUS
<1>1. ClockInv
  <2>1. now = 2 /\ (\A c \in Clusters : cluster[c].rv \in {0, 1} /\ changed[c] \in {0, 2})
    BY DEF Init
  <2>2. \A d \in Deployments : deploy[d].rv \in {0, 2}
    BY DEF Init
  <2>3. /\ \A c \in Clusters : synced[c] = 0
        /\ \A p \in Operators : /\ \A c \in Clusters : known[p][c].rv = 0
                                /\ \A d \in Deployments : knownD[p][d].rv = 0
                                /\ \A w \in Workers : job[p][w].began = 0
    BY DEF Init, Absent, Unknown, Idle
  <2> QED BY <2>1, <2>2, <2>3 DEF ClockInv
<1>2. CacheInv
  BY DEF Init, CacheInv, Absent
<1>3. PassInv
  BY DEF Init, PassInv, Idle
<1>4. KeptInv
  BY DEF Init, LeaderInit, KeptInv
<1> QED BY <1>1, <1>2, <1>3, <1>4 DEF NInv

\* A step that leaves the objects and the passes alone, and moves what it takes out of one
\* place into another, forgets nothing.
LEMMA Moved ==
  ASSUME KeptInv, UNCHANGED <<store, synced>>,
         \A q \in Operators, c \in Clusters : up'[q] =>
           /\ up[q]
           /\ Pending(q, c) \/ Behind(q, c) \/ Underway(q, c) =>
                Pending(q, c)' \/ Behind(q, c)' \/ Underway(q, c)'
  PROVE  KeptInv'
<1>1. \A c \in Clusters : Due(c)' <=> Due(c)
  BY DEF Due, store
<1> QED BY <1>1 DEF KeptInv

\* The handlers and the queue's timer: an event that is taken from an informer is queued,
\* unless it is one of a deployment whose owner is not the cluster of that name.
LEMMA EventsNote ==
  ASSUME IInv, NInv, NEW p \in Operators,
         ClusterEvent(p) \/ DeploymentEvent(p) \/ Resync(p) \/ AddAfter(p)
  PROVE  NInv'
<1>0. WorkType /\ JobInv /\ StoreType /\ InformerType
  BY DEF IInv, TypeOK
<1>1. UNCHANGED <<up, store, now, cluster, deploy, changed, synced, job>>
  BY DEF ClusterEvent, DeploymentEvent, Resync, AddAfter, leaderVars, store
<1>2. PassInv'
  BY <1>1 DEF NInv, PassInv
<1>3. \A q \in Operators, c \in Clusters : Underway(q, c) => Underway(q, c)'
  BY <1>1 DEF Underway
<1>4. ASSUME ClockInv', CacheInv', \A q \in Operators, c \in Clusters :
               Pending(q, c) \/ Behind(q, c) => Pending(q, c)' \/ Behind(q, c)'
      PROVE  NInv'
  BY <1>1, <1>2, <1>3, <1>4, Moved DEF NInv
<1>5. CASE ClusterEvent(p)
  <2>1. PICK c \in Clusters :
          /\ known' = [known EXCEPT ![p][c] = [uid |-> cluster[c].uid, rv |-> cluster[c].rv]]
          /\ initial' = [initial EXCEPT ![p] = @ \ {c}] /\ Add(p, {c})
          /\ UNCHANGED <<knownD, backoff>>
    BY <1>5 DEF ClusterEvent, enqueueCluster
  <2>2. /\ \A q \in Operators : Queued(q) \subseteq Queued(q)' /\ redo[q] \subseteq redo'[q]
        /\ \A k \in {c} : k \in Queued(p)' \cup redo'[p]
    BY <1>0, <2>1, AddNotes
  <2>3. \A q \in Operators, b \in Clusters :
          known'[q][b] = IF q = p /\ b = c THEN [uid |-> cluster[c].uid, rv |-> cluster[c].rv]
                         ELSE known[q][b]
    BY <1>0, <2>1 DEF InformerType
  <2>4. \A q \in Operators, b \in Clusters : b \in initial[q] => b \in initial'[q] \/ (q = p /\ b = c)
    BY <1>0, <2>1 DEF InformerType
  <2>5. ClockInv' /\ CacheInv'
    BY <1>1, <2>1, <2>3 DEF NInv, ClockInv, CacheInv
  <2>6. \A q \in Operators, b \in Clusters : Pending(q, b) => Pending(q, b)'
    BY <2>1, <2>2, <2>4 DEF Pending
  <2>7. \A q \in Operators, b \in Clusters : Behind(q, b) => Pending(q, b)' \/ Behind(q, b)'
    BY <1>1, <2>1, <2>2, <2>3 DEF Pending, Behind
  <2> QED BY <1>4, <2>5, <2>6, <2>7
<1>6. CASE DeploymentEvent(p)
  <2>1. PICK d \in Deployments :
          /\ knownD' = [knownD EXCEPT ![p][d] =
                          [exists |-> deploy[d].exists, rv |-> deploy[d].rv]]
          /\ Add(p, resolveOnecloudClusterFromDeployment(p, d))
          /\ UNCHANGED <<known, initial, backoff>>
    BY <1>6 DEF DeploymentEvent
  <2> DEFINE K == resolveOnecloudClusterFromDeployment(p, d)
  <2>2. K \in SUBSET Clusters /\ \A a, b \in K : a = b
    BY ControllerAssumption DEF ControllerAssumption, resolveOnecloudClusterFromDeployment
  <2>3. /\ \A q \in Operators : Queued(q) \subseteq Queued(q)' /\ redo[q] \subseteq redo'[q]
        /\ \A k \in K : k \in Queued(p)' \cup redo'[p]
    BY <1>0, <2>1, <2>2, AddNotes
  <2>4. \A q \in Operators, e \in Deployments :
          knownD'[q][e] = IF q = p /\ e = d THEN [exists |-> deploy[d].exists, rv |-> deploy[d].rv]
                          ELSE knownD[q][e]
    BY <1>0, <2>1 DEF InformerType
  <2>5. ClockInv' /\ CacheInv'
    BY <1>1, <2>1, <2>4 DEF NInv, ClockInv, CacheInv
  <2>6. \A q \in Operators, c \in Clusters : Pending(q, c) => Pending(q, c)'
    BY <2>1, <2>3 DEF Pending
  <2>7. ASSUME NEW q \in Operators, NEW c \in Clusters, cluster[c].uid # 0, Behind(q, c)
        PROVE  Pending(q, c)' \/ Behind(q, c)'
    <3>1. CASE known[q][c].rv # cluster[c].rv
      BY <1>1, <2>1, <3>1 DEF Behind
    <3>2. CASE known[q][c].rv = cluster[c].rv
      <4>1. PICK e \in Deployments :
              OwnerOf[e] = c /\ deploy[e].owner = cluster[c].uid /\ knownD[q][e].rv # deploy[e].rv
        BY <2>7, <3>2 DEF Behind
      <4>2. known[q][c].uid = cluster[c].uid
        BY <3>2 DEF NInv, CacheInv
      <4>3. CASE q = p /\ e = d
        <5>1. c \in K
          BY <2>7, <4>1, <4>2, <4>3 DEF resolveOnecloudClusterFromDeployment
        <5> QED BY <2>3, <4>3, <5>1 DEF Pending
      <4>4. CASE ~ (q = p /\ e = d)
        BY <1>1, <2>4, <4>1, <4>4 DEF Behind
      <4> QED BY <4>3, <4>4
    <3> QED BY <3>1, <3>2
  <2>8. KeptInv'
    <3>1. \A c \in Clusters : Due(c)' <=> Due(c)
      BY <1>1 DEF Due
    <3> QED BY <1>1, <1>3, <2>6, <2>7, <3>1 DEF NInv, KeptInv, Due
  <2> QED BY <1>2, <2>5, <2>8 DEF NInv
<1>7. CASE Resync(p)
  <2>1. PICK c \in Clusters : Add(p, {c}) /\ UNCHANGED <<informers, backoff>>
    BY <1>7 DEF Resync, enqueueCluster
  <2>2. \A q \in Operators : Queued(q) \subseteq Queued(q)' /\ redo[q] \subseteq redo'[q]
    BY <1>0, <2>1, AddNotes
  <2>3. ClockInv' /\ CacheInv'
    BY <1>1, <2>1 DEF NInv, ClockInv, CacheInv, informers
  <2>4. \A q \in Operators, b \in Clusters : Pending(q, b) => Pending(q, b)'
    BY <2>1, <2>2 DEF Pending, informers
  <2>5. \A q \in Operators, b \in Clusters : Behind(q, b) => Behind(q, b)'
    BY <1>1, <2>1 DEF Behind, informers
  <2> QED BY <1>4, <2>3, <2>4, <2>5
<1>8. CASE AddAfter(p)
  <2>1. PICK k \in backoff[p] : /\ Add(p, {k}) /\ backoff' = [backoff EXCEPT ![p] = @ \ {k}]
                                /\ UNCHANGED informers
    BY <1>8 DEF AddAfter
  <2>2. k \in Clusters /\ \A q \in Operators : backoff[q] \subseteq backoff'[q] \cup (IF q = p THEN {k} ELSE {})
    BY <1>0, <2>1 DEF WorkType
  <2>3. /\ \A q \in Operators : Queued(q) \subseteq Queued(q)' /\ redo[q] \subseteq redo'[q]
        /\ \A b \in {k} : b \in Queued(p)' \cup redo'[p]
    BY <1>0, <2>1, <2>2, AddNotes
  <2>4. ClockInv' /\ CacheInv'
    BY <1>1, <2>1 DEF NInv, ClockInv, CacheInv, informers
  <2>5. \A q \in Operators, b \in Clusters : Pending(q, b) => Pending(q, b)'
    BY <2>1, <2>2, <2>3 DEF Pending, informers
  <2>6. \A q \in Operators, b \in Clusters : Behind(q, b) => Behind(q, b)'
    BY <1>1, <2>1 DEF Behind, informers
  <2> QED BY <1>4, <2>4, <2>5, <2>6
<1> QED BY <1>5, <1>6, <1>7, <1>8

\* The workers: a key that is taken is with a pass that has yet to read the cluster; one that
\* has read it has seen every change so far; one that fails is put back.
LEMMA WorkersNote ==
  ASSUME IInv, NInv, NEW p \in Operators, NEW w \in Workers, Worker(p, w) \/ SyncFails(p, w)
  PROVE  NInv'
<1>0. WorkType /\ JobInv /\ StoreType /\ InformerType /\ QueueInv /\ LeaderInv
  BY DEF IInv, TypeOK
<1>1. UNCHANGED <<up, known, knownD, initial, deploy, changed>>
  BY DEF Worker, SyncFails, processNextWorkItem, syncGet, syncUpdate, syncCluster, leaderVars,
         informers, store
<1>2. ASSUME job[p][w].step # "idle"
      PROVE  /\ job[p][w] # Idle /\ job[p][w].key \in Clusters /\ job[p][w] \in Jobs
             /\ \A q \in Operators, v \in Workers :
                  ~ (q = p /\ v = w) => job[q][v].key # job[p][w].key
  <2>1. job[p][w] # Idle /\ job[p][w].key \in Clusters /\ job[p][w] \in Jobs
    BY <1>0, <1>2, IdleJob DEF JobInv, WorkType
  <2>2. OneWorkerPerCluster BY KeysDiffer
  <2> QED BY <2>1, <2>2 DEF OneWorkerPerCluster
<1>3. CASE processNextWorkItem(p, w)
  <2> DEFINE k == Head(queue[p])
             j == [Idle EXCEPT !.key = k, !.step = "get"]
  <2>1. /\ job' = [job EXCEPT ![p][w] = j] /\ queue' = [queue EXCEPT ![p] = Tail(@)]
        /\ job[p][w] = Idle /\ queue[p] # <<>>
        /\ UNCHANGED <<redo, backoff, now, cluster, synced, store>>
    BY <1>3 DEF processNextWorkItem, store
  <2>2. j.key = k /\ j.step = "get" /\ j.began = 0
    BY DEF Idle
  <2>3. Elements(queue[p]) \subseteq {k} \cup Elements(Tail(queue[p]))
    BY <1>0, <2>1, TailElements DEF WorkType
  <2> HIDE DEF k, j
  <2>4. \A q \in Operators : Queued(q) \subseteq Queued(q)' \cup (IF q = p THEN {k} ELSE {})
    <3>1. \A q \in Operators : queue'[q] = IF q = p THEN Tail(queue[p]) ELSE queue[q]
      BY <1>0, <2>1 DEF WorkType
    <3> QED BY <2>3, <3>1, QueuedElements
  <2>5. \A q \in Operators, v \in Workers : job'[q][v] = IF q = p /\ v = w THEN j ELSE job[q][v]
    BY <1>0, <2>1 DEF WorkType
  <2>6. \A c \in Clusters : c # job[p][w].key
    BY <2>1, IdleJob
  <2>7. ClockInv'
    BY <1>1, <2>1, <2>2, <2>5, <1>0 DEF NInv, ClockInv, StoreType
  <2>8. CacheInv' /\ PassInv'
    BY <1>1, <2>1, <2>2, <2>5 DEF NInv, CacheInv, PassInv
  <2>9. \A q \in Operators, c \in Clusters :
          /\ Pending(q, c) => Pending(q, c)' \/ Underway(q, c)'
          /\ Behind(q, c) => Behind(q, c)'
          /\ Underway(q, c) => Underway(q, c)'
    <3>1. \A c \in Clusters : c = k => Underway(p, c)'
      BY <2>2, <2>5 DEF Underway
    <3>2. \A q \in Operators, c \in Clusters : Pending(q, c) => Pending(q, c)' \/ (q = p /\ c = k)
      BY <1>1, <2>1, <2>4 DEF Pending
    <3>3. \A q \in Operators, c \in Clusters : Underway(q, c) => Underway(q, c)'
      BY <1>1, <2>5, <2>6 DEF Underway
    <3>4. \A q \in Operators, c \in Clusters : Behind(q, c) => Behind(q, c)'
      BY <1>1, <2>1 DEF Behind
    <3> QED BY <3>1, <3>2, <3>3, <3>4
  <2>10. KeptInv'
    BY <1>1, <2>1, <2>9, Moved DEF NInv
  <2> QED BY <2>7, <2>8, <2>10 DEF NInv
<1>4. ASSUME NEW ok \in BOOLEAN, job[p][w] # Idle, Done(p, w, ok), UNCHANGED <<now, cluster>>,
             LET k == job[p][w].key IN
             \/ ~ ok /\ UNCHANGED synced
             \/ /\ job[p][w].step # "idle"
                /\ \E t \in Nat : /\ synced' = [synced EXCEPT ![k] = t] /\ t <= now
                                  /\ cluster[k].uid = 0 \/ (t = job[p][w].began /\ synced[k] <= t
                                                            /\ job[p][w].step # "get")
      PROVE  NInv'
  <2> DEFINE k == job[p][w].key
  <2>1. /\ \A q \in Operators, c \in Clusters : Pending(q, c) => Pending(q, c)'
        /\ ~ ok => \A c \in Clusters : c = k => Pending(p, c)'
        /\ \A q \in Operators, v \in Workers :
             job'[q][v] = IF q = p /\ v = w THEN Idle ELSE job[q][v]
    BY <1>0, <1>1, <1>4, DoneNotes
  <2>2. /\ k \in Clusters
        /\ \A q \in Operators, v \in Workers : ~ (q = p /\ v = w) => job[q][v].key # k
    <3>1. OneWorkerPerCluster BY KeysDiffer
    <3> QED BY <1>0, <1>4, <3>1 DEF OneWorkerPerCluster, JobInv
  <2>3. \A q \in Operators, c \in Clusters : Behind(q, c) => Behind(q, c)'
    BY <1>1, <1>4 DEF Behind
  <2>4. \A q \in Operators, c \in Clusters :
          Underway(q, c) => Underway(q, c)' \/ (q = p /\ c = k)
    BY <1>1, <2>1 DEF Underway
  <2>5. \A c \in Clusters : synced'[c] <= now /\ (c # k => synced'[c] = synced[c])
    BY <1>0, <1>4 DEF NInv, ClockInv, StoreType
  <2>6. ClockInv'
    <3>1. Idle.began <= now
      BY <1>0 DEF StoreType, Idle
    <3>2. \A q \in Operators, v \in Workers : job'[q][v].began <= now
      BY <2>1, <3>1 DEF NInv, ClockInv
    <3> QED BY <1>1, <1>4, <2>5, <3>2 DEF NInv, ClockInv
  <2>7. CacheInv'
    BY <1>1, <1>4 DEF NInv, CacheInv
  <2>8. PassInv'
    <3> SUFFICES ASSUME NEW q \in Operators, NEW v \in Workers,
                        job'[q][v].step \in {"update", "pass"}
                 PROVE  synced'[job'[q][v].key] <= job'[q][v].began
      BY DEF PassInv
    <3>1. job'[q][v] = job[q][v] /\ ~ (q = p /\ v = w)
      BY <2>1, IdleJob
    <3>2. job[q][v].key \in Clusters /\ job[q][v].key # k
      BY <1>0, <2>2, <3>1, IdleJob DEF JobInv
    <3> QED BY <2>5, <3>1, <3>2 DEF NInv, PassInv
  <2>9. ASSUME NEW q \in Operators, NEW c \in Clusters, up[q], Due(c)'
        PROVE  Pending(q, c)' \/ Behind(q, c)' \/ Underway(q, c)'
    <3>1. Due(c)
      BY <1>0, <1>1, <1>4, <2>2, <2>9 DEF Due, StoreType
    <3>2. CASE ~ (q = p /\ c = k)
      BY <2>1, <2>3, <2>4, <2>9, <3>1, <3>2 DEF NInv, KeptInv
    <3>3. CASE q = p /\ c = k
      <4>1. CASE ~ ok BY <2>1, <3>3, <4>1
      <4>2. CASE ok
        <5>1. /\ job[p][w].step # "get" /\ synced'[k] = job[p][w].began
          BY <1>0, <1>4, <2>2, <3>1, <3>3, <4>2 DEF Due, StoreType
        <5>2. job[p][w].began < changed[k]
          BY <1>1, <2>9, <3>3, <5>1 DEF Due
        <5>3. ~ (job[p][w].began >= changed[k])
          <6>1. job[p][w].began \in Nat /\ changed[k] \in Nat
            BY <1>0, <2>2 DEF WorkType, Jobs, StoreType
          <6> QED BY <5>2, <6>1
        <5>4. ~ Underway(p, k)
          BY <2>2, <5>1, <5>3 DEF Underway
        <5> QED BY <2>1, <2>3, <2>9, <3>1, <3>3, <5>4 DEF NInv, KeptInv
      <4> QED BY <4>1, <4>2
    <3> QED BY <3>2, <3>3
  <2>10. KeptInv'
    BY <1>1, <2>9 DEF KeptInv
  <2> QED BY <2>6, <2>7, <2>8, <2>10 DEF NInv
<1>5. CASE SyncFails(p, w)
  BY <1>4, <1>5 DEF SyncFails, store
<1>6. CASE syncCluster(p, w)
  <2>1. /\ job[p][w].step = "pass" /\ Done(p, w, TRUE) /\ UNCHANGED <<now, cluster>>
        /\ synced' = [synced EXCEPT ![job[p][w].key] = job[p][w].began]
    BY <1>6 DEF syncCluster, store
  <2>2. job[p][w] # Idle /\ job[p][w].began \in Nat
    BY <1>2, <2>1 DEF Jobs
  <2>3. job[p][w].began <= now /\ synced[job[p][w].key] <= job[p][w].began
    BY <2>1 DEF NInv, ClockInv, PassInv
  <2> QED BY <1>4, <2>1, <2>2, <2>3
<1>7. CASE syncGet(p, w)
  <2> DEFINE k == job[p][w].key
  <2>1. /\ job[p][w].step = "get" /\ UNCHANGED <<now, cluster, store>>
    BY <1>7 DEF syncGet, store
  <2>2. /\ job[p][w] # Idle /\ k \in Clusters /\ job[p][w] \in Jobs
        /\ \A q \in Operators, v \in Workers : ~ (q = p /\ v = w) => job[q][v].key # k
    BY <1>2, <2>1
  <2>3. CASE cluster[k].uid = 0
    <3>1. Done(p, w, TRUE) /\ synced' = [synced EXCEPT ![k] = now]
      BY <1>7, <2>3 DEF syncGet
    <3>2. now \in Nat /\ now <= now BY <1>0 DEF StoreType
    <3> QED BY <1>4, <2>1, <2>2, <2>3, <3>1, <3>2
  <2>4. CASE cluster[k].uid # 0
    <3> DEFINE j == [job[p][w] EXCEPT !.step = "update", !.rv = cluster[k].rv, !.began = now]
    <3>1. job' = [job EXCEPT ![p][w] = j] /\ UNCHANGED <<queue, redo, backoff, synced>>
      BY <1>7, <2>4 DEF syncGet
    <3>2. j.key = k /\ j.step = "update" /\ j.began = now
      BY <2>2 DEF Jobs
    <3> HIDE DEF j
    <3>3. \A q \in Operators, v \in Workers :
            job'[q][v] = IF q = p /\ v = w THEN j ELSE job[q][v]
      BY <1>0, <3>1 DEF WorkType
    <3>4. ClockInv'
      BY <1>0, <1>1, <2>1, <3>1, <3>2, <3>3 DEF NInv, ClockInv, StoreType
    <3>5. CacheInv'
      BY <1>1, <2>1 DEF NInv, CacheInv
    <3>6. PassInv'
      BY <2>2, <3>1, <3>2, <3>3 DEF NInv, PassInv, ClockInv
    <3>7. \A q \in Operators, c \in Clusters :
            /\ Pending(q, c) => Pending(q, c)'
            /\ Behind(q, c) => Behind(q, c)'
      BY <1>1, <2>1, <3>1 DEF Pending, Queued, Behind
    <3>8. changed[k] <= now /\ now >= changed[k]
      BY <1>0, <2>2 DEF NInv, ClockInv, StoreType
    <3>9. \A q \in Operators, c \in Clusters : Underway(q, c) => Underway(q, c)'
      BY <1>1, <2>2, <3>2, <3>3, <3>8 DEF Underway
    <3>10. KeptInv'
      BY <1>1, <2>1, <3>1, <3>7, <3>9, Moved DEF NInv
    <3> QED BY <3>4, <3>5, <3>6, <3>10 DEF NInv
  <2> QED BY <2>3, <2>4
<1>8. CASE syncUpdate(p, w)
  <2> DEFINE k == job[p][w].key
  <2>1. job[p][w].step = "update" /\ UNCHANGED synced
    BY <1>8 DEF syncUpdate
  <2>2. /\ job[p][w] # Idle /\ k \in Clusters /\ job[p][w] \in Jobs
        /\ \A q \in Operators, v \in Workers : ~ (q = p /\ v = w) => job[q][v].key # k
    BY <1>2, <2>1
  <2>3. CASE cluster[k].rv # job[p][w].rv
    BY <1>4, <1>8, <2>1, <2>2, <2>3 DEF syncUpdate
  <2>4. CASE cluster[k].rv = job[p][w].rv
    <3> DEFINE j == [job[p][w] EXCEPT !.step = "pass"]
    <3>1. job' = [job EXCEPT ![p][w] = j] /\ UNCHANGED <<queue, redo, backoff>>
      BY <1>8, <2>4 DEF syncUpdate
    <3>2. j.key = k /\ j.step = "pass" /\ j.began = job[p][w].began
      BY <2>2 DEF Jobs
    <3> HIDE DEF j
    <3>3. \A q \in Operators, v \in Workers :
            job'[q][v] = IF q = p /\ v = w THEN j ELSE job[q][v]
      BY <1>0, <3>1 DEF WorkType
    <3>4. /\ now' \in {now, now + 1}
          /\ \A c \in Clusters : cluster'[c].uid = cluster[c].uid /\
               (cluster'[c].rv = cluster[c].rv \/ (cluster'[c].rv = now + 1 /\ now' = now + 1))
      <4>1. CASE cluster[k].raw
        <5>1. /\ now' = now + 1
              /\ cluster' = [cluster EXCEPT ![k] = [@ EXCEPT !.rv = now + 1, !.raw = FALSE]]
          BY <1>8, <2>4, <4>1 DEF syncUpdate
        <5> QED BY <1>0, <2>2, <5>1 DEF StoreType
      <4>2. CASE ~ cluster[k].raw
        BY <1>8, <2>4, <4>2 DEF syncUpdate
      <4> QED BY <4>1, <4>2
    <3>5. \A n \in Nat : n <= now => n <= now' /\ n # now + 1 /\ (now + 1 # 0)
      BY <1>0, <3>4 DEF StoreType
    <3>6. \A q \in Operators, c \in Clusters : known[q][c].rv \in Nat /\ known[q][c].rv <= now
      BY <1>0 DEF NInv, ClockInv, InformerType
    <3>7. ClockInv'
      <4>1. \A c \in Clusters : cluster'[c].rv <= now'
        BY <1>0, <3>4, <3>5 DEF NInv, ClockInv, StoreType
      <4>2. \A c \in Clusters : changed[c] <= now' /\ synced[c] <= now'
        BY <1>0, <3>5 DEF NInv, ClockInv, StoreType
      <4>3. \A d \in Deployments : deploy[d].rv <= now'
        BY <1>0, <3>5 DEF NInv, ClockInv, StoreType
      <4>4. \A q \in Operators : /\ \A c \in Clusters : known[q][c].rv <= now'
                                 /\ \A d \in Deployments : knownD[q][d].rv <= now'
        BY <1>0, <3>5, <3>6 DEF NInv, ClockInv, InformerType
      <4>5. \A q \in Operators, v \in Workers : job[q][v].began <= now'
        BY <1>0, <3>5 DEF NInv, ClockInv, WorkType, Jobs
      <4> QED BY <1>1, <2>1, <3>2, <3>3, <4>1, <4>2, <4>3, <4>4, <4>5 DEF ClockInv
    <3>8. CacheInv'
      BY <1>0, <1>1, <3>4, <3>5, <3>6 DEF NInv, CacheInv, StoreType
    <3>9. PassInv'
      BY <2>1, <3>2, <3>3 DEF NInv, PassInv
    <3>10. \A q \in Operators, c \in Clusters :
             /\ Pending(q, c) => Pending(q, c)'
             /\ Behind(q, c) => Behind(q, c)'
      BY <1>1, <3>1, <3>4, <3>5, <3>6 DEF Pending, Queued, Behind
    <3>11. \A q \in Operators, c \in Clusters : Underway(q, c) => Underway(q, c)'
      BY <1>1, <2>1, <3>2, <3>3 DEF Underway
    <3>12. \A c \in Clusters : Due(c)' <=> Due(c)
      BY <1>1, <2>1, <3>4 DEF Due
    <3>13. KeptInv'
      BY <1>1, <3>10, <3>11, <3>12 DEF NInv, KeptInv
    <3> QED BY <3>7, <3>8, <3>9, <3>13 DEF NInv
  <2> QED BY <2>3, <2>4
<1> QED BY <1>3, <1>5, <1>6, <1>7, <1>8 DEF Worker

\* A process that starts lists every cluster; one that dies has nothing to remember.
LEMMA ProcessesNote ==
  ASSUME IInv, NInv, NEW p \in Operators,
         Lead(p) \/ Run(p) \/ Crash(p) \/ LeaseLost(p) \/ Tombstone(p) \/ Time
  PROVE  NInv'
<1>0. WorkType /\ StoreType /\ InformerType /\ LeaderType
  BY DEF IInv, TypeOK
<1>1. UNCHANGED <<now, cluster, deploy, changed, synced, store>>
  BY DEF Lead, Run, Crash, LeaseLost, Tombstone, Time, store
<1>2. \A c \in Clusters : Due(c)' <=> Due(c)
  BY <1>1 DEF Due
<1>3. CASE Lead(p) \/ Time
  <2>1. UNCHANGED <<up, informers, work>>
    BY <1>3 DEF Lead, Time, Acquire, Observe, RenewLease, Tick
  <2>2. ClockInv' /\ CacheInv' /\ PassInv'
    BY <1>1, <2>1 DEF NInv, ClockInv, CacheInv, PassInv, informers, work
  <2>3. \A q \in Operators, c \in Clusters :
          Pending(q, c) \/ Behind(q, c) \/ Underway(q, c) =>
            Pending(q, c)' \/ Behind(q, c)' \/ Underway(q, c)'
    BY <1>1, <2>1 DEF Pending, Queued, Behind, Underway, informers, work
  <2> QED BY <1>1, <2>1, <2>2, <2>3, Moved DEF NInv
<1>4. CASE Run(p)
  <2>1. /\ up' = [up EXCEPT ![p] = TRUE] /\ UNCHANGED <<work, queue, redo, backoff, job>>
        /\ initial' = [initial EXCEPT ![p] = { c \in Clusters : cluster[c].uid # 0 }]
        /\ known' = [known EXCEPT ![p] = [c \in Clusters |->
             IF cluster[c].uid = 0 THEN [uid |-> 0, rv |-> cluster[c].rv] ELSE Absent]]
        /\ knownD' = [knownD EXCEPT ![p] = [d \in Deployments |->
             IF deploy[d].exists THEN Unknown ELSE [exists |-> FALSE, rv |-> deploy[d].rv]]]
    BY <1>4 DEF Run, StartProcess, work
  <2>2. \A c \in Clusters :
          /\ known'[p][c].rv = IF cluster[c].uid = 0 THEN cluster[c].rv ELSE 0
          /\ known'[p][c].uid = 0
    BY <1>0, <2>1 DEF InformerType, Absent
  <2>3. \A d \in Deployments : knownD'[p][d].rv = IF deploy[d].exists THEN 0 ELSE deploy[d].rv
    BY <1>0, <2>1 DEF InformerType, Unknown
  <2>4. \A q \in Operators :
          q # p => /\ up'[q] = up[q] /\ initial'[q] = initial[q]
                   /\ known'[q] = known[q] /\ knownD'[q] = knownD[q]
    BY <1>0, <2>1 DEF InformerType, LeaderType
  <2>5. ClockInv'
    <3>1. 0 <= now BY <1>0 DEF StoreType
    <3>2. /\ \A c \in Clusters : known'[p][c].rv <= now
          /\ \A d \in Deployments : knownD'[p][d].rv <= now
      BY <2>2, <2>3, <3>1 DEF NInv, ClockInv
    <3> QED BY <1>1, <2>1, <2>4, <3>2 DEF NInv, ClockInv
  <2>6. CacheInv'
    BY <1>1, <2>2, <2>4 DEF NInv, CacheInv
  <2>7. PassInv'
    BY <1>1, <2>1 DEF NInv, PassInv
  <2>8. \A c \in Clusters : Due(c) => Pending(p, c)'
    BY <1>0, <2>1 DEF Due, Pending, InformerType
  <2>9. \A q \in Operators, c \in Clusters : q # p /\ (Pending(q, c) \/ Behind(q, c) \/ Underway(q, c)) =>
          Pending(q, c)' \/ Behind(q, c)' \/ Underway(q, c)'
    BY <1>1, <2>1, <2>4 DEF Pending, Queued, Behind, Underway
  <2>10. KeptInv'
    BY <1>2, <2>4, <2>8, <2>9 DEF NInv, KeptInv
  <2> QED BY <2>5, <2>6, <2>7, <2>10 DEF NInv
<1>5. CASE Crash(p) \/ LeaseLost(p) \/ Tombstone(p)
  <2>1. Stop(p) /\ Forgotten(p)
    BY <1>5 DEF Crash, LeaseLost, Tombstone, onStopped
  <2>2. /\ \A c \in Clusters : known'[p][c].rv = 0 /\ known'[p][c].uid = 0
        /\ \A d \in Deployments : knownD'[p][d].rv = 0
        /\ \A w \in Workers : job'[p][w] = Idle
        /\ ~ up'[p]
    BY <1>0, <2>1 DEF Stop, Forgotten, Absent, Unknown, InformerType, WorkType, LeaderType
  <2>3. \A q \in Operators :
          q # p => /\ up'[q] = up[q] /\ initial'[q] = initial[q]
                   /\ known'[q] = known[q] /\ knownD'[q] = knownD[q] /\ job'[q] = job[q]
                   /\ queue'[q] = queue[q] /\ redo'[q] = redo[q] /\ backoff'[q] = backoff[q]
    BY <1>0, <2>1 DEF Stop, Forgotten, InformerType, WorkType, LeaderType
  <2>4. ClockInv'
    <3>1. 0 <= now /\ Idle.began <= now BY <1>0 DEF StoreType, Idle
    <3>2. /\ \A c \in Clusters : known'[p][c].rv <= now
          /\ \A d \in Deployments : knownD'[p][d].rv <= now
          /\ \A w \in Workers : job'[p][w].began <= now
      BY <2>2, <3>1
    <3>3. \A q \in Operators : /\ \A c \in Clusters : known'[q][c].rv <= now
                               /\ \A d \in Deployments : knownD'[q][d].rv <= now
                               /\ \A w \in Workers : job'[q][w].began <= now
      <4> TAKE q \in Operators
      <4>1. CASE q = p BY <3>2, <4>1
      <4>2. CASE q # p BY <2>3, <4>2 DEF NInv, ClockInv
      <4> QED BY <4>1, <4>2
    <3> QED BY <1>1, <3>3 DEF NInv, ClockInv
  <2>5. CacheInv'
    BY <1>1, <2>2, <2>3 DEF NInv, CacheInv
  <2>6. PassInv'
    BY <1>1, <2>2, <2>3, IdleJob DEF NInv, PassInv
  <2>7. \A q \in Operators, c \in Clusters : q # p /\ (Pending(q, c) \/ Behind(q, c) \/ Underway(q, c)) =>
          Pending(q, c)' \/ Behind(q, c)' \/ Underway(q, c)'
    BY <1>1, <2>3 DEF Pending, Queued, Behind, Underway
  <2>8. KeptInv'
    BY <1>2, <2>2, <2>3, <2>7 DEF NInv, KeptInv
  <2> QED BY <2>4, <2>5, <2>6, <2>8 DEF NInv
<1> QED BY <1>3, <1>4, <1>5

\* What changes in the API server has a version no informer has.
LEMMA ChangesNote ==
  ASSUME IInv, NInv, ClusterChanges \/ DeploymentChanges
  PROVE  NInv'
<1>0. WorkType /\ StoreType /\ InformerType /\ JobInv
  BY DEF IInv, TypeOK
<1>1. /\ UNCHANGED <<up, known, knownD, initial, queue, redo, backoff, job, synced>>
      /\ now' = now + 1
  BY DEF ClusterChanges, DeploymentChanges, leaderVars, informers, work
<1>2. \A n \in Nat : n <= now => n <= now' /\ n # now + 1
  BY <1>0, <1>1 DEF StoreType
<1>3. now + 1 \in Nat /\ now + 1 <= now' /\ now + 1 # 0
  BY <1>0, <1>1 DEF StoreType
<1>4. /\ \A c \in Clusters : changed[c] \in Nat /\ synced[c] \in Nat /\ cluster[c].rv \in Nat
      /\ \A d \in Deployments : deploy[d].rv \in Nat
      /\ \A q \in Operators : /\ \A c \in Clusters : known[q][c].rv \in Nat
                              /\ \A d \in Deployments : knownD[q][d].rv \in Nat
                              /\ \A w \in Workers : job[q][w].began \in Nat
  <2>1. \A c \in Clusters : changed[c] \in Nat /\ synced[c] \in Nat /\ cluster[c].rv \in Nat
    BY <1>0 DEF StoreType
  <2>2. \A d \in Deployments : deploy[d].rv \in Nat
    BY <1>0 DEF StoreType
  <2>3. \A q \in Operators : /\ \A c \in Clusters : known[q][c].rv \in Nat
                             /\ \A d \in Deployments : knownD[q][d].rv \in Nat
    BY <1>0 DEF InformerType
  <2>4. \A q \in Operators : \A w \in Workers : job[q][w].began \in Nat
    BY <1>0 DEF WorkType, Jobs
  <2> QED BY <2>1, <2>2, <2>3, <2>4
<1>5. ASSUME \A c \in Clusters : changed'[c] \in {changed[c], now + 1},
             \A c \in Clusters : cluster'[c].rv \in {cluster[c].rv, now + 1},
             \A d \in Deployments : deploy'[d].rv \in {deploy[d].rv, now + 1}
      PROVE  ClockInv'
  <2>1. /\ \A c \in Clusters : changed'[c] <= now' /\ synced[c] <= now'
        /\ \A c \in Clusters : cluster'[c].rv <= now'
    BY <1>2, <1>3, <1>4, <1>5 DEF NInv, ClockInv
  <2>2. \A d \in Deployments : deploy'[d].rv <= now'
    BY <1>2, <1>3, <1>4, <1>5 DEF NInv, ClockInv
  <2>3. \A q \in Operators : /\ \A c \in Clusters : known[q][c].rv <= now'
                             /\ \A d \in Deployments : knownD[q][d].rv <= now'
                             /\ \A w \in Workers : job[q][w].began <= now'
    BY <1>2, <1>4 DEF NInv, ClockInv
  <2> QED BY <1>1, <2>1, <2>2, <2>3 DEF ClockInv
<1>6. PassInv'
  BY <1>1 DEF NInv, PassInv
<1>7. \A q \in Operators : /\ \A c \in Clusters : known[q][c].rv # now + 1
                           /\ \A d \in Deployments : knownD[q][d].rv # now + 1
  BY <1>2, <1>4 DEF NInv, ClockInv
<1>8. \A q \in Operators, c \in Clusters : Pending(q, c) => Pending(q, c)'
  BY <1>1 DEF Pending, Queued
<1>9. CASE ClusterChanges
  <2>1. PICK c \in Clusters : \E u \in {0, cluster[c].uid, now + 1}, r \in {TRUE, cluster[c].raw} :
          /\ cluster' = [cluster EXCEPT ![c] = [uid |-> u, rv |-> now + 1, raw |-> r]]
          /\ changed' = [changed EXCEPT ![c] = now + 1] /\ UNCHANGED deploy
    BY <1>9 DEF ClusterChanges
  <2>2. /\ cluster'[c].rv = now + 1
        /\ \A b \in Clusters : b # c => cluster'[b] = cluster[b]
        /\ \A b \in Clusters : changed'[b] = IF b = c THEN now + 1 ELSE changed[b]
        /\ UNCHANGED deploy
    BY <1>0, <2>1 DEF StoreType
  <2>3. ClockInv'
    BY <1>5, <2>2
  <2>4. CacheInv'
    BY <1>1, <1>3, <1>7, <2>2 DEF NInv, CacheInv
  <2>5. \A q \in Operators : Behind(q, c)'
    BY <1>1, <1>7, <2>2 DEF Behind
  <2>6. \A q \in Operators, b \in Clusters : b # c /\ Behind(q, b) => Behind(q, b)'
    BY <1>1, <2>2 DEF Behind
  <2>7. \A q \in Operators, b \in Clusters : b # c /\ Underway(q, b) => Underway(q, b)'
    BY <1>1, <2>2 DEF Underway
  <2>8. \A b \in Clusters : b # c /\ Due(b)' => Due(b)
    BY <1>1, <2>2 DEF Due
  <2>9. KeptInv'
    BY <1>1, <1>8, <2>5, <2>6, <2>7, <2>8 DEF NInv, KeptInv
  <2> QED BY <1>6, <2>3, <2>4, <2>9 DEF NInv
<1>10. CASE DeploymentChanges
  <2>1. PICK d \in Deployments, e \in BOOLEAN :
          LET o == IF deploy[d].exists THEN deploy[d].owner ELSE cluster[OwnerOf[d]].uid IN
          /\ deploy' = [deploy EXCEPT ![d] = [exists |-> e, owner |-> o, rv |-> now + 1]]
          /\ changed' = IF o = cluster[OwnerOf[d]].uid
                        THEN [changed EXCEPT ![OwnerOf[d]] = now + 1] ELSE changed
          /\ UNCHANGED cluster
    BY <1>10 DEF DeploymentChanges
  <2> DEFINE a == OwnerOf[d]
             o == IF deploy[d].exists THEN deploy[d].owner ELSE cluster[a].uid
  <2>2. /\ a \in Clusters /\ UNCHANGED cluster
        /\ deploy'[d].rv = now + 1 /\ deploy'[d].owner = o
        /\ \A f \in Deployments : f # d => deploy'[f] = deploy[f]
        /\ \A b \in Clusters : changed'[b] = IF b = a /\ o = cluster[a].uid THEN now + 1 ELSE changed[b]
    BY <1>0, <2>1, ControllerAssumption DEF StoreType, ControllerAssumption
  <2>3. ClockInv'
    BY <1>5, <2>2
  <2>4. CacheInv'
    BY <1>1, <2>2 DEF NInv, CacheInv
  <2>5. CASE o = cluster[a].uid
    <3>1. \A q \in Operators : Behind(q, a)'
      BY <1>1, <1>7, <2>2, <2>5 DEF Behind
    <3>2. \A q \in Operators, b \in Clusters : b # a /\ Behind(q, b) => Behind(q, b)'
      BY <1>1, <2>2 DEF Behind
    <3>3. \A q \in Operators, b \in Clusters : b # a /\ Underway(q, b) => Underway(q, b)'
      BY <1>1, <2>2 DEF Underway
    <3>4. \A b \in Clusters : b # a /\ Due(b)' => Due(b)
      BY <1>1, <2>2 DEF Due
    <3>5. KeptInv'
      BY <1>1, <1>8, <3>1, <3>2, <3>3, <3>4 DEF NInv, KeptInv
    <3> QED BY <1>6, <2>3, <2>4, <3>5 DEF NInv
  <2>6. CASE o # cluster[a].uid
    <3>1. deploy[d].owner # cluster[a].uid
      BY <2>6
    <3>2. \A q \in Operators, b \in Clusters : Behind(q, b) => Behind(q, b)'
      BY <1>1, <2>2, <3>1 DEF Behind
    <3>3. \A q \in Operators, b \in Clusters : Underway(q, b) => Underway(q, b)'
      BY <1>1, <2>2, <2>6 DEF Underway
    <3>4. \A b \in Clusters : Due(b)' => Due(b)
      BY <1>1, <2>2, <2>6 DEF Due
    <3>5. KeptInv'
      BY <1>1, <1>8, <3>2, <3>3, <3>4 DEF NInv, KeptInv
    <3> QED BY <1>6, <2>3, <2>4, <3>5 DEF NInv
  <2> QED BY <2>5, <2>6
<1> QED BY <1>9, <1>10

\* The inductive step.
LEMMA NextNInv == IInv /\ NInv /\ [Next]_vars => NInv'
<1> SUFFICES ASSUME IInv, NInv, [Next]_vars PROVE NInv' OBVIOUS
<1>1. ASSUME UNCHANGED <<up, store, informers, work, synced>> PROVE NInv'
  <2>1. ClockInv' /\ CacheInv' /\ PassInv'
    BY <1>1 DEF NInv, ClockInv, CacheInv, PassInv, store, informers, work
  <2>2. \A q \in Operators, c \in Clusters :
          Pending(q, c) \/ Behind(q, c) \/ Underway(q, c) =>
            Pending(q, c)' \/ Behind(q, c)' \/ Underway(q, c)'
    BY <1>1 DEF Pending, Queued, Behind, Underway, store, informers, work
  <2> QED BY <1>1, <2>1, <2>2, Moved DEF NInv
<1>2. CASE Time \/ UNCHANGED vars
  BY <1>1, <1>2 DEF Time, Tick, vars, leaderVars
<1>3. CASE ClusterChanges \/ DeploymentChanges
  BY <1>3, ChangesNote
<1>4. ASSUME NEW p \in Operators,
             \/ Lead(p) \/ Run(p) \/ Crash(p) \/ LeaseLost(p) \/ Tombstone(p)
             \/ Goroutines(p) \/ Resync(p) \/ \E w \in Workers : SyncFails(p, w)
      PROVE  NInv'
  BY <1>4, ProcessesNote, EventsNote, WorkersNote DEF Goroutines
<1> QED BY <1>2, <1>3, <1>4 DEF Next

\* The variables of Leader and Controller keep their types.
THEOREM ControllerTypeCorrect == Spec => []TypeOK
<1>1. IInv => TypeOK BY DEF IInv
<1> QED BY InitIInv, NextIInv, <1>1, PTL DEF Spec

\* No two workers ever hold the same cluster, for any number of operators, workers and
\* clusters, any deadlines with Renew < Lease, and however many faults there are.
THEOREM OneWorker == Spec => []OneWorkerPerCluster
<1> QED BY InitIInv, NextIInv, KeysDiffer, PTL DEF Spec

\* A change of a cluster or of its deployments is never forgotten by a running operator, for
\* any number of operators, workers, clusters and deployments and however many changes and
\* faults there are: until a pass that started after it has succeeded it is queued, or in a
\* pass that will see it, or an event still to come will queue it.  It takes the lease and
\* the queue (OneWorker): a pass of a second worker could record an older version as synced.
THEOREM NothingLost == Spec => []NothingForgotten
<1>1. NInv => NothingForgotten
  BY DEF NInv, KeptInv, NothingForgotten, Noted, Due, Pending, Behind, Underway
<1> QED BY InitIInv, NextIInv, InitNInv, NextNInv, <1>1, PTL DEF Spec
=============================================================================
