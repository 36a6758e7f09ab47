----------------------------- MODULE Controller -----------------------------
(****************************************************************************)
(* The controller of pkg/controller/cluster/onecloud_cluster_controller.go: *)
(* informers of clusters and deployments whose handlers put the cluster     *)
(* into a rate-limited work queue, and workers that take it out and run a   *)
(* pass.  Informers, queue and watch are client-go's, which is external;    *)
(* the pass is that of Components and ClusterControl.  Every process has    *)
(* its own informers and queue, and its workers start when it leads.        *)
(****************************************************************************)
EXTENDS Leader, Sequences, FiniteSets

CONSTANTS
  Clusters,    \* names of clusters
  Deployments, \* names of deployments
  OwnerOf,     \* deployment -> the cluster its controller reference names
  Workers,     \* the goroutines of Run
  MaxChanges,  \* bound: changes of clusters and deployments
  MaxTroubles  \* bound: failed requests and passes, crashes, leaders that miss their deadline,
               \* deletions a broken watch misses, and periods of the resync, together

ASSUME ControllerAssumption ==
  /\ OwnerOf \in [Deployments -> Clusters] /\ "" \notin Clusters
  /\ MaxChanges \in Nat /\ MaxTroubles \in Nat

VARIABLES
  now,     \* resource versions given out
  cluster, \* name -> the object: uid (0: none), rv, raw (lacks defaults)
  deploy,  \* name -> the object: there is one, uid of its owner, rv
  known,   \* operator -> what its cluster informer has: name -> [uid, rv]
  knownD,  \* operator -> what its deployment informer has: name -> [exists, rv]
  initial, \* operator -> clusters of the first list not yet delivered (HasSynced)
  queue,   \* operator -> the keys ready to be taken, in order
  redo,    \* operator -> keys added while a worker has them
  backoff, \* operator -> keys AddRateLimited holds back
  job,     \* operator -> worker -> what it does
  changed, \* name -> the newest change of the cluster or of its deployments
  synced,  \* name -> the newest version a successful pass has started from
  left     \* what the environment may still do

store == <<now, cluster, deploy, changed>>
informers == <<known, knownD, initial>>
work == <<queue, redo, backoff, job>>
vars == <<leaderVars, store, informers, work, synced, left>>

Idle == [key |-> "", step |-> "idle", rv |-> 0, began |-> 0]
Absent == [uid |-> 0, rv |-> 0]
Unknown == [exists |-> FALSE, rv |-> 0]

Trouble == left.troubles > 0 /\ left' = [left EXCEPT !.troubles = @ - 1]
Change == left.changes > 0 /\ left' = [left EXCEPT !.changes = @ - 1]
Processing(p) == { job[p][w].key : w \in Workers } \ {""}
-----------------------------------------------------------------------------
(* The work queue: a key is in it once, and with one worker at most. *)

Queued(p) == { queue[p][i] : i \in DOMAIN queue[p] }

\* queue.Add of every key in K (K has one element, or none).
Add(p, K) ==
  /\ redo' = [redo EXCEPT ![p] = @ \cup (K \cap Processing(p))]
  /\ queue' = [queue EXCEPT ![p] =
                 IF K \subseteq Processing(p) \cup Queued(p) THEN @
                 ELSE Append(@, CHOOSE k \in K : TRUE)]

\* A mutant: a key added while the worker had it is not queued again.
DoneForgets(p, w, ok) ==
  LET k == job[p][w].key IN
  /\ job' = [job EXCEPT ![p][w] = Idle]
  /\ backoff' = [backoff EXCEPT ![p] = IF ok THEN @ ELSE @ \cup {k}]
  /\ redo' = [redo EXCEPT ![p] = @ \ {k}]
  /\ UNCHANGED queue

\* queue.Done, after Forget or AddRateLimited.
Done(p, w, ok) ==
  LET k == job[p][w].key IN
  /\ job' = [job EXCEPT ![p][w] = Idle]
  /\ backoff' = [backoff EXCEPT ![p] = IF ok THEN @ ELSE @ \cup {k}]
  /\ redo' = [redo EXCEPT ![p] = @ \ {k}]
  /\ queue' = [queue EXCEPT ![p] = IF k \in redo[p] THEN Append(@, k) ELSE @]

\* The delay of AddRateLimited is over.
AddAfter(p) ==
  \E k \in backoff[p] :
    /\ Add(p, {k})
    /\ backoff' = [backoff EXCEPT ![p] = @ \ {k}]
    /\ UNCHANGED <<leaderVars, store, informers, job, synced, left>>
-----------------------------------------------------------------------------
(* The handlers. *)

\* Add, update and delete of a cluster alike, a tombstone included.
enqueueCluster(p, c) == Add(p, {c})

ClusterEvent(p) ==
  \E c \in Clusters :
    /\ up[p] /\ known[p][c].rv # cluster[c].rv
    /\ known' = [known EXCEPT ![p][c] = [uid |-> cluster[c].uid, rv |-> cluster[c].rv]]
    /\ initial' = [initial EXCEPT ![p] = @ \ {c}]
    /\ enqueueCluster(p, c)
    /\ UNCHANGED <<leaderVars, store, knownD, backoff, job, synced, left>>

\* UpdateFunc with the object the informer has, every resyncDuration.
Resync(p) ==
  \E c \in Clusters :
    /\ up[p] /\ known[p][c].uid # 0
    /\ enqueueCluster(p, c) /\ Trouble
    /\ UNCHANGED <<leaderVars, store, informers, backoff, job, synced>>

\* By name in the lister, and then the UID must be the reference's.
resolveOnecloudClusterFromDeployment(p, d) ==
  { c \in {OwnerOf[d]} : known[p][c].uid # 0 /\ known[p][c].uid = deploy[d].owner }

\* addDeployment, updateDeployment and deleteDeployment with a deployment all do this.
DeploymentEvent(p) ==
  \E d \in Deployments :
    /\ up[p] /\ knownD[p][d].rv # deploy[d].rv
    /\ knownD' = [knownD EXCEPT ![p][d] = [exists |-> deploy[d].exists, rv |-> deploy[d].rv]]
    /\ Add(p, resolveOnecloudClusterFromDeployment(p, d))
    /\ UNCHANGED <<leaderVars, store, known, initial, backoff, job, synced, left>>
-----------------------------------------------------------------------------
(* The workers. *)

\* A mutant: the key is marked done as soon as it is taken.
processNextWorkItemDone(p, w) ==
  /\ up[p] /\ leading[p] /\ initial[p] = {} /\ job[p][w] = Idle /\ queue[p] # <<>>
  /\ job' = [job EXCEPT ![p][w] = [Idle EXCEPT !.key = Head(queue[p]), !.step = "get"]]
  /\ UNCHANGED <<leaderVars, store, informers, queue, redo, backoff, synced, left>>

processNextWorkItem(p, w) ==
  /\ up[p] /\ leading[p] /\ initial[p] = {} /\ job[p][w] = Idle /\ queue[p] # <<>>
  /\ job' = [job EXCEPT ![p][w] = [Idle EXCEPT !.key = Head(queue[p]), !.step = "get"]]
  /\ queue' = [queue EXCEPT ![p] = Tail(@)]
  /\ UNCHANGED <<leaderVars, store, informers, redo, backoff, synced, left>>

\* An error of a request or of the pass.
SyncFails(p, w) ==
  /\ job[p][w] # Idle
  /\ Trouble
  /\ Done(p, w, FALSE)
  /\ UNCHANGED <<leaderVars, store, informers, synced>>

\* sync: the cluster is read from the API server; a deleted one needs no pass.
syncGet(p, w) ==
  LET c == job[p][w].key IN
  /\ job[p][w].step = "get"
  /\ IF cluster[c].uid = 0
     THEN Done(p, w, TRUE) /\ synced' = [synced EXCEPT ![c] = now]
     ELSE /\ job' = [job EXCEPT ![p][w] =
                       [@ EXCEPT !.step = "update", !.rv = cluster[c].rv, !.began = now]]
          /\ UNCHANGED <<queue, redo, backoff, synced>>
  /\ UNCHANGED <<leaderVars, store, informers, left>>

\* A mutant: a refused Update is repeated with the object that was read, until it succeeds.
syncUpdateLoops(p, w) ==
  LET c == job[p][w].key IN
  /\ job[p][w].step = "update" /\ cluster[c].rv = job[p][w].rv
  /\ job' = [job EXCEPT ![p][w] = [@ EXCEPT !.step = "pass"]]
  /\ IF cluster[c].raw
     THEN /\ now' = now + 1
          /\ cluster' = [cluster EXCEPT ![c] = [@ EXCEPT !.rv = now + 1, !.raw = FALSE]]
     ELSE UNCHANGED <<now, cluster>>
  /\ UNCHANGED <<leaderVars, deploy, changed, informers, queue, redo, backoff, synced, left>>

\* sync: scheme.Default and Update, which is refused unless the version is the newest.
syncUpdate(p, w) ==
  LET c == job[p][w].key IN
  /\ job[p][w].step = "update"
  /\ IF cluster[c].rv # job[p][w].rv
     THEN Done(p, w, FALSE) /\ UNCHANGED <<now, cluster>>
     ELSE /\ job' = [job EXCEPT ![p][w] = [@ EXCEPT !.step = "pass"]]
          /\ IF cluster[c].raw
             THEN /\ now' = now + 1
                  /\ cluster' = [cluster EXCEPT ![c] = [@ EXCEPT !.rv = now + 1, !.raw = FALSE]]
             ELSE UNCHANGED <<now, cluster>>
          /\ UNCHANGED <<queue, redo, backoff>>
  /\ UNCHANGED <<leaderVars, deploy, changed, informers, synced, left>>

syncCluster(p, w) ==
  /\ job[p][w].step = "pass"
  /\ Done(p, w, TRUE)
  /\ synced' = [synced EXCEPT ![job[p][w].key] = job[p][w].began]
  /\ UNCHANGED <<leaderVars, store, informers, left>>
-----------------------------------------------------------------------------
(* Processes. *)

Lead(p) ==
  /\ Acquire(p) \/ Observe(p) \/ RenewLease(p)
  /\ UNCHANGED <<store, informers, work, synced, left>>

\* Queue and caches die with the process.
Forgotten(p) ==
  /\ queue' = [queue EXCEPT ![p] = <<>>] /\ redo' = [redo EXCEPT ![p] = {}]
  /\ backoff' = [backoff EXCEPT ![p] = {}]
  /\ job' = [job EXCEPT ![p] = [w \in Workers |-> Idle]]
  /\ known' = [known EXCEPT ![p] = [c \in Clusters |-> Absent]]
  /\ knownD' = [knownD EXCEPT ![p] = [d \in Deployments |-> Unknown]]
  /\ initial' = [initial EXCEPT ![p] = {}]

Crash(p) ==
  /\ up[p] /\ Stop(p) /\ Forgotten(p)
  /\ Trouble
  /\ UNCHANGED <<store, synced>>

LeaseLost(p) ==
  /\ onStopped(p) /\ Forgotten(p)
  /\ Trouble
  /\ UNCHANGED <<store, synced>>

\* deleteDeployment gets a tombstone: it uses the deployment it has not unwrapped.
Tombstone(p) ==
  /\ \E d \in Deployments : knownD[p][d].exists /\ ~ deploy[d].exists
  /\ up[p] /\ Stop(p) /\ Forgotten(p)
  /\ Trouble
  /\ UNCHANGED <<store, synced>>

\* NewController and Run: the informers list what there is, of what is gone they will not
\* hear; Run waits for the clusters' list.
Run(p) ==
  /\ StartProcess(p)
  /\ initial' = [initial EXCEPT ![p] = { c \in Clusters : cluster[c].uid # 0 }]
  /\ known' = [known EXCEPT ![p] = [c \in Clusters |->
                  IF cluster[c].uid = 0 THEN [uid |-> 0, rv |-> cluster[c].rv] ELSE Absent]]
  /\ knownD' = [knownD EXCEPT ![p] = [d \in Deployments |->
                  IF deploy[d].exists THEN Unknown ELSE [exists |-> FALSE, rv |-> deploy[d].rv]]]
  /\ UNCHANGED <<store, work, synced, left>>

Time == Tick /\ UNCHANGED <<store, informers, work, synced, left>>
-----------------------------------------------------------------------------
(* The API server's objects change: users, the pass, Kubernetes. *)

ClusterChanges ==
  \E c \in Clusters : \E u \in {0, cluster[c].uid, now + 1} :
    /\ Change
    /\ u # 0 \/ cluster[c].uid # 0
    /\ cluster[c].uid = 0 => u = now + 1
    /\ now' = now + 1
    /\ cluster' = [cluster EXCEPT ![c] =
         [uid |-> u, rv |-> now + 1, raw |-> IF u = now + 1 THEN TRUE ELSE @.raw]]
    /\ changed' = [changed EXCEPT ![c] = now + 1]
    /\ UNCHANGED <<leaderVars, deploy, informers, work, synced>>

DeploymentChanges ==
  \E d \in Deployments, e \in BOOLEAN :
    /\ Change
    /\ e \/ deploy[d].exists
    /\ ~ deploy[d].exists => cluster[OwnerOf[d]].uid # 0
    /\ now' = now + 1
    /\ LET o == IF deploy[d].exists THEN deploy[d].owner ELSE cluster[OwnerOf[d]].uid IN
       /\ deploy' = [deploy EXCEPT ![d] = [exists |-> e, owner |-> o, rv |-> now + 1]]
       /\ changed' = IF o = cluster[OwnerOf[d]].uid
                     THEN [changed EXCEPT ![OwnerOf[d]] = now + 1] ELSE changed
    /\ UNCHANGED <<leaderVars, cluster, informers, work, synced>>
-----------------------------------------------------------------------------
\* Either there is no cluster yet, or an earlier operator has left clusters with their
\* deployments.
Init ==
  /\ LeaderInit
  /\ now = 2
  /\ \E C \in {{}, Clusters} :
       /\ cluster = [c \in Clusters |-> IF c \in C THEN [uid |-> 1, rv |-> 1, raw |-> FALSE]
                                        ELSE [uid |-> 0, rv |-> 0, raw |-> FALSE]]
       /\ deploy = [d \in Deployments |->
            IF OwnerOf[d] \in C THEN [exists |-> TRUE, owner |-> 1, rv |-> 2]
            ELSE [exists |-> FALSE, owner |-> 0, rv |-> 0]]
       /\ changed = [c \in Clusters |-> IF c \in C THEN 2 ELSE 0]
  /\ known = [p \in Operators |-> [c \in Clusters |-> Absent]]
  /\ knownD = [p \in Operators |-> [d \in Deployments |-> Unknown]]
  /\ initial = [p \in Operators |-> {}]
  /\ queue = [p \in Operators |-> <<>>] /\ redo = [p \in Operators |-> {}]
  /\ backoff = [p \in Operators |-> {}]
  /\ job = [p \in Operators |-> [w \in Workers |-> Idle]]
  /\ synced = [c \in Clusters |-> 0]
  /\ left = [changes |-> MaxChanges, troubles |-> MaxTroubles]

Worker(p, w) ==
  processNextWorkItem(p, w) \/ syncGet(p, w) \/ syncUpdate(p, w) \/ syncCluster(p, w)

Goroutines(p) ==
  ClusterEvent(p) \/ DeploymentEvent(p) \/ AddAfter(p) \/ \E w \in Workers : Worker(p, w)

Next ==
  \/ Time \/ ClusterChanges \/ DeploymentChanges
  \/ \E p \in Operators :
       \/ Lead(p) \/ Run(p) \/ Crash(p) \/ LeaseLost(p) \/ Tombstone(p)
       \/ Goroutines(p) \/ Resync(p) \/ \E w \in Workers : SyncFails(p, w)

Spec == Init /\ [][Next]_vars

\* Kubernetes restarts processes, clocks run, requests for the lease are answered, and when
\* there is something to do some goroutine runs; the periodic resync is not relied on.
FairSpec ==
  /\ Spec /\ WF_vars(Time)
  /\ WF_vars(\E p \in Operators : Lead(p))
  /\ WF_vars(\E p \in Operators : Run(p) \/ Goroutines(p))
-----------------------------------------------------------------------------
(* Properties. *)

Jobs == [key : Clusters \cup {""}, step : {"idle", "get", "update", "pass"},
         rv : Nat, began : Nat]

StoreType ==
  /\ now \in Nat
  /\ cluster \in [Clusters -> [uid : Nat, rv : Nat, raw : BOOLEAN]]
  /\ deploy \in [Deployments -> [exists : BOOLEAN, owner : Nat, rv : Nat]]
  /\ changed \in [Clusters -> Nat] /\ synced \in [Clusters -> Nat]

InformerType ==
  /\ known \in [Operators -> [Clusters -> [uid : Nat, rv : Nat]]]
  /\ knownD \in [Operators -> [Deployments -> [exists : BOOLEAN, rv : Nat]]]
  /\ initial \in [Operators -> SUBSET Clusters]

WorkType ==
  /\ queue \in [Operators -> Seq(Clusters)]
  /\ redo \in [Operators -> SUBSET Clusters] /\ backoff \in [Operators -> SUBSET Clusters]
  /\ job \in [Operators -> [Workers -> Jobs]]

Budget == {"changes", "troubles"}

\* Every variable has its type.
TypeOK == LeaderType /\ StoreType /\ InformerType /\ WorkType /\ left \in [Budget -> Nat]

\* No two workers, of one operator or of two, ever hold the same cluster: the work queue
\* gives a key to one worker, and a leader exits before its lease can be taken over (the
\* second half is for processes with --enable-leader-election).
OneWorkerPerCluster ==
  \A p, q \in Operators : \A v, w \in Workers :
    <<p, v>> # <<q, w>> /\ job[p][v] # Idle => job[p][v].key # job[q][w].key

\* What is still to be done about cluster c is noted somewhere in operator p.
Noted(p, c) ==
  \/ c \in Queued(p) \cup redo[p] \cup backoff[p] \cup initial[p]
  \/ known[p][c].rv # cluster[c].rv
  \/ \E d \in Deployments : OwnerOf[d] = c /\ knownD[p][d].rv # deploy[d].rv
  \/ \E w \in Workers : job[p][w].key = c /\ (job[p][w].step = "get" \/ job[p][w].began >= changed[c])

\* A change that no successful pass has started from, of a cluster that exists, is never
\* forgotten by a running operator: neither by a handler that cannot resolve the owner, nor
\* by a failed pass, nor because it happened while a pass was running; without the help of
\* the resync.
NothingForgotten ==
  \A p \in Operators, c \in Clusters :
    up[p] /\ cluster[c].uid # 0 /\ synced[c] < changed[c] => Noted(p, c)

\* Every change of a cluster is followed by a successful pass that starts after it, although
\* operators crash, lose the lease, or die of a tombstone.
EveryChangeSynced ==
  \A c \in Clusters : <>[](cluster[c].uid # 0 => synced[c] >= changed[c])
=============================================================================
