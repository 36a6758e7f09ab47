----------------------------- MODULE Components -----------------------------
(****************************************************************************)
(* The reconcile pass over the component managers, and what a manager does  *)
(* in it: pkg/controller/cluster/onecloud_cluster_control.go drives the     *)
(* managers of module Catalogue one after the other, then 25 of them in     *)
(* parallel; each runs syncComponent (sync.go, component.go) against the    *)
(* API server, of which the operator sees a cache (the listers), through    *)
(* the controls of pkg/controller, and registers its service with Keystone. *)
(*                                                                          *)
(* An object is [v, ann, ready]: v the part of the spec it was built from   *)
(* (an image, a port; 0 when there is no object), ann the part stored in    *)
(* its last-applied annotation (0 for none, or one no spec is equal to),    *)
(* ready what the API server reports of its pods: that they all run, and    *)
(* with this image (ObservedGeneration).  A behaviour follows one group of  *)
(* managers; those outside the group are assumed to be in order.            *)
(****************************************************************************)
EXTENDS Catalogue, Naturals

CONSTANTS
  Groups,          \* the sets of managers to follow, one in each behaviour
  Zones,           \* GetZones, a sequence that begins with the default zone ""
  ProductVersions, \* the product versions a cluster may ask for, all of them valid
  StopFlags,       \* the values of controller.StopServices a process may have
  DisableSyncIngress, \* the flag of that name
  Broken,          \* the managers whose database never answers
  MaxImage,        \* bound: images 1..MaxImage, in no order
  MaxPort,         \* bound: ports 1..MaxPort
  MaxEdits, MaxFaults, MaxCrashes, MaxDeletes, MaxOutages, \* bounds on events of each kind
  MaxEvents,       \* bound, for each group: events of all kinds together
  MaxLag           \* bound, for each group: objects the cache is behind with after a request

ASSUME ComponentsAssumption ==
  /\ Groups \subseteq SUBSET Managers
  /\ Zones \in Seq(STRING) /\ Len(Zones) > 0 /\ Zones[1] = ""
  /\ Broken \subseteq Managers /\ ProductVersions \subseteq All /\ StopFlags \subseteq BOOLEAN
  /\ DisableSyncIngress \in BOOLEAN
  /\ MaxImage \in Nat \ {0} /\ MaxPort \in Nat \ {0}
  /\ \A n \in {MaxEdits, MaxFaults, MaxCrashes, MaxDeletes, MaxOutages} : n \in Nat
  /\ MaxEvents \in [Groups -> Nat] /\ MaxLag \in [Groups -> Nat \ {0}]

VARIABLES
  mgr,     \* the managers followed: name -> what the catalogue says of it
  stop,    \* controller.StopServices of the running process
  spec,    \* the spec of the cluster, as the API server has it
  oc,      \* the copy the running pass works on
  stage,   \* "idle", "sequential", "parallel" or "addons"
  turn,    \* the place in Sequential of the manager the pass has started last, or 0
  at,      \* unit -> the step of syncComponent it is at, or "idle", "done", "failed"
  todo,    \* unit -> the steps it has still to come to
  bad,     \* unit -> its main deployment returned an error
  again,   \* unit -> the kind whose update was refused and is repeated, or ""
  server,  \* unit -> kind -> the object of the API server
  cache,   \* unit -> kind -> the object of the lister
  seen,    \* unit -> kind -> the lister has the newest version
  proven,  \* unit -> the images with which its pods have been ready: history, no code reads it
  done,    \* unit -> what was set up outside Kubernetes
  reg,     \* unit -> its endpoints in Keystone
  left     \* what the environment may still do

pass == <<oc, stage, turn, at, todo, bad, again>>
objects == <<server, cache, seen, proven>>
outside == <<done, reg>>
vars == <<mgr, stop, spec, pass, objects, outside, left>>
-----------------------------------------------------------------------------
Kinds == {"main", "ro", "svc", "slave", "cm", "pvc", "ing"}

\* The steps of syncComponent, in its order: what is needed, the objects, syncPhase (the
\* endpoints, then what the SystemInit of some services creates), and monitor-stack's own.
Place ==
  [cronjobs |-> 1, db |-> 2, dbuser |-> 3, grant |-> 4, clickhouse |-> 5, user |-> 6,
   config |-> 7, pvc |-> 8, deployment |-> 9, readonly |-> 10, daemonset |-> 11,
   service |-> 12, ingress |-> 13, policies |-> 14, setup |-> 15, restart |-> 16,
   services |-> 17, zones |-> 18, schedtags |-> 19, templates |-> 20, alerts |-> 21,
   minio |-> 22, agent |-> 23, settings |-> 24, enable |-> 25, monitorMinio |-> 26,
   bucket |-> 27, thanos |-> 28, stack |-> 29, bucketPolicy |-> 30, done |-> 31]
Steps == DOMAIN Place
First(S) == CHOOSE s \in S : \A t \in S : Place[s] <= Place[t]

syncPhase == {"policies", "setup", "services", "zones", "schedtags", "templates", "alerts",
              "minio", "agent", "settings", "enable"}
ClusterComponents == {"minio", "monitorMinio", "thanos", "stack"}

\* Calls to MySQL, ClickHouse, Keystone and the other services of the cloud.
External ==
  {"cronjobs", "db", "dbuser", "grant", "clickhouse", "user", "bucket", "bucketPolicy"} \cup
  ClusterComponents \cup (syncPhase \ {"setup", "enable"})
NeedsKeystone == {"user", "monitorMinio"} \cup syncPhase
ObjectSteps == {"pvc", "deployment", "readonly", "daemonset", "service", "ingress"}
Workloads == {"deployment", "readonly", "daemonset"}

None == [v |-> 0, ann |-> 0, ready |-> FALSE]
Exists(o) == o.v # 0

active == DOMAIN mgr
UnitsOf(c) == { <<c, Zones[i]>> : i \in IF mgr[c].zoned THEN DOMAIN Zones ELSE {1} }
Units == UNION { UnitsOf(c) : c \in active }
M(u) == mgr[u[1]]
Keystone == <<"keystone", "">>
Region == <<"region", "">>
-----------------------------------------------------------------------------
(* What the cluster's spec s says about unit u. *)

isInProductVersion(u, s) == s.pv \in M(u).pv

IsDisabled(u, s) ==
  \/ M(u).key \in s.off
  \/ ~ (M(u).needs \subseteq s.features)
  \/ (M(u).guard /\ ~ isInProductVersion(u, s))

shouldStop(u) == stop /\ u[1] \notin {"ovn-north", "host"}

shouldDelete(u, s) == ~ isInProductVersion(u, s) \/ shouldStop(u) \/ IsDisabled(u, s)

\* Cloudnet's Sync returns before syncComponent when the feature is off.
ReturnsEarly(u, s) == M(u).early /\ ~ (M(u).needs \subseteq s.features) /\ ~ stop

syncsConfig(u, s) == M(u).config # "onlyInCMP" \/ s.pv = "CMP"

\* Whether a step of syncComponent has anything to look at.
Runs(u, step) ==
  /\ step \in M(u).has \/ (step \in {"dbuser", "grant"} /\ "db" \in M(u).has)
  /\ ~ ReturnsEarly(u, oc)
  /\ step \in {"db", "dbuser", "grant", "clickhouse", "user", "config", "pvc"} =>
       isInProductVersion(u, oc)
  /\ step \in {"dbuser", "grant"} => "dbuser" \notin done[u]
  /\ step = "clickhouse" => {"EE", "Clickhouse"} \subseteq oc.features
  /\ step = "config" => syncsConfig(u, oc)
  /\ step = "ingress" => ~ DisableSyncIngress
  /\ step \in syncPhase => ~ stop /\ isInProductVersion(u, oc) /\ ~ IsDisabled(u, oc)
  /\ step = "minio" => "Minio" \in oc.features
  /\ step = "bucket" => "AiProxy" \notin oc.off
  /\ step = "thanos" => "Prometheus" \in oc.features
  /\ u[1] \in Addons => ~ IsDisabled(u, oc)

\* What the unit has to do in this pass.
Agenda(u) == { step \in Steps : step = "done" \/ Runs(u, step) }
Syncing(u) == at[u] \notin {"idle", "done", "failed"}
-----------------------------------------------------------------------------
(* How a step of syncComponent ends. *)

\* A mutant: a database that cannot be prepared is only logged.
ToleratedDatabase(step) == step \in {"enable", "db"} \/ (step = "user" /\ stop)

\* mcclientSyncFunc's error is logged; RunWithSession's is, while services are stopped,
\* and the config map is then left alone.
Tolerated(step) == step = "enable" \/ (step = "user" /\ stop)

\* The first of the steps S comes next, the others later.
GoOn(u, S) ==
  at' = [at EXCEPT ![u] = First(S)] /\ todo' = [todo EXCEPT ![u] = S \ {First(S)}]

\* An error ends syncComponent.  A deployment's waits for the read-only one.
Return(u, ok) ==
  LET err == bad[u] \/ ~ ok
      fails == err /\ ~ Tolerated(at[u])
  IN  /\ IF fails /\ ~ (at[u] = "deployment" /\ "readonly" \in todo[u])
         THEN at' = [at EXCEPT ![u] = "failed"] /\ todo' = [todo EXCEPT ![u] = {}]
         ELSE GoOn(u, todo[u] \ { s \in {"config"} : at[u] = "user" /\ err })
      /\ bad' = [bad EXCEPT ![u] = fails]
      /\ again' = [again EXCEPT ![u] = ""]
      /\ UNCHANGED <<oc, stage, turn>>

Lagging == { x \in Units \X Kinds : ~ seen[x[1]][x[2]] }
CanWrite(u, k) == Cardinality(Lagging \ {<<u, k>>}) < MaxLag[active]

\* The API server stores an object; the lister learns of it later.
Store(u, k, o) ==
  /\ CanWrite(u, k)
  /\ server' = [server EXCEPT ![u][k] = o]
  /\ seen' = [seen EXCEPT ![u][k] = FALSE]
  /\ UNCHANGED <<cache, proven>>

\* The environment uses one of the events it has left.
Spend(event) ==
  /\ left[event] > 0 /\ left.all > 0
  /\ left' = [left EXCEPT ![event] = @ - 1, !.all = @ - 1]
-----------------------------------------------------------------------------
(* The objects: syncPVC, syncDeployment, syncDaemonSet, syncService, syncIngress. *)

\* A mutant: only the first service of getService is looked at.
syncServiceFirst(u) == "svc"

\* The service to look at: the second one only once the first is as it should be.
syncService(u) ==
  IF /\ isInProductVersion(u, oc) /\ M(u).slave /\ oc.slave
     /\ cache[u]["svc"].ann = oc.port
  THEN "slave" ELSE "svc"

Kind(u) ==
  IF again[u] # "" THEN again[u]
  ELSE CASE at[u] = "pvc"      -> "pvc"
         [] at[u] = "readonly" -> "ro"
         [] at[u] = "service"  -> syncService(u)
         [] at[u] = "ingress"  -> "ing"
         [] OTHER              -> "main"

\* The part of the spec the object is built from.
Want(u) ==
  CASE at[u] \in Workloads -> oc.image
    [] at[u] = "pvc"       -> 1
    [] OTHER               -> oc.port

\* Whether the object has to go.  Services and ingresses stay when a component is disabled.
Unwanted(u) ==
  CASE at[u] \in {"deployment", "daemonset"} -> shouldDelete(u, oc)
    [] at[u] = "readonly" -> shouldDelete(u, oc) \/ ~ oc.slave
    [] at[u] = "pvc"      -> FALSE
    [] OTHER              -> ~ isInProductVersion(u, oc)

\* A mutant: a daemon set is taken as ready whatever image it runs.
isDsReadyAnyImage(c) == c \in active => cache[<<c, "">>]["main"].ready

\* Kubernetes reports the daemon set ready, on the expected image, to the lister.
isDsReady(c) ==
  c \in active => LET ds == cache[<<c, "">>]["main"] IN ds.v = oc.image /\ ds.ready

\* getDaemonSet returns nil, and syncDaemonSet with it.
NotYet(u) == at[u] = "daemonset" /\ M(u).after # "" /\ ~ isDsReady(M(u).after)

Old(u) == cache[u][Kind(u)]
New(u) == server[u][Kind(u)]

\* deploymentEqual, daemonSetEqual, serviceEqual, ingressEqual: with the annotation.
Equal(u) == Old(u).ann = Want(u)

\* The step sends no request.
Quiet(u) ==
  \/ NotYet(u)
  \/ IF Exists(Old(u)) THEN ~ Unwanted(u) /\ Equal(u) ELSE Unwanted(u)

\* A daemon set is created without the annotation.
Fresh(u) ==
  [v |-> Want(u), ann |-> IF at[u] = "daemonset" THEN 0 ELSE Want(u), ready |-> FALSE]

\* The annotation of an updated service holds its cluster IP, which no new spec has.
\* Pods stay ready when their template does not change.
Updated(u) ==
  [v |-> Want(u), ann |-> IF at[u] = "service" THEN 0 ELSE Want(u),
   ready |-> New(u).ready /\ New(u).v = Want(u)]

\* A repeated update takes the lister's object (an ingress: the server's) and sets its
\* spec alone: the annotation is the old one.
Repeated(u) == [Updated(u) EXCEPT !.ann = IF at[u] = "ingress" THEN New(u).ann ELSE Old(u).ann]

Acting(u) == at[u] \in ObjectSteps /\ ~ Quiet(u) /\ again[u] = ""

PassOver(u) ==
  /\ at[u] \in ObjectSteps /\ Quiet(u) /\ again[u] = ""
  /\ Return(u, TRUE)
  /\ UNCHANGED <<mgr, stop, spec, objects, outside, left>>

\* A created deployment returns RequeueErrorf: the pass waits for it.
Create(u) ==
  /\ Acting(u) /\ ~ Exists(Old(u)) /\ ~ Exists(New(u))
  /\ Store(u, Kind(u), Fresh(u))
  /\ Return(u, at[u] \notin {"deployment", "readonly"})
  /\ UNCHANGED <<mgr, stop, spec, outside, left>>

Delete(u) ==
  /\ Acting(u) /\ Exists(Old(u)) /\ Unwanted(u) /\ Exists(New(u))
  /\ Store(u, Kind(u), None)
  /\ Return(u, TRUE)
  /\ UNCHANGED <<mgr, stop, spec, outside, left>>

\* The lister is behind: AlreadyExists for a create, NotFound for a delete.
Refused(u) ==
  /\ Acting(u)
  /\ IF Exists(Old(u)) THEN Unwanted(u) /\ ~ Exists(New(u)) ELSE Exists(New(u))
  /\ Return(u, FALSE)
  /\ UNCHANGED <<mgr, stop, spec, objects, outside, left>>

Updating(u) == Acting(u) /\ Exists(Old(u)) /\ ~ Unwanted(u)

Update(u) ==
  /\ Updating(u) /\ seen[u][Kind(u)]
  /\ Store(u, Kind(u), Updated(u))
  /\ Return(u, TRUE)
  /\ UNCHANGED <<mgr, stop, spec, outside, left>>

\* Not the newest version, or gone: the control asks the lister again.
Conflict(u) ==
  /\ Updating(u) /\ ~ seen[u][Kind(u)]
  /\ again' = [again EXCEPT ![u] = Kind(u)]
  /\ UNCHANGED <<mgr, stop, spec, oc, stage, turn, at, todo, bad, objects, outside, left>>

Retry(u) ==
  /\ again[u] # "" /\ at[u] # "service"
  /\ Exists(New(u)) /\ (seen[u][Kind(u)] \/ at[u] = "ingress")
  /\ Store(u, Kind(u), Repeated(u))
  /\ Return(u, TRUE)
  /\ UNCHANGED <<mgr, stop, spec, outside, left>>

\* The lister has not caught up, the object is gone, or it is a service: UpdateService
\* repeats the object it had.
GiveUp(u) ==
  /\ again[u] # ""
  /\ IF at[u] = "service" THEN Exists(Old(u))
     ELSE ~ Exists(New(u)) \/ (~ seen[u][Kind(u)] /\ at[u] # "ingress")
  /\ Return(u, FALSE)
  /\ UNCHANGED <<mgr, stop, spec, objects, outside, left>>
-----------------------------------------------------------------------------
(* The config map: v = 1 lacks an option this version needs, v = 2 has it. *)

forceUpdate(u) ==
  \/ M(u).config = "always"
  \/ /\ \/ M(u).config \in {"missing", "onlyInCMP"}
        \/ M(u).config = "missingInCMP" /\ oc.pv = "CMP"
     /\ cache[u]["cm"].v = 1

syncConfigMap(u) ==
  /\ at[u] = "config"
  /\ IF ~ forceUpdate(u) /\ Exists(cache[u]["cm"])
     THEN UNCHANGED objects
     ELSE IF server[u]["cm"].v = 2 THEN UNCHANGED objects
     ELSE Store(u, "cm", [v |-> 2, ann |-> 2, ready |-> FALSE])
  /\ Return(u, TRUE)
  /\ UNCHANGED <<mgr, stop, spec, outside, left>>
-----------------------------------------------------------------------------
(* Databases, accounts, endpoints. *)

KeystoneUp == "keystone" \in active => server[Keystone]["main"].ready

Answers(u, step) ==
  /\ step \in NeedsKeystone => KeystoneUp
  /\ ~ (step = "db" /\ u[1] \in Broken)

\* The service has, or is given, what step asks for; nothing is undone.
Ensure(u, step) ==
  /\ at[u] = step /\ Answers(u, step)
  /\ done' = [done EXCEPT ![u] = @ \cup {step}]
  /\ Return(u, TRUE)
  /\ UNCHANGED <<mgr, stop, spec, objects, reg, left>>

EnsureCronJobs(u) == Ensure(u, "cronjobs")

\* The database, then the account at '%' and its privileges, in three statements.  An
\* account that exists is taken as complete: a GRANT that failed is never repeated.
CreateDatabase(u) == Ensure(u, "db")
CreateDBUser(u) == Ensure(u, "dbuser")
grant(u) == Ensure(u, "grant")

\* An account without the last privilege is dropped and created again: one step.
EnsureClusterClickhouseUser(u) == Ensure(u, "clickhouse")

\* An account without a project is added to the system project by the next pass: one step.
EnsureServiceAccount(u) == Ensure(u, "user")

\* What SystemInit of the phase control creates for keystone (before and after its
\* endpoints), region, devtool, monitor, cloudproxy and yunionconf.
doPolicyRoleInit(u) == Ensure(u, "policies")
doCreateCommonService(u) == Ensure(u, "services")
ensureZoneAndWire(u) == Ensure(u, "zones")
initScheduleData(u) == Ensure(u, "schedtags")
ensureTemplates(u) == Ensure(u, "templates")
syncCommonAlerts(u) == Ensure(u, "alerts")
getOrCreateProxyAgent(u) == Ensure(u, "agent")
syncGlobalSettings(u) == Ensure(u, "settings")

ensureAiProxyAPILogBucket(u) == Ensure(u, "bucket")
syncBucketPolicy(u) == Ensure(u, "bucketPolicy")

\* Charts that kubeserver deploys for the operator: enabled, or updated when enabled.
syncClusterComponent(u, c) == Ensure(u, c)
SyncMinio(u) == syncClusterComponent(u, "minio")
SyncMonitorMinio(u) == syncClusterComponent(u, "monitorMinio")
SyncMonitorThanos(u) == syncClusterComponent(u, "thanos")
SyncMonitorStack(u) == syncClusterComponent(u, "stack")

\* One is found in status "_fail": it is disabled, and the pass fails.
isClusterComponentEnabled(u) ==
  /\ at[u] \in ClusterComponents \cap done[u]
  /\ Spend("faults")
  /\ done' = [done EXCEPT ![u] = @ \ {at[u]}]
  /\ Return(u, FALSE)
  /\ UNCHANGED <<mgr, stop, spec, objects, reg>>

\* A policy, role or alert that cannot be created is logged; the step goes on without it.
OnlyLogged(u) ==
  /\ at[u] \in {"policies", "alerts"}
  /\ Spend("faults")
  /\ Return(u, TRUE)
  /\ UNCHANGED <<mgr, stop, spec, objects, outside>>

EnsureStep(u) ==
  \/ EnsureCronJobs(u) \/ CreateDatabase(u) \/ CreateDBUser(u) \/ grant(u)
  \/ EnsureClusterClickhouseUser(u) \/ EnsureServiceAccount(u)
  \/ doPolicyRoleInit(u) \/ doCreateCommonService(u) \/ ensureZoneAndWire(u)
  \/ initScheduleData(u) \/ ensureTemplates(u) \/ syncCommonAlerts(u)
  \/ getOrCreateProxyAgent(u) \/ syncGlobalSettings(u)
  \/ ensureAiProxyAPILogBucket(u) \/ syncBucketPolicy(u)
  \/ SyncMinio(u) \/ SyncMonitorMinio(u) \/ SyncMonitorThanos(u) \/ SyncMonitorStack(u)
  \/ isClusterComponentEnabled(u) \/ OnlyLogged(u)

\* A mutant: the new slave endpoint is stored with a word EnsureEnableService never uses.
RegisteredEnabled(u) ==
  CASE M(u).register = "service" -> reg[u]
    [] M(u).register \in {"fixed", "tsdb"} -> [reg[u] EXCEPT !.url = 1]
    [] M(u).register = "plain" -> [reg[u] EXCEPT !.url = oc.port]
    [] OTHER -> [url |-> oc.port, slave |-> "enabled"]

\* RegisterServiceEndpoints: creates or updates each URL; a new slave endpoint is disabled.
Registered(u) ==
  CASE M(u).register = "service" -> reg[u]
    [] M(u).register \in {"fixed", "tsdb"} -> [reg[u] EXCEPT !.url = 1]
    [] M(u).register = "plain" -> [reg[u] EXCEPT !.url = oc.port]
    [] OTHER -> [url |-> oc.port, slave |-> IF reg[u].slave = "none" THEN "off" ELSE reg[u].slave]

\* Setup of the phase control (for keystone the first session of SystemInit).
Setup(u) ==
  /\ at[u] = "setup" /\ Answers(u, "setup")
  /\ reg' = [reg EXCEPT ![u] = Registered(u)]
  /\ done' = [done EXCEPT ![u] = @ \cup {"setup"}]
  /\ IF M(u).register = "tsdb" /\ "setup" \notin done[u]
     THEN GoOn(u, todo[u] \cup {"restart"}) /\ UNCHANGED <<oc, stage, turn, bad, again>>
     ELSE Return(u, TRUE)
  /\ UNCHANGED <<mgr, stop, spec, objects, left>>

\* A new time-series database: region's deployment, if it is ready, is deleted, to be
\* created again.
RestartRegion(u) ==
  /\ at[u] = "restart"
  /\ IF "region" \in active /\ server[Region]["main"].ready
     THEN Store(Region, "main", None) ELSE UNCHANGED objects
  /\ Return(u, TRUE)
  /\ UNCHANGED <<mgr, stop, spec, outside, left>>

\* EnsureEnableService switches the slave endpoint with the replicas.
EnsureEnableService(u) ==
  /\ at[u] = "enable" /\ Answers(u, "enable")
  /\ reg' = [reg EXCEPT ![u].slave =
               IF @ = "none" THEN @
               ELSE IF "readonly" \in M(u).has /\ oc.slave THEN "on" ELSE "off"]
  /\ Return(u, TRUE)
  /\ UNCHANGED <<mgr, stop, spec, objects, done, left>>

\* A request of the step fails; for ever when the service behind it is down.
RequestFails(u) ==
  /\ Syncing(u) /\ (at[u] \in ObjectSteps => ~ Quiet(u)) /\ again[u] = ""
  /\ IF Answers(u, at[u]) THEN Spend("faults") ELSE UNCHANGED left
  /\ Return(u, at[u] = "restart")
  /\ UNCHANGED <<mgr, stop, spec, objects, outside>>
-----------------------------------------------------------------------------
(* The pass: updateOnecloudCluster. *)

Over(c) ==
  \/ \E u \in UnitsOf(c) : at[u] = "failed"
  \/ \A u \in UnitsOf(c) : at[u] = "done"
Failed(c) == \E u \in UnitsOf(c) : at[u] = "failed"

Start(cs) ==
  LET starts(u) == u[1] \in cs /\ u[2] = "" IN
  /\ at' = [u \in Units |-> IF starts(u) THEN First(Agenda(u)) ELSE at[u]]
  /\ todo' = [u \in Units |-> IF starts(u) THEN Agenda(u) \ {First(Agenda(u))} ELSE todo[u]]

\* The sequential managers that are left for this pass.
Upcoming == { i \in DOMAIN Sequential : i > turn /\ Sequential[i] \in active }

StartNext ==
  \E i \in Upcoming :
    /\ \A j \in Upcoming : i <= j
    /\ turn' = i /\ Start({Sequential[i]}) /\ UNCHANGED <<oc, stage, bad, again>>

EndPass ==
  /\ stage' = "idle" /\ turn' = 0 /\ oc' = spec
  /\ at' = [u \in Units |-> "idle"] /\ todo' = [u \in Units |-> {}]
  /\ bad' = [u \in Units |-> FALSE] /\ again' = [u \in Units |-> ""]

\* The controller's worker takes the cluster from the queue and copies it.
PassStart ==
  /\ stage = "idle"
  /\ stage' = "sequential" /\ oc' = spec
  /\ UNCHANGED <<mgr, stop, spec, turn, at, todo, bad, again, objects, outside, left>>

\* A mutant: the error of a manager is only logged, as while services are stopped.
SequentialStepOn ==
  /\ stage = "sequential"
  /\ turn > 0 => Over(Sequential[turn])
  /\ IF Upcoming # {} THEN StartNext
     ELSE stage' = "parallel" /\ Start(Parallel) /\ UNCHANGED <<oc, turn, bad, again>>
  /\ UNCHANGED <<mgr, stop, spec, objects, outside, left>>

\* One manager after the other; an error ends the pass unless services are being stopped.
SequentialStep ==
  /\ stage = "sequential"
  /\ turn > 0 => Over(Sequential[turn])
  /\ IF turn > 0 /\ Failed(Sequential[turn]) /\ ~ stop THEN EndPass
     ELSE IF Upcoming # {} THEN StartNext
     ELSE stage' = "parallel" /\ Start(Parallel) /\ UNCHANGED <<oc, turn, bad, again>>
  /\ UNCHANGED <<mgr, stop, spec, objects, outside, left>>

\* multiZoneSync: the next zone once this one is done.
NextZone(u) ==
  /\ at[u] = "done"
  /\ \E i \in DOMAIN Zones :
       LET z == <<u[1], Zones[i]>> IN
       /\ i > 1 /\ u[2] = Zones[i - 1] /\ z \in Units /\ at[z] = "idle"
       /\ GoOn(z, Agenda(z))
  /\ UNCHANGED <<mgr, stop, spec, oc, stage, turn, bad, again, objects, outside, left>>

\* errgroup.Wait: every one has ended; an error of one is the pass's.
ParallelEnd ==
  /\ stage = "parallel"
  /\ \A c \in active \cap Parallel : Over(c)
  /\ IF \E c \in active \cap Parallel : Failed(c)
     THEN EndPass
     ELSE stage' = "addons" /\ Start(Addons) /\ UNCHANGED <<oc, turn, bad, again>>
  /\ UNCHANGED <<mgr, stop, spec, objects, outside, left>>

AddonsEnd ==
  /\ stage = "addons"
  /\ \A c \in active \cap Addons : Over(c)
  /\ EndPass
  /\ UNCHANGED <<mgr, stop, spec, objects, outside, left>>

UnitStep(u) ==
  \/ PassOver(u) \/ Create(u) \/ Delete(u) \/ Refused(u)
  \/ Update(u) \/ Conflict(u) \/ Retry(u) \/ GiveUp(u)
  \/ syncConfigMap(u) \/ EnsureStep(u) \/ Setup(u) \/ RestartRegion(u) \/ EnsureEnableService(u)
  \/ RequestFails(u) \/ NextZone(u)
-----------------------------------------------------------------------------
(* The environment. *)

Restart ==
  /\ stop' \in StopFlags
  /\ EndPass
  /\ cache' = server /\ seen' = [u \in Units |-> [k \in Kinds |-> TRUE]]
  /\ UNCHANGED <<mgr, spec, server, proven, outside>>

Crash ==
  /\ Spend("crashes")
  /\ Restart

\* UpdateService dereferences the nil service of a lister that no longer has it.
Panic ==
  /\ \E u \in Units : again[u] # "" /\ at[u] = "service" /\ ~ Exists(Old(u))
  /\ Restart /\ UNCHANGED left

Watch ==
  \E u \in Units, k \in Kinds :
    /\ ~ seen[u][k]
    /\ cache' = [cache EXCEPT ![u][k] = server[u][k]]
    /\ seen' = [seen EXCEPT ![u][k] = TRUE]
    /\ UNCHANGED <<mgr, stop, spec, pass, server, proven, outside, left>>

\* Kubernetes brings the pods of a workload up and reports it.
Rollout ==
  \E u \in Units :
    /\ Exists(server[u]["main"]) /\ ~ server[u]["main"].ready
    /\ server' = [server EXCEPT ![u]["main"].ready = TRUE]
    /\ seen' = [seen EXCEPT ![u]["main"] = FALSE]
    /\ proven' = [proven EXCEPT ![u] = @ \cup {server[u]["main"].v}]
    /\ UNCHANGED <<mgr, stop, spec, pass, cache, outside, left>>

\* A pod dies, or a node joins that does not run it yet.
PodsLost ==
  \E u \in Units :
    /\ Spend("outages")
    /\ server[u]["main"].ready
    /\ server' = [server EXCEPT ![u]["main"].ready = FALSE]
    /\ seen' = [seen EXCEPT ![u]["main"] = FALSE]
    /\ UNCHANGED <<mgr, stop, spec, pass, cache, proven, outside>>

\* Somebody deletes a workload or a service behind the operator's back.
UserDelete ==
  \E u \in Units, k \in {"main", "svc"} :
    /\ Spend("deletes")
    /\ Exists(server[u][k])
    /\ Store(u, k, None)
    /\ UNCHANGED <<mgr, stop, spec, pass, outside>>

\* The edits that some manager of the group reads.
Edits ==
  LET ms == { mgr[c] : c \in active } IN
  { [spec EXCEPT !.image = i] : i \in 1..MaxImage } \cup
  { [spec EXCEPT !.off = (@ \ {k}) \cup ({k} \ @)] : k \in { m.key : m \in ms } } \cup
  { [spec EXCEPT !.pv = p] : p \in ProductVersions } \cup
  { [spec EXCEPT !.port = @ + 1] : m \in { x \in ms : x.ports # {} \/ "ingress" \in x.has } } \cup
  { [spec EXCEPT !.slave = ~ @] : m \in { x \in ms : x.slave \/ "readonly" \in x.has } } \cup
  { [spec EXCEPT !.features = Features \ @] : m \in { x \in ms : x.needs # {} } }

UserEdit ==
  /\ Spend("edits")
  /\ spec' \in { s \in Edits : s # spec /\ s.port <= MaxPort }
  /\ UNCHANGED <<mgr, stop, pass, objects, outside>>
-----------------------------------------------------------------------------
Init ==
  /\ \E g \in Groups : mgr = [c \in g |-> ManagerOf[c]]
  /\ stop \in StopFlags
  /\ spec \in [pv : ProductVersions, off : {{}}, features : {Features}, image : {1},
               slave : {FALSE}, port : {1}]
  /\ oc = spec /\ stage = "idle" /\ turn = 0
  /\ at = [u \in Units |-> "idle"] /\ todo = [u \in Units |-> {}]
  /\ bad = [u \in Units |-> FALSE] /\ again = [u \in Units |-> ""]
  \* a cluster that does not exist yet, or one whose configuration an old operator wrote
  /\ \E n \in {0, 1} : server = [u \in Units |-> [k \in Kinds |->
       IF n = 1 /\ k = "cm" /\ "config" \in M(u).has THEN [v |-> 1, ann |-> 1, ready |-> FALSE]
       ELSE None]]
  /\ cache = server /\ seen = [u \in Units |-> [k \in Kinds |-> TRUE]]
  /\ proven = [u \in Units |-> {}]
  /\ done = [u \in Units |-> {}]
  /\ reg = [u \in Units |-> [url |-> 0, slave |-> "none"]]
  /\ left = [edits |-> MaxEdits, faults |-> MaxFaults, crashes |-> MaxCrashes,
             deletes |-> MaxDeletes, outages |-> MaxOutages, all |-> MaxEvents[active]]

Operator ==
  \/ PassStart \/ SequentialStep \/ ParallelEnd \/ AddonsEnd \/ Panic
  \/ \E u \in Units : UnitStep(u)

Next == Operator \/ Watch \/ Rollout \/ PodsLost \/ Crash \/ UserDelete \/ UserEdit

Spec == Init /\ [][Next]_vars

\* The queue hands the cluster out again (an error, an event, the resync), goroutines run,
\* watches deliver, Kubernetes starts pods.
FairSpec == Spec /\ WF_vars(Operator) /\ WF_vars(Watch) /\ WF_vars(Rollout)
-----------------------------------------------------------------------------
(* Properties. *)

Keys == { ManagerOf[c].key : c \in Managers }
Object == [v : Nat, ann : Nat, ready : BOOLEAN]
ClusterSpec == [pv : All, off : SUBSET Keys,
                features : SUBSET Features, image : Nat, slave : BOOLEAN, port : Nat]

\* Every variable has its type, over the units of the group.
TypeOK ==
  /\ active \in Groups /\ stop \in BOOLEAN
  /\ spec \in ClusterSpec /\ oc \in ClusterSpec
  /\ stage \in {"idle", "sequential", "parallel", "addons"} /\ turn \in 0..Len(Sequential)
  /\ at \in [Units -> Steps \cup {"idle", "failed"}] /\ todo \in [Units -> SUBSET Steps]
  /\ bad \in [Units -> BOOLEAN] /\ again \in [Units -> Kinds \cup {""}]
  /\ server \in [Units -> [Kinds -> Object]] /\ cache \in [Units -> [Kinds -> Object]]
  /\ seen \in [Units -> [Kinds -> BOOLEAN]] /\ proven \in [Units -> SUBSET Nat]
  /\ done \in [Units -> SUBSET (External \cup {"setup"})]
  /\ reg \in [Units -> [url : Nat, slave : {"none", "off", "on"}]]
  /\ left \in [edits : Nat, faults : Nat, crashes : Nat, deletes : Nat,
              outages : Nat, all : Nat]

\* A workload runs only with its database, its accounts and its configuration in place,
\* whatever failed before and however old the cache is: syncConfigMap aborts syncComponent.
\* (While services are stopped, the host agent is the exception: its error is only logged.)
WorkloadsProvisioned ==
  \A u \in Units : Exists(server[u]["main"]) /\ u[1] # "host" =>
    /\ "db" \in M(u).has => {"db", "dbuser"} \subseteq done[u]
    /\ "user" \in M(u).has => "user" \in done[u]
    /\ "config" \in M(u).has /\ M(u).config # "onlyInCMP" => Exists(server[u]["cm"])

\* A component behind keystone is created only when keystone has been set up once, unless
\* keystone itself is not wanted: the created deployment and a failed set-up end the pass.
KeystoneFirst ==
  [][\A u \in Units \ {Keystone} :
       /\ "keystone" \in active /\ ~ stop /\ ~ shouldDelete(Keystone, oc)
       /\ ~ Exists(server[u]["main"]) /\ Exists(server'[u]["main"])
       => {"setup", "services"} \subseteq done[Keystone]]_vars

\* An image reaches a daemon set only after the daemon set that it depends on has been ready
\* with that image, whatever the operator's cache still shows or shows no longer: a refused
\* update is repeated without looking again, images are set back, daemon sets are deleted and
\* pods are lost.  (isDsReady.  That the other one is still ready is more than the code can
\* promise, since it looks at a cache.)
RolloutOrder ==
  [][\A u \in Units :
       LET new == server'[u]["main"] IN
       M(u).after \in active /\ Exists(new) /\ new.v # server[u]["main"].v =>
         new.v \in proven[<<M(u).after, "">>]]_vars

\* Units another manager's failure keeps from being synced: in the sequence, all that follow.
Hampered(u) ==
  \/ \E b \in Broken \cap active :
        \/ b = u[1]
        \/ \E i \in DOMAIN Sequential :
              b = Sequential[i] /\ \A j \in 1..i : Sequential[j] # u[1]
  \/ ("keystone" \in active /\ u # Keystone /\ shouldDelete(Keystone, spec))

WorkloadAsSpecified(u) ==
  IF shouldDelete(u, spec)
  THEN M(u).after = "" => ~ Exists(server[u]["main"]) /\ ~ Exists(server[u]["ro"])
  ELSE /\ M(u).has \cap {"deployment", "daemonset"} # {} => server[u]["main"].v = spec.image
       /\ "readonly" \in M(u).has => server[u]["ro"].v = IF spec.slave THEN spec.image ELSE 0

ServiceAsSpecified(u) ==
  "service" \in M(u).has =>
    IF isInProductVersion(u, spec)
    THEN /\ server[u]["svc"].v = spec.port
         /\ M(u).slave /\ spec.slave /\ server[u]["svc"].ann = spec.port =>
              Exists(server[u]["slave"])
    ELSE ~ Exists(server[u]["svc"])

EndpointsAsSpecified(u) ==
  {"setup", "enable"} \subseteq M(u).has /\ ~ stop /\ ~ shouldDelete(u, spec) =>
    /\ M(u).register \in {"plain", "slave"} => reg[u].url = spec.port
    /\ reg[u].slave = IF M(u).register # "slave" THEN "none"
                      ELSE IF "readonly" \in M(u).has /\ spec.slave THEN "on" ELSE "off"

\* Accounts, zones, templates, charts ...: what the steps create outside Kubernetes, except
\* the privileges of a database account.
Initialised(u) ==
  ~ stop /\ ~ shouldDelete(u, spec) =>
    (M(u).has \cap External) \ {"clickhouse", "bucket"} \subseteq done[u]

\* Once edits, faults and crashes end, every component that no broken one hampers is what
\* the spec says, for ever: workloads, read-only replicas, services, endpoints, and the
\* set-up outside Kubernetes.
EventuallyAsSpecified ==
  <>[](\A u \in Units : Hampered(u) \/ ReturnsEarly(u, spec) \/
         (WorkloadAsSpecified(u) /\ ServiceAsSpecified(u) /\ EndpointsAsSpecified(u) /\
          Initialised(u)))
=============================================================================
