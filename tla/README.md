# A TLA+ model of the onecloud operator

This directory models the OnecloudCluster operator (`src/`, Go): a Kubernetes
controller that turns one custom resource, `OnecloudCluster`, into the ~60
services of a Cloudpods installation, and that runs an etcd cluster of its own
out of bare pods. The modules are TLA+, checked by TLC on small instances; the
main safety properties are proved with TLAPS for every instance.

## 1. The system

| part | source | state it keeps | operations | modelled in |
|---|---|---|---|---|
| entry point | `cmd/onecloud-operator/main.go` | flags, leader lease | start informers and workers when leading, exit when the lease is lost | Leader, Controller |
| controller | `pkg/controller/cluster/onecloud_cluster_controller.go` | rate-limited work queue | `enqueueCluster`, deployment event handlers, `processNextWorkItem`, `sync` | Controller |
| reconcile pass | `pkg/controller/cluster/onecloud_cluster_control.go` | `lastCheckMysqlTime` | `UpdateOnecloudCluster`: config, certs, etcd, 29 components in order, 25 in parallel, addons, checksum, status write | Components, ClusterControl |
| cluster control | `pkg/controller/cluster_control.go` | the lister (shared cache) | `GetCluster`, `UpdateCluster` (retry on conflict) | ClusterControl |
| etcd manager | `pkg/manager/component/etcd.go`, `pkg/util/etcdutil` | `syncing`, two mutexes, `oc`, `status`, `members` | `Sync`, `sync`, `setup`, `run`, `reconcile`, ... | EtcdManager |
| certificates | `pkg/manager/certs`, `pkg/controller/onecloud*_cert.go` | secrets | `CreateOrUpdate`, `CreateCert`, `CreateEtcdCert` | Certs |
| configuration | `pkg/manager/config` | a configmap | `CreateOrUpdate`, `GetClusterConfig` | Components (the step) |
| component sync | `pkg/manager/component/{sync,component,utils}.go` | - | `syncComponent`: configmap, PVC, deployment, daemonset, cronjob, service, ingress, phase | Components |
| component managers | `pkg/manager/component/*.go` | - | what each service asks for | Catalogue |
| resource controls | `pkg/controller/*_control.go` | listers | create, update with retry, delete | Components |
| phase control | `pkg/controller/onecloud_control.go`, `onecloud_policy.go`, `pkg/util/onecloud` | - | `Setup`, `SystemInit`, endpoint registration | Components, Certs |
| types, defaults | `pkg/apis/onecloud/v1alpha1` | - | `SetDefaults_*` | ClusterControl, EtcdManager, Catalogue |
| service-init | `pkg/service-init` | files | database users, service accounts, configuration for docker compose | Components (what the operator calls) |
| utilities | `pkg/util/*` | - | SQL, retry, image references, PKI | Components (SQL), EtcdManager |
| generated, vendored | `pkg/client`, `vendor` | - | - | - |

How the parts meet: the informers of a process feed the queue; a worker takes a
cluster and runs a pass; the pass lets every manager bring its objects to what
the spec says, through the resource controls, reading from listers that lag
behind the API server, and registers services with Keystone; the etcd manager
leaves its work to a goroutine of its own, which writes into the same
OnecloudCluster as the pass. Deployments the pass changes come back as events.

What is hard here:

* **Concurrency.** Five workers, one goroutine `m.sync` (or several) of the
  etcd manager, a defragmentation goroutine and 25 parallel component syncs
  share the process; informer caches lag behind the API server.
* **Ordering.** The etcd goroutine and the pass both write the *whole* status of
  the OnecloudCluster, each from the copy it read earlier. Only the errors that
  end a pass keep what depends on Keystone behind Keystone.
* **Failure.** Every request may fail, or be served and its answer lost; pods
  die; the operator restarts with an empty memory; a quorum or the lease is lost.
* **Progress.** Nothing retries a repair but the next tick or the next pass, and
  a pass comes again only because a key is in the queue.

The list of hazards, each at the line where it bites, with the properties that
guard it, is in `PROJECT.json`.

## 2. Modules

### EtcdManager

`EtcdManager.tla` models `etcd.go` with everything it talks to. Three actors:

1. the controller worker: `MainRead` (`Controller.sync` reads the resource),
   `SyncUnchanged`/`SyncFixed`/`SyncFailed` (`etcdManager.Sync`), `MainEnd` (the
   status write at the end of `UpdateOnecloudCluster`);
2. the goroutines `m.sync`, one process per element of `Gor`: `setSyncing`,
   `Acquire` (Lock and the switch of `setup`), `create`, `startSeedMember`,
   `setupFailed`, then the loop of `run`: `runBegin`, `pollPods`, `allDead`,
   `updateMembers`, `reconcileVersion`, `reconcileMembers`, `MemberAdd`,
   `createMemberPod`, `MemberRemove`, `removeMemberPod`, `cleanAllMembers`,
   `restart`, `upgradeOneMember`, `periodicStatus`, and the deferred `unlock` and
   `setUnsync`;
3. the environment: `PodStarts`, `PodLost`, `Edit`, `Crash`.

State and code: `stored` is `status.etcd.phase` in the API server, `phase` is
`m.status.Phase`, `snap[g]` the phase in the object a goroutine was started with;
`members`/`listed`/`known` are `m.members` (its names, whether it is nil, whose
`ID` is not 0); `polled` is the local `running` of a tick, `rerr` the local error;
`mainOc` is the object the pass works on and `mainFresh` says whether its
`resourceVersion` is still the newest. `pod` and `podVer` are the pods;
`home[n]` is the seed of the etcd cluster that the name `n` was made for and
`ensemble[s]` the voting members of the cluster grown from seed `s`.

etcd is external, modelled as the code uses it: a request needs a quorum;
`MemberAdd` needs every voter connected and `MemberRemove` of a live member needs
the others to keep a quorum (strict-reconfig-check is on by default and
`newEtcdCommand` does not turn it off). An unknown ID answers
`ErrMemberNotFound`, which `removeMember` takes for success.

Every call that leaves the process is a step of its own, and a call that fails
may have been served. Steps between two such calls are merged, because nobody
else can see the difference: the fields of the manager are only used under
`m.reconcileLock`. `m.oc = oc` in `sync` is left out of `Acquire`: `updateEtcdStatus`
or `fetchCluster` replaces `m.oc` before its spec is read.

Abstractions and what they leave out:

* pod names are recycled once nothing refers to them (`Fresh`, `Forget`); the
  code draws random ones;
* deletion of a pod is immediate (5 s of grace in the code; `pollPods` skips
  pods being deleted);
* `fetchCluster` reads the newest object, and `UpdateCluster` is one step; the lag
  of the lister and the retries are what ClusterControl is about;
* a version upgrade patches the annotation of the pod; the restart of its
  container is not modelled;
* persistent volume claims, services, the pod template, TLS material and the
  defragmentation goroutine are not modelled; `spec.etcd.disable` is false;
* one slot of `Gor` is kept for the goroutine that `run` starts itself, so that a
  full set of slots only delays passes.

Bounds: `MaxKills`, `MaxFaults`, `MaxCrashes`, `MaxEdits` and `MaxChanges` count lost
pods, failed requests, restarts, edits, and passes whose status write is not
a no-op. Everything else is unbounded: ticks and passes go on for ever.

### MCEtcdManager

Adds the symmetry of names and goroutines for the safety runs.

### EtcdManagerProofs

Theorems about EtcdManager, section 5.

### ClusterControl

`ClusterControl.tla` models the one object that everybody writes, the
OnecloudCluster, with `UpdateCluster` attempt by attempt and the cache of the
lister. (The CRD declares no status subresource: spec and status are written
together.) The actors:

1. the pass: `PassGet` and `PassDefault` (`Controller.sync`), `PassEtcd` (the
   correction of `spec.etcd` in `etcdManager.Sync`, written by `UpdateCluster`),
   `PassWork` (the components, the checksum, and the status write at the end);
2. the etcd goroutine: `updateEtcdStatus`;
3. both, inside `UpdateCluster`: `Accepted`, `Conflict` (take the lister's object,
   put the first attempt's status into it, repeat), `Failed`;
4. the environment: `Watch` (an event reaches the cache), `UserEdit`, `Change`.

State and code: an object has the user's part of the spec (`user`), how far the
operator filled the rest in (`own`), `status.etcd` (`etcd`), the status of the other
components (`comps`) and `status.specChecksum` (`sum`, the spec it is the checksum
of). A `resourceVersion` is modelled by whether it is the newest (`ocFresh`,
`argFresh`, and for the cache `pending = <<>>`); this is all that optimistic
concurrency compares. `pending` holds the events between `server` and `cache`.
`updateEtcdStatus` changes `cache`: `GetCluster` returns the cache's own object.

Left out: recorded events; deletion of the object; a lister that does not find
it; the flag that clears components (`ClearComponent`). What a component reports
is a counter that only `Change` moves; which component, and when, is the matter
of Components. Two passes never run at a time for one key: that is what
Controller shows.

Bounds: `Steps` is `retry.DefaultRetry.Steps` (5 in the library; the run uses 3,
the theorems any number), `MaxLag` the events on their way; `MaxEdits`,
`MaxChanges`, `MaxFaults` count edits, changes and failed requests.

MCClusterControl is the instance of the run, ClusterControlProofs has the
theorems.

### SpecRegister

`SpecRegister.tla` is the abstract specification of ClusterControl: the spec of a
OnecloudCluster is a register that users write and in which the operator only
fills in, one part after the other, what they left open. `ClusterControl` maps
`server.user`, `server.own` and the number of edits to it (`Register`, an INSTANCE);
caches, copies, attempts and the two writers disappear.

### Catalogue

`Catalogue.tla` has a record for each of the 55 component managers, named after
its Go type: which part of the spec disables it, for which product versions it
is made, which steps of `syncComponent` its factory methods give work to, when
its config map is written again, which endpoints its phase control registers,
which field of the status it writes, its node ports, whether it is synced per
zone, and which daemon set must be ready before its own. `Sequential`, `Parallel`
and `Addons` are the order of `updateOnecloudCluster`.

### Components

`Components.tla` interprets those records. A *unit* is a manager in a zone. A pass
(`PassStart`, `SequentialStep`, `ParallelEnd`, `AddonsEnd`) starts units; `turn` is the
place in `Sequential` of the manager it has started last, and `StartNext` starts the
first of the followed managers behind it. A unit walks through its `Agenda`: of `Steps`,
the calls of `syncComponent` and of its `syncPhase`, those it has something for (`Runs`).
`at[u]` is the step it is at, `todo[u]` the set of those still to come; `Place` is their
order in the code, and `GoOn` takes the first:

* objects: `PassOver`, `Create`, `Update`, `Delete`, `Refused`, and the retry of the
  resource controls (`Conflict`, `Retry`, `GiveUp`, `Panic`), each with what that
  control really repeats;
* configuration: `syncConfigMap`;
* databases and accounts: `EnsureCronJobs`, `CreateDatabase`, `CreateDBUser`, `grant`,
  `EnsureClusterClickhouseUser`, `EnsureServiceAccount`;
* Keystone and the services: `Setup`, `RestartRegion`, `EnsureEnableService`, and what
  `SystemInit` creates (`doPolicyRoleInit` ... `syncGlobalSettings`);
* charts: `SyncMinio`, `SyncMonitorMinio`, `SyncMonitorThanos`, `SyncMonitorStack`,
  `isClusterComponentEnabled`;
* `Return` says which error ends the component, which is logged, and which waits.

The environment: `Watch`; `Rollout` and `PodsLost` (all pods of a workload are ready, or one
dies or a node joins, so that they are not); `Crash`; `UserEdit` (an image to any other
image, a component disabled or enabled, ...); `UserDelete`; `RequestFails`. `proven` is a
history variable that no action reads: the images with which a workload has been ready.

An object is the version of the spec it was built from (`v`), the version in its
last-applied annotation (`ann`), which is what the operator compares with, and
whether its pods are ready. An image and a port are numbers. A step outside
Kubernetes that is safe to repeat is one element of `done`. A behaviour follows
one group of managers; the others are taken to be in order, which is what a
pass sees of them. MCComponents lists the groups.

Left out: the recreation of workloads whose selector changed, the contents of
configurations, pod templates, policies, alerts and charts; the second and later
retries of a resource control; `checkMysqlSlaveStatus` at the end of a pass, which only
logs (`onecloud_cluster_control.go:214`); product versions that `isValidProductVersion`
does not accept, with which every component fails and nothing is ever synced.

### Certs

`Certs.tla` models the secrets of the cluster and of etcd and their copy in
Keystone. A certificate is the number of its CA. One pass: `CreateOrUpdateCluster`,
`CreateOrUpdateEtcd` (one secret the lister does not have, and all three are made
again), `CreateEtcdCert` (three deletes whose errors are only logged, a new CA,
three creates), then the second session of Keystone's `SystemInit`:
`ReadCertificate`, `ForgetCertificate`, `EnsureServiceCertificate`,
`CreateServiceCertificate`, `RegisterEndpoints`. `flag` is `spec.etcd.createdSecrets` in
the copy of the pass, `stored` what the API server has of it.

### Leader and Controller

The lease exists only with `--enable-leader-election`, which is off by default (`main.go:71`,
`193-198`); the manifests then run one replica. The modules model the elected mode. Without
it nothing keeps a second process (a rolling update of the operator itself, more replicas)
from working on the same clusters: `OneWorkerPerCluster` then says something about the
workers of one process only.

`Leader.tla` models the lease of `main.go` with client-go's election (external):
candidates and the leader measure time with clocks of their own, and a leader
that could not renew for `Renew` ends its process. `Controller.tla` extends it with
what each process has: informers of clusters and deployments, the work queue
(`queue`, `redo`, `backoff`), the workers and their `sync`. `changed[c]` is the newest
change of a cluster or of its deployments, `synced[c]` the newest version that a
successful pass has started from. A deployment is matched to its owner by UID
in the cluster lister (`resolveOnecloudClusterFromDeployment`), a missed deletion
arrives as a tombstone, which ends the process, and defaults are written before a pass.
Two clocks run at the same speed; clock skew is out of the model, as it is of
the election's promise.

## 3. Properties and runs

### What is checked

EtcdManager, safety:

* `TypeOK`.
* `ReconcileExclusive`: between Lock and Unlock of `sync` there is one goroutine,
  the holder, however many are started.
* `JoinsExactMembership`: a pod that joins is told exactly the voters etcd has;
  etcd refuses to start with another list, and the pod would fail for ever.
* `VotersKept`: the operator never deletes the pod of a serving voter of the
  cluster it manages while that cluster has a quorum.
* `SeedOnlyWhenDead`: a new seed is started only when no etcd pod is left.
* `MembersRepresentCluster`: `m.members` is the membership of etcd while the loop
  relies on it (refuted, section 4).

EtcdManager, liveness under `FairSpec`:

* `EventuallyConverged`: after finitely many losses and edits the pods, the
  membership, the size and the version agree with the spec for ever, unless the
  cluster is left without a quorum for ever.
* `DeadClusterRebuilt`: when all etcd pods are dead there are pods again later.
* `RunningReported`: while the loop runs, phase Running is in the stored status
  again and again, although passes overwrite it.
* `QuorumLossRepaired`: a lost quorum does not last (refuted, section 4).

ClusterControl:

* `TypeOK`; in particular `UpdateCluster` makes at most `Steps` attempts.
* `EditsKept`: what a user wrote into the spec changes by an edit of a user only.
* `CorrectionsKept`: what the operator filled in is dropped by an edit only.
* `SpecIsRegister`: ClusterControl implements SpecRegister; besides the two above,
  every write of the operator fills in at most the next part, the defaults before
  the corrections.
* `EventuallySettled` (liveness): if from some point on the etcd goroutine no
  longer reports while the cache is behind or the pass is inside one of its own
  exchanges with the API server, then for ever after some point the stored spec
  is filled in and the stored status and checksum are the newest. Edits, failed
  requests and races may come before, at any step. The assumption is needed:
  every write carries a whole status, and two writers that meet in each round put
  each other's part back for ever. The exchanges take milliseconds, the long part
  of a pass (`work`) is not excluded, and etcd reports every 8 s, so meeting every
  time is a matter of bad luck and not of scheduling.

Components:

* `TypeOK`.
* `WorkloadsProvisioned`: a workload exists only once its database, its accounts
  and its configuration do, whatever failed before and however old the cache is.
* `KeystoneFirst`: a component behind Keystone is created only when Keystone has
  been set up; nothing but the errors that end a pass sees to it.
* `RolloutOrder`: a daemon set that depends on another one is given an image only after the
  other one has been ready with that image, although it is read from a cache and a refused
  update is repeated without looking again. That the other one *is* ready is more than this
  code can promise: the lister may still have it as ready when its pods have been lost,
  when it has been deleted, or when it has been given the next image.
* `EventuallyAsSpecified` (liveness): once edits, faults and crashes end, every
  component that no broken one keeps from being synced has the workloads,
  read-only replicas, services and endpoints that the spec asks for, and its
  set-up outside Kubernetes.

Certs:

* `TypeOK`.
* `EndpointsHaveCertificate`: Keystone never lists etcd's endpoints without the
  certificate they name.
* `CertificatesAgree` (liveness): after one failed request, one stale read, one
  restart and one deleted secret, etcd, its clients and Keystone have
  certificates of one CA, although the note that Keystone's must be renewed may
  be lost.

Controller:

* `TypeOK`.
* `OneWorkerPerCluster`: no two workers, of one process or of two, ever hold the
  same cluster.
* `NothingForgotten`: a change that no successful pass has started from is noted
  somewhere in every running process: in the queue, with a worker, on its way
  to an informer; neither a handler that cannot resolve the owner nor a failed
  pass drops it.
* `EveryChangeSynced` (liveness): every change is followed by a successful pass that
  starts after it.

### Fairness, and why the code justifies it

* EtcdManager: weak fairness of the worker (the informers resync every 30 s, so a
  pass always comes), of every goroutine (the Go scheduler) and of the start of
  pods; strong fairness of the lock (`sync.Mutex` hands the lock to a waiter that
  starves). `PromptPass` is a timing assumption: a pass reaches `Etcd().Sync`, its
  third step, before the loop's next request (the loop ticks every 8 s). Without
  it there is a livelock: a pass that always reads Running before the loop reports
  Failed restarts the loop on a dead cluster again and again.
* ClusterControl: weak fairness of the pass, of the goroutine (it ticks) and of the
  watch.
* Components and Certs: weak fairness of the operator (`EveryChangeSynced` and the
  resync bring passes), of watches and of Kubernetes starting pods.
* Controller: weak fairness of the clocks, of the lease requests, and of restarts,
  watches, back-off timers and workers taken together: while there is something
  to do, somebody does something. The resync is *not* relied on.

### Runs

| run | instance | shows |
|---|---|---|
| EtcdFaults | 4 names, 3 goroutines, 1 kill, 1 fault, 1 stale write, size corrected from 1 to 3 | `TypeOK`, `ReconcileExclusive`, `JoinsExactMembership`, `VotersKept` hold |
| EtcdCrash | 1 kill, 1 restart, two versions, 1 edit, failed pods kept | `VotersKept` holds across a restart and during an upgrade |
| EtcdRebuild | 2 kills, 3 goroutines | `SeedOnlyWhenDead` holds without a restart |
| EtcdLive | 1 kill, 1 stale write, fair | `EventuallyConverged`, `DeadClusterRebuilt`, `RunningReported` hold |
| EtcdResize | sizes and masters 1 and 3, two versions, 1 edit, fair | `EventuallyConverged` holds |
| EtcdSeedId | shrink 3 to 1 | `MembersRepresentCluster` is violated |
| EtcdLostQuorum | 1 kill, fair | `QuorumLossRepaired` is violated |
| ClusterWrites | 3 attempts, lag 2, 1 edit, 1 change, 1 fault, fair | `TypeOK`, `EditsKept`, `CorrectionsKept`, `SpecIsRegister`, `EventuallySettled` hold |
| ComponentSync | 17 managers alone and 4 pairs, one with a database that never answers; 1 edit, fault, crash, deletion or lost pod, for ovn-north 2; two zones, two product versions; fair | `EventuallyAsSpecified` holds |
| ComponentPass | 6 groups, managers that depend on each other among them, 2 such events (1 for two parallel ones), services stopped or not; for two daemon sets the lister behind with two objects | `TypeOK`, `WorkloadsProvisioned`, `KeystoneFirst`, `RolloutOrder` hold |
| Certificates | 5 CAs; 1 fault, 1 stale pass, 1 crash, 1 deletion, in any combination; fair | `TypeOK`, `EndpointsHaveCertificate`, `CertificatesAgree` hold |
| Controller | 2 processes with 2 workers; a cluster and its deployment, there from the start or not; 1 change, 1 trouble of any kind; lease 2, renewal 1 tick; fair | `TypeOK`, `OneWorkerPerCluster`, `NothingForgotten`, `EveryChangeSynced` hold |

Why these bounds: an etcd cluster of three is the smallest with a majority that
survives a loss; the fourth name lets a dead member be replaced while its name
is still listed; three goroutines are the smallest number at which one runs,
one waits with an old status and a third is started. One lost pod, one fault or
one restart may happen at *any* step, which is what the hazards are about.
In ClusterControl two events on their way and three attempts let a retry start
from an object that is neither the newest nor the first, and conflict again. In
Components the groups have between them every step, kind of endpoint, way to write
a configuration, exception and dependency of the catalogue; managers outside a
group differ from one inside only in what they do not have. `MaxLag` counts
the objects the lister is behind with once a request has been served. With 1 a request is
sent only while the lister is up to date with every other object: that reaches every
conflict, refusal and stale decision about the object itself. In ComponentPass the two
daemon sets have 2, so that one is written on the word of a lister that is behind with the
one below. In ComponentSync ovn-north has two events because `Panic` needs them: a port is
edited, and the service is deleted while its update is refused. That run has one edit: with
two of the image, A to B and back to A, a repeated update may leave B (section 4). It has
`MaxLag` 1 because fairness is of the watches taken together: with 2 the model has a
behaviour in which the events of one object starve another's.
The theorems about Components hold for any `MaxLag`, number of events, zones and group.
Five CAs are more than one disturbance of each kind can make the operator issue
(with too few of them a pass would stop at `NewCACert`, which deadlock checking and
`CertificatesAgree` would show). Two processes and two workers
are the smallest numbers at which a key could be held twice; the change and the
trouble may come at any step of either process, also between two steps of a
worker.

## 4. Findings

1. **A seed cannot be removed by ID** (EtcdSeedId). `startSeedMember` stores ID 0
   and no code fills it in while no error occurs. When the cluster is made
   smaller and `PickOne` picks the seed, etcd answers "member not found", which
   counts as removed, and the pod is deleted: etcd keeps a voter without a pod.
   With two members left this loses the quorum.
2. **Lost quorum is not always cleaned up** (EtcdLostQuorum). `reconcile` is
   reached only after a successful `updateMembers` when an error is pending; with
   the quorum lost, the list never succeeds. The comment of `run` promises a
   clean-up.

Observations made while modelling, which explain assumptions and exceptions in
the properties and are not runs of their own:

* *etcd.* A restart between the write of phase Creating and of phase Running ends
  in a second seed while the first one's pod is alive (`etcd.go:288`); hence
  `SeedOnlyWhenDead` without a restart. `updateEtcdStatus` reads the lister where
  it announces the newest object (`etcd.go:574`), so a retry may put an old status
  of all components over a newer one, and it changes the lister's own object
  (`etcd.go:579`). The next pass writes the status again.
* *Databases.* A MySQL account whose GRANT failed, or after whose creation the
  operator crashed, is taken as complete from then on (`mysql.go:203-245`,
  `dbutil.go:69-93`; with sync-user off, its default). ClickHouse and Keystone
  accounts heal, because the code looks for the last privilege and for a project.
  Hence `Initialised` asks for the account and not for its privileges.
* *Daemon sets.* When the host agent is disabled, `host-ovsdb-server` goes first; then
  `isDsReady` is false, `getDaemonSet` returns nil and the two daemon sets behind it
  are never deleted. Hence `WorkloadAsSpecified` excepts them.
  A daemon set is also rolled out on the word of a lister that is behind: the one below may
  have lost pods, or be gone. Hence `RolloutOrder` asks that it has been ready.
* *Parallel components.* `cloudevent`, `cloudnet`, `devtool`, `llm` and `s3gateway` fill in the
  package-level options of their service (`opt := &options.Options`, `llm.go:82`). Within one
  cluster each has one writer; two workers that sync two clusters at a time share them.
* *Updates.* A conflicting update is repeated with the old annotation: an image
  set from A to B and back to A may leave B in place. After a port edit a service
  is updated in every pass (its annotation holds the cluster IP), and a slave
  service still to be made is not. A slave service is not deleted when a product
  version no longer has its component; cloudnet is not removed when its feature
  is turned off. `UpdateService` and `UpdateConfigMap` dereference a nil object when
  the lister no longer has it.
* *Certificates.* Two failed deletes can leave the client's and the server's secrets
  with different CAs for good, and one failed delete the peer's; hence `MaxFaults`
  is 1 and `CertificatesAgree` asks of the peer's only that it exists. A lagging
  lister makes the operator throw away secrets it has just created.
* *Configuration.* Under a lagging lister the passwords of the cluster's config map
  may be generated twice (`config.go:57`).
* *Phases.* The branch of `EnsureDisableService` cannot be reached (`sync.go:116-119`).
  The restart of region after the time-series database is registered is lost by a
  crash between the two (`onecloud_control.go:1088`). A host agent may run without
  its configuration while services are stopped. `isValidProductVersion` does not
  accept Baremetal, which `baremetalManager` lists.
* *Controller.* The tombstone of a deployment is dereferenced before it is unwrapped
  (`onecloud_cluster_controller.go:332`); the process ends, and the list of its
  successor makes up for it, which is part of `EveryChangeSynced`.

## 5. Proofs

Every theorem is about the specification the runs check, for every value of the
constants that satisfies the ASSUMEs of its module.

`EtcdManagerProofs.tla`: `TypeCorrect` (`Spec => []TypeOK`), `MembershipCorrect`
(`Spec => []MembershipInv`), and its consequences `Exclusive` and `JoinsExact`.
`JoinsExactMembership` is not inductive. `MembershipInv` adds: etcd clusters do not
share members (`EnsembleHomes`); from the poll to the repair the holder of the lock
has seen every pod that can serve, because only the holder creates pods
(`NothingUnseen`); and `m.members` lists only voters of the cluster its live pods
belong to, unless an error is pending that makes the loop list them again
(`ViewOfMembers`). With these, `MemberAdd` can only be accepted when *every* voter of
the cluster is a listed member: etcd accepts it only while all voters are
connected, connected voters have live pods, and live pods are members.

`ClusterControlProofs.tla`: `TypeCorrect`, `FreshCopiesAreCurrent`
(`Spec => []FreshIsCurrent`), `NoEditLost` (`Spec => EditsKept`) and `NoCorrectionLost`
(`Spec => CorrectionsKept`). A step property says nothing about copies, so it
cannot be proved from itself. `FreshIsCurrent` says that whatever carries the
newest `resourceVersion` (the pass's object, the object a writer is about to send,
the cache once no event is on its way) has the user's newest spec and at least
what the operator has stored of its own part; and that the last event on its way
is the newest object. Each write that changes the object makes all other copies
stale; a retry starts from the cache, which is fresh only when it has caught up;
and what the pass fills in only adds. An accepted update is fresh, so it changes
the spec in neither way.

`SpecRegisterProofs.tla`: `ImplementsRegister` (`Spec => SpecIsRegister`), the refinement.
That a write fills in at most one part needs more than `FreshIsCurrent`: `OneAhead`
says that a cache that has caught up has exactly the stored part, and that the
pass's object and an argument that is still fresh are at most one part ahead,
the defaults before the corrections.

`CertsProofs.tla`: `CertsTypeCorrect` and `EndpointsAlwaysHaveCertificate`. The
invariant is strengthened by `Order`, which says what Keystone has at each step of
`SystemInit`: no endpoints while the certificate is deleted or not yet created, a
certificate when the endpoints are registered.

`ControllerProofs.tla`: `ControllerTypeCorrect` and `OneWorker`
(`Spec => []OneWorkerPerCluster`), for any number of processes, workers and clusters
and any lease longer than the renewal deadline. `LeaderInv` is why there is one
leader: a candidate has not waited longer than the leader has gone without
renewing, the leader is gone at `Renew`, and `Renew < Lease`. `JobInv` and `QueueInv`
are why there is one worker in it: only a leader's workers have keys, and a key
in the queue is in it once and with no worker.

`NothingLost` (`Spec => []NothingForgotten`) is about every event handler, the queue and
the passes together. `NInv` adds to it: no version is newer than the API server's clock
(`ClockInv`), so a pass that begins now sees every change made so far; an informer with
the newest version of a cluster has its UID (`CacheInv`), so the handler of a deployment
finds the owner or is behind; and a pass that runs began after everything recorded as
synced (`PassInv`). The last needs `OneWorker`: with two workers on one key the slower
one would record an older version over a newer one. `KeptInv` then follows a change
from the store to an event still to come, to the queue, the set of keys to queue again
or the back-off, to a worker, and back to the queue when the pass fails.

`ComponentsProofs.tla`: `ComponentsTypeCorrect`, `RunsProvisioned`
(`Spec => []WorkloadsProvisioned`), `KeystoneComesFirst` (`Spec => KeystoneFirst`) and
`RolledOutInOrder` (`Spec => RolloutOrder`), for every group of the catalogue's managers,
all of them at once included, any number of zones and of events, and any lag of the
listers. One inductive invariant, `IInv`, carries all four:

* `OrderInv`: the steps still to come are not before the one a unit is at.
* `AgendaInv`: a step that later ones rely on (a database, its account, a service
  account, the configuration, keystone's set-up), that the unit has to do and is neither
  at nor still to come to, has had its effect. The exception is what is only logged
  while services are stopped. With the order, a unit at its workload is provisioned.
* `WaitInv`, `KeystoneInv`: managers whose turn has not come are idle, and nobody runs
  behind keystone unless it is done.
* `AgainInv`: an update is repeated for the object its step is about.
* `CacheInv`: a lister that has the newest version has the object itself, and a
  configuration that a lister has exists.
* `ProvenInv`: a workload that the server or the lister reports as ready with an image has
  been ready with that image. So what `isDsReady` finds in the cache, however old, has
  been so.
* `RetryInv`: while a refused update waits to be repeated, the daemon set below has been
  ready with the image of the pass; the conflict came after that was looked at.
The actions are first shown to be of a few forms (`Advances`: a unit goes on in its
agenda; `Keeps`; `Starts`; `Puts` and `Writes`: one object changes, and how), and the
invariant is shown for the forms.

Only model-checked: all liveness, which rests on fairness, out of the prover's reach
(`EventuallyConverged`, `DeadClusterRebuilt`, `RunningReported`, `EventuallySettled`,
`EventuallyAsSpecified`, `CertificatesAgree`, `EveryChangeSynced`); and `VotersKept` and
`SeedOnlyWhenDead`, which hold within the faults of their runs only (finding 1 and the
first observation), so that no theorem for all bounds can state them.

## 6. Not modelled

* Contents: configuration options, pod templates, policies, alerts, charts, the
  values of defaults, and which settings `CalculateSetupKeys` picks. No action
  depends on them; they are data.
* The recreation of deployments and daemon sets whose selector changed
  (`component.go:562`): it happens once, when an installation of an old version is
  taken over.
* The generation of configuration for docker compose (`pkg/service-init`): a program
  without state that runs once and writes files.
* etcd's defragmentation goroutine: it iterates over a map that `run` changes, which
  the Go runtime may answer with the end of the process; nothing else of it
  changes state. Persistent volume claims and services of etcd: created once.
* Dameng as a database; image references, parsing and the generic retry helper:
  pure functions of strings.
* Generated clients, deepcopy and vendored code.

What would be worth proving next: `VotersKept` and `SeedOnlyWhenDead` with the faults they
need as a hypothesis; a second refinement, of the queue by a set of clusters that are due;
and for Certs that the secrets of one pass carry one CA.
