---------------------------- MODULE EtcdManager ----------------------------
(***************************************************************************)
(* The etcd component manager, src/pkg/manager/component/etcd.go: the      *)
(* operator builds an etcd cluster out of bare pods and keeps it at the    *)
(* size the OnecloudCluster asks for.                                      *)
(*                                                                         *)
(* Three actors share state.                                               *)
(*  - The controller worker calls Sync once per reconcile pass; it fixes   *)
(*    the spec and starts the goroutine "go m.sync(oc)" unless m.syncing.  *)
(*  - Goroutines run m.sync one at a time under m.reconcileLock: set a     *)
(*    cluster up, then poll pods and repair the membership until the       *)
(*    cluster is gone.                                                     *)
(*  - The environment: kubelet starts and loses pods, etcd (external)      *)
(*    keeps the membership, users edit the spec, requests fail, the        *)
(*    operator crashes and restarts.                                       *)
(*                                                                         *)
(* Every call that leaves the process is a step of its own: a pod may die, *)
(* or the operator crash, between any two of them.                         *)
(***************************************************************************)
EXTENDS Integers, FiniteSets

CONSTANTS
    Name,           \* pod = member names; UniqueMemberName picks an unused one
    Gor,            \* goroutine slots: how many m.sync calls may be pending
    None,           \* "no goroutine", "no pod"
    Version,        \* image versions the spec may ask for
    DefaultSize,    \* constants.EtcdDefaultClusterSize
    Sizes,          \* sizes a user may write into spec.etcd.size
    MasterCounts,   \* numbers of master nodes the node lister may report
    KeepFailedPods, \* the flag controller.EtcdKeepFailedPods
    MaxKills,       \* bound: pods lost
    MaxFaults,      \* bound: failed or unanswered requests
    MaxCrashes,     \* bound: operator restarts
    MaxEdits,       \* bound: changes of the spec or of the master nodes
    MaxChanges      \* bound: passes that change the status of other components

ASSUME NoneAssumption == None \notin Name /\ None \notin Gor
ASSUME FiniteAssumption == IsFiniteSet(Name) /\ IsFiniteSet(Gor)
ASSUME SizeAssumption ==
    /\ DefaultSize \in Nat \ {0}
    /\ Sizes \subseteq Nat
    /\ MasterCounts \subseteq Nat
ASSUME KeepAssumption == KeepFailedPods \in BOOLEAN
ASSUME BoundAssumption ==
    /\ MaxKills \in Nat
    /\ MaxFaults \in Nat
    /\ MaxCrashes \in Nat
    /\ MaxEdits \in Nat
    /\ MaxChanges \in Nat

VARIABLES
    \* OnecloudCluster in the API server, and the master nodes
    stored,     \* status.etcd.phase
    spec,       \* spec.etcd: size and version
    masters,    \* master nodes seen by fixEtcdSize
    \* Kubernetes pods
    pod,        \* phase of the pod of each name
    podVer,     \* the etcd version annotation of the pod
    \* etcd itself
    home,       \* the seed of the etcd cluster a name was created for
    ensemble,   \* voting members of the etcd cluster grown from a seed
    \* the operator process: scheduling of m.sync
    syncing,    \* m.syncing
    lock,       \* holder of m.reconcileLock
    pc,         \* where each goroutine is
    snap,       \* status.etcd.phase in the oc each goroutine was started with
    \* the operator process: fields of the manager
    phase,      \* m.status.Phase
    oc,         \* m.oc.Spec.Etcd
    members,    \* m.members ({} while nil)
    listed,     \* m.members # nil
    known,      \* members whose ID is known (# 0)
    rerr,       \* the local rerr of run() is not nil
    polled,     \* the local "running" of this tick
    target,     \* the member this tick works on
    \* the operator process: the reconcile pass of the controller worker
    mainPc,     \* where the pass is
    mainOc,     \* the oc it read: status.etcd.phase and spec.etcd.size
    mainFresh,  \* its resourceVersion is still the newest
    \* bounds
    kills, faults, crashes, edits, changes

apiVars  == <<stored, spec, masters>>
podVars  == <<pod, podVer>>
etcdVars == <<home, ensemble>>
goVars   == <<syncing, lock, pc, snap>>
manVars  == <<phase, oc, members, listed, known, rerr, polled, target>>
mainVars == <<mainPc, mainOc, mainFresh>>
bounds   == <<kills, faults, crashes, edits, changes>>
vars == <<apiVars, podVars, etcdVars, goVars, manVars, mainVars, bounds>>

Phase == {"None", "Creating", "Running", "Failed"}
PodPhase == {"Absent", "Pending", "Running", "Succeeded", "Failed"}
Spec_ == [size : Nat, ver : Version]

\* Where a goroutine may be while it holds m.reconcileLock: in setup(), ...
SetupPc == {"creating", "seed", "fail", "begin"}
\* ... in the loop of run(), ...
LoopPc == {"poll", "dead", "refresh", "reconcile", "add", "addPod", "remove",
           "removePod", "clean", "cleaned", "upgrade", "status"}
\* ... or on its way out.
HeldPc == SetupPc \cup LoopPc \cup {"unlock"}
GoPc == {"idle", "started", "waiting", "unsync"} \cup HeldPc

ApiType ==
    /\ stored \in Phase
    /\ spec \in Spec_
    /\ masters \in Nat
PodType ==
    /\ pod \in [Name -> PodPhase]
    /\ podVer \in [Name -> Version]
EtcdType ==
    /\ home \in [Name -> Name]
    /\ ensemble \in [Name -> SUBSET Name]
GoType ==
    /\ syncing \in BOOLEAN
    /\ lock \in Gor \cup {None}
    /\ pc \in [Gor -> GoPc]
    /\ snap \in [Gor -> Phase]
ManType ==
    /\ phase \in Phase
    /\ oc \in Spec_
    /\ members \in SUBSET Name
    /\ listed \in BOOLEAN
    /\ known \in SUBSET Name
    /\ rerr \in BOOLEAN
    /\ polled \in SUBSET Name
    /\ target \in Name \cup {None}
PassType ==
    /\ mainPc \in {"idle", "sync", "end"}
    /\ mainOc \in [phase : Phase, size : Nat]
    /\ mainFresh \in BOOLEAN
BoundType ==
    /\ kills \in 0..MaxKills
    /\ faults \in 0..MaxFaults
    /\ crashes \in 0..MaxCrashes
    /\ edits \in 0..MaxEdits
    /\ changes \in 0..MaxChanges

\* Every variable has its type, and no bound is exceeded.
TypeOK == ApiType /\ PodType /\ EtcdType /\ GoType /\ ManType /\ PassType /\ BoundType

NoOc == [phase |-> "None", size |-> 0]     \* no pass is under way

Init ==
    /\ stored = "None"
    /\ spec \in [size : Sizes, ver : Version]
    /\ masters \in MasterCounts
    /\ pod = [n \in Name |-> "Absent"]
    /\ podVer = [n \in Name |-> spec.ver]
    /\ home = [n \in Name |-> n]
    /\ ensemble = [n \in Name |-> {}]
    /\ syncing = FALSE
    /\ lock = None
    /\ pc = [g \in Gor |-> "idle"]
    /\ snap = [g \in Gor |-> "None"]
    /\ phase = "None"
    /\ oc = spec
    /\ members = {} /\ listed = FALSE /\ known = {}
    /\ rerr = FALSE /\ polled = {} /\ target = None
    /\ mainPc = "idle"
    /\ mainOc = NoOc
    /\ mainFresh = FALSE
    /\ kills = 0 /\ faults = 0 /\ crashes = 0 /\ edits = 0 /\ changes = 0

(***************************************************************************)
(* etcd, as the client library shows it to the operator.  A voting member  *)
(* serves while its pod runs.  Every request needs a quorum.  The server   *)
(* runs with its default strict-reconfig-check (newEtcdCommand does not    *)
(* turn it off): a member is added only while every voter is connected,    *)
(* and a live one is removed only if the rest keeps a quorum.              *)
(***************************************************************************)
Serving(s) == {n \in ensemble[s] : pod[n] = "Running"}
Quorate(s) == 2 * Cardinality(Serving(s)) > Cardinality(ensemble[s])
\* The endpoint n gives a linearizable answer.
Answers(n) == n \in Serving(home[n]) /\ Quorate(home[n])
AddAllowed(s) == Quorate(s) /\ Serving(s) = ensemble[s]
RemoveAllowed(s, n) ==
    /\ Quorate(s)
    /\ Cardinality(ensemble[s]) > 1
    /\ n \in Serving(s) =>
         Cardinality(Serving(s)) - 1 >= 1 + (Cardinality(ensemble[s]) - 1) \div 2

\* A cluster that still has, or may get, a running pod.
Inhabited(s) == \E n \in Name : home[n] = s /\ pod[n] \in {"Pending", "Running"}

\* Names that UniqueMemberName may return: nothing refers to them any more.
\* (The real names are random; recycling forgotten ones keeps Name finite.
\* No code ever looks at a pod that has succeeded.)
Fresh == {n \in Name : /\ pod[n] \in {"Absent", "Succeeded"}
                       /\ n \notin members
                       /\ ~ Inhabited(n)
                       /\ \A s \in Name : Inhabited(s) => n \notin ensemble[s]}

\* The membership lists that still matter when the name n is given out: a
\* cluster without pods is gone, its data was in their memory (emptyDir).
Forget(n) == [s \in Name |-> IF s # n /\ Inhabited(s) THEN ensemble[s] ELSE {}]

(***************************************************************************)
(* Requests.  A request that fails uses up one fault.                      *)
(***************************************************************************)
Fault == faults < MaxFaults /\ faults' = faults + 1
NoFault == UNCHANGED faults

\* updateEtcdStatus: write m.status over the newest OnecloudCluster and
\* keep the object that the API server returns as m.oc.
Written(ph) ==
    /\ stored' = ph
    /\ oc' = spec
    /\ mainFresh' = (mainFresh /\ ph = stored)
NotWritten == UNCHANGED <<stored, oc, mainFresh>>
updateEtcdStatus(ph) ==
    /\ \/ Written(ph) /\ NoFault
       \/ NotWritten /\ Fault
    /\ UNCHANGED <<spec, masters>>

\* Mutant of removePods: a deleted pod lingers as terminating.
removePodsLinger(S) == pod' = [n \in Name |-> IF n \in S THEN "Terminating" ELSE pod[n]]
\* removePod for each pod of S; a pod already gone is no error.
removePods(S) == pod' = [n \in Name |-> IF n \in S THEN "Absent" ELSE pod[n]]
removePod(n) == removePods({n})

\* createPod: the API server accepts the pod of a new name.
createPod(n) ==
    /\ pod' = [pod EXCEPT ![n] = "Pending"]
    /\ podVer' = [podVer EXCEPT ![n] = oc.ver]

Goto(g, l) == pc' = [pc EXCEPT ![g] = l]

(***************************************************************************)
(* The controller worker: one reconcile pass at a time.                    *)
(***************************************************************************)
\* sync of the controller reads the OnecloudCluster from the API server.
MainRead ==
    /\ mainPc = "idle"
    /\ mainPc' = "sync"
    /\ mainOc' = [phase |-> stored, size |-> spec.size]
    /\ mainFresh' = TRUE
    /\ UNCHANGED <<apiVars, podVars, etcdVars, goVars, manVars, bounds>>

\* The size that fixEtcdSize leaves in the spec it is given.
fixEtcdSize(size) ==
    IF masters < 3 THEN 1 ELSE IF size < DefaultSize THEN DefaultSize ELSE size

Idle == {g \in Gor : pc[g] = "idle"}

\* "if !m.isSyncing() { go m.sync(oc) }".  The goroutine itself sets
\* m.syncing later, so a second one may be started in between.  The last
\* free slot is kept for the goroutine that run() starts.
Spawn ==
    IF ~ syncing /\ Cardinality(Idle) > 1
    THEN \E g \in Idle : /\ Goto(g, "started")
                         /\ snap' = [snap EXCEPT ![g] = mainOc.phase]
    ELSE UNCHANGED <<pc, snap>>

\* Sync: write the corrected spec (with the whole status read at the start
\* of the pass), then start the goroutine.  fixEtcdSize corrects the very
\* object the pass works on; the object written back is another one.  After a
\* conflict UpdateCluster repeats the write with the spec of the lister: the
\* correction is lost, the old status is written all the same.
FixMain == mainOc' = [mainOc EXCEPT !.size = fixEtcdSize(mainOc.size)]

SyncUnchanged ==
    /\ mainPc = "sync"
    /\ fixEtcdSize(mainOc.size) = mainOc.size
    /\ Spawn
    /\ mainPc' = "end"
    /\ UNCHANGED <<apiVars, podVars, etcdVars, syncing, lock, manVars,
                   mainOc, mainFresh, bounds>>

SyncFixed ==
    /\ mainPc = "sync"
    /\ fixEtcdSize(mainOc.size) # mainOc.size
    /\ \/ /\ mainFresh
          /\ spec' = [spec EXCEPT !.size = fixEtcdSize(mainOc.size)]
          /\ NoFault
       \/ ~ mainFresh /\ UNCHANGED spec /\ NoFault
       \/ UNCHANGED spec /\ Fault            \* a conflict over other fields
    /\ stored' = mainOc.phase
    /\ Spawn
    /\ mainPc' = "end"
    /\ FixMain
    /\ mainFresh' = FALSE
    /\ UNCHANGED <<masters, podVars, etcdVars, syncing, lock, manVars,
                   kills, crashes, edits, changes>>

\* "update oc failed": nothing is written, no goroutine is started.
SyncFailed ==
    /\ mainPc = "sync"
    /\ fixEtcdSize(mainOc.size) # mainOc.size
    /\ Fault
    /\ mainPc' = "end"
    /\ FixMain
    /\ UNCHANGED <<apiVars, podVars, etcdVars, goVars, manVars,
                   mainFresh, kills, crashes, edits, changes>>

\* End of the pass: when some component changed the status, the whole status
\* read at the start is written back, the one of etcd included, over the
\* spec of the pass or, after a conflict, over the spec of the lister.
MainEnd ==
    /\ mainPc = "end"
    /\ mainPc' = "idle"
    /\ \/ /\ changes < MaxChanges
          /\ changes' = changes + 1
          /\ stored' = mainOc.phase
          /\ spec' = IF mainFresh THEN [spec EXCEPT !.size = mainOc.size] ELSE spec
       \/ UNCHANGED <<stored, spec, changes>>
    /\ mainOc' = NoOc
    /\ mainFresh' = FALSE
    /\ UNCHANGED <<masters, podVars, etcdVars, goVars, manVars,
                   kills, faults, crashes, edits>>

Main == MainRead \/ SyncUnchanged \/ SyncFixed \/ SyncFailed \/ MainEnd

(***************************************************************************)
(* m.sync, up to the loop: setSyncing, Lock, setup(), create().            *)
(***************************************************************************)
setSyncing(g) ==
    /\ pc[g] = "started"
    /\ syncing' = TRUE
    /\ Goto(g, "waiting")
    /\ UNCHANGED <<apiVars, podVars, etcdVars, lock, snap, manVars, mainVars,
                   bounds>>

\* Mutant of TryLock: the mutex is not taken.
TryLockNot(g) == lock' = g
\* m.reconcileLock.Lock()
TryLock(g) == lock = None /\ lock' = g

\* Lock, adopt the status of the snapshot, and the switch of setup(); the
\* client certificate is read from its secret, which may fail.  "m.oc = oc" has
\* no effect: m.oc is replaced before its spec is read.
Acquire(g) ==
    /\ pc[g] = "waiting"
    /\ TryLock(g)
    /\ phase' = snap[g]
    /\ snap' = [snap EXCEPT ![g] = "None"]
    /\ \/ snap[g] \in {"None", "Failed"} /\ Goto(g, "creating") /\ NoFault
       \/ snap[g] = "Creating" /\ Goto(g, "fail") /\ NoFault
       \/ snap[g] = "Running" /\ Goto(g, "begin") /\ NoFault
       \/ snap[g] # "Creating" /\ Goto(g, "fail") /\ Fault
    /\ UNCHANGED <<apiVars, podVars, etcdVars, syncing, oc, members, listed,
                   known, rerr, polled, target, mainVars,
                   kills, crashes, edits, changes>>

\* create(): record the phase before the seed pod exists.
create(g) ==
    /\ pc[g] = "creating"
    /\ phase' = "Creating"
    /\ \/ Written("Creating") /\ NoFault /\ Goto(g, "seed")
       \/ NotWritten /\ Fault /\ Goto(g, "fail")
    /\ UNCHANGED <<spec, masters, podVars, etcdVars, syncing, lock, snap,
                   members, listed, known, rerr, polled, target,
                   mainPc, mainOc, kills, crashes, edits, changes>>

\* startSeedMember: a pod that starts an etcd cluster of its own.  Its ID is
\* not known to the operator.  A request that fails may have been served.
startSeedMember(g) ==
    /\ pc[g] = "seed"
    /\ \E n \in Fresh :
         \/ /\ createPod(n)
            /\ home' = [home EXCEPT ![n] = n]
            /\ ensemble' = [Forget(n) EXCEPT ![n] = {n}]
            /\ \/ /\ members' = {n} /\ listed' = TRUE /\ known' = {}
                  /\ Goto(g, "begin")
                  /\ NoFault
               \/ /\ UNCHANGED <<members, listed, known>>
                  /\ Goto(g, "fail")
                  /\ Fault
         \/ /\ Goto(g, "fail")
            /\ Fault
            /\ UNCHANGED <<podVars, etcdVars, members, listed, known>>
    /\ UNCHANGED <<apiVars, syncing, lock, snap, phase, oc, rerr, polled,
                   target, mainVars, kills, crashes, edits, changes>>

\* setup() returned an error: report it and give up.
setupFailed(g) ==
    /\ pc[g] = "fail"
    /\ IF phase = "Failed"
       THEN NotWritten /\ NoFault /\ UNCHANGED <<phase, spec, masters>>
       ELSE phase' = "Failed" /\ updateEtcdStatus("Failed")
    /\ Goto(g, "unlock")
    /\ UNCHANGED <<podVars, etcdVars, syncing, lock, snap, members, listed,
                   known, rerr, polled, target, mainPc, mainOc,
                   kills, crashes, edits, changes>>

\* The head of run(): phase Running, no error yet.
runBegin(g) ==
    /\ pc[g] = "begin"
    /\ phase' = "Running"
    /\ updateEtcdStatus("Running")
    /\ rerr' = FALSE
    /\ Goto(g, "poll")
    /\ UNCHANGED <<podVars, etcdVars, syncing, lock, snap, members, listed,
                   known, polled, target, mainPc, mainOc,
                   kills, crashes, edits, changes>>

(***************************************************************************)
(* The loop of run(): one tick every reconcileInterval.                    *)
(***************************************************************************)
InPhase(ph) == {n \in Name : pod[n] = ph}

\* Mutant of Settled: the tick goes on although pods are pending.
SettledIgnored == TRUE
\* "skip reconciliation" while a pod is pending.
Settled == InPhase("Pending") = {}

\* Mutant of NeedsList: an empty memory after a restart is taken for a list.
NeedsListOnError == rerr
\* The members are listed again after an error, and after a restart.
NeedsList == rerr \/ ~ listed

\* fetchCluster and pollPods.  A failed request or a pending pod ends the
\* tick with nothing changed; failed pods are removed unless they are kept,
\* and an error doing so is only logged.
pollPods(g) ==
    /\ pc[g] = "poll"
    /\ Settled
    /\ oc' = spec
    /\ polled' = InPhase("Running")
    /\ IF KeepFailedPods
       THEN UNCHANGED pod /\ NoFault
       ELSE \/ removePods(InPhase("Failed")) /\ NoFault
            \/ \E left \in SUBSET InPhase("Failed") \ {{}} :
                 removePods(InPhase("Failed") \ left) /\ Fault
    /\ IF polled' = {} THEN phase' = "Failed" /\ Goto(g, "dead")
       ELSE /\ UNCHANGED phase
            /\ Goto(g, IF NeedsList THEN "refresh" ELSE "reconcile")
    /\ UNCHANGED <<apiVars, podVer, etcdVars, syncing, lock, snap, members,
                   listed, known, rerr, target, mainVars,
                   kills, crashes, edits, changes>>

\* "all etcd pods are dead": report it and leave the loop.  m.members stays.
allDead(g) ==
    /\ pc[g] = "dead"
    /\ updateEtcdStatus(phase)
    /\ Goto(g, "unlock")
    /\ UNCHANGED <<podVars, etcdVars, syncing, lock, snap, phase, members,
                   listed, known, rerr, polled, target, mainPc, mainOc,
                   kills, crashes, edits, changes>>

\* updateMembers: the member list as one of the polled pods tells it.
EndTick(g, err) == rerr' = err /\ polled' = {} /\ Goto(g, "poll")

updateMembers(g) ==
    /\ pc[g] = "refresh"
    /\ \/ \E n \in polled :
            /\ Answers(n)
            /\ members' = ensemble[home[n]]
            /\ known' = ensemble[home[n]]
            /\ listed' = TRUE
            /\ rerr' = FALSE
            /\ UNCHANGED polled
            /\ Goto(g, "reconcile")
            /\ NoFault
       \/ /\ \/ NoFault /\ \/ \A n \in polled : ~ Answers(n)
                           \/ \E n \in polled : pod[n] = "Running" /\ ~ Quorate(home[n])
             \/ Fault
          /\ EndTick(g, TRUE)
          /\ UNCHANGED <<members, known, listed>>
    /\ UNCHANGED <<apiVars, podVars, etcdVars, syncing, lock, snap, phase, oc,
                   target, mainVars, kills, crashes, edits, changes>>

\* Mutant of OldPods: no pod is ever found to be old.
OldPodsNever == {}
\* pickOneOldMember: a running pod of another version than the spec's.
OldPods == {n \in polled : podVer[n] # oc.ver}

\* reconcile, when the pods are the members and their number is right.
reconcileVersion(g) ==
    /\ pc[g] = "reconcile"
    /\ polled = members
    /\ Cardinality(members) = oc.size
    /\ \/ \E n \in OldPods : target' = n /\ Goto(g, "upgrade")
       \/ OldPods = {} /\ Goto(g, "status") /\ UNCHANGED target
    /\ polled' = {}
    /\ UNCHANGED <<apiVars, podVars, etcdVars, syncing, lock, snap, phase, oc,
                   members, listed, known, rerr, mainVars, bounds>>

\* Mutant of BelowQuorum: a bare majority counts as lost.
BelowQuorumOrAt(L) == Cardinality(L) <= Cardinality(members) \div 2 + 1
\* "L.Size() < m.members.Size()/2+1"
BelowQuorum(L) == Cardinality(L) < Cardinality(members) \div 2 + 1

\* What reconcileMembers does once the unknown pods are gone: resize when
\* every member runs, give up below a quorum, else remove one dead member.
NextRepair(g) ==
    LET L == polled \cap members
        size == Cardinality(members)
    IN  \/ /\ L = members /\ size = oc.size
           /\ Goto(g, "status") /\ UNCHANGED target
        \/ /\ L = members /\ size < oc.size
           /\ Goto(g, "add") /\ UNCHANGED target
        \/ /\ L = members /\ size > oc.size
           /\ \E n \in members : target' = n
           /\ Goto(g, "remove")
        \/ /\ L # members /\ BelowQuorum(L)
           /\ Goto(g, "clean") /\ UNCHANGED target
        \/ /\ L # members /\ ~ BelowQuorum(L)
           /\ \E n \in members \ L : target' = n
           /\ Goto(g, "remove")

\* reconcileMembers: remove the running pods that are no members, then
\* repair.  The first removal that fails ends the tick.
reconcileMembers(g) ==
    /\ pc[g] = "reconcile"
    /\ polled # members \/ Cardinality(members) # oc.size
    /\ \/ /\ removePods(polled \ members)
          /\ NextRepair(g)
          /\ polled' = {}
          /\ NoFault
          /\ UNCHANGED rerr
       \/ /\ polled \ members # {}
          /\ \E gone \in SUBSET (polled \ members) : removePods(gone)
          /\ EndTick(g, TRUE)
          /\ Fault
          /\ UNCHANGED target
    /\ UNCHANGED <<apiVars, podVer, etcdVars, syncing, lock, snap, phase, oc,
                   members, listed, known, mainVars, kills, crashes, edits, changes>>

\* Mutant of rememberMember: the answer of MemberAdd is dropped.
rememberMemberNot(n) == UNCHANGED <<members, known>>
\* m.members.Add with the ID that etcd answered.
rememberMember(n) == members' = members \cup {n} /\ known' = known \cup {n}

\* addOneMember, first half: MemberAdd through one of the members.  The
\* answer to a request that was served may be lost.
MemberAdd(g) ==
    /\ pc[g] = "add"
    /\ \/ \E m \in members, n \in Fresh :
            /\ pod[m] = "Running" /\ AddAllowed(home[m])
            /\ home' = [home EXCEPT ![n] = home[m]]
            /\ ensemble' = [Forget(n) EXCEPT ![home[m]] = @ \cup {n}]
            /\ \/ /\ rememberMember(n)
                  /\ target' = n
                  /\ Goto(g, "addPod")
                  /\ NoFault
                  /\ UNCHANGED <<rerr, polled>>
               \/ EndTick(g, TRUE) /\ Fault /\ UNCHANGED <<members, known, target>>
       \/ /\ \/ NoFault /\ \/ \A m \in members : pod[m] # "Running"
                           \/ \E m \in members : pod[m] = "Running" /\ ~ AddAllowed(home[m])
             \/ Fault
          /\ EndTick(g, TRUE)
          /\ UNCHANGED <<etcdVars, members, known, target>>
    /\ UNCHANGED <<apiVars, podVars, syncing, lock, snap, phase, oc, listed,
                   mainVars, kills, crashes, edits, changes>>

\* addOneMember, second half: the pod that joins as the new member.
createMemberPod(g) ==
    /\ pc[g] = "addPod"
    /\ \/ /\ createPod(target)
          /\ \/ Goto(g, "status") /\ NoFault /\ UNCHANGED <<rerr, polled>>
             \/ EndTick(g, TRUE) /\ Fault
       \/ EndTick(g, TRUE) /\ Fault /\ UNCHANGED podVars
    /\ target' = None
    /\ UNCHANGED <<apiVars, etcdVars, syncing, lock, snap, phase, oc, members,
                   listed, known, mainVars, kills, crashes, edits, changes>>

\* removeMember, first half: MemberRemove by ID.  etcd does not know the ID 0
\* of a seed; "member not found" counts as removed.
MemberRemove(g) ==
    /\ pc[g] = "remove"
    /\ \/ \E m \in members :
            LET s == home[m]
                found == target \in known \cap ensemble[s]
            IN  /\ pod[m] = "Running"
                /\ IF found THEN RemoveAllowed(s, target) ELSE Quorate(s)
                /\ IF found
                   THEN ensemble' = [ensemble EXCEPT ![s] = @ \ {target}]
                   ELSE UNCHANGED ensemble
                /\ \/ /\ members' = members \ {target}
                      /\ known' = known \ {target}
                      /\ Goto(g, "removePod")
                      /\ NoFault
                      /\ UNCHANGED <<rerr, polled, target>>
                   \/ EndTick(g, TRUE) /\ Fault /\ target' = None
                      /\ UNCHANGED <<members, known>>
       \/ /\ \/ NoFault /\ \/ \A m \in members : pod[m] # "Running"
                           \/ \E m \in members :
                                /\ pod[m] = "Running"
                                /\ \/ ~ Quorate(home[m])
                                   \/ /\ target \in known \cap ensemble[home[m]]
                                      /\ ~ RemoveAllowed(home[m], target)
             \/ Fault
          /\ EndTick(g, TRUE)
          /\ target' = None
          /\ UNCHANGED <<ensemble, members, known>>
    /\ UNCHANGED <<apiVars, podVars, home, syncing, lock, snap, phase, oc,
                   listed, mainVars, kills, crashes, edits, changes>>

\* removeMember, second half: the pod of the removed member.
removeMemberPod(g) ==
    /\ pc[g] = "removePod"
    /\ \/ removePod(target) /\ \/ Goto(g, "status") /\ NoFault /\ UNCHANGED <<rerr, polled>>
                               \/ EndTick(g, TRUE) /\ Fault
       \/ UNCHANGED pod /\ EndTick(g, TRUE) /\ Fault
    /\ target' = None
    /\ UNCHANGED <<apiVars, podVer, etcdVars, syncing, lock, snap, phase, oc,
                   members, listed, known, mainVars, kills, crashes, edits, changes>>

\* cleanAllMembers: remove the pod of every member.  After an error the loop
\* goes on with the rest of the members, and rerr is still ErrLostQuorum.
cleanAllMembers(g) ==
    /\ pc[g] = "clean"
    /\ \/ /\ removePods(members)
          /\ members' = {} /\ known' = {}
          /\ phase' = "Failed"
          /\ Goto(g, "cleaned")
          /\ NoFault
          /\ UNCHANGED <<rerr, polled>>
       \/ /\ members # {}
          /\ \E gone \in SUBSET members : \E last \in members :
               /\ removePods(gone)
               /\ members' = members \ (gone \ {last})
               /\ known' = known \ (gone \ {last})
          /\ EndTick(g, TRUE)
          /\ Fault
          /\ UNCHANGED phase
    /\ UNCHANGED <<apiVars, podVer, etcdVars, syncing, lock, snap, oc, listed,
                   target, mainVars, kills, crashes, edits, changes>>

\* ... and report the failure, then start over in a new goroutine.
restart(g) ==
    /\ pc[g] = "cleaned"
    /\ \/ /\ Written(phase) /\ NoFault
          /\ \E h \in Idle :
               /\ pc' = [pc EXCEPT ![g] = "unlock", ![h] = "started"]
               /\ snap' = [snap EXCEPT ![h] = phase]
          /\ UNCHANGED <<rerr, polled>>
       \/ NotWritten /\ Fault /\ EndTick(g, TRUE) /\ UNCHANGED snap
    /\ UNCHANGED <<spec, masters, podVars, etcdVars, syncing, lock, phase,
                   members, listed, known, target, mainPc, mainOc,
                   kills, crashes, edits, changes>>

\* upgradeOneMember: patch the image of one pod of another version.
upgradeOneMember(g) ==
    /\ pc[g] = "upgrade"
    /\ \/ /\ pod[target] # "Absent"
          /\ podVer' = [podVer EXCEPT ![target] = oc.ver]
          /\ Goto(g, "status")
          /\ NoFault
          /\ UNCHANGED <<rerr, polled>>
       \/ /\ \/ pod[target] = "Absent" /\ NoFault
             \/ Fault
          /\ EndTick(g, TRUE)
          /\ UNCHANGED podVer
    /\ target' = None
    /\ UNCHANGED <<apiVars, pod, etcdVars, syncing, lock, snap, phase, oc,
                   members, listed, known, mainVars, kills, crashes, edits, changes>>

\* Mutant of periodicStatus: the status is not written again.
periodicStatusOnce(g) ==
    /\ pc[g] = "status"
    /\ NotWritten /\ NoFault
    /\ EndTick(g, FALSE)
    /\ UNCHANGED <<spec, masters, podVars, etcdVars, syncing, lock, snap, phase,
                   members, listed, known, target, mainPc, mainOc,
                   kills, crashes, edits, changes>>

\* The periodic status update that ends a tick without error.
periodicStatus(g) ==
    /\ pc[g] = "status"
    /\ updateEtcdStatus(phase)
    /\ EndTick(g, FALSE)
    /\ UNCHANGED <<podVars, etcdVars, syncing, lock, snap, phase, members,
                   listed, known, target, mainPc, mainOc,
                   kills, crashes, edits, changes>>

\* The deferred calls of m.sync, last one first: Unlock, then setUnsync.
\* Another goroutine may hold the lock when m.syncing becomes false.
unlock(g) ==
    /\ pc[g] = "unlock"
    /\ lock' = None
    /\ Goto(g, "unsync")
    /\ UNCHANGED <<apiVars, podVars, etcdVars, syncing, snap, manVars,
                   mainVars, bounds>>

\* Mutant of setUnsync: m.syncing is never cleared.
setUnsyncNot(g) ==
    /\ pc[g] = "unsync"
    /\ Goto(g, "idle")
    /\ UNCHANGED <<apiVars, podVars, etcdVars, syncing, lock, snap, manVars,
                   mainVars, bounds>>

setUnsync(g) ==
    /\ pc[g] = "unsync"
    /\ syncing' = FALSE
    /\ Goto(g, "idle")
    /\ UNCHANGED <<apiVars, podVars, etcdVars, lock, snap, manVars, mainVars,
                   bounds>>

Setup(g) == setSyncing(g) \/ Acquire(g) \/ create(g) \/ startSeedMember(g)
            \/ setupFailed(g) \/ runBegin(g)
Repair(g) == MemberAdd(g) \/ createMemberPod(g) \/ MemberRemove(g)
             \/ removeMemberPod(g) \/ cleanAllMembers(g) \/ restart(g)
             \/ upgradeOneMember(g)
Loop(g) == pollPods(g) \/ allDead(g) \/ updateMembers(g) \/ reconcileVersion(g)
           \/ reconcileMembers(g) \/ Repair(g) \/ periodicStatus(g)
Leave(g) == unlock(g) \/ setUnsync(g)
Goroutine(g) == Setup(g) \/ Loop(g) \/ Leave(g)

(***************************************************************************)
(* The environment.                                                        *)
(***************************************************************************)
\* kubelet starts a pod.
PodStarts(n) ==
    /\ pod[n] = "Pending"
    /\ pod' = [pod EXCEPT ![n] = "Running"]
    /\ UNCHANGED <<apiVars, podVer, etcdVars, goVars, manVars, mainVars, bounds>>

\* A pod ends, or its node is lost and the pod deleted.  The restart policy
\* is Never: the etcd process never comes back.
PodLost(n) ==
    /\ kills < MaxKills
    /\ kills' = kills + 1
    /\ pod[n] \in {"Pending", "Running"}
    /\ \E ph \in {"Failed", "Succeeded", "Absent"} : pod' = [pod EXCEPT ![n] = ph]
    /\ UNCHANGED <<apiVars, podVer, etcdVars, goVars, manVars, mainVars,
                   faults, crashes, edits, changes>>

\* A user edits spec.etcd, or a master node comes or goes.
Edit ==
    /\ edits < MaxEdits
    /\ edits' = edits + 1
    /\ \/ /\ spec' \in [size : Sizes, ver : Version]
          /\ spec' # spec
          /\ mainFresh' = FALSE
          /\ UNCHANGED masters
       \/ /\ masters' \in MasterCounts \ {masters}
          /\ UNCHANGED <<spec, mainFresh>>
    /\ UNCHANGED <<stored, podVars, etcdVars, goVars, manVars, mainPc, mainOc,
                   kills, faults, crashes, changes>>

\* The operator dies and starts again with an empty memory.
Crash ==
    /\ crashes < MaxCrashes
    /\ crashes' = crashes + 1
    /\ syncing' = FALSE /\ lock' = None
    /\ pc' = [g \in Gor |-> "idle"]
    /\ snap' = [g \in Gor |-> "None"]
    /\ phase' = "None"
    /\ members' = {} /\ listed' = FALSE /\ known' = {}
    /\ rerr' = FALSE /\ polled' = {} /\ target' = None
    /\ mainPc' = "idle" /\ mainOc' = NoOc /\ mainFresh' = FALSE
    /\ UNCHANGED <<apiVars, podVars, etcdVars, oc, kills, faults, edits, changes>>

Environment == (\E n \in Name : PodStarts(n) \/ PodLost(n)) \/ Edit \/ Crash

Next == Main \/ (\E g \in Gor : Goroutine(g)) \/ Environment

Spec == Init /\ [][Next]_vars

(***************************************************************************)
(* Properties.                                                             *)
(***************************************************************************)
\* Fairness: the Go scheduler runs every goroutine and the controller worker
\* (the informer resyncs every 30 seconds), sync.Mutex does not starve a
\* waiter, and kubelet starts every pod it is given.
Fairness ==
    /\ WF_vars(Main)
    /\ \A g \in Gor : WF_vars(Goroutine(g)) /\ SF_vars(Acquire(g))
    /\ \A n \in Name : WF_vars(PodStarts(n))

\* Timing, assumed for liveness only: a pass gets from reading the cluster to
\* the Sync of etcd before the loop's next request.  A pass that is always
\* overtaken starts m.sync with phase Running for ever, and a dead cluster is
\* polled again and again instead of being rebuilt.
PromptPass == mainPc = "sync" => mainPc' = "end"

FairSpec == Init /\ [][Next /\ PromptPass]_vars /\ Fairness

\* m.reconcileLock: the code between Lock and Unlock of sync() is executed by
\* the holder of the lock only, although several goroutines may be started.
ReconcileExclusive == \A g \in Gor : pc[g] \in HeldPc <=> lock = g

\* The etcd cluster s is not the one whose members were listed.
Foreign(s) == listed /\ \A m \in members : home[m] # s

\* The members a joining pod is told of (--initial-cluster, built from
\* m.members by createPod) are the voting members etcd has, the new one
\* included: etcd refuses to start with any other list.
JoinsExactMembership ==
    \A g \in Gor : pc[g] = "addPod" => members = ensemble[home[target]]

\* removePod never takes a serving voter away from the managed etcd cluster
\* while that cluster has a quorum: a member leaves etcd before its pod goes,
\* and nothing is removed before the members were listed.
VotersKept ==
    [][\A n \in Name :
         pod[n] = "Running" /\ pod'[n] = "Absent" /\ kills' = kills
         => ~ Answers(n) \/ Foreign(home[n])]_vars

\* startSeedMember rebuilds a cluster only after all etcd pods are dead.
SeedOnlyWhenDead ==
    [][(\E g \in Gor : pc[g] = "seed" /\ pc'[g] = "begin")
       => InPhase("Running") \cup InPhase("Pending") = {}]_vars

\* m.members "represents the members in the etcd cluster" whenever the loop
\* relies on it: no error is pending and the cluster answers.
MembersRepresentCluster ==
    \A g \in Gor : pc[g] = "poll" /\ ~ rerr /\ listed =>
        \A n \in members : Answers(n) => members = ensemble[home[n]]
\* Some etcd pod runs, but none belongs to a cluster that has a quorum.
LostQuorum ==
    /\ InPhase("Running") # {}
    /\ InPhase("Pending") = {}
    /\ \A n \in Name : ~ Answers(n)

\* A lost quorum does not last: the loop detects it and cleans all members,
\* so that the cluster can be built again.
QuorumLossRepaired == []<> ~ LostQuorum

\* The cluster has the size the spec asks for, and everything agrees on it.
Converged ==
    /\ InPhase("Running") = members
    /\ InPhase("Pending") = {}
    /\ Cardinality(members) = spec.size
    /\ spec.size = fixEtcdSize(spec.size)
    /\ \A n \in members : ensemble[home[n]] = members /\ podVer[n] = spec.ver

\* Pods may be lost and spec.etcd edited a finite number of times; after that
\* the cluster converges to the size and version of the spec and stays there,
\* unless it is left without a quorum.
EventuallyConverged == <>[]Converged \/ <>[]LostQuorum

\* When all etcd pods are dead the manager starts a new seed.
DeadClusterRebuilt ==
    [](InPhase("Running") \cup InPhase("Pending") = {}
       => <>(InPhase("Running") \cup InPhase("Pending") # {}))

\* A status the controller worker overwrote with an old one is written again:
\* while the loop manages a cluster, phase Running is reported over and over.
RunningReported ==
    (\E g \in Gor : pc[g] = "poll")
    ~> (stored = "Running" \/ LostQuorum \/ \E g \in Gor : pc[g] = "unlock")

(***************************************************************************)
(* The inductive invariant behind ReconcileExclusive and                   *)
(* JoinsExactMembership.                                                   *)
(***************************************************************************)
Alive(n) == pod[n] \in {"Pending", "Running"}

\* etcd clusters do not share members.
EnsembleHomes == \A s \in Name : \A n \in ensemble[s] : home[n] = s

\* From the poll to the repair the holder of the lock has seen every pod
\* that can serve: only the holder creates pods.
NothingUnseen ==
    \A g \in Gor :
       /\ pc[g] = "dead" => \A n \in Name : ~ Alive(n)
       /\ pc[g] \in {"refresh", "reconcile"} =>
            \A n \in Name : Alive(n) => pod[n] = "Running" /\ n \in polled
       /\ pc[g] = "add" =>
            \A n \in Name : Alive(n) => pod[n] = "Running" /\ n \in members

\* m.members lists only voters, unless an error has been noted that makes the
\* loop list them again.  A list without live pods says nothing.
ViewOfMembers ==
    \/ \A m \in members : Alive(m) => members \subseteq ensemble[home[m]]
    \/ rerr /\ lock # None /\ pc[lock] \in {"poll", "dead", "refresh"}

\* The member that an action is about.
TargetSet ==
    \A g \in Gor : /\ pc[g] = "addPod" => target \in members
                   /\ pc[g] \in {"remove", "removePod", "upgrade"} => target \in Name
                   /\ pc[g] = "cleaned" => members = {}
                   /\ pc[g] \in {"refresh", "reconcile"} => polled # {}

MembershipInv ==
    /\ ReconcileExclusive
    /\ EnsembleHomes
    /\ NothingUnseen
    /\ ViewOfMembers
    /\ TargetSet
    /\ JoinsExactMembership
=============================================================================
