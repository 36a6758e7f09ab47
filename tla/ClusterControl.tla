--------------------------- MODULE ClusterControl ---------------------------
(***************************************************************************)
(* The writers of one OnecloudCluster, src/pkg/controller/cluster_control  *)
(* and its callers.  Spec and status are one object of the API server (the *)
(* CRD has no status subresource), written with optimistic concurrency.    *)
(*                                                                         *)
(*  - The reconcile pass reads the object from the API server, writes its  *)
(*    defaults back, corrects spec.etcd and at its end writes the status.  *)
(*  - The etcd goroutine writes status.etcd over the object of the lister. *)
(*  - Users edit the spec.                                                 *)
(*                                                                         *)
(* The lister is a cache that follows the API server through watch events. *)
(* It hands out pointers: who writes into such an object writes into the   *)
(* cache.                                                                  *)
(***************************************************************************)
EXTENDS Integers, Sequences

CONSTANTS
    UserSpec,   \* values of the fields of the spec that users own
    Steps,      \* retry.DefaultRetry.Steps: attempts of one UpdateCluster
    MaxLag,     \* bound: watch events on their way to the cache
    MaxEdits,   \* bound: edits by users
    MaxChanges, \* bound: changes of what there is to report
    MaxFaults   \* bound: requests that fail for another reason than a conflict

ASSUME UserAssumption == UserSpec # {}
ASSUME StepsAssumption == Steps \in Nat \ {0}
ASSUME LagAssumption == MaxLag \in Nat \ {0}
ASSUME LimitAssumption == MaxEdits \in Nat /\ MaxChanges \in Nat /\ MaxFaults \in Nat

VARIABLES
    server,     \* the newest object
    pending,    \* watch events: objects the cache has not seen yet
    cache,      \* the object the lister returns
    pc,         \* where each writer is
    oc,         \* the object the pass works on
    ocFresh,    \* its resourceVersion is the newest
    arg,        \* the object each writer's UpdateCluster tries to write
    argFresh,   \* its resourceVersion is the newest
    tries,      \* attempts made
    etcdNow,    \* m.status: what the etcd goroutine has to report
    compsNow,   \* what the components have to report
    edits, changes, faults

api   == <<server, pending>>
local == <<oc, ocFresh, arg, argFresh, tries>>
truth == <<etcdNow, compsNow>>
vars  == <<api, cache, pc, local, truth, edits, changes, faults>>

Writer == {"pass", "etcd"}

\* How far the operator filled the spec in: as the user wrote it, with the
\* defaults of the scheme, with the corrections of etcdManager.Sync.
Raw == 0
Defaulted == 1
Corrected == 2

Object == [user  : UserSpec,        \* spec, written by users
           own   : Raw..Corrected,  \* spec, filled in by the operator
           etcd  : Nat,             \* status.etcd
           comps : Nat,             \* status of the other components
           sum   : UserSpec]        \* status.specChecksum: the spec it is of

ServerType ==
    /\ server \in Object
    /\ pending \in Seq(Object) /\ Len(pending) <= MaxLag
    /\ cache \in Object
WriterType ==
    /\ pc \in [Writer -> {"idle", "default", "etcd", "work", "correct", "write"}]
    /\ arg \in [Writer -> Object]
    /\ argFresh \in [Writer -> BOOLEAN]
    /\ tries \in [Writer -> 0..(Steps - 1)]
PassType == oc \in Object /\ ocFresh \in BOOLEAN
ReportType == etcdNow \in Nat /\ compsNow \in Nat
LimitType ==
    /\ edits \in 0..MaxEdits
    /\ changes \in 0..MaxChanges
    /\ faults \in 0..MaxFaults

\* Every variable has its type; the retries, the lag of the cache and the
\* bounds stay within their limits.
TypeOK == ServerType /\ WriterType /\ PassType /\ ReportType /\ LimitType

\* In place of an object that is no longer used.
Dropped == [user |-> CHOOSE u \in UserSpec : TRUE, own |-> Raw, etcd |-> 0, comps |-> 0,
            sum |-> CHOOSE u \in UserSpec : TRUE]

Init ==
    /\ server \in [user : UserSpec, own : {Raw}, etcd : {0}, comps : {0}, sum : UserSpec]
    /\ pending = <<>>
    /\ cache = server
    /\ pc = [w \in Writer |-> "idle"]
    /\ oc = Dropped /\ ocFresh = FALSE
    /\ arg = [w \in Writer |-> Dropped]
    /\ argFresh = [w \in Writer |-> FALSE]
    /\ tries = [w \in Writer |-> 0]
    /\ etcdNow = 0 /\ compsNow = 0
    /\ edits = 0 /\ changes = 0 /\ faults = 0

Fault == faults < MaxFaults /\ faults' = faults + 1
Goto(w, l) == pc' = [pc EXCEPT ![w] = l]

\* The API server stores o.  An update that changes nothing keeps the
\* resourceVersion; any other makes every copy around an old one.
Store(o) ==
    IF o = server
    THEN UNCHANGED <<api, ocFresh, argFresh>>
    ELSE /\ Len(pending) < MaxLag
         /\ server' = o
         /\ pending' = Append(pending, o)
         /\ ocFresh' = FALSE
         /\ argFresh' = [w \in Writer |-> FALSE]

(***************************************************************************)
(* UpdateCluster, one attempt at a time.                                   *)
(***************************************************************************)
\* The call: remember the status, try with the object that was passed.
UpdateCluster(w, o, fresh, l) ==
    /\ arg' = [arg EXCEPT ![w] = o]
    /\ argFresh' = [argFresh EXCEPT ![w] = fresh]
    /\ tries' = [tries EXCEPT ![w] = 0]
    /\ Goto(w, l)

\* UpdateCluster returns, with or without an error.  The pass goes on with
\* its components, or is over.
Return(w) ==
    /\ arg' = [arg EXCEPT ![w] = Dropped]
    /\ tries' = [tries EXCEPT ![w] = 0]
    /\ Goto(w, IF pc[w] = "correct" THEN "work" ELSE "idle")
    /\ oc' = IF w = "pass" /\ pc[w] = "write" THEN Dropped ELSE oc

\* Mutant of Retried: the lister only lends its resourceVersion.
RetriedOwnSpec(w) == arg[w]
\* Mutant of Retried: the fields the operator fills in are kept as well.
RetriedOwnFields(w) == [arg[w] EXCEPT !.user = cache.user]
\* What is tried after a failure: a copy of the lister's object that carries
\* the whole status of the first attempt.
Retried(w) == [cache EXCEPT !.etcd = arg[w].etcd, !.comps = arg[w].comps,
                            !.sum = arg[w].sum]

InUpdate(w) == pc[w] \in {"correct", "write"}

\* Mutant of Again: the retries never end.
AgainAlways(w) == TRUE
\* RetryOnConflict makes another attempt.
Again(w) == tries[w] + 1 < Steps

\* The update is accepted.
Accepted(w) ==
    /\ InUpdate(w)
    /\ argFresh[w]
    /\ Store(arg[w])
    /\ Return(w)
    /\ UNCHANGED <<cache, truth, edits, changes, faults>>

\* The update conflicts with a newer object: take the lister's and repeat.
Conflict(w) ==
    /\ InUpdate(w)
    /\ ~ argFresh[w]
    /\ Again(w)
    /\ tries' = [tries EXCEPT ![w] = @ + 1]
    /\ arg' = [arg EXCEPT ![w] = Retried(w)]
    /\ argFresh' = [argFresh EXCEPT ![w] = (pending = <<>>)]
    /\ UNCHANGED <<api, cache, pc, oc, ocFresh, truth, edits, changes, faults>>

\* The error is returned: the last attempt conflicts, or the request fails
\* for another reason.  (One that was served although its answer got lost is
\* Accepted: nothing below depends on the answer.)
Failed(w) ==
    /\ InUpdate(w)
    /\ \/ ~ argFresh[w] /\ ~ Again(w) /\ UNCHANGED faults
       \/ Fault
    /\ Return(w)
    /\ UNCHANGED <<api, cache, ocFresh, argFresh, truth, edits, changes>>

Update(w) == Accepted(w) \/ Conflict(w) \/ Failed(w)

(***************************************************************************)
(* The reconcile pass.                                                     *)
(***************************************************************************)
\* Controller.sync: read the object from the API server.
PassGet ==
    /\ pc["pass"] = "idle"
    /\ oc' = server
    /\ ocFresh' = TRUE
    /\ Goto("pass", "default")
    /\ UNCHANGED <<api, cache, arg, argFresh, tries, truth, edits, changes, faults>>

\* Mutant of Default: the scheme has no defaulting function.
DefaultNot(o) == o
Default(o) == IF o.own < Defaulted THEN [o EXCEPT !.own = Defaulted] ELSE o

\* The pass ends; the object is dropped.
PassOver == oc' = Dropped /\ Goto("pass", "idle")

\* The object with its defaults is stored and becomes the object of the pass.
StoreDefault ==
    /\ ocFresh
    /\ IF Default(oc) = server
       THEN UNCHANGED <<api, ocFresh, argFresh>>
       ELSE /\ Len(pending) < MaxLag
            /\ server' = Default(oc)
            /\ pending' = Append(pending, Default(oc))
            /\ ocFresh' = TRUE
            /\ argFresh' = [w \in Writer |-> FALSE]

\* ... and write it back with its defaults, once: a conflict or another error
\* ends the pass, even if the request was served.
PassDefault ==
    /\ pc["pass"] = "default"
    /\ \/ StoreDefault /\ oc' = Default(oc) /\ Goto("pass", "etcd") /\ UNCHANGED faults
       \/ StoreDefault /\ PassOver /\ Fault
       \/ /\ \/ ~ ocFresh /\ UNCHANGED faults
             \/ Fault
          /\ PassOver
          /\ UNCHANGED <<api, ocFresh, argFresh>>
    /\ UNCHANGED <<cache, arg, tries, truth, edits, changes>>

\* Configuration and certificates come first and may fail.  etcdManager.Sync
\* corrects the spec in the object of the pass and writes it; the object that
\* UpdateCluster returns is not the one the pass goes on with.
PassEtcd ==
    /\ pc["pass"] = "etcd"
    /\ \/ /\ oc.own = Corrected
          /\ Goto("pass", "work")
          /\ UNCHANGED <<oc, arg, argFresh, tries, faults>>
       \/ /\ oc.own # Corrected
          /\ oc' = [oc EXCEPT !.own = Corrected]
          /\ UpdateCluster("pass", [oc EXCEPT !.own = Corrected], ocFresh, "correct")
          /\ UNCHANGED faults
       \/ PassOver /\ Fault /\ UNCHANGED <<arg, argFresh, tries>>
    /\ UNCHANGED <<api, cache, ocFresh, truth, edits, changes>>

\* Mutant of SpecChecksum: the checksum of an earlier pass is kept.
SpecChecksumKept(o) == o.sum
\* The checksum of the spec the pass works on.
SpecChecksum(o) == o.user

\* The components fill their status in; after all of them, and only without
\* an error, the checksum is set.  A status that changed is written.
PassWork ==
    /\ pc["pass"] = "work"
    /\ \E o \in {[oc EXCEPT !.comps = compsNow, !.sum = SpecChecksum(oc)],
                [oc EXCEPT !.comps = compsNow],
                oc} :
         /\ \/ o.comps = compsNow /\ o.sum = SpecChecksum(oc) /\ UNCHANGED faults
            \/ Fault
         /\ IF o = oc
            THEN PassOver /\ UNCHANGED <<arg, argFresh, tries>>
            ELSE UpdateCluster("pass", o, ocFresh, "write") /\ UNCHANGED oc
    /\ UNCHANGED <<api, cache, ocFresh, truth, edits, changes>>

Pass == PassGet \/ PassDefault \/ PassEtcd \/ PassWork \/ Update("pass")

(***************************************************************************)
(* The etcd goroutine: updateEtcdStatus.                                   *)
(***************************************************************************)
\* GetCluster returns the object of the cache, and status.etcd is set in it.
updateEtcdStatus ==
    /\ pc["etcd"] = "idle"
    /\ cache' = [cache EXCEPT !.etcd = etcdNow]
    /\ UpdateCluster("etcd", [cache EXCEPT !.etcd = etcdNow], pending = <<>>, "write")
    /\ UNCHANGED <<api, oc, ocFresh, truth, edits, changes, faults>>

Goroutine == updateEtcdStatus \/ Update("etcd")

(***************************************************************************)
(* The environment.                                                        *)
(***************************************************************************)
\* A watch event replaces the object in the cache.  Copies of the old one
\* keep their content.
Watch ==
    /\ pending # <<>>
    /\ cache' = Head(pending)
    /\ pending' = Tail(pending)
    /\ UNCHANGED <<server, pc, local, truth, edits, changes, faults>>

\* A user writes a spec; what the operator filled in may be dropped.
UserEdit ==
    /\ edits < MaxEdits
    /\ edits' = edits + 1
    /\ \E u \in UserSpec, o \in {Raw, server.own} :
         Store([server EXCEPT !.user = u, !.own = o])
    /\ UNCHANGED <<cache, pc, oc, arg, tries, truth, changes, faults>>

\* There is something new to report.
Change ==
    /\ changes < MaxChanges
    /\ changes' = changes + 1
    /\ \/ etcdNow' = etcdNow + 1 /\ UNCHANGED compsNow
       \/ compsNow' = compsNow + 1 /\ UNCHANGED etcdNow
    /\ UNCHANGED <<api, cache, pc, local, edits, faults>>

Next == Pass \/ Goroutine \/ Watch \/ UserEdit \/ Change

Spec == Init /\ [][Next]_vars

(***************************************************************************)
(* Properties.                                                             *)
(***************************************************************************)
\* Fairness: the workers get a key at least every 30 seconds (resync), the
\* loop of etcd reports on every tick, watch events arrive.
FairSpec == Spec /\ WF_vars(Pass) /\ WF_vars(Goroutine) /\ WF_vars(Watch)

\* What a user wrote into the spec stays until a user writes again: no write
\* of the operator, however old its copy and however often it is repeated,
\* brings an earlier spec back.
EditsKept == [][server'.user # server.user => edits' = edits + 1]_vars

\* The corrections of the operator are not undone by the operator.
CorrectionsKept == [][server'.own < server.own => edits' = edits + 1]_vars

Register == INSTANCE SpecRegister WITH
    Values <- UserSpec, Full <- Corrected,
    value <- server.user, filled <- server.own, writes <- edits

\* The stored spec is the register users are promised: every write of the pass
\* and of the etcd goroutine, fresh or repeated from the cache, leaves it alone
\* or fills in the next part, the defaults before the corrections.
SpecIsRegister == Register!Spec

\* The etcd goroutine reports while the pass is inside one of its own short
\* exchanges with the API server, or while the cache is behind.  (The long part
\* of a pass, "work", is not among them.)  Two writers that meet like this
\* every time overwrite each other for ever.
Racing ==
    /\ pc["etcd"] = "write"
    /\ pending # <<>> \/ pc["pass"] \in {"default", "etcd", "correct", "write"}

\* The stored object says what there is to say.
Settled ==
    /\ server.own = Corrected
    /\ server.etcd = etcdNow
    /\ server.comps = compsNow
    /\ server.sum = server.user

\* Edits, changes, failed requests and races may come at any time; once the
\* writers stop meeting, the spec is filled in and the newest status of etcd,
\* of the components and the checksum of the spec are stored, and stay.
EventuallySettled == <>[] ~ Racing => <>[]Settled

(***************************************************************************)
(* The inductive invariant behind EditsKept and CorrectionsKept: whatever  *)
(* carries the newest resourceVersion carries the newest spec.             *)
(***************************************************************************)
Current(o) == o.user = server.user /\ o.own >= server.own

FreshIsCurrent ==
    /\ pending = <<>> => Current(cache)
    /\ pending # <<>> => pending[Len(pending)] = server
    /\ ocFresh /\ pc["pass"] # "idle" => Current(oc)
    /\ \A w \in Writer : argFresh[w] /\ InUpdate(w) => Current(arg[w])
=============================================================================
