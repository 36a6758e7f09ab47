------------------------ MODULE ClusterControlProofs ------------------------
(***************************************************************************)
(* ClusterControl: type correctness, and that no write of the operator     *)
(* brings back a spec that a user has replaced.                            *)
(***************************************************************************)
EXTENDS ClusterControl, TLAPS

(***************************************************************************)
(* Objects.                                                                *)
(***************************************************************************)
\* The placeholder for an unused object is an object.
LEMMA DroppedType == Dropped \in Object
<1>1. (CHOOSE u \in UserSpec : TRUE) \in UserSpec
  BY UserAssumption DEF UserAssumption
<1>2. QED
  BY <1>1 DEF Dropped, Object, Raw, Corrected

\* Filling the defaults in keeps the type, the user's part of the spec, and
\* never drops what was filled in.
LEMMA DefaultType ==
    ASSUME NEW o \in Object
    PROVE  /\ Default(o) \in Object
           /\ Default(o).user = o.user
           /\ Default(o).own >= o.own
BY DEF Default, Object, Raw, Defaulted, Corrected

\* So does the correction of etcdManager.Sync.
LEMMA CorrectType ==
    ASSUME NEW o \in Object
    PROVE  /\ [o EXCEPT !.own = Corrected] \in Object
           /\ [o EXCEPT !.own = Corrected].user = o.user
           /\ [o EXCEPT !.own = Corrected].own >= o.own
BY DEF Object, Raw, Corrected

\* The object of a retry has the spec of the cache.
LEMMA RetriedType ==
    ASSUME TypeOK, NEW w \in Writer
    PROVE  /\ Retried(w) \in Object
           /\ Retried(w).user = cache.user
           /\ Retried(w).own = cache.own
<1>1. cache \in Object /\ arg[w] \in Object
  BY DEF TypeOK, ServerType, WriterType
<1>2. QED
  BY <1>1 DEF Retried, Object

(***************************************************************************)
(* The parts of an action keep the types.                                  *)
(***************************************************************************)
\* What the API server stores is an object, and the watch is not overrun.
LEMMA AppendType ==
    ASSUME ServerType, NEW o \in Object, Len(pending) < MaxLag,
           pending' = Append(pending, o), server' = o, cache' = cache
    PROVE  ServerType'
<1>1. pending' \in Seq(Object) /\ Len(pending') = Len(pending) + 1
  BY DEF ServerType
<1>2. Len(pending) \in Nat /\ MaxLag \in Nat
  BY LagAssumption DEF ServerType, LagAssumption
<1>3. Len(pending') <= MaxLag
  BY <1>1, <1>2
<1>4. QED
  BY <1>1, <1>3 DEF ServerType

LEMMA StoreType ==
    ASSUME TypeOK, NEW o \in Object, Store(o), cache' = cache
    PROVE  ServerType' /\ ocFresh' \in BOOLEAN /\ argFresh' \in [Writer -> BOOLEAN]
<1>1. CASE o = server
  BY <1>1 DEF Store, TypeOK, ServerType, WriterType, PassType, api
<1>2. CASE o # server
  <2>1. ServerType'
    BY <1>2, AppendType DEF Store, TypeOK
  <2>2. ocFresh' \in BOOLEAN /\ argFresh' \in [Writer -> BOOLEAN]
    BY <1>2 DEF Store
  <2>3. QED
    BY <2>1, <2>2
<1>3. QED
  BY <1>1, <1>2

\* A failed request counts.
LEMMA FaultType ==
    ASSUME TypeOK, Fault \/ UNCHANGED faults
    PROVE  faults' \in 0..MaxFaults
BY LimitAssumption DEF TypeOK, LimitType, Fault, LimitAssumption

\* A call of UpdateCluster, and its return.
LEMMA CallType ==
    ASSUME TypeOK, NEW w \in Writer, NEW o \in Object, NEW f \in BOOLEAN,
           NEW l \in {"correct", "write"}, UpdateCluster(w, o, f, l)
    PROVE  WriterType'
<1>1. 0 \in 0..(Steps - 1)
  BY StepsAssumption DEF StepsAssumption
<1>2. QED
  BY <1>1 DEF TypeOK, WriterType, UpdateCluster, Goto

LEMMA ReturnType ==
    ASSUME TypeOK, NEW w \in Writer, Return(w), argFresh' \in [Writer -> BOOLEAN]
    PROVE  WriterType' /\ oc' \in Object
<1>1. 0 \in 0..(Steps - 1)
  BY StepsAssumption DEF StepsAssumption
<1>2. QED
  BY <1>1, DroppedType DEF TypeOK, WriterType, PassType, Return, Goto

(***************************************************************************)
(* The steps keep the types.                                               *)
(***************************************************************************)
\* The initial state has its types.
LEMMA InitType == Init => TypeOK
<1> SUFFICES ASSUME Init PROVE TypeOK
  OBVIOUS
<1>1. ServerType
  BY LagAssumption DEF Init, ServerType, Object, Raw, Corrected, LagAssumption
<1>2. WriterType
  BY DroppedType, StepsAssumption DEF Init, WriterType, StepsAssumption
<1>3. PassType /\ ReportType
  BY DroppedType DEF Init, PassType, ReportType
<1>4. LimitType
  BY LimitAssumption DEF Init, LimitType, LimitAssumption
<1>5. QED
  BY <1>1, <1>2, <1>3, <1>4 DEF TypeOK

\* The steps of UpdateCluster.
LEMMA UpdateType ==
    ASSUME TypeOK, NEW w \in Writer, Update(w)
    PROVE  TypeOK'
<1> USE DEF truth, api
<1>1. arg[w] \in Object
  BY DEF TypeOK, WriterType
<1>2. CASE Accepted(w)
  <2>1. ServerType' /\ ocFresh' \in BOOLEAN /\ argFresh' \in [Writer -> BOOLEAN]
    BY <1>1, <1>2, StoreType DEF Accepted
  <2>2. WriterType' /\ oc' \in Object
    BY <1>2, <2>1, ReturnType DEF Accepted
  <2>3. ReportType' /\ LimitType'
    BY <1>2 DEF Accepted, TypeOK, ReportType, LimitType
  <2>4. QED
    BY <2>1, <2>2, <2>3 DEF TypeOK, PassType
<1>3. CASE Conflict(w)
  <2>1. ServerType' /\ PassType' /\ ReportType' /\ LimitType'
    BY <1>3 DEF Conflict, TypeOK, ServerType, PassType, ReportType, LimitType
  <2>2. tries[w] + 1 \in 0..(Steps - 1)
    BY <1>3, StepsAssumption DEF Conflict, Again, TypeOK, WriterType, StepsAssumption
  <2>3. arg' \in [Writer -> Object] /\ argFresh' \in [Writer -> BOOLEAN]
    BY <1>3, RetriedType DEF Conflict, TypeOK, WriterType
  <2>4. tries' \in [Writer -> 0..(Steps - 1)] /\ pc' = pc
    BY <1>3, <2>2 DEF Conflict, TypeOK, WriterType
  <2>5. WriterType'
    BY <2>3, <2>4 DEF TypeOK, WriterType
  <2>6. QED
    BY <2>1, <2>5 DEF TypeOK
<1>4. CASE Failed(w)
  <2>1. argFresh' \in [Writer -> BOOLEAN]
    BY <1>4 DEF Failed, TypeOK, WriterType
  <2>2. WriterType' /\ oc' \in Object
    BY <1>4, <2>1, ReturnType DEF Failed
  <2>3. ServerType' /\ ReportType' /\ ocFresh' \in BOOLEAN
    BY <1>4 DEF Failed, TypeOK, ServerType, ReportType, PassType
  <2>4. LimitType'
    BY <1>4, FaultType DEF Failed, TypeOK, LimitType
  <2>5. QED
    BY <2>2, <2>3, <2>4 DEF TypeOK, PassType
<1>5. QED
  BY <1>2, <1>3, <1>4 DEF Update

\* The steps of the pass.
LEMMA PassStepType == TypeOK /\ Pass => TypeOK'
<1> SUFFICES ASSUME TypeOK, Pass PROVE TypeOK'
  OBVIOUS
<1> USE DEF truth, api
<1>0. /\ oc \in Object /\ ocFresh \in BOOLEAN /\ server \in Object
      /\ "pass" \in Writer
  BY DEF TypeOK, ServerType, PassType, Writer
<1>1. CASE PassGet
  <2>1. ServerType' /\ ReportType' /\ LimitType'
    BY <1>1 DEF PassGet, TypeOK, ServerType, ReportType, LimitType
  <2>2. WriterType' /\ PassType'
    BY <1>0, <1>1 DEF PassGet, TypeOK, WriterType, PassType, Goto
  <2>3. QED
    BY <2>1, <2>2 DEF TypeOK
<1>2. CASE PassDefault
  <2>1. Default(oc) \in Object
    BY <1>0, DefaultType
  <2>2. ServerType' /\ ocFresh' \in BOOLEAN /\ argFresh' \in [Writer -> BOOLEAN]
    <3>1. CASE StoreDefault
      <4>1. CASE Default(oc) = server
        BY <1>2, <3>1, <4>1 DEF StoreDefault, PassDefault, TypeOK, ServerType, WriterType, PassType
      <4>2. CASE Default(oc) # server
        <5>1. ServerType'
          BY <1>2, <2>1, <3>1, <4>2, AppendType DEF StoreDefault, PassDefault, TypeOK
        <5>2. QED
          BY <3>1, <4>2, <5>1 DEF StoreDefault
      <4>3. QED
        BY <4>1, <4>2
    <3>2. CASE UNCHANGED <<api, ocFresh, argFresh>>
      BY <1>2, <3>2 DEF PassDefault, TypeOK, ServerType, WriterType, PassType
    <3>3. QED
      BY <1>2, <3>1, <3>2 DEF PassDefault
  <2>3. oc' \in Object
    BY <1>2, <2>1, DroppedType DEF PassDefault, PassOver
  <2>4. WriterType'
    BY <1>2, <2>2 DEF PassDefault, PassOver, Goto, TypeOK, WriterType
  <2>5. ReportType' /\ edits' = edits /\ changes' = changes
    BY <1>2 DEF PassDefault, TypeOK, ReportType
  <2>6. faults' \in 0..MaxFaults
    BY <1>2, FaultType DEF PassDefault
  <2>7. QED
    BY <2>2, <2>3, <2>4, <2>5, <2>6 DEF TypeOK, PassType, LimitType
<1>3. CASE PassEtcd
  <2>1. ServerType' /\ ReportType' /\ ocFresh' \in BOOLEAN
    BY <1>3 DEF PassEtcd, TypeOK, ServerType, ReportType, PassType
  <2>2. LimitType'
    BY <1>3, FaultType DEF PassEtcd, TypeOK, LimitType
  <2>3. [oc EXCEPT !.own = Corrected] \in Object
    BY <1>0, CorrectType
  <2>4. oc' \in Object
    BY <1>0, <1>3, <2>3, DroppedType DEF PassEtcd, PassOver
  <2>5. WriterType'
    <3>1. CASE UpdateCluster("pass", [oc EXCEPT !.own = Corrected], ocFresh, "correct")
      BY <1>0, <2>3, <3>1, CallType
    <3>2. CASE /\ Goto("pass", "work") \/ Goto("pass", "idle")
               /\ UNCHANGED <<arg, argFresh, tries>>
      BY <3>2 DEF Goto, TypeOK, WriterType
    <3>3. QED
      BY <1>3, <3>1, <3>2 DEF PassEtcd, PassOver
  <2>6. QED
    BY <2>1, <2>2, <2>4, <2>5 DEF TypeOK, PassType
<1>4. CASE PassWork
  <2>1. ServerType' /\ ReportType' /\ ocFresh' \in BOOLEAN
    BY <1>4 DEF PassWork, TypeOK, ServerType, ReportType, PassType
  <2>2. LimitType'
    BY <1>4, FaultType DEF PassWork, TypeOK, LimitType
  <2>3. compsNow \in Nat /\ oc.user \in UserSpec
    BY <1>0 DEF TypeOK, ReportType, Object
  <2>4. PICK o \in {[oc EXCEPT !.comps = compsNow, !.sum = SpecChecksum(oc)],
                    [oc EXCEPT !.comps = compsNow], oc} :
           IF o = oc
           THEN PassOver /\ UNCHANGED <<arg, argFresh, tries>>
           ELSE UpdateCluster("pass", o, ocFresh, "write") /\ UNCHANGED oc
    BY <1>4 DEF PassWork
  <2>5. o \in Object
    <3>1. [oc EXCEPT !.comps = compsNow] \in Object
      BY <1>0, <2>3 DEF Object
    <3>2. [oc EXCEPT !.comps = compsNow, !.sum = SpecChecksum(oc)] \in Object
      BY <1>0, <2>3 DEF Object, SpecChecksum
    <3>3. QED
      BY <1>0, <3>1, <3>2
  <2>6. WriterType' /\ oc' \in Object
    <3>1. CASE o = oc
      BY <1>0, <2>4, <3>1, DroppedType DEF PassOver, Goto, TypeOK, WriterType
    <3>2. CASE o # oc
      BY <1>0, <2>4, <2>5, <3>2, CallType
    <3>3. QED
      BY <3>1, <3>2
  <2>7. QED
    BY <2>1, <2>2, <2>6 DEF TypeOK, PassType
<1>5. CASE Update("pass")
  BY <1>0, <1>5, UpdateType
<1>6. QED
  BY <1>1, <1>2, <1>3, <1>4, <1>5 DEF Pass

\* The steps of the etcd goroutine and of the environment.
LEMMA OtherStepType == TypeOK /\ (Goroutine \/ Watch \/ UserEdit \/ Change) => TypeOK'
<1> SUFFICES ASSUME TypeOK, Goroutine \/ Watch \/ UserEdit \/ Change PROVE TypeOK'
  OBVIOUS
<1> USE DEF truth, api, local
<1>0. server \in Object /\ cache \in Object /\ etcdNow \in Nat /\ "etcd" \in Writer
  BY DEF TypeOK, ServerType, ReportType, Writer
<1>1. CASE updateEtcdStatus
  <2>1. [cache EXCEPT !.etcd = etcdNow] \in Object
    BY <1>0 DEF Object
  <2>2. ServerType' /\ PassType' /\ ReportType' /\ LimitType'
    BY <1>1, <2>1 DEF updateEtcdStatus, TypeOK, ServerType, PassType, ReportType, LimitType
  <2>3. WriterType'
    BY <1>0, <1>1, <2>1, CallType DEF updateEtcdStatus
  <2>4. QED
    BY <2>2, <2>3 DEF TypeOK
<1>2. CASE Update("etcd")
  BY <1>0, <1>2, UpdateType
<1>3. CASE Watch
  <2>1. pending \in Seq(Object) /\ pending # <<>>
    BY <1>3 DEF Watch, TypeOK, ServerType
  <2>2. Head(pending) \in Object /\ Tail(pending) \in Seq(Object)
        /\ Len(Tail(pending)) = Len(pending) - 1
    BY <2>1
  <2>3. Len(pending) \in Nat /\ Len(pending) <= MaxLag /\ MaxLag \in Nat
    BY <2>1, LagAssumption DEF TypeOK, ServerType, LagAssumption
  <2>4. ServerType'
    BY <1>3, <2>2, <2>3 DEF Watch, TypeOK, ServerType
  <2>5. WriterType' /\ PassType' /\ ReportType' /\ LimitType'
    BY <1>3 DEF Watch, TypeOK, WriterType, PassType, ReportType, LimitType
  <2>6. QED
    BY <2>4, <2>5 DEF TypeOK
<1>4. CASE UserEdit
  <2>1. PICK u \in UserSpec, o \in {Raw, server.own} :
            Store([server EXCEPT !.user = u, !.own = o])
    BY <1>4 DEF UserEdit
  <2>2. [server EXCEPT !.user = u, !.own = o] \in Object
    <3>1. o \in Raw..Corrected
      BY <1>0 DEF Object, Raw, Corrected
    <3>2. QED
      BY <1>0, <3>1 DEF Object
  <2>3. ServerType' /\ ocFresh' \in BOOLEAN /\ argFresh' \in [Writer -> BOOLEAN]
    BY <1>4, <2>1, <2>2, StoreType DEF UserEdit
  <2>4. WriterType' /\ oc' \in Object /\ ReportType'
    BY <1>4, <2>3 DEF UserEdit, TypeOK, WriterType, PassType, ReportType
  <2>5. LimitType'
    <3>1. edits' \in 0..MaxEdits
      <4>1. edits \in 0..MaxEdits /\ edits < MaxEdits /\ edits' = edits + 1
        BY <1>4 DEF UserEdit, TypeOK, LimitType
      <4>2. QED
        BY <4>1, LimitAssumption DEF LimitAssumption
    <3>2. changes' = changes /\ faults' = faults
      BY <1>4 DEF UserEdit
    <3>3. QED
      BY <3>1, <3>2 DEF TypeOK, LimitType
  <2>6. QED
    BY <2>3, <2>4, <2>5 DEF TypeOK, PassType
<1>5. CASE Change
  <2>1. ServerType' /\ WriterType' /\ PassType'
    BY <1>5 DEF Change, TypeOK, ServerType, WriterType, PassType
  <2>2. ReportType' /\ LimitType'
    BY <1>5, LimitAssumption DEF Change, TypeOK, ReportType, LimitType, LimitAssumption
  <2>3. QED
    BY <2>1, <2>2 DEF TypeOK
<1>6. QED
  BY <1>1, <1>2, <1>3, <1>4, <1>5 DEF Goroutine

\* A stuttering step changes nothing.
LEMMA StutterStepType == TypeOK /\ UNCHANGED vars => TypeOK'
BY DEF TypeOK, ServerType, WriterType, PassType, ReportType, LimitType, vars,
       api, local, truth

\* Type correctness: the variables keep their types, UpdateCluster makes at
\* most Steps attempts.
THEOREM TypeCorrect == Spec => []TypeOK
<1>1. TypeOK /\ [Next]_vars => TypeOK'
  BY PassStepType, OtherStepType, StutterStepType DEF Next
<1>2. QED
  BY <1>1, InitType, PTL DEF Spec

(***************************************************************************)
(* Whatever carries the newest resourceVersion carries the newest spec.    *)
(***************************************************************************)
\* A write that changes the object leaves no other copy fresh, and is the
\* last event of the watch.
LEMMA StoreCurrent ==
    ASSUME TypeOK, NEW o \in Object, server' = o, pending' = Append(pending, o),
           ocFresh' => (Current(oc))', argFresh' = [w \in Writer |-> FALSE]
    PROVE  FreshIsCurrent'
<1>1. pending \in Seq(Object)
  BY DEF TypeOK, ServerType
<1>2. pending' # <<>> /\ pending'[Len(pending')] = server'
  BY <1>1
<1>3. QED
  BY <1>2 DEF FreshIsCurrent

\* Initially the cache is up to date and no other copy is fresh.
LEMMA InitCurrent == Init => FreshIsCurrent
<1> SUFFICES ASSUME Init PROVE FreshIsCurrent
  OBVIOUS
<1>1. server.own \in Int
  BY DEF Init, Raw
<1>2. Current(cache)
  BY <1>1 DEF Init, Current
<1>3. QED
  BY <1>2 DEF Init, FreshIsCurrent

\* The steps of UpdateCluster: what is accepted is fresh, hence current; what
\* is tried next is the object of the cache with another status.
LEMMA UpdateCurrent ==
    ASSUME TypeOK, FreshIsCurrent, NEW w \in Writer, Update(w)
    PROVE  FreshIsCurrent'
<1> USE DEF truth, api
<1>0. /\ arg[w] \in Object /\ arg \in [Writer -> Object]
      /\ argFresh \in [Writer -> BOOLEAN] /\ ocFresh \in BOOLEAN
      /\ pc \in [Writer -> {"idle", "default", "etcd", "work", "correct", "write"}]
      /\ "pass" \in Writer
  BY DEF TypeOK, WriterType, PassType, Writer
<1>1. ASSUME Return(w), UNCHANGED <<api, cache, ocFresh, argFresh>>
      PROVE  FreshIsCurrent'
  <2>1. pc'[w] \in {"work", "idle"} /\ \A v \in Writer \ {w} : pc'[v] = pc[v] /\ arg'[v] = arg[v]
    BY <1>0, <1>1 DEF Return, Goto
  <2>2. pc'["pass"] # "idle" => oc' = oc /\ pc["pass"] # "idle"
    BY <1>0, <1>1, <2>1 DEF Return, Goto
  <2>3. (ocFresh /\ pc["pass"] # "idle" => Current(oc))'
    BY <1>1, <2>2 DEF FreshIsCurrent, Current
  <2>4. (\A v \in Writer : argFresh[v] /\ InUpdate(v) => Current(arg[v]))'
    BY <1>1, <2>1 DEF FreshIsCurrent, Current, InUpdate
  <2>5. (pending = <<>> => Current(cache))' /\ (pending # <<>> => pending[Len(pending)] = server)'
    BY <1>1 DEF FreshIsCurrent, Current
  <2>6. QED
    BY <2>3, <2>4, <2>5 DEF FreshIsCurrent
<1>2. CASE Accepted(w)
  <2>1. CASE arg[w] = server
    BY <1>1, <1>2, <2>1 DEF Accepted, Store
  <2>2. CASE arg[w] # server
    <3>1. /\ server' = arg[w] /\ pending' = Append(pending, arg[w])
          /\ ocFresh' = FALSE /\ argFresh' = [v \in Writer |-> FALSE]
      BY <1>2, <2>2 DEF Accepted, Store
    <3>2. QED
      BY <1>0, <3>1, StoreCurrent
  <2>3. QED
    BY <2>1, <2>2
<1>3. CASE Conflict(w)
  <2>1. pending = <<>> => Current(Retried(w))
    BY RetriedType DEF FreshIsCurrent, Current
  <2>2. /\ arg'[w] = Retried(w) /\ argFresh'[w] = (pending = <<>>)
        /\ \A v \in Writer \ {w} : arg'[v] = arg[v] /\ argFresh'[v] = argFresh[v]
    BY <1>0, <1>3 DEF Conflict
  <2>3. (\A v \in Writer : argFresh[v] /\ InUpdate(v) => Current(arg[v]))'
    BY <1>3, <2>1, <2>2 DEF Conflict, FreshIsCurrent, Current, InUpdate
  <2>4. QED
    BY <1>3, <2>3 DEF Conflict, FreshIsCurrent, Current
<1>4. CASE Failed(w)
  BY <1>1, <1>4 DEF Failed
<1>5. QED
  BY <1>2, <1>3, <1>4 DEF Update

\* The steps of the pass: its copy is current when it is read, and what is
\* filled in afterwards keeps it so.
LEMMA PassStepCurrent == TypeOK /\ FreshIsCurrent /\ Pass => FreshIsCurrent'
<1> SUFFICES ASSUME TypeOK, FreshIsCurrent, Pass PROVE FreshIsCurrent'
  OBVIOUS
<1> USE DEF truth, api
<1>0. /\ oc \in Object /\ ocFresh \in BOOLEAN /\ server \in Object
      /\ server.own \in Int /\ oc.own \in Int
      /\ arg \in [Writer -> Object] /\ argFresh \in [Writer -> BOOLEAN]
      /\ pc \in [Writer -> {"idle", "default", "etcd", "work", "correct", "write"}]
      /\ "pass" \in Writer
  BY DEF TypeOK, ServerType, PassType, WriterType, Writer, Object, Raw, Corrected
<1>1. ASSUME UNCHANGED <<api, cache, arg, argFresh>>, NEW l \in {"idle", "default", "etcd", "work"},
             Goto("pass", l), l # "idle" /\ ocFresh' => (Current(oc))'
      PROVE  FreshIsCurrent'
  <2>1. pc'["pass"] = l /\ \A v \in Writer \ {"pass"} : pc'[v] = pc[v]
    BY <1>0, <1>1 DEF Goto
  <2>2. (\A v \in Writer : argFresh[v] /\ InUpdate(v) => Current(arg[v]))'
    BY <1>1, <2>1 DEF FreshIsCurrent, Current, InUpdate
  <2>3. QED
    BY <1>1, <2>1, <2>2 DEF FreshIsCurrent, Current
<1>2. ASSUME UNCHANGED <<api, cache, ocFresh>>, pc["pass"] # "idle",
             NEW o \in Object, NEW l \in {"correct", "write"},
             UpdateCluster("pass", o, ocFresh, l),
             o.user = oc.user, o.own >= oc.own, o.own \in Int, oc' \in {o, oc}
      PROVE  FreshIsCurrent'
  <2>1. /\ pc'["pass"] = l /\ arg'["pass"] = o /\ argFresh'["pass"] = ocFresh
        /\ \A v \in Writer \ {"pass"} :
             pc'[v] = pc[v] /\ arg'[v] = arg[v] /\ argFresh'[v] = argFresh[v]
    BY <1>0, <1>2 DEF UpdateCluster, Goto
  <2>2. ocFresh => Current(oc) /\ Current(o)
    BY <1>0, <1>2 DEF FreshIsCurrent, Current
  <2>3. (\A v \in Writer : argFresh[v] /\ InUpdate(v) => Current(arg[v]))'
    BY <1>2, <2>1, <2>2 DEF FreshIsCurrent, Current, InUpdate
  <2>4. QED
    BY <1>2, <2>2, <2>3 DEF FreshIsCurrent, Current
<1>3. CASE PassGet
  BY <1>0, <1>1, <1>3 DEF PassGet, Current
<1>4. CASE PassDefault
  <2>1. /\ Default(oc) \in Object /\ Default(oc).user = oc.user
        /\ Default(oc).own >= oc.own /\ Default(oc).own \in Int
    BY <1>0, DefaultType DEF Object, Raw, Corrected
  <2>2. CASE UNCHANGED <<api, ocFresh, argFresh>>
    <3>1. CASE PassOver
      BY <1>1, <1>4, <2>2, <3>1 DEF PassDefault, PassOver
    <3>2. CASE oc' = Default(oc) /\ Goto("pass", "etcd")
      <4>1. ocFresh => Current(oc) /\ Current(Default(oc))
        BY <1>0, <1>4, <2>1 DEF PassDefault, FreshIsCurrent, Current
      <4>2. ocFresh' => (Current(oc))'
        BY <2>2, <3>2, <4>1 DEF Current
      <4>3. QED
        BY <1>1, <1>4, <2>2, <3>2, <4>2 DEF PassDefault
    <3>3. QED
      BY <1>4, <3>1, <3>2 DEF PassDefault
  <2>3. CASE ~ UNCHANGED <<api, ocFresh, argFresh>>
    <3>1. /\ server' = Default(oc) /\ pending' = Append(pending, Default(oc))
          /\ argFresh' = [w \in Writer |-> FALSE]
      BY <1>4, <2>3 DEF PassDefault, StoreDefault
    <3>2. CASE PassOver
      <4>1. pc'["pass"] = "idle"
        BY <1>0, <3>2 DEF PassOver, Goto
      <4>2. pending \in Seq(Object)
        BY DEF TypeOK, ServerType
      <4>3. pending' # <<>> /\ pending'[Len(pending')] = server'
        BY <2>1, <3>1, <4>2
      <4>4. QED
        BY <3>1, <4>1, <4>3 DEF FreshIsCurrent
    <3>3. CASE oc' = Default(oc)
      <4>1. (Current(oc))'
        BY <2>1, <3>1, <3>3 DEF Current
      <4>2. QED
        BY <2>1, <3>1, <4>1, StoreCurrent
    <3>4. QED
      BY <1>4, <3>2, <3>3 DEF PassDefault
  <2>4. QED
    BY <2>2, <2>3
<1>5. CASE PassEtcd
  <2>1. /\ [oc EXCEPT !.own = Corrected] \in Object
        /\ [oc EXCEPT !.own = Corrected].user = oc.user
        /\ [oc EXCEPT !.own = Corrected].own >= oc.own
        /\ [oc EXCEPT !.own = Corrected].own \in Int
    BY <1>0, CorrectType DEF Object, Raw, Corrected
  <2>2. CASE Goto("pass", "work") /\ UNCHANGED <<oc, arg, argFresh, tries, faults>>
    <3>1. ocFresh' => (Current(oc))'
      BY <1>5, <2>2 DEF PassEtcd, FreshIsCurrent, Current
    <3>2. QED
      BY <1>1, <1>5, <2>2, <3>1 DEF PassEtcd
  <2>3. CASE /\ oc' = [oc EXCEPT !.own = Corrected]
             /\ UpdateCluster("pass", [oc EXCEPT !.own = Corrected], ocFresh, "correct")
    <3>1. UNCHANGED <<api, cache, ocFresh>> /\ pc["pass"] # "idle"
      BY <1>5 DEF PassEtcd
    <3>2. QED
      BY <1>2, <2>1, <2>3, <3>1
  <2>4. CASE PassOver /\ UNCHANGED <<arg, argFresh, tries>>
    BY <1>1, <1>5, <2>4 DEF PassEtcd, PassOver
  <2>5. QED
    BY <1>5, <2>2, <2>3, <2>4 DEF PassEtcd
<1>6. CASE PassWork
  <2>1. PICK o \in {[oc EXCEPT !.comps = compsNow, !.sum = SpecChecksum(oc)],
                    [oc EXCEPT !.comps = compsNow], oc} :
           IF o = oc
           THEN PassOver /\ UNCHANGED <<arg, argFresh, tries>>
           ELSE UpdateCluster("pass", o, ocFresh, "write") /\ UNCHANGED oc
    BY <1>6 DEF PassWork
  <2>2. compsNow \in Nat /\ SpecChecksum(oc) \in UserSpec
    BY <1>0 DEF TypeOK, ReportType, Object, SpecChecksum
  <2>3. o \in Object /\ o.user = oc.user /\ o.own >= oc.own /\ o.own \in Int
    <3>1. CASE o = [oc EXCEPT !.comps = compsNow, !.sum = SpecChecksum(oc)]
      <4>1. o \in Object
        BY <1>0, <2>2, <3>1 DEF Object
      <4>2. o.user = oc.user /\ o.own = oc.own
        BY <1>0, <3>1 DEF Object
      <4>3. QED
        BY <1>0, <4>1, <4>2
    <3>2. CASE o = [oc EXCEPT !.comps = compsNow]
      BY <1>0, <2>2, <3>2 DEF Object
    <3>3. CASE o = oc
      BY <1>0, <3>3
    <3>4. QED
      BY <3>1, <3>2, <3>3
  <2>4. UNCHANGED <<api, cache, ocFresh>> /\ pc["pass"] # "idle"
    BY <1>6 DEF PassWork
  <2>5. CASE o = oc
    BY <1>1, <2>1, <2>4, <2>5 DEF PassOver
  <2>6. CASE o # oc
    BY <1>2, <2>1, <2>3, <2>4, <2>6
  <2>7. QED
    BY <2>5, <2>6
<1>7. CASE Update("pass")
  BY <1>0, <1>7, UpdateCurrent
<1>8. QED
  BY <1>3, <1>4, <1>5, <1>6, <1>7 DEF Pass

\* The steps of the etcd goroutine and of the environment: the cache is current
\* once the last event has arrived.
LEMMA OtherStepCurrent ==
    TypeOK /\ FreshIsCurrent /\ (Goroutine \/ Watch \/ UserEdit \/ Change) => FreshIsCurrent'
<1> SUFFICES ASSUME TypeOK, FreshIsCurrent, Goroutine \/ Watch \/ UserEdit \/ Change
             PROVE  FreshIsCurrent'
  OBVIOUS
<1> USE DEF truth, api, local
<1>0. /\ server \in Object /\ cache \in Object /\ etcdNow \in Nat /\ "etcd" \in Writer
      /\ server.own \in Int
      /\ arg \in [Writer -> Object] /\ argFresh \in [Writer -> BOOLEAN]
      /\ pc \in [Writer -> {"idle", "default", "etcd", "work", "correct", "write"}]
      /\ pending \in Seq(Object)
  BY DEF TypeOK, ServerType, ReportType, WriterType, Writer, Object, Raw, Corrected
<1>1. CASE updateEtcdStatus
  <2> DEFINE o == [cache EXCEPT !.etcd = etcdNow]
  <2>1. o.user = cache.user /\ o.own = cache.own
    BY <1>0 DEF Object
  <2>2. pending = <<>> => Current(o)
    BY <2>1 DEF FreshIsCurrent, Current
  <2> HIDE DEF o
  <2>3. cache' = o /\ UpdateCluster("etcd", o, pending = <<>>, "write")
    BY <1>1 DEF updateEtcdStatus, o
  <2>4. /\ pc'["etcd"] = "write" /\ arg'["etcd"] = o /\ argFresh'["etcd"] = (pending = <<>>)
        /\ \A v \in Writer \ {"etcd"} :
             pc'[v] = pc[v] /\ arg'[v] = arg[v] /\ argFresh'[v] = argFresh[v]
    BY <1>0, <2>3 DEF UpdateCluster, Goto
  <2>5. UNCHANGED <<server, pending, oc, ocFresh>> /\ "pass" \in Writer \ {"etcd"}
    BY <1>1 DEF updateEtcdStatus, Writer
  <2>6. (\A v \in Writer : argFresh[v] /\ InUpdate(v) => Current(arg[v]))'
    BY <2>2, <2>4, <2>5 DEF FreshIsCurrent, Current, InUpdate
  <2>7. (ocFresh /\ pc["pass"] # "idle" => Current(oc))'
    BY <2>4, <2>5 DEF FreshIsCurrent, Current
  <2>8. (pending = <<>> => Current(cache))' /\ (pending # <<>> => pending[Len(pending)] = server)'
    BY <2>2, <2>3, <2>5 DEF FreshIsCurrent, Current
  <2>9. QED
    BY <2>6, <2>7, <2>8 DEF FreshIsCurrent
<1>2. CASE Update("etcd")
  BY <1>0, <1>2, UpdateCurrent
<1>3. CASE Watch
  <2>1. /\ pending # <<>> /\ pending' = Tail(pending) /\ cache' = Head(pending)
        /\ UNCHANGED <<server, pc, local>> /\ pending[Len(pending)] = server
    BY <1>3 DEF Watch, FreshIsCurrent
  <2>2. Len(pending) \in Nat \ {0} /\ Head(pending) = pending[1]
    BY <1>0, <2>1
  <2>3. CASE Len(pending) = 1
    <3>1. cache' = server /\ pending' = <<>>
      BY <1>0, <2>1, <2>2, <2>3
    <3>2. QED
      BY <1>0, <2>1, <3>1 DEF FreshIsCurrent, Current, InUpdate
  <2>4. CASE Len(pending) # 1
    <3>1. /\ Len(Tail(pending)) = Len(pending) - 1
          /\ Tail(pending)[Len(pending) - 1] = pending[Len(pending)]
          /\ Tail(pending) # <<>>
      <4>1. Tail(pending) \in Seq(Object) /\ Len(Tail(pending)) = Len(pending) - 1
        BY <1>0, <2>1
      <4>2. \A i \in 1..(Len(pending) - 1) : Tail(pending)[i] = pending[i + 1]
        BY <1>0, <2>1
      <4>3. Len(pending) - 1 \in 1..(Len(pending) - 1) /\ Len(pending) - 1 + 1 = Len(pending)
        BY <2>2, <2>4
      <4>4. Tail(pending)[Len(pending) - 1] = pending[Len(pending)]
        BY <4>2, <4>3
      <4>5. Tail(pending) # <<>>
        <5>1. Len(Tail(pending)) # 0
          BY <4>1, <4>3, <2>2, <2>4
        <5>2. \A s \in Seq(Object) : Len(s) # 0 => s # <<>>
          OBVIOUS
        <5>3. QED
          BY <4>1, <5>1, <5>2
      <4>6. QED
        BY <4>1, <4>4, <4>5
    <3>2. QED
      BY <2>1, <3>1 DEF FreshIsCurrent, Current, InUpdate
  <2>5. QED
    BY <2>3, <2>4
<1>4. CASE UserEdit
  <2>1. PICK u \in UserSpec, own \in {Raw, server.own} :
            Store([server EXCEPT !.user = u, !.own = own])
    BY <1>4 DEF UserEdit
  <2> DEFINE o == [server EXCEPT !.user = u, !.own = own]
  <2>2. o \in Object
    <3>1. own \in Raw..Corrected
      BY <1>0 DEF Object, Raw, Corrected
    <3>2. QED
      BY <1>0, <3>1 DEF Object
  <2> HIDE DEF o
  <2>3. CASE o = server
    <3>1. UNCHANGED <<api, cache, pc, oc, ocFresh, arg, argFresh>>
      BY <1>4, <2>1, <2>3 DEF UserEdit, Store, o
    <3>2. QED
      BY <3>1 DEF FreshIsCurrent, Current, InUpdate
  <2>4. CASE o # server
    <3>1. /\ server' = o /\ pending' = Append(pending, o)
          /\ ocFresh' = FALSE /\ argFresh' = [w \in Writer |-> FALSE]
      BY <2>1, <2>4 DEF Store, o
    <3>2. QED
      BY <2>2, <3>1, StoreCurrent
  <2>5. QED
    BY <2>3, <2>4
<1>5. CASE Change
  BY <1>5 DEF Change, FreshIsCurrent, Current, InUpdate
<1>6. QED
  BY <1>1, <1>2, <1>3, <1>4, <1>5 DEF Goroutine

\* What carries the newest resourceVersion carries the newest spec.
THEOREM FreshCopiesAreCurrent == Spec => []FreshIsCurrent
<1>1. FreshIsCurrent /\ UNCHANGED vars => FreshIsCurrent'
  BY DEF FreshIsCurrent, Current, InUpdate, vars, api, local, truth
<1>2. TypeOK /\ FreshIsCurrent /\ [Next]_vars => FreshIsCurrent'
  BY <1>1, PassStepCurrent, OtherStepCurrent DEF Next
<1>3. QED
  BY <1>2, InitCurrent, TypeCorrect, PTL DEF Spec

(***************************************************************************)
(* No write of the operator undoes the spec.                               *)
(***************************************************************************)
\* A step that is not an edit keeps the user's part of the spec and drops
\* nothing of what was filled in.
LEMMA SpecKept ==
    ASSUME TypeOK, FreshIsCurrent, [Next]_vars
    PROVE  \/ edits' = edits + 1
           \/ server'.user = server.user /\ server'.own >= server.own
<1> USE DEF truth, api, local
<1>0. server.own \in Int /\ oc \in Object /\ oc.own \in Int
  BY DEF TypeOK, ServerType, PassType, Object, Raw, Corrected
<1>1. ASSUME NEW w \in Writer, Accepted(w)
      PROVE  server'.user = server.user /\ server'.own >= server.own
  <2>1. Current(arg[w])
    BY <1>1 DEF Accepted, FreshIsCurrent
  <2>2. server' = server \/ server' = arg[w]
    BY <1>1 DEF Accepted, Store
  <2>3. QED
    BY <1>0, <2>1, <2>2 DEF Current
<1>2. CASE PassDefault
  <2>1. /\ Default(oc).user = oc.user /\ Default(oc).own >= oc.own
        /\ Default(oc).own \in Int
    BY <1>0, DefaultType DEF Object, Raw, Corrected
  <2>2. server' = server \/ (ocFresh /\ server' = Default(oc))
    BY <1>2 DEF PassDefault, StoreDefault
  <2>3. ocFresh => Current(oc)
    BY <1>2 DEF PassDefault, FreshIsCurrent
  <2>4. QED
    BY <1>0, <2>1, <2>2, <2>3 DEF Current
<1>3. CASE UserEdit
  BY <1>3 DEF UserEdit
<1>4. CASE server' = server
  BY <1>0, <1>4
<1>5. ASSUME NEW w \in Writer, Conflict(w) \/ Failed(w)
      PROVE  server' = server
  BY <1>5 DEF Conflict, Failed
<1>6. CASE PassGet \/ PassEtcd \/ PassWork \/ updateEtcdStatus \/ Watch \/ Change \/ UNCHANGED vars
  <2>1. server' = server
    BY <1>6 DEF PassGet, PassEtcd, PassWork, updateEtcdStatus, Watch, Change, vars
  <2>2. QED
    BY <1>4, <2>1
<1>7. QED
  <2>1. "pass" \in Writer /\ "etcd" \in Writer
    BY DEF Writer
  <2>2. QED
    BY <1>1, <1>2, <1>3, <1>4, <1>5, <1>6, <2>1 DEF Next, Pass, Goroutine, Update

\* What a user wrote into the spec is replaced by users only, however many
\* attempts an UpdateCluster makes and however old its first copy was.
THEOREM NoEditLost == Spec => EditsKept
<1>1. TypeOK /\ FreshIsCurrent /\ [Next]_vars
      => [server'.user # server.user => edits' = edits + 1]_vars
  BY SpecKept
<1>2. QED
  BY <1>1, TypeCorrect, FreshCopiesAreCurrent, PTL DEF Spec, EditsKept

\* The operator never takes back what it filled into the spec.
THEOREM NoCorrectionLost == Spec => CorrectionsKept
<1>1. TypeOK /\ FreshIsCurrent /\ [Next]_vars
      => [server'.own < server.own => edits' = edits + 1]_vars
  <2> SUFFICES ASSUME TypeOK, FreshIsCurrent, [Next]_vars, server'.own < server.own
               PROVE  edits' = edits + 1
    OBVIOUS
  <2>1. TypeOK'
    BY PassStepType, OtherStepType, StutterStepType DEF Next
  <2>2. server.own \in Int /\ server'.own \in Int
    BY <2>1 DEF TypeOK, ServerType, Object, Raw, Corrected
  <2>3. QED
    BY <2>2, SpecKept
<1>2. QED
  BY <1>1, TypeCorrect, FreshCopiesAreCurrent, PTL DEF Spec, CorrectionsKept
=============================================================================
