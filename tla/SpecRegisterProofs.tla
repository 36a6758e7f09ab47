------------------------- MODULE SpecRegisterProofs -------------------------
(***************************************************************************)
(* ClusterControl implements SpecRegister: under the mapping of Register,  *)
(* every step is an edit, fills in the next part, or stutters.             *)
(***************************************************************************)
EXTENDS ClusterControlProofs

(***************************************************************************)
(* A copy that carries the newest resourceVersion is at most one part      *)
(* ahead of the stored spec, and the pass corrects only what has its       *)
(* defaults.                                                               *)
(***************************************************************************)
CacheEven == pending = <<>> => cache.own = server.own
PassAhead ==
    /\ pc["pass"] = "etcd" => oc.own >= Defaulted
    /\ ocFresh /\ pc["pass"] \in {"default", "etcd"} => oc.own = server.own
    /\ ocFresh /\ pc["pass"] \in {"correct", "work", "write"} => oc.own <= server.own + 1
ArgAhead == \A w \in Writer : argFresh[w] /\ InUpdate(w) => arg[w].own <= server.own + 1
OneAhead == CacheEven /\ PassAhead /\ ArgAhead

\* The types the steps below use: levels are numbers.
Typed ==
    /\ server \in Object /\ oc \in Object /\ cache \in Object
    /\ server.own \in 0..2 /\ oc.own \in 0..2 /\ cache.own \in 0..2
    /\ ocFresh \in BOOLEAN /\ argFresh \in [Writer -> BOOLEAN]
    /\ arg \in [Writer -> Object] /\ \A w \in Writer : arg[w].own \in 0..2
    /\ pending \in Seq(Object)
    /\ pc \in [Writer -> {"idle", "default", "etcd", "work", "correct", "write"}]
    /\ "pass" \in Writer /\ "etcd" \in Writer

LEMMA TypedState == TypeOK => Typed
<1> SUFFICES ASSUME TypeOK PROVE Typed
  OBVIOUS
<1>1. \A o \in Object : o.own \in 0..2
  BY DEF Object, Raw, Corrected
<1>2. QED
  BY <1>1 DEF Typed, TypeOK, ServerType, WriterType, PassType, Writer

\* A write that changes the object leaves no argument fresh, and the cache
\* behind.
LEMMA StoreAhead ==
    ASSUME Typed, NEW o \in Object, pending' = Append(pending, o),
           argFresh' = [w \in Writer |-> FALSE], PassAhead'
    PROVE  OneAhead'
<1>1. pending' # <<>>
  BY DEF Typed
<1>2. QED
  BY <1>1 DEF OneAhead, CacheEven, ArgAhead

\* Initially nothing is fresh.
LEMMA InitAhead == Init => OneAhead
  BY DEF Init, OneAhead, CacheEven, PassAhead, ArgAhead, InUpdate, Writer

\* UpdateCluster: a repeated attempt has the spec of the cache.
LEMMA UpdateAhead ==
    ASSUME TypeOK, OneAhead, NEW w \in Writer, Update(w)
    PROVE  OneAhead'
<1> USE DEF truth, api
<1>0. Typed
  BY TypedState
<1>1. ASSUME Return(w), InUpdate(w)
      PROVE  /\ pc'[w] \in {"work", "idle"}
             /\ \A v \in Writer \ {w} : pc'[v] = pc[v] /\ arg'[v] = arg[v]
             /\ pc'["pass"] # "idle" => oc' = oc
             /\ pc'["pass"] = "work" => pc["pass"] \in {"correct", "work"}
  BY <1>0, <1>1 DEF Return, Goto, Typed, InUpdate
<1>2. ASSUME Return(w), InUpdate(w), UNCHANGED <<api, cache, ocFresh, argFresh>>
      PROVE  OneAhead'
  <2>1. PassAhead'
    <3>1. CASE w = "pass"
      BY <1>0, <1>1, <1>2, <3>1 DEF OneAhead, PassAhead, Typed
    <3>2. CASE w # "pass"
      BY <1>0, <1>1, <1>2, <3>2 DEF OneAhead, PassAhead, Typed
    <3>3. QED
      BY <3>1, <3>2
  <2>2. ArgAhead'
    BY <1>0, <1>1, <1>2 DEF OneAhead, ArgAhead, InUpdate
  <2>3. QED
    BY <1>2, <2>1, <2>2 DEF OneAhead, CacheEven
<1>3. CASE Accepted(w)
  <2>1. CASE arg[w] = server
    BY <1>2, <1>3, <2>1 DEF Accepted, Store
  <2>2. CASE arg[w] # server
    <3>1. /\ pending' = Append(pending, arg[w]) /\ ocFresh' = FALSE
          /\ argFresh' = [v \in Writer |-> FALSE] /\ Return(w) /\ InUpdate(w)
      BY <1>3, <2>2 DEF Accepted, Store
    <3>2. pc'["pass"] = "etcd" => pc["pass"] = "etcd" /\ oc' = oc
      BY <1>0, <1>1, <3>1 DEF Typed
    <3>3. PassAhead'
      BY <3>1, <3>2 DEF OneAhead, PassAhead
    <3>4. QED
      BY <1>0, <3>1, <3>3, StoreAhead DEF Typed
  <2>3. QED
    BY <2>1, <2>2
<1>4. CASE Conflict(w)
  <2>1. Retried(w).own = cache.own
    BY RetriedType
  <2>2. /\ arg'[w] = Retried(w) /\ argFresh'[w] = (pending = <<>>)
        /\ \A v \in Writer \ {w} : arg'[v] = arg[v] /\ argFresh'[v] = argFresh[v]
        /\ UNCHANGED <<server, pending, cache, pc, oc, ocFresh>>
    BY <1>0, <1>4 DEF Conflict, Typed
  <2>3. ArgAhead'
    <3>1. argFresh'[w] => arg'[w].own <= server'.own + 1
      <4>1. pending = <<>> => Retried(w).own <= server.own + 1
        BY <1>0, <2>1 DEF OneAhead, CacheEven, Typed
      <4>2. argFresh'[w] => pending = <<>>
        BY <2>2, Zenon
      <4>3. arg'[w] = Retried(w) /\ server' = server
        BY <2>2, Zenon
      <4>4. QED
        BY <4>1, <4>2, <4>3
    <3>2. QED
      <4>1. ASSUME NEW v \in Writer, argFresh'[v], (InUpdate(v))'
            PROVE  arg'[v].own <= server'.own + 1
        <5>1. CASE v = w
          BY <3>1, <4>1, <5>1
        <5>2. CASE v # w
          BY <2>2, <4>1, <5>2 DEF OneAhead, ArgAhead, InUpdate
        <5>3. QED
          BY <5>1, <5>2
      <4>2. QED
        BY <4>1 DEF ArgAhead
  <2>4. QED
    BY <2>2, <2>3 DEF OneAhead, CacheEven, PassAhead
<1>5. CASE Failed(w)
  BY <1>2, <1>5 DEF Failed
<1>6. QED
  BY <1>3, <1>4, <1>5 DEF Update

\* The steps of the pass: it reads the stored spec, stores it with the defaults,
\* and only then corrects it.
LEMMA PassStepAhead == TypeOK /\ FreshIsCurrent /\ OneAhead /\ Pass => OneAhead'
<1> SUFFICES ASSUME TypeOK, FreshIsCurrent, OneAhead, Pass PROVE OneAhead'
  OBVIOUS
<1> USE DEF truth, api
<1>0. Typed
  BY TypedState
<1>1. ASSUME UNCHANGED <<api, cache, arg, argFresh>>, NEW l \in {"idle", "default", "etcd", "work"},
             Goto("pass", l), PassAhead'
      PROVE  OneAhead'
  <2>1. pc'["pass"] = l /\ \A v \in Writer \ {"pass"} : pc'[v] = pc[v]
    BY <1>0, <1>1 DEF Goto, Typed
  <2>2. ArgAhead'
    BY <1>1, <2>1 DEF OneAhead, ArgAhead, InUpdate
  <2>3. QED
    BY <1>1, <2>2 DEF OneAhead, CacheEven
<1>2. ASSUME UNCHANGED <<api, cache, ocFresh>>, NEW o, NEW l \in {"correct", "write"},
             UpdateCluster("pass", o, ocFresh, l), oc'.own = o.own,
             ocFresh => o.own <= server.own + 1
      PROVE  OneAhead'
  <2>1. /\ pc'["pass"] = l /\ arg'["pass"] = o /\ argFresh'["pass"] = ocFresh
        /\ \A v \in Writer \ {"pass"} :
             pc'[v] = pc[v] /\ arg'[v] = arg[v] /\ argFresh'[v] = argFresh[v]
    BY <1>0, <1>2 DEF UpdateCluster, Goto, Typed
  <2>2. ArgAhead'
    BY <1>2, <2>1 DEF OneAhead, ArgAhead, InUpdate
  <2>3. PassAhead'
    BY <1>2, <2>1 DEF PassAhead
  <2>4. QED
    BY <1>2, <2>2, <2>3 DEF OneAhead, CacheEven
<1>3. ASSUME Goto("pass", "idle") PROVE PassAhead'
  <2>1. pc'["pass"] = "idle"
    BY <1>0, <1>3 DEF Goto, Typed
  <2>2. QED
    BY <2>1 DEF PassAhead
<1>4. CASE PassGet
  <2>1. pc'["pass"] = "default" /\ oc' = server /\ server' = server
    BY <1>0, <1>4 DEF PassGet, Goto, Typed
  <2>2. PassAhead'
    BY <2>1 DEF PassAhead
  <2>3. QED
    BY <1>1, <1>4, <2>2 DEF PassGet
<1>5. CASE PassDefault
  <2>1. Default(oc) \in Object /\ Default(oc).own >= Defaulted
    BY <1>0, DefaultType DEF Typed, Default, Object, Raw, Defaulted, Corrected
  <2>2. CASE PassOver
    <3>1. PassAhead' /\ Goto("pass", "idle")
      BY <1>3, <2>2 DEF PassOver
    <3>2. CASE UNCHANGED <<api, ocFresh, argFresh>>
      BY <1>1, <1>5, <3>1, <3>2 DEF PassDefault
    <3>3. CASE ~ UNCHANGED <<api, ocFresh, argFresh>>
      <4>1. pending' = Append(pending, Default(oc)) /\ argFresh' = [w \in Writer |-> FALSE]
        BY <1>5, <3>3 DEF PassDefault, StoreDefault
      <4>2. QED
        BY <1>0, <2>1, <3>1, <4>1, StoreAhead
    <3>4. QED
      BY <3>2, <3>3
  <2>3. CASE StoreDefault /\ oc' = Default(oc) /\ Goto("pass", "etcd")
    <3>1. pc'["pass"] = "etcd"
      BY <1>0, <2>3 DEF Goto, Typed
    <3>2. server' = Default(oc)
      BY <2>3 DEF StoreDefault
    <3>3. PassAhead'
      BY <2>1, <2>3, <3>1, <3>2 DEF PassAhead
    <3>4. CASE UNCHANGED <<api, ocFresh, argFresh>>
      BY <1>1, <1>5, <2>3, <3>3, <3>4 DEF PassDefault
    <3>5. CASE ~ UNCHANGED <<api, ocFresh, argFresh>>
      <4>1. pending' = Append(pending, Default(oc)) /\ argFresh' = [w \in Writer |-> FALSE]
        BY <2>3, <3>5 DEF StoreDefault
      <4>2. QED
        BY <1>0, <2>1, <3>3, <4>1, StoreAhead
    <3>6. QED
      BY <3>4, <3>5
  <2>4. QED
    BY <1>5, <2>2, <2>3 DEF PassDefault
<1>6. CASE PassEtcd
  <2>1. UNCHANGED <<api, cache, ocFresh>> /\ pc["pass"] = "etcd" /\ oc.own >= 1
    BY <1>6 DEF PassEtcd, OneAhead, PassAhead, Defaulted
  <2>2. ocFresh => oc.own = server.own
    BY <2>1 DEF OneAhead, PassAhead
  <2>3. CASE Goto("pass", "work") /\ UNCHANGED <<oc, arg, argFresh>>
    <3>1. pc'["pass"] = "work"
      BY <1>0, <2>3 DEF Goto, Typed
    <3>2. ocFresh => oc.own <= server.own + 1
      BY <1>0, <2>2 DEF Typed
    <3>3. PassAhead'
      BY <2>1, <2>3, <3>1, <3>2 DEF PassAhead
    <3>4. QED
      BY <1>1, <2>1, <2>3, <3>3
  <2>4. CASE /\ oc' = [oc EXCEPT !.own = Corrected]
             /\ UpdateCluster("pass", [oc EXCEPT !.own = Corrected], ocFresh, "correct")
    <3> DEFINE o == [oc EXCEPT !.own = Corrected]
    <3>1. o.own = 2
      BY <1>0 DEF Typed, Object, Corrected
    <3>2. ocFresh => o.own <= server.own + 1
      BY <1>0, <2>1, <2>2, <3>1 DEF Typed
    <3> HIDE DEF o
    <3>3. oc' = o /\ UpdateCluster("pass", o, ocFresh, "correct")
      BY <2>4 DEF o
    <3>4. QED
      BY <1>2, <2>1, <3>2, <3>3
  <2>5. CASE PassOver /\ UNCHANGED <<arg, argFresh>>
    BY <1>1, <1>3, <2>1, <2>5 DEF PassOver
  <2>6. QED
    BY <1>6, <2>3, <2>4, <2>5 DEF PassEtcd
<1>7. CASE PassWork
  <2>1. PICK o \in {[oc EXCEPT !.comps = compsNow, !.sum = SpecChecksum(oc)],
                    [oc EXCEPT !.comps = compsNow], oc} :
           IF o = oc
           THEN PassOver /\ UNCHANGED <<arg, argFresh, tries>>
           ELSE UpdateCluster("pass", o, ocFresh, "write") /\ UNCHANGED oc
    BY <1>7 DEF PassWork
  <2>2. o.own = oc.own
    BY <1>0, <2>1 DEF Typed, Object
  <2>3. UNCHANGED <<api, cache, ocFresh>> /\ pc["pass"] = "work"
    BY <1>7 DEF PassWork
  <2>4. ocFresh => o.own <= server.own + 1
    BY <2>2, <2>3 DEF OneAhead, PassAhead
  <2>5. CASE o = oc
    BY <1>1, <1>3, <2>1, <2>3, <2>5 DEF PassOver
  <2>6. CASE o # oc
    BY <1>2, <2>1, <2>2, <2>3, <2>4, <2>6
  <2>7. QED
    BY <2>5, <2>6
<1>8. CASE Update("pass")
  BY <1>0, <1>8, UpdateAhead DEF Typed
<1>9. QED
  BY <1>4, <1>5, <1>6, <1>7, <1>8 DEF Pass

\* The steps of the etcd goroutine and of the environment: the cache is even
\* with the stored spec once the last event has arrived.
LEMMA OtherStepAhead ==
    TypeOK /\ FreshIsCurrent /\ OneAhead /\ (Goroutine \/ Watch \/ UserEdit \/ Change) => OneAhead'
<1> SUFFICES ASSUME TypeOK, FreshIsCurrent, OneAhead, Goroutine \/ Watch \/ UserEdit \/ Change
             PROVE  OneAhead'
  OBVIOUS
<1> USE DEF truth, api, local
<1>0. Typed
  BY TypedState
<1>1. CASE updateEtcdStatus
  <2> DEFINE o == [cache EXCEPT !.etcd = etcdNow]
  <2>1. o.own = cache.own
    BY <1>0 DEF Typed, Object
  <2>2. pending = <<>> => o.own = server.own
    BY <2>1 DEF OneAhead, CacheEven
  <2> HIDE DEF o
  <2>3. cache' = o /\ UpdateCluster("etcd", o, pending = <<>>, "write")
    BY <1>1 DEF updateEtcdStatus, o
  <2>4. /\ pc'["etcd"] = "write" /\ arg'["etcd"] = o /\ argFresh'["etcd"] = (pending = <<>>)
        /\ \A v \in Writer \ {"etcd"} :
             pc'[v] = pc[v] /\ arg'[v] = arg[v] /\ argFresh'[v] = argFresh[v]
    BY <1>0, <2>3 DEF UpdateCluster, Goto, Typed
  <2>5. UNCHANGED <<server, pending, oc, ocFresh>> /\ "pass" \in Writer \ {"etcd"}
    BY <1>1 DEF updateEtcdStatus, Writer
  <2>6. ArgAhead'
    <3>1. argFresh'["etcd"] => arg'["etcd"].own <= server'.own + 1
      <4>1. pending = <<>> => o.own <= server.own + 1
        BY <1>0, <2>2 DEF Typed
      <4>2. argFresh'["etcd"] => pending = <<>>
        BY <2>4, Zenon
      <4>3. arg'["etcd"] = o /\ server' = server
        BY <2>4, <2>5, Zenon
      <4>4. QED
        BY <4>1, <4>2, <4>3
    <3>2. ASSUME NEW v \in Writer, argFresh'[v], (InUpdate(v))'
          PROVE  arg'[v].own <= server'.own + 1
      <4>1. CASE v = "etcd"
        BY <3>1, <3>2, <4>1
      <4>2. CASE v # "etcd"
        BY <2>4, <2>5, <3>2, <4>2 DEF OneAhead, ArgAhead, InUpdate
      <4>3. QED
        BY <4>1, <4>2
    <3>3. QED
      BY <3>2 DEF ArgAhead
  <2>7. PassAhead'
    BY <2>4, <2>5 DEF OneAhead, PassAhead
  <2>8. CacheEven'
    BY <2>2, <2>3, <2>5 DEF CacheEven
  <2>9. QED
    BY <2>6, <2>7, <2>8 DEF OneAhead
<1>2. CASE Update("etcd")
  BY <1>0, <1>2, UpdateAhead DEF Typed
<1>3. CASE Watch
  <2>1. /\ pending # <<>> /\ pending' = Tail(pending) /\ cache' = Head(pending)
        /\ UNCHANGED <<server, pc, local>> /\ pending[Len(pending)] = server
    BY <1>3 DEF Watch, FreshIsCurrent
  <2>2. CacheEven'
    <3> SUFFICES ASSUME Tail(pending) = <<>> PROVE cache' = server
      BY <2>1 DEF CacheEven
    <3>1. Len(pending) \in Nat \ {0} /\ Head(pending) = pending[1]
      BY <1>0, <2>1 DEF Typed
    <3>2. Len(Tail(pending)) = Len(pending) - 1
      BY <1>0, <2>1 DEF Typed
    <3>3. Len(pending) = 1
      BY <3>1, <3>2
    <3>4. QED
      BY <2>1, <3>1, <3>3
  <2>3. PassAhead' /\ ArgAhead'
    BY <2>1 DEF OneAhead, PassAhead, ArgAhead, InUpdate
  <2>4. QED
    BY <2>2, <2>3 DEF OneAhead
<1>4. CASE UserEdit
  <2>1. PICK u \in UserSpec, own \in {Raw, server.own} :
            Store([server EXCEPT !.user = u, !.own = own])
    BY <1>4 DEF UserEdit
  <2> DEFINE o == [server EXCEPT !.user = u, !.own = own]
  <2>2. o \in Object
    <3>1. own \in Raw..Corrected
      BY <1>0 DEF Typed, Object, Raw, Corrected
    <3>2. QED
      BY <1>0, <3>1 DEF Typed, Object
  <2> HIDE DEF o
  <2>3. UNCHANGED <<cache, pc, oc, arg>>
    BY <1>4 DEF UserEdit
  <2>4. CASE o = server
    <3>1. UNCHANGED <<server, pending, ocFresh, argFresh>>
      BY <2>1, <2>4 DEF Store, o
    <3>2. QED
      BY <2>3, <3>1 DEF OneAhead, CacheEven, PassAhead, ArgAhead, InUpdate
  <2>5. CASE o # server
    <3>1. /\ pending' = Append(pending, o) /\ ocFresh' = FALSE
          /\ argFresh' = [w \in Writer |-> FALSE]
      BY <2>1, <2>5 DEF Store, o
    <3>2. PassAhead'
      BY <2>3, <3>1 DEF OneAhead, PassAhead
    <3>3. QED
      BY <1>0, <2>2, <3>1, <3>2, StoreAhead
  <2>6. QED
    BY <2>4, <2>5
<1>5. CASE Change
  BY <1>5 DEF Change, OneAhead, CacheEven, PassAhead, ArgAhead, InUpdate
<1>6. QED
  BY <1>1, <1>2, <1>3, <1>4, <1>5 DEF Goroutine

\* No fresh copy of the spec is two parts ahead.
LEMMA AlwaysOneAhead == Spec => []OneAhead
<1>1. OneAhead /\ UNCHANGED vars => OneAhead'
  BY DEF OneAhead, CacheEven, PassAhead, ArgAhead, InUpdate, vars, api, local, truth
<1>2. TypeOK /\ FreshIsCurrent /\ OneAhead /\ [Next]_vars => OneAhead'
  BY <1>1, PassStepAhead, OtherStepAhead DEF Next
<1>3. QED
  BY <1>2, InitAhead, TypeCorrect, FreshCopiesAreCurrent, PTL DEF Spec

(***************************************************************************)
(* The steps under the mapping.                                            *)
(***************************************************************************)
\* A step of the operator or of the watch fills in at most the next part.
LEMMA OnePartAtATime ==
    ASSUME TypeOK, FreshIsCurrent, OneAhead, [Next]_vars, ~ UserEdit
    PROVE  edits' = edits /\ server'.own <= server.own + 1
<1> USE DEF truth, api, local
<1>0. Typed
  BY TypedState
<1>1. ASSUME NEW w \in Writer, Update(w)
      PROVE  edits' = edits /\ server'.own <= server.own + 1
  <2>1. CASE Accepted(w)
    <3>1. edits' = edits /\ (server' = server \/ server' = arg[w])
      BY <2>1 DEF Accepted, Store
    <3>2. arg[w].own <= server.own + 1
      BY <2>1 DEF Accepted, OneAhead, ArgAhead
    <3>3. QED
      BY <1>0, <3>1, <3>2 DEF Typed
  <2>2. CASE Conflict(w) \/ Failed(w)
    <3>1. edits' = edits /\ server' = server
      BY <2>2 DEF Conflict, Failed
    <3>2. QED
      BY <1>0, <3>1 DEF Typed
  <2>3. QED
    BY <1>1, <2>1, <2>2 DEF Update
<1>2. CASE PassDefault
  <2>1. edits' = edits /\ (server' = server \/ (ocFresh /\ server' = Default(oc)))
    BY <1>2 DEF PassDefault, StoreDefault
  <2>2. ocFresh => oc.own = server.own
    BY <1>2 DEF PassDefault, OneAhead, PassAhead
  <2>3. Default(oc).own <= oc.own + 1
    BY <1>0 DEF Typed, Default, Object, Raw, Defaulted, Corrected
  <2>4. QED
    BY <1>0, <2>1, <2>2, <2>3 DEF Typed
<1>3. CASE PassGet \/ PassEtcd \/ PassWork \/ updateEtcdStatus \/ Watch \/ Change \/ UNCHANGED vars
  <2>1. server' = server /\ edits' = edits
    BY <1>3 DEF PassGet, PassEtcd, PassWork, updateEtcdStatus, Watch, Change, vars
  <2>2. QED
    BY <1>0, <2>1 DEF Typed
<1>4. QED
  BY <1>0, <1>1, <1>2, <1>3 DEF Typed, Next, Pass, Goroutine

\* An edit of a user is an Edit of the register.
LEMMA EditIsEdit ==
    ASSUME TypeOK, UserEdit
    PROVE  Register!Edit
<1>1. PICK u \in UserSpec, own \in {Raw, server.own} :
          Store([server EXCEPT !.user = u, !.own = own])
  BY DEF UserEdit
<1>2. server \in Object
  BY DEF TypeOK, ServerType
<1>3. server' = [server EXCEPT !.user = u, !.own = own]
  BY <1>1 DEF Store, api
<1>4. server'.user = u /\ server'.own = own
  BY <1>2, <1>3 DEF Object
<1>5. edits' = edits + 1
  BY DEF UserEdit
<1>6. QED
  BY <1>4, <1>5 DEF Register!Edit, Raw

\* Any other step fills in the next part or stutters.
LEMMA OtherFillsIn ==
    ASSUME TypeOK, FreshIsCurrent, OneAhead, [Next]_vars, ~ UserEdit
    PROVE  Register!FillIn \/ UNCHANGED <<server.user, server.own, edits>>
<1>1. TypeOK'
  BY PassStepType, OtherStepType, StutterStepType DEF Next
<1>2. server.own \in 0..2 /\ server'.own \in 0..2
  BY <1>1 DEF TypeOK, ServerType, Object, Raw, Corrected
<1>3. edits' = edits /\ server'.own <= server.own + 1 /\ edits \in Int
  BY OnePartAtATime DEF TypeOK, LimitType
<1>4. server'.user = server.user /\ server'.own >= server.own
  BY <1>3, SpecKept
<1>5. QED
  BY <1>2, <1>3, <1>4 DEF Register!FillIn, Corrected

\* The writers of the cluster object, with their cached copies and repeated
\* writes, implement the register that users are promised.
THEOREM ImplementsRegister == Spec => SpecIsRegister
<1>1. Init => Register!Init
  BY DEF Init, Register!Init, Raw
<1>2. TypeOK /\ FreshIsCurrent /\ OneAhead /\ [Next]_vars
      => [Register!Edit \/ Register!FillIn]_<<server.user, server.own, edits>>
  BY EditIsEdit, OtherFillsIn
<1>3. QED
  BY <1>1, <1>2, TypeCorrect, FreshCopiesAreCurrent, AlwaysOneAhead, PTL
  DEF Spec, SpecIsRegister, Register!Spec
=============================================================================
