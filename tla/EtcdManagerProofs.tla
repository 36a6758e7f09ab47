------------------------- MODULE EtcdManagerProofs -------------------------
(***************************************************************************)
(* Proofs about EtcdManager, for any sets of names, goroutines, versions   *)
(* and sizes and any number of faults, crashes and edits.                  *)
(***************************************************************************)
EXTENDS EtcdManager, TLAPS

(***************************************************************************)
(* Types.                                                                  *)
(***************************************************************************)
\* Initially every variable has its type.
LEMMA InitType == Init => TypeOK
  <1> SUFFICES ASSUME Init PROVE TypeOK
    OBVIOUS
  <1>1. ApiType
    BY SizeAssumption DEF Init, SizeAssumption, ApiType, Spec_, Phase
  <1>2. PodType /\ EtcdType
    BY <1>1 DEF Init, ApiType, Spec_, PodType, EtcdType, PodPhase
  <1>3. GoType
    BY DEF Init, GoType, GoPc, Phase
  <1>4. ManType
    BY <1>1 DEF Init, ApiType, ManType, Phase
  <1>5. PassType
    BY DEF Init, PassType, NoOc, Phase
  <1>6. BoundType
    BY BoundAssumption DEF Init, BoundAssumption, BoundType
  <1> QED
    BY <1>1, <1>2, <1>3, <1>4, <1>5, <1>6 DEF TypeOK

\* fixEtcdSize of any size is a size.
LEMMA FixType == ASSUME NEW size \in Nat PROVE fixEtcdSize(size) \in Nat
  BY SizeAssumption DEF SizeAssumption, fixEtcdSize

\* Failed and answered requests keep the count of faults within its bound.
LEMMA FaultType ==
    ASSUME faults \in 0..MaxFaults, Fault \/ NoFault
    PROVE  faults' \in 0..MaxFaults
  BY BoundAssumption DEF BoundAssumption, Fault, NoFault

\* A goroutine moves from one place of its program to another.
LEMMA GotoType ==
    ASSUME pc \in [Gor -> GoPc], NEW g \in Gor, NEW l \in GoPc, Goto(g, l)
    PROVE  pc' \in [Gor -> GoPc]
  BY DEF Goto

\* Removing pods keeps the type of pod.
LEMMA RemoveType ==
    ASSUME pod \in [Name -> PodPhase], NEW S, removePods(S)
    PROVE  pod' \in [Name -> PodPhase]
  BY DEF removePods, PodPhase

\* Forgetting the clusters without pods keeps the type of ensemble.
LEMMA ForgetType ==
    ASSUME ensemble \in [Name -> SUBSET Name], NEW n \in Name
    PROVE  Forget(n) \in [Name -> SUBSET Name]
  BY DEF Forget

\* The steps of the controller worker keep the types.
LEMMA MainType == TypeOK /\ Main => TypeOK'
  <1> SUFFICES ASSUME TypeOK, Main PROVE TypeOK'
    OBVIOUS
  <1> USE DEF TypeOK, apiVars, podVars, etcdVars, goVars, manVars, bounds
  <1>1. ASSUME Spawn PROVE pc' \in [Gor -> GoPc] /\ snap' \in [Gor -> Phase]
    <2>1. mainOc.phase \in Phase
      BY DEF PassType
    <2> QED
      BY <1>1, <2>1 DEF Spawn, Goto, Idle, GoPc, GoType
  <1>2. ASSUME FixMain PROVE mainOc' \in [phase : Phase, size : Nat]
    BY <1>2, FixType DEF FixMain, PassType
  <1>3. CASE MainRead
    <2>1. PassType'
      BY <1>3 DEF MainRead, PassType, ApiType, Spec_
    <2> QED
      BY <1>3, <2>1 DEF MainRead, ApiType, PodType, EtcdType, GoType, ManType, BoundType
  <1>4. CASE SyncUnchanged
    BY <1>1, <1>4 DEF SyncUnchanged, ApiType, PodType, EtcdType, GoType, ManType,
                      PassType, BoundType
  <1>5. CASE SyncFixed
    <2>1. ApiType'
      <3>1. spec' \in Spec_
        BY <1>5, FixType DEF SyncFixed, ApiType, PassType, Spec_
      <3> QED
        BY <1>5, <3>1 DEF SyncFixed, ApiType, PassType
    <2>2. GoType'
      BY <1>1, <1>5 DEF SyncFixed, GoType
    <2>3. PassType'
      BY <1>2, <1>5 DEF SyncFixed, PassType
    <2>4. BoundType'
      BY <1>5, FaultType DEF SyncFixed, BoundType
    <2> QED
      BY <1>5, <2>1, <2>2, <2>3, <2>4 DEF SyncFixed, PodType, EtcdType, ManType
  <1>6. CASE SyncFailed
    <2>1. PassType'
      BY <1>2, <1>6 DEF SyncFailed, PassType
    <2>2. BoundType'
      BY <1>6, FaultType DEF SyncFailed, BoundType
    <2> QED
      BY <1>6, <2>1, <2>2 DEF SyncFailed, ApiType, PodType, EtcdType, GoType, ManType
  <1>7. CASE MainEnd
    <2>1. ApiType'
      BY <1>7 DEF MainEnd, ApiType, PassType, Spec_
    <2>2. PassType'
      BY <1>7 DEF MainEnd, PassType, NoOc, Phase
    <2>3. BoundType'
      BY <1>7, BoundAssumption DEF MainEnd, BoundType, BoundAssumption
    <2> QED
      BY <1>7, <2>1, <2>2, <2>3 DEF MainEnd, PodType, EtcdType, GoType, ManType
  <1> QED
    BY <1>3, <1>4, <1>5, <1>6, <1>7 DEF Main

\* The steps of a goroutine keep the types.
LEMMA GoroutineType == ASSUME TypeOK, NEW g \in Gor, Goroutine(g) PROVE TypeOK'
  <1> USE DEF TypeOK, apiVars, podVars, etcdVars, goVars, manVars, mainVars, bounds
  <1>1. CASE setSyncing(g)
    <2>1. GoType'
      BY <1>1 DEF setSyncing, GoType, Goto, GoPc, HeldPc, SetupPc, LoopPc
    <2> QED
      BY <1>1, <2>1 DEF setSyncing, ApiType, PodType, EtcdType, ManType,
        PassType, BoundType
  <1>2. CASE Acquire(g)
    <2>1. GoType'
      BY <1>2 DEF Acquire, GoType, TryLock, Phase, Goto, GoPc, HeldPc,
        SetupPc, LoopPc
    <2>2. ManType'
      BY <1>2 DEF Acquire, ManType, GoType
    <2>3. BoundType'
      BY <1>2, FaultType DEF Acquire, BoundType
    <2> QED
      BY <1>2, <2>1, <2>2, <2>3 DEF Acquire, ApiType, PodType, EtcdType,
        PassType
  <1>3. CASE create(g)
    <2>1. ApiType'
      BY <1>3 DEF create, ApiType, Phase, Written, NotWritten
    <2>2. GoType'
      BY <1>3 DEF create, GoType, Goto, GoPc, HeldPc, SetupPc, LoopPc
    <2>3. ManType'
      BY <1>3 DEF create, ManType, ApiType, Phase, Written, NotWritten
    <2>4. PassType'
      BY <1>3 DEF create, PassType, Written, NotWritten
    <2>5. BoundType'
      BY <1>3, FaultType DEF create, BoundType
    <2> QED
      BY <1>3, <2>1, <2>2, <2>3, <2>4, <2>5 DEF create, PodType, EtcdType
  <1>4. CASE startSeedMember(g)
    <2>1. PodType'
      BY <1>4 DEF startSeedMember, PodType, createPod, PodPhase, Fresh,
        ManType, Spec_
    <2>2. EtcdType'
      <3>1. UNCHANGED etcdVars \/ \E n \in Fresh :
               /\ home' = [home EXCEPT ![n] = n]
               /\ ensemble' = [Forget(n) EXCEPT ![n] = {n}]
        BY <1>4 DEF startSeedMember
      <3>2. Fresh \subseteq Name
        BY DEF Fresh
      <3>3. CASE UNCHANGED etcdVars
        BY <3>3 DEF EtcdType
      <3>4. ASSUME NEW n \in Fresh,
                   home' = [home EXCEPT ![n] = n],
                   ensemble' = [Forget(n) EXCEPT ![n] = {n}]
            PROVE  EtcdType'
        <4>1. n \in Name /\ Forget(n) \in [Name -> SUBSET Name]
          BY <3>2, ForgetType DEF EtcdType
        <4> QED
          BY <3>4, <4>1 DEF EtcdType
      <3> QED
        BY <3>1, <3>3, <3>4
    <2>3. GoType'
      BY <1>4 DEF startSeedMember, GoType, Goto, GoPc, HeldPc, SetupPc, LoopPc
    <2>4. ManType'
      BY <1>4 DEF startSeedMember, ManType, Fresh
    <2>5. BoundType'
      BY <1>4, FaultType DEF startSeedMember, BoundType
    <2> QED
      BY <1>4, <2>1, <2>2, <2>3, <2>4, <2>5 DEF startSeedMember, ApiType,
        PassType
  <1>5. CASE setupFailed(g)
    <2>1. ApiType'
      BY <1>5 DEF setupFailed, ApiType, Phase, updateEtcdStatus, Written,
        NotWritten
    <2>2. GoType'
      BY <1>5 DEF setupFailed, GoType, Goto, GoPc, HeldPc, SetupPc, LoopPc
    <2>3. ManType'
      BY <1>5 DEF setupFailed, ManType, ApiType, Phase, updateEtcdStatus,
        Written, NotWritten
    <2>4. PassType'
      BY <1>5 DEF setupFailed, PassType, updateEtcdStatus, Written, NotWritten
    <2>5. BoundType'
      BY <1>5, FaultType DEF setupFailed, BoundType, updateEtcdStatus,
        Written, NotWritten
    <2> QED
      BY <1>5, <2>1, <2>2, <2>3, <2>4, <2>5 DEF setupFailed, PodType, EtcdType
  <1>6. CASE runBegin(g)
    <2>1. ApiType'
      BY <1>6 DEF runBegin, ApiType, Phase, updateEtcdStatus, Written,
        NotWritten
    <2>2. GoType'
      BY <1>6 DEF runBegin, GoType, Goto, GoPc, HeldPc, SetupPc, LoopPc
    <2>3. ManType'
      BY <1>6 DEF runBegin, ManType, ApiType, Phase, updateEtcdStatus,
        Written, NotWritten
    <2>4. PassType'
      BY <1>6 DEF runBegin, PassType, updateEtcdStatus, Written, NotWritten
    <2>5. BoundType'
      BY <1>6, FaultType DEF runBegin, BoundType, updateEtcdStatus, Written,
        NotWritten
    <2> QED
      BY <1>6, <2>1, <2>2, <2>3, <2>4, <2>5 DEF runBegin, PodType, EtcdType
  <1>7. CASE pollPods(g)
    <2>1. PodType'
      BY <1>7, RemoveType DEF pollPods, PodType
    <2>2. GoType'
      BY <1>7 DEF pollPods, GoType, Goto, GoPc, HeldPc, SetupPc, LoopPc
    <2>3. ManType'
      BY <1>7 DEF pollPods, ManType, ApiType, Phase, InPhase
    <2>4. BoundType'
      BY <1>7, FaultType DEF pollPods, BoundType
    <2> QED
      BY <1>7, <2>1, <2>2, <2>3, <2>4 DEF pollPods, ApiType, EtcdType,
        PassType
  <1>8. CASE allDead(g)
    <2>1. ApiType'
      BY <1>8 DEF allDead, ApiType, ManType, updateEtcdStatus, Written,
        NotWritten
    <2>2. GoType'
      BY <1>8 DEF allDead, GoType, Goto, GoPc, HeldPc, SetupPc, LoopPc
    <2>3. ManType'
      BY <1>8 DEF allDead, ManType, ApiType, updateEtcdStatus, Written,
        NotWritten
    <2>4. PassType'
      BY <1>8 DEF allDead, PassType, updateEtcdStatus, Written, NotWritten
    <2>5. BoundType'
      BY <1>8, FaultType DEF allDead, BoundType, updateEtcdStatus, Written,
        NotWritten
    <2> QED
      BY <1>8, <2>1, <2>2, <2>3, <2>4, <2>5 DEF allDead, PodType, EtcdType
  <1>9. CASE updateMembers(g)
    <2>1. GoType'
      BY <1>9 DEF updateMembers, GoType, EndTick, Goto, GoPc, HeldPc, SetupPc,
        LoopPc
    <2>2. ManType'
      BY <1>9 DEF updateMembers, ManType, EndTick, EtcdType
    <2>3. BoundType'
      BY <1>9, FaultType DEF updateMembers, BoundType
    <2> QED
      BY <1>9, <2>1, <2>2, <2>3 DEF updateMembers, ApiType, PodType, EtcdType,
        PassType
  <1>10. CASE reconcileVersion(g)
    <2>1. GoType'
      BY <1>10 DEF reconcileVersion, GoType, Goto, GoPc, HeldPc, SetupPc,
        LoopPc
    <2>2. ManType'
      BY <1>10 DEF reconcileVersion, ManType, OldPods
    <2> QED
      BY <1>10, <2>1, <2>2 DEF reconcileVersion, ApiType, PodType, EtcdType,
        PassType, BoundType
  <1>11. CASE reconcileMembers(g)
    <2>1. PodType'
      BY <1>11, RemoveType DEF reconcileMembers, PodType
    <2>2. GoType'
      BY <1>11 DEF reconcileMembers, GoType, NextRepair, EndTick, Goto, GoPc,
        HeldPc, SetupPc, LoopPc
    <2>3. ManType'
      BY <1>11 DEF reconcileMembers, ManType, NextRepair, EndTick
    <2>4. BoundType'
      BY <1>11, FaultType DEF reconcileMembers, BoundType
    <2> QED
      BY <1>11, <2>1, <2>2, <2>3, <2>4 DEF reconcileMembers, ApiType,
        EtcdType, PassType
  <1>12. CASE MemberAdd(g)
    <2>1. EtcdType'
      <3>1. CASE UNCHANGED etcdVars
        BY <3>1 DEF EtcdType
      <3>2. CASE \E m \in members, n \in Fresh :
                   /\ home' = [home EXCEPT ![n] = home[m]]
                   /\ ensemble' = [Forget(n) EXCEPT ![home[m]] = @ \cup {n}]
        <4>1. PICK m \in members, n \in Fresh :
                   /\ home' = [home EXCEPT ![n] = home[m]]
                   /\ ensemble' = [Forget(n) EXCEPT ![home[m]] = @ \cup {n}]
          BY <3>2
        <4>2. m \in Name /\ n \in Name /\ home[m] \in Name
          BY DEF ManType, Fresh, EtcdType
        <4> QED
          BY <4>1, <4>2, ForgetType DEF EtcdType
      <3> QED
        BY <1>12, <3>1, <3>2 DEF MemberAdd
    <2>2. GoType'
      BY <1>12 DEF MemberAdd, GoType, EndTick, Goto, GoPc, HeldPc, SetupPc,
        LoopPc
    <2>3. ManType'
      BY <1>12 DEF MemberAdd, ManType, EndTick, rememberMember, Fresh
    <2>4. BoundType'
      BY <1>12, FaultType DEF MemberAdd, BoundType
    <2> QED
      BY <1>12, <2>1, <2>2, <2>3, <2>4 DEF MemberAdd, ApiType, PodType,
        PassType
  <1>13. CASE createMemberPod(g)
    <2>1. PodType'
      BY <1>13 DEF createMemberPod, PodType, createPod, PodPhase, ManType,
        Spec_
    <2>2. GoType'
      BY <1>13 DEF createMemberPod, GoType, EndTick, Goto, GoPc, HeldPc,
        SetupPc, LoopPc
    <2>3. ManType'
      BY <1>13 DEF createMemberPod, ManType, EndTick
    <2>4. BoundType'
      BY <1>13, FaultType DEF createMemberPod, BoundType
    <2> QED
      BY <1>13, <2>1, <2>2, <2>3, <2>4 DEF createMemberPod, ApiType, EtcdType,
        PassType
  <1>14. CASE MemberRemove(g)
    <2>1. EtcdType'
      <3>1. UNCHANGED ensemble \/ \E m \in members :
               ensemble' = [ensemble EXCEPT ![home[m]] = @ \ {target}]
        BY <1>14 DEF MemberRemove
      <3> QED
        BY <1>14, <3>1 DEF MemberRemove, EtcdType, ManType
    <2>2. GoType'
      BY <1>14 DEF MemberRemove, GoType, EndTick, Goto, GoPc, HeldPc, SetupPc,
        LoopPc
    <2>3. ManType'
      BY <1>14 DEF MemberRemove, ManType, EndTick
    <2>4. BoundType'
      BY <1>14, FaultType DEF MemberRemove, BoundType
    <2> QED
      BY <1>14, <2>1, <2>2, <2>3, <2>4 DEF MemberRemove, ApiType, PodType,
        PassType
  <1>15. CASE removeMemberPod(g)
    <2>1. PodType'
      BY <1>15, RemoveType DEF removeMemberPod, PodType, removePod
    <2>2. GoType'
      BY <1>15 DEF removeMemberPod, GoType, EndTick, Goto, GoPc, HeldPc,
        SetupPc, LoopPc
    <2>3. ManType'
      BY <1>15 DEF removeMemberPod, ManType, EndTick
    <2>4. BoundType'
      BY <1>15, FaultType DEF removeMemberPod, BoundType
    <2> QED
      BY <1>15, <2>1, <2>2, <2>3, <2>4 DEF removeMemberPod, ApiType, EtcdType,
        PassType
  <1>16. CASE cleanAllMembers(g)
    <2>1. PodType'
      BY <1>16, RemoveType DEF cleanAllMembers, PodType
    <2>2. GoType'
      BY <1>16 DEF cleanAllMembers, GoType, EndTick, Goto, GoPc, HeldPc,
        SetupPc, LoopPc
    <2>3. ManType'
      BY <1>16 DEF cleanAllMembers, ManType, EndTick, Phase
    <2>4. BoundType'
      BY <1>16, FaultType DEF cleanAllMembers, BoundType
    <2> QED
      BY <1>16, <2>1, <2>2, <2>3, <2>4 DEF cleanAllMembers, ApiType, EtcdType,
        PassType
  <1>17. CASE restart(g)
    <2>1. ApiType'
      BY <1>17 DEF restart, ApiType, ManType, Written, NotWritten
    <2>2. GoType'
      BY <1>17 DEF restart, GoType, ManType, EndTick, Idle, Goto, GoPc,
        HeldPc, SetupPc, LoopPc
    <2>3. ManType'
      BY <1>17 DEF restart, ManType, ApiType, EndTick, Written, NotWritten
    <2>4. PassType'
      BY <1>17 DEF restart, PassType, Written, NotWritten
    <2>5. BoundType'
      BY <1>17, FaultType DEF restart, BoundType
    <2> QED
      BY <1>17, <2>1, <2>2, <2>3, <2>4, <2>5 DEF restart, PodType, EtcdType
  <1>18. CASE upgradeOneMember(g)
    <2>1. PodType'
      BY <1>18 DEF upgradeOneMember, PodType, ManType, Spec_
    <2>2. GoType'
      BY <1>18 DEF upgradeOneMember, GoType, EndTick, Goto, GoPc, HeldPc,
        SetupPc, LoopPc
    <2>3. ManType'
      BY <1>18 DEF upgradeOneMember, ManType, EndTick
    <2>4. BoundType'
      BY <1>18, FaultType DEF upgradeOneMember, BoundType
    <2> QED
      BY <1>18, <2>1, <2>2, <2>3, <2>4 DEF upgradeOneMember, ApiType,
        EtcdType, PassType
  <1>19. CASE periodicStatus(g)
    <2>1. ApiType'
      BY <1>19 DEF periodicStatus, ApiType, ManType, updateEtcdStatus,
        Written, NotWritten
    <2>2. GoType'
      BY <1>19 DEF periodicStatus, GoType, EndTick, Goto, GoPc, HeldPc,
        SetupPc, LoopPc
    <2>3. ManType'
      BY <1>19 DEF periodicStatus, ManType, EndTick, ApiType,
        updateEtcdStatus, Written, NotWritten
    <2>4. PassType'
      BY <1>19 DEF periodicStatus, PassType, updateEtcdStatus, Written,
        NotWritten
    <2>5. BoundType'
      BY <1>19, FaultType DEF periodicStatus, BoundType, updateEtcdStatus,
        Written, NotWritten
    <2> QED
      BY <1>19, <2>1, <2>2, <2>3, <2>4, <2>5 DEF periodicStatus, PodType,
        EtcdType
  <1>20. CASE unlock(g)
    <2>1. GoType'
      BY <1>20 DEF unlock, GoType, Goto, GoPc, HeldPc, SetupPc, LoopPc
    <2> QED
      BY <1>20, <2>1 DEF unlock, ApiType, PodType, EtcdType, ManType,
        PassType, BoundType
  <1>21. CASE setUnsync(g)
    <2>1. GoType'
      BY <1>21 DEF setUnsync, GoType, Goto, GoPc, HeldPc, SetupPc, LoopPc
    <2> QED
      BY <1>21, <2>1 DEF setUnsync, ApiType, PodType, EtcdType, ManType,
        PassType, BoundType
  <1> QED
    BY <1>1, <1>2, <1>3, <1>4, <1>5, <1>6, <1>7, <1>8, <1>9, <1>10, <1>11,
       <1>12, <1>13, <1>14, <1>15, <1>16, <1>17, <1>18, <1>19, <1>20, <1>21
       DEF Goroutine, Setup, Loop, Repair, Leave

\* The steps of the environment keep the types.
LEMMA EnvironmentType == ASSUME TypeOK, Environment PROVE TypeOK'
  <1> USE DEF TypeOK, apiVars, podVars, etcdVars, goVars, manVars, mainVars, bounds
  <1>1. CASE \E n \in Name : PodStarts(n) \/ PodLost(n)
    <2>1. PICK n \in Name : PodStarts(n) \/ PodLost(n)
      BY <1>1
    <2>2. PodType'
      BY <2>1 DEF PodStarts, PodLost, PodType, PodPhase
    <2>3. BoundType'
      BY <2>1, BoundAssumption DEF PodStarts, PodLost, BoundType, BoundAssumption
    <2> QED
      BY <2>1, <2>2, <2>3
      DEF PodStarts, PodLost, ApiType, EtcdType, GoType, ManType, PassType
  <1>2. CASE Edit
    <2>1. ApiType'
      BY <1>2, SizeAssumption DEF Edit, ApiType, Spec_, SizeAssumption
    <2>2. BoundType'
      BY <1>2, BoundAssumption DEF Edit, BoundType, BoundAssumption
    <2> QED
      BY <1>2, <2>1, <2>2 DEF Edit, PodType, EtcdType, GoType, ManType, PassType
  <1>3. CASE Crash
    <2>1. GoType'
      BY <1>3 DEF Crash, GoType, GoPc, Phase
    <2>2. ManType'
      BY <1>3 DEF Crash, ManType, Phase
    <2>3. PassType'
      BY <1>3 DEF Crash, PassType, NoOc, Phase
    <2>4. BoundType'
      BY <1>3, BoundAssumption DEF Crash, BoundType, BoundAssumption
    <2> QED
      BY <1>3, <2>1, <2>2, <2>3, <2>4 DEF Crash, ApiType, PodType, EtcdType
  <1> QED
    BY <1>1, <1>2, <1>3 DEF Environment

\* A step that changes nothing keeps the types.
LEMMA StutterType == ASSUME TypeOK, UNCHANGED vars PROVE TypeOK'
  BY DEF TypeOK, vars, apiVars, podVars, etcdVars, goVars, manVars, mainVars,
         bounds, ApiType, PodType, EtcdType, GoType, ManType, PassType, BoundType

\* Every reachable state is well typed and within the bounds.
THEOREM TypeCorrect == Spec => []TypeOK
  <1>1. TypeOK /\ [Next]_vars => TypeOK'
    BY MainType, GoroutineType, EnvironmentType, StutterType DEF Next
  <1> QED
    BY InitType, <1>1, PTL DEF Spec

\* Initially the invariant holds.
LEMMA InitMembership == Init => MembershipInv
  BY NoneAssumption
  DEF NoneAssumption, Init, MembershipInv, ReconcileExclusive, EnsembleHomes,
      NothingUnseen, ViewOfMembers, TargetSet, JoinsExactMembership, HeldPc,
      SetupPc, LoopPc

\* Giving out the name n forgets clusters without pods only, and no list
\* that is kept mentions n.
LEMMA ForgetFresh ==
    ASSUME TypeOK, NEW n \in Fresh
    PROVE  /\ n \in Name /\ n \notin members /\ ~ Alive(n)
           /\ \A s \in Name : Inhabited(s) => s # n /\ Forget(n)[s] = ensemble[s]
           /\ \A s \in Name : Forget(n)[s] \subseteq ensemble[s] \ {n}
           /\ Forget(n) \in [Name -> SUBSET Name]
  BY ForgetType DEF TypeOK, EtcdType, Fresh, Forget, Alive

\* A cluster with a live pod is inhabited.
LEMMA AliveInhabits ==
    ASSUME NEW n \in Name, Alive(n), home[n] \in Name
    PROVE  Inhabited(home[n])
  BY DEF Alive, Inhabited

\* The steps of a goroutine keep the invariant.
LEMMA GoroutineMembership ==
    ASSUME TypeOK, MembershipInv, NEW g \in Gor, Goroutine(g)
    PROVE  MembershipInv'
  <1> USE NoneAssumption
      DEF MembershipInv, apiVars, podVars, etcdVars, goVars, manVars, mainVars,
          bounds, NoneAssumption
  <1> g # None
    OBVIOUS
  <1> pc \in [Gor -> GoPc] /\ lock \in Gor \cup {None} /\ rerr \in BOOLEAN
    BY DEF TypeOK, GoType, ManType
  <1> /\ pod \in [Name -> PodPhase] /\ home \in [Name -> Name]
      /\ ensemble \in [Name -> SUBSET Name]
      /\ members \subseteq Name /\ polled \subseteq Name /\ target \in Name \cup {None}
    BY DEF TypeOK, PodType, EtcdType, ManType
  <1>1. CASE setSyncing(g)
    <2>1. ReconcileExclusive'
      BY <1>1 DEF setSyncing, ReconcileExclusive, HeldPc, SetupPc, LoopPc,
        Goto, GoPc
    <2>2. EnsembleHomes'
      BY <1>1 DEF setSyncing, EnsembleHomes
    <2>3. NothingUnseen'
      BY <1>1 DEF setSyncing, NothingUnseen, ReconcileExclusive, HeldPc,
        SetupPc, LoopPc, Goto, Alive
    <2>4. ViewOfMembers'
      BY <1>1 DEF setSyncing, ViewOfMembers, NothingUnseen, TargetSet,
        ReconcileExclusive, HeldPc, SetupPc, LoopPc, Goto, Alive
    <2>5. TargetSet'
      BY <1>1 DEF setSyncing, TargetSet, ReconcileExclusive, HeldPc, SetupPc,
        LoopPc, Goto
    <2>6. JoinsExactMembership'
      BY <1>1 DEF setSyncing, JoinsExactMembership, ReconcileExclusive,
        HeldPc, SetupPc, LoopPc, Goto
    <2> QED
      BY <2>1, <2>2, <2>3, <2>4, <2>5, <2>6
  <1>2. CASE Acquire(g)
    <2>1. ReconcileExclusive'
      BY <1>2 DEF Acquire, ReconcileExclusive, HeldPc, SetupPc, LoopPc, Goto,
        GoPc, TryLock
    <2>2. EnsembleHomes'
      BY <1>2 DEF Acquire, EnsembleHomes, TryLock
    <2>3. NothingUnseen'
      BY <1>2 DEF Acquire, NothingUnseen, ReconcileExclusive, HeldPc, SetupPc,
        LoopPc, Goto, Alive, TryLock
    <2>4. ViewOfMembers'
      BY <1>2 DEF Acquire, ViewOfMembers, NothingUnseen, TargetSet,
        ReconcileExclusive, HeldPc, SetupPc, LoopPc, Goto, Alive, TryLock
    <2>5. TargetSet'
      BY <1>2 DEF Acquire, TargetSet, ReconcileExclusive, HeldPc, SetupPc,
        LoopPc, Goto, TryLock
    <2>6. JoinsExactMembership'
      BY <1>2 DEF Acquire, JoinsExactMembership, ReconcileExclusive, HeldPc,
        SetupPc, LoopPc, Goto, TryLock
    <2> QED
      BY <2>1, <2>2, <2>3, <2>4, <2>5, <2>6
  <1>3. CASE create(g)
    <2>1. ReconcileExclusive'
      BY <1>3 DEF create, ReconcileExclusive, HeldPc, SetupPc, LoopPc, Goto,
        GoPc, Written, NotWritten
    <2>2. EnsembleHomes'
      BY <1>3 DEF create, EnsembleHomes, Written, NotWritten
    <2>3. NothingUnseen'
      BY <1>3 DEF create, NothingUnseen, ReconcileExclusive, HeldPc, SetupPc,
        LoopPc, Goto, Alive, Written, NotWritten
    <2>4. ViewOfMembers'
      BY <1>3 DEF create, ViewOfMembers, NothingUnseen, TargetSet,
        ReconcileExclusive, HeldPc, SetupPc, LoopPc, Goto, Alive, Written,
        NotWritten
    <2>5. TargetSet'
      BY <1>3 DEF create, TargetSet, ReconcileExclusive, HeldPc, SetupPc,
        LoopPc, Goto, Written, NotWritten
    <2>6. JoinsExactMembership'
      BY <1>3 DEF create, JoinsExactMembership, ReconcileExclusive, HeldPc,
        SetupPc, LoopPc, Goto, Written, NotWritten
    <2> QED
      BY <2>1, <2>2, <2>3, <2>4, <2>5, <2>6
  <1>4. CASE startSeedMember(g)
    <2>1. ReconcileExclusive'
      BY <1>4 DEF startSeedMember, ReconcileExclusive, HeldPc, SetupPc,
        LoopPc, Goto, GoPc, createPod
    <2>2. EnsembleHomes'
      <3>1. CASE UNCHANGED etcdVars
        BY <3>1 DEF EnsembleHomes
      <3>2. ASSUME NEW n \in Fresh,
                   home' = [home EXCEPT ![n] = n],
                   ensemble' = [Forget(n) EXCEPT ![n] = {n}]
            PROVE  EnsembleHomes'
        BY <3>2, ForgetFresh DEF EnsembleHomes
      <3> QED
        BY <1>4, <3>1, <3>2 DEF startSeedMember
    <2>3. NothingUnseen'
      BY <1>4 DEF startSeedMember, NothingUnseen, ReconcileExclusive, HeldPc,
        SetupPc, LoopPc, Goto, Alive, createPod
    <2>4. ViewOfMembers'
      <3>1. \A m \in members : Alive(m) => members \subseteq ensemble[home[m]]
        BY <1>4 DEF startSeedMember, ViewOfMembers, ReconcileExclusive, HeldPc, SetupPc
      <3>2. CASE UNCHANGED <<pod, home, ensemble, members>>
        BY <3>1, <3>2 DEF ViewOfMembers, Alive
      <3>3. ASSUME NEW n \in Fresh, createPod(n),
                   home' = [home EXCEPT ![n] = n],
                   ensemble' = [Forget(n) EXCEPT ![n] = {n}]
            PROVE  members' = {n} \/ members' = members => ViewOfMembers'
        <4>1. n \in Name /\ Forget(n) \in [Name -> SUBSET Name]
          BY ForgetFresh
        <4>2. CASE members' = {n}
          <5>1. home'[n] = n /\ ensemble'[n] = {n}
            BY <3>3, <4>1
          <5> QED
            BY <4>2, <5>1 DEF ViewOfMembers
        <4>3. CASE members' = members
          <5> SUFFICES ASSUME NEW m \in members, Alive(m)'
                       PROVE  members \subseteq ensemble'[home'[m]]
            BY <4>3 DEF ViewOfMembers
          <5>1. m # n
            BY ForgetFresh
          <5>2. Alive(m) /\ home'[m] = home[m]
            BY <3>3, <4>1, <5>1 DEF createPod, Alive
          <5>3. home[m] \in Name /\ Inhabited(home[m])
            BY <5>2, AliveInhabits
          <5>4. ensemble'[home[m]] = ensemble[home[m]]
            BY <3>3, <5>3, ForgetFresh
          <5> QED
            BY <3>1, <5>2, <5>4
        <4> QED
          BY <4>2, <4>3
      <3> QED
        BY <1>4, <3>2, <3>3 DEF startSeedMember
    <2>5. TargetSet'
      BY <1>4 DEF startSeedMember, TargetSet, ReconcileExclusive, HeldPc,
        SetupPc, LoopPc, Goto, createPod
    <2>6. JoinsExactMembership'
      BY <1>4 DEF startSeedMember, JoinsExactMembership, ReconcileExclusive,
        HeldPc, SetupPc, LoopPc, Goto, createPod
    <2> QED
      BY <2>1, <2>2, <2>3, <2>4, <2>5, <2>6
  <1>5. CASE setupFailed(g)
    <2>1. ReconcileExclusive'
      BY <1>5 DEF setupFailed, ReconcileExclusive, HeldPc, SetupPc, LoopPc,
        Goto, GoPc, updateEtcdStatus, Written, NotWritten
    <2>2. EnsembleHomes'
      BY <1>5 DEF setupFailed, EnsembleHomes, updateEtcdStatus, Written,
        NotWritten
    <2>3. NothingUnseen'
      BY <1>5 DEF setupFailed, NothingUnseen, ReconcileExclusive, HeldPc,
        SetupPc, LoopPc, Goto, Alive, updateEtcdStatus, Written, NotWritten
    <2>4. ViewOfMembers'
      BY <1>5 DEF setupFailed, ViewOfMembers, NothingUnseen, TargetSet,
        ReconcileExclusive, HeldPc, SetupPc, LoopPc, Goto, Alive,
        updateEtcdStatus, Written, NotWritten
    <2>5. TargetSet'
      BY <1>5 DEF setupFailed, TargetSet, ReconcileExclusive, HeldPc, SetupPc,
        LoopPc, Goto, updateEtcdStatus, Written, NotWritten
    <2>6. JoinsExactMembership'
      BY <1>5 DEF setupFailed, JoinsExactMembership, ReconcileExclusive,
        HeldPc, SetupPc, LoopPc, Goto, updateEtcdStatus, Written, NotWritten
    <2> QED
      BY <2>1, <2>2, <2>3, <2>4, <2>5, <2>6
  <1>6. CASE runBegin(g)
    <2>1. ReconcileExclusive'
      BY <1>6 DEF runBegin, ReconcileExclusive, HeldPc, SetupPc, LoopPc, Goto,
        GoPc, updateEtcdStatus, Written, NotWritten
    <2>2. EnsembleHomes'
      BY <1>6 DEF runBegin, EnsembleHomes, updateEtcdStatus, Written,
        NotWritten
    <2>3. NothingUnseen'
      BY <1>6 DEF runBegin, NothingUnseen, ReconcileExclusive, HeldPc,
        SetupPc, LoopPc, Goto, Alive, updateEtcdStatus, Written, NotWritten
    <2>4. ViewOfMembers'
      BY <1>6 DEF runBegin, ViewOfMembers, NothingUnseen, TargetSet,
        ReconcileExclusive, HeldPc, SetupPc, LoopPc, Goto, Alive,
        updateEtcdStatus, Written, NotWritten
    <2>5. TargetSet'
      BY <1>6 DEF runBegin, TargetSet, ReconcileExclusive, HeldPc, SetupPc,
        LoopPc, Goto, updateEtcdStatus, Written, NotWritten
    <2>6. JoinsExactMembership'
      BY <1>6 DEF runBegin, JoinsExactMembership, ReconcileExclusive, HeldPc,
        SetupPc, LoopPc, Goto, updateEtcdStatus, Written, NotWritten
    <2> QED
      BY <2>1, <2>2, <2>3, <2>4, <2>5, <2>6
  <1>7. CASE pollPods(g)
    <2>1. ReconcileExclusive'
      BY <1>7 DEF pollPods, ReconcileExclusive, HeldPc, SetupPc, LoopPc, Goto,
        GoPc, removePods, InPhase, Settled, NeedsList
    <2>2. EnsembleHomes'
      BY <1>7 DEF pollPods, EnsembleHomes, removePods, InPhase, Settled,
        NeedsList
    <2>3. NothingUnseen'
      BY <1>7 DEF pollPods, NothingUnseen, ReconcileExclusive, HeldPc,
        SetupPc, LoopPc, Goto, Alive, removePods, InPhase, Settled, NeedsList
    <2>4. ViewOfMembers'
      BY <1>7 DEF pollPods, ViewOfMembers, NothingUnseen, TargetSet,
        ReconcileExclusive, HeldPc, SetupPc, LoopPc, Goto, Alive, removePods,
        InPhase, Settled, NeedsList
    <2>5. TargetSet'
      BY <1>7 DEF pollPods, TargetSet, ReconcileExclusive, HeldPc, SetupPc,
        LoopPc, Goto, removePods, InPhase, Settled, NeedsList
    <2>6. JoinsExactMembership'
      BY <1>7 DEF pollPods, JoinsExactMembership, ReconcileExclusive, HeldPc,
        SetupPc, LoopPc, Goto, removePods, InPhase, Settled, NeedsList
    <2> QED
      BY <2>1, <2>2, <2>3, <2>4, <2>5, <2>6
  <1>8. CASE allDead(g)
    <2>1. ReconcileExclusive'
      BY <1>8 DEF allDead, ReconcileExclusive, HeldPc, SetupPc, LoopPc, Goto,
        GoPc, updateEtcdStatus, Written, NotWritten
    <2>2. EnsembleHomes'
      BY <1>8 DEF allDead, EnsembleHomes, updateEtcdStatus, Written,
        NotWritten
    <2>3. NothingUnseen'
      BY <1>8 DEF allDead, NothingUnseen, ReconcileExclusive, HeldPc, SetupPc,
        LoopPc, Goto, Alive, updateEtcdStatus, Written, NotWritten
    <2>4. ViewOfMembers'
      BY <1>8 DEF allDead, ViewOfMembers, NothingUnseen, TargetSet,
        ReconcileExclusive, HeldPc, SetupPc, LoopPc, Goto, Alive,
        updateEtcdStatus, Written, NotWritten
    <2>5. TargetSet'
      BY <1>8 DEF allDead, TargetSet, ReconcileExclusive, HeldPc, SetupPc,
        LoopPc, Goto, updateEtcdStatus, Written, NotWritten
    <2>6. JoinsExactMembership'
      BY <1>8 DEF allDead, JoinsExactMembership, ReconcileExclusive, HeldPc,
        SetupPc, LoopPc, Goto, updateEtcdStatus, Written, NotWritten
    <2> QED
      BY <2>1, <2>2, <2>3, <2>4, <2>5, <2>6
  <1>9. CASE updateMembers(g)
    <2>1. ReconcileExclusive'
      BY <1>9 DEF updateMembers, ReconcileExclusive, HeldPc, SetupPc, LoopPc,
        Goto, GoPc, EndTick
    <2>2. EnsembleHomes'
      BY <1>9 DEF updateMembers, EnsembleHomes, EndTick
    <2>3. NothingUnseen'
      BY <1>9 DEF updateMembers, NothingUnseen, ReconcileExclusive, HeldPc,
        SetupPc, LoopPc, Goto, Alive, EndTick
    <2>4. ViewOfMembers'
      BY <1>9 DEF updateMembers, ViewOfMembers, EnsembleHomes,
        ReconcileExclusive, HeldPc, SetupPc, LoopPc, Goto, Alive, EndTick
    <2>5. TargetSet'
      BY <1>9 DEF updateMembers, TargetSet, ReconcileExclusive, HeldPc,
        SetupPc, LoopPc, Goto, EndTick
    <2>6. JoinsExactMembership'
      BY <1>9 DEF updateMembers, JoinsExactMembership, ReconcileExclusive,
        HeldPc, SetupPc, LoopPc, Goto, EndTick
    <2> QED
      BY <2>1, <2>2, <2>3, <2>4, <2>5, <2>6
  <1>10. CASE reconcileVersion(g)
    <2>1. ReconcileExclusive'
      BY <1>10 DEF reconcileVersion, ReconcileExclusive, HeldPc, SetupPc,
        LoopPc, Goto, GoPc, OldPods
    <2>2. EnsembleHomes'
      BY <1>10 DEF reconcileVersion, EnsembleHomes, OldPods
    <2>3. NothingUnseen'
      BY <1>10 DEF reconcileVersion, NothingUnseen, ReconcileExclusive,
        HeldPc, SetupPc, LoopPc, Goto, Alive, OldPods
    <2>4. ViewOfMembers'
      BY <1>10 DEF reconcileVersion, ViewOfMembers, NothingUnseen, TargetSet,
        ReconcileExclusive, HeldPc, SetupPc, LoopPc, Goto, Alive, OldPods
    <2>5. TargetSet'
      BY <1>10 DEF reconcileVersion, TargetSet, ReconcileExclusive, HeldPc,
        SetupPc, LoopPc, Goto, OldPods
    <2>6. JoinsExactMembership'
      BY <1>10 DEF reconcileVersion, JoinsExactMembership, ReconcileExclusive,
        HeldPc, SetupPc, LoopPc, Goto, OldPods
    <2> QED
      BY <2>1, <2>2, <2>3, <2>4, <2>5, <2>6
  <1>11. CASE reconcileMembers(g)
    <2>1. ReconcileExclusive'
      BY <1>11 DEF reconcileMembers, ReconcileExclusive, HeldPc, SetupPc,
        LoopPc, Goto, GoPc, removePods, NextRepair, EndTick
    <2>2. EnsembleHomes'
      BY <1>11 DEF reconcileMembers, EnsembleHomes, removePods, NextRepair,
        EndTick
    <2>3. NothingUnseen'
      BY <1>11 DEF reconcileMembers, NothingUnseen, ReconcileExclusive,
        HeldPc, SetupPc, LoopPc, Goto, Alive, removePods, NextRepair, EndTick
    <2>4. ViewOfMembers'
      BY <1>11 DEF reconcileMembers, ViewOfMembers, NothingUnseen, TargetSet,
        ReconcileExclusive, HeldPc, SetupPc, LoopPc, Goto, Alive, removePods,
        NextRepair, EndTick
    <2>5. TargetSet'
      BY <1>11 DEF reconcileMembers, TargetSet, ReconcileExclusive, HeldPc,
        SetupPc, LoopPc, Goto, removePods, NextRepair, EndTick
    <2>6. JoinsExactMembership'
      BY <1>11 DEF reconcileMembers, JoinsExactMembership, ReconcileExclusive,
        HeldPc, SetupPc, LoopPc, Goto, removePods, NextRepair, EndTick
    <2> QED
      BY <2>1, <2>2, <2>3, <2>4, <2>5, <2>6
  <1>12. CASE MemberAdd(g)
    <2>1. ReconcileExclusive'
      BY <1>12 DEF MemberAdd, ReconcileExclusive, HeldPc, SetupPc, LoopPc,
        Goto, GoPc, EndTick, rememberMember
    <2>2. EnsembleHomes'
      <3>1. CASE UNCHANGED etcdVars
        BY <3>1 DEF EnsembleHomes
      <3>2. ASSUME NEW m \in members, NEW n \in Fresh, pod[m] = "Running",
                   home' = [home EXCEPT ![n] = home[m]],
                   ensemble' = [Forget(n) EXCEPT ![home[m]] = @ \cup {n}]
            PROVE  EnsembleHomes'
        <4>1. home[m] \in Name /\ Inhabited(home[m])
          BY <3>2, AliveInhabits DEF Alive
        <4>2. n \in Name /\ home[m] # n /\ Forget(n) \in [Name -> SUBSET Name]
          BY <4>1, ForgetFresh
        <4> SUFFICES ASSUME NEW s \in Name, NEW x \in ensemble'[s]
                     PROVE  home'[x] = s
          BY DEF EnsembleHomes
        <4>3. CASE x = n
          <5>1. s = home[m]
            BY <3>2, <4>1, <4>2, <4>3, ForgetFresh
          <5> QED
            BY <3>2, <4>2, <4>3, <5>1
        <4>4. CASE x # n
          <5>1. x \in ensemble[s]
            BY <3>2, <4>1, <4>2, <4>4, ForgetFresh
          <5> QED
            BY <3>2, <4>4, <5>1 DEF EnsembleHomes
        <4> QED
          BY <4>3, <4>4
      <3> QED
        BY <1>12, <3>1, <3>2 DEF MemberAdd
    <2>3. NothingUnseen'
      BY <1>12 DEF MemberAdd, NothingUnseen, ReconcileExclusive, HeldPc,
        SetupPc, LoopPc, Goto, Alive, EndTick, rememberMember
    <2>4. ViewOfMembers'
      <3>1. \A m \in members : Alive(m) => members \subseteq ensemble[home[m]]
        BY <1>12 DEF MemberAdd, ViewOfMembers, ReconcileExclusive, HeldPc, LoopPc
      <3>2. ASSUME NEW m \in members, NEW n \in Fresh, pod[m] = "Running",
                   AddAllowed(home[m]), rememberMember(n), target' = n,
                   home' = [home EXCEPT ![n] = home[m]],
                   ensemble' = [Forget(n) EXCEPT ![home[m]] = @ \cup {n}]
            PROVE  ViewOfMembers'
        <4>1. home[m] \in Name /\ Inhabited(home[m])
          BY <3>2, AliveInhabits DEF Alive
        <4>2. /\ n \in Name /\ home[m] # n /\ Forget(n) \in [Name -> SUBSET Name]
              /\ n \notin members /\ ~ Alive(n) /\ Forget(n)[home[m]] = ensemble[home[m]]
          BY <4>1, ForgetFresh
        <4>3. /\ home'[n] = home[m]
              /\ ensemble'[home[m]] = ensemble[home[m]] \cup {n}
          BY <3>2, <4>1, <4>2
        <4>4. members \subseteq ensemble[home[m]]
          BY <3>1, <3>2 DEF Alive
        <4> SUFFICES ASSUME NEW x \in members', Alive(x)'
                     PROVE  members' \subseteq ensemble'[home'[x]]
          BY DEF ViewOfMembers
        <4>5. x \in members /\ x # n
          BY <1>12, <3>2, <4>2 DEF MemberAdd, rememberMember, Alive
        <4>6. home'[x] = home[m]
          BY <3>2, <4>1, <4>4, <4>5 DEF EnsembleHomes
        <4> QED
          BY <3>2, <4>3, <4>4, <4>6 DEF rememberMember
      <3>3. CASE EndTick(g, TRUE)
        BY <1>12, <3>3 DEF MemberAdd, EndTick, Goto, ViewOfMembers,
                           ReconcileExclusive, HeldPc, LoopPc
      <3> QED
        BY <1>12, <3>2, <3>3 DEF MemberAdd
    <2>5. TargetSet'
      BY <1>12 DEF MemberAdd, TargetSet, ReconcileExclusive, HeldPc, SetupPc,
        LoopPc, Goto, EndTick, rememberMember
    <2>6. JoinsExactMembership'
      <3>1. \A m \in members : Alive(m) => members \subseteq ensemble[home[m]]
        BY <1>12 DEF MemberAdd, ViewOfMembers, ReconcileExclusive, HeldPc, LoopPc
      <3>2. ASSUME NEW m \in members, NEW n \in Fresh, pod[m] = "Running",
                   AddAllowed(home[m]), rememberMember(n), target' = n,
                   home' = [home EXCEPT ![n] = home[m]],
                   ensemble' = [Forget(n) EXCEPT ![home[m]] = @ \cup {n}]
            PROVE  members' = ensemble'[home'[target']]
        <4>1. home[m] \in Name /\ Inhabited(home[m])
          BY <3>2, AliveInhabits DEF Alive
        <4>2. /\ n \in Name /\ home[m] # n /\ Forget(n) \in [Name -> SUBSET Name]
              /\ n \notin members /\ ~ Alive(n) /\ Forget(n)[home[m]] = ensemble[home[m]]
          BY <4>1, ForgetFresh
        <4>3. /\ home'[n] = home[m]
              /\ ensemble'[home[m]] = ensemble[home[m]] \cup {n}
          BY <3>2, <4>1, <4>2
        <4>4. members \subseteq ensemble[home[m]]
          BY <3>1, <3>2 DEF Alive
        <4>5. ensemble[home[m]] \subseteq members
          BY <1>12, <3>2, <4>1
          DEF MemberAdd, AddAllowed, Serving, NothingUnseen, Alive
        <4> QED
          BY <3>2, <4>3, <4>4, <4>5 DEF rememberMember
      <3>3. CASE EndTick(g, TRUE)
        BY <1>12, <3>3 DEF MemberAdd, EndTick, Goto, JoinsExactMembership,
                           ReconcileExclusive, HeldPc, LoopPc
      <3>4. ASSUME NEW h \in Gor, pc'[h] = "addPod" PROVE h = g
        BY <1>12, <3>4 DEF MemberAdd, Goto, EndTick, ReconcileExclusive, HeldPc, LoopPc
      <3> QED
        BY <1>12, <3>2, <3>3, <3>4 DEF MemberAdd, JoinsExactMembership
    <2> QED
      BY <2>1, <2>2, <2>3, <2>4, <2>5, <2>6
  <1>13. CASE createMemberPod(g)
    <2>1. ReconcileExclusive'
      BY <1>13 DEF createMemberPod, ReconcileExclusive, HeldPc, SetupPc,
        LoopPc, Goto, GoPc, createPod, EndTick
    <2>2. EnsembleHomes'
      BY <1>13 DEF createMemberPod, EnsembleHomes, createPod, EndTick
    <2>3. NothingUnseen'
      BY <1>13 DEF createMemberPod, NothingUnseen, ReconcileExclusive, HeldPc,
        SetupPc, LoopPc, Goto, Alive, createPod, EndTick
    <2>4. ViewOfMembers'
      BY <1>13 DEF createMemberPod, ViewOfMembers, JoinsExactMembership, TargetSet,
        ReconcileExclusive, HeldPc, SetupPc, LoopPc, Goto, Alive, createPod,
        EndTick
    <2>5. TargetSet'
      BY <1>13 DEF createMemberPod, TargetSet, ReconcileExclusive, HeldPc,
        SetupPc, LoopPc, Goto, createPod, EndTick
    <2>6. JoinsExactMembership'
      BY <1>13 DEF createMemberPod, JoinsExactMembership, ReconcileExclusive,
        HeldPc, SetupPc, LoopPc, Goto, createPod, EndTick
    <2> QED
      BY <2>1, <2>2, <2>3, <2>4, <2>5, <2>6
  <1>14. CASE MemberRemove(g)
    <2>1. ReconcileExclusive'
      BY <1>14 DEF MemberRemove, ReconcileExclusive, HeldPc, SetupPc, LoopPc,
        Goto, GoPc, EndTick
    <2>2. EnsembleHomes'
      BY <1>14 DEF MemberRemove, EnsembleHomes, EndTick
    <2>3. NothingUnseen'
      BY <1>14 DEF MemberRemove, NothingUnseen, ReconcileExclusive, HeldPc,
        SetupPc, LoopPc, Goto, Alive, EndTick
    <2>4. ViewOfMembers'
      BY <1>14 DEF MemberRemove, ViewOfMembers, NothingUnseen, TargetSet,
        ReconcileExclusive, HeldPc, SetupPc, LoopPc, Goto, Alive, EndTick
    <2>5. TargetSet'
      BY <1>14 DEF MemberRemove, TargetSet, ReconcileExclusive, HeldPc,
        SetupPc, LoopPc, Goto, EndTick
    <2>6. JoinsExactMembership'
      BY <1>14 DEF MemberRemove, JoinsExactMembership, ReconcileExclusive,
        HeldPc, SetupPc, LoopPc, Goto, EndTick
    <2> QED
      BY <2>1, <2>2, <2>3, <2>4, <2>5, <2>6
  <1>15. CASE removeMemberPod(g)
    <2>1. ReconcileExclusive'
      BY <1>15 DEF removeMemberPod, ReconcileExclusive, HeldPc, SetupPc,
        LoopPc, Goto, GoPc, removePod, removePods, EndTick
    <2>2. EnsembleHomes'
      BY <1>15 DEF removeMemberPod, EnsembleHomes, removePod, removePods,
        EndTick
    <2>3. NothingUnseen'
      BY <1>15 DEF removeMemberPod, NothingUnseen, ReconcileExclusive, HeldPc,
        SetupPc, LoopPc, Goto, Alive, removePod, removePods, EndTick
    <2>4. ViewOfMembers'
      BY <1>15 DEF removeMemberPod, ViewOfMembers, NothingUnseen, TargetSet,
        ReconcileExclusive, HeldPc, SetupPc, LoopPc, Goto, Alive, removePod,
        removePods, EndTick
    <2>5. TargetSet'
      BY <1>15 DEF removeMemberPod, TargetSet, ReconcileExclusive, HeldPc,
        SetupPc, LoopPc, Goto, removePod, removePods, EndTick
    <2>6. JoinsExactMembership'
      BY <1>15 DEF removeMemberPod, JoinsExactMembership, ReconcileExclusive,
        HeldPc, SetupPc, LoopPc, Goto, removePod, removePods, EndTick
    <2> QED
      BY <2>1, <2>2, <2>3, <2>4, <2>5, <2>6
  <1>16. CASE cleanAllMembers(g)
    <2>1. ReconcileExclusive'
      BY <1>16 DEF cleanAllMembers, ReconcileExclusive, HeldPc, SetupPc,
        LoopPc, Goto, GoPc, removePods, EndTick
    <2>2. EnsembleHomes'
      BY <1>16 DEF cleanAllMembers, EnsembleHomes, removePods, EndTick
    <2>3. NothingUnseen'
      BY <1>16 DEF cleanAllMembers, NothingUnseen, ReconcileExclusive, HeldPc,
        SetupPc, LoopPc, Goto, Alive, removePods, EndTick
    <2>4. ViewOfMembers'
      BY <1>16 DEF cleanAllMembers, ViewOfMembers, NothingUnseen, TargetSet,
        ReconcileExclusive, HeldPc, SetupPc, LoopPc, Goto, Alive, removePods,
        EndTick
    <2>5. TargetSet'
      BY <1>16 DEF cleanAllMembers, TargetSet, ReconcileExclusive, HeldPc,
        SetupPc, LoopPc, Goto, removePods, EndTick
    <2>6. JoinsExactMembership'
      BY <1>16 DEF cleanAllMembers, JoinsExactMembership, ReconcileExclusive,
        HeldPc, SetupPc, LoopPc, Goto, removePods, EndTick
    <2> QED
      BY <2>1, <2>2, <2>3, <2>4, <2>5, <2>6
  <1>17. CASE restart(g)
    <2>1. ReconcileExclusive'
      BY <1>17 DEF restart, ReconcileExclusive, HeldPc, SetupPc, LoopPc, Goto,
        GoPc, Written, NotWritten, Idle, EndTick
    <2>2. EnsembleHomes'
      BY <1>17 DEF restart, EnsembleHomes, Written, NotWritten, Idle, EndTick
    <2>3. NothingUnseen'
      BY <1>17 DEF restart, NothingUnseen, ReconcileExclusive, HeldPc,
        SetupPc, LoopPc, Goto, Alive, Written, NotWritten, Idle, EndTick
    <2>4. ViewOfMembers'
      BY <1>17 DEF restart, ViewOfMembers, NothingUnseen, TargetSet,
        ReconcileExclusive, HeldPc, SetupPc, LoopPc, Goto, Alive, Written,
        NotWritten, Idle, EndTick
    <2>5. TargetSet'
      BY <1>17 DEF restart, TargetSet, ReconcileExclusive, HeldPc, SetupPc,
        LoopPc, Goto, Written, NotWritten, Idle, EndTick
    <2>6. JoinsExactMembership'
      BY <1>17 DEF restart, JoinsExactMembership, ReconcileExclusive, HeldPc,
        SetupPc, LoopPc, Goto, Written, NotWritten, Idle, EndTick
    <2> QED
      BY <2>1, <2>2, <2>3, <2>4, <2>5, <2>6
  <1>18. CASE upgradeOneMember(g)
    <2>1. ReconcileExclusive'
      BY <1>18 DEF upgradeOneMember, ReconcileExclusive, HeldPc, SetupPc,
        LoopPc, Goto, GoPc, EndTick
    <2>2. EnsembleHomes'
      BY <1>18 DEF upgradeOneMember, EnsembleHomes, EndTick
    <2>3. NothingUnseen'
      BY <1>18 DEF upgradeOneMember, NothingUnseen, ReconcileExclusive,
        HeldPc, SetupPc, LoopPc, Goto, Alive, EndTick
    <2>4. ViewOfMembers'
      BY <1>18 DEF upgradeOneMember, ViewOfMembers, NothingUnseen, TargetSet,
        ReconcileExclusive, HeldPc, SetupPc, LoopPc, Goto, Alive, EndTick
    <2>5. TargetSet'
      BY <1>18 DEF upgradeOneMember, TargetSet, ReconcileExclusive, HeldPc,
        SetupPc, LoopPc, Goto, EndTick
    <2>6. JoinsExactMembership'
      BY <1>18 DEF upgradeOneMember, JoinsExactMembership, ReconcileExclusive,
        HeldPc, SetupPc, LoopPc, Goto, EndTick
    <2> QED
      BY <2>1, <2>2, <2>3, <2>4, <2>5, <2>6
  <1>19. CASE periodicStatus(g)
    <2>1. ReconcileExclusive'
      BY <1>19 DEF periodicStatus, ReconcileExclusive, HeldPc, SetupPc,
        LoopPc, Goto, GoPc, updateEtcdStatus, Written, NotWritten, EndTick
    <2>2. EnsembleHomes'
      BY <1>19 DEF periodicStatus, EnsembleHomes, updateEtcdStatus, Written,
        NotWritten, EndTick
    <2>3. NothingUnseen'
      BY <1>19 DEF periodicStatus, NothingUnseen, ReconcileExclusive, HeldPc,
        SetupPc, LoopPc, Goto, Alive, updateEtcdStatus, Written, NotWritten,
        EndTick
    <2>4. ViewOfMembers'
      BY <1>19 DEF periodicStatus, ViewOfMembers, NothingUnseen, TargetSet,
        ReconcileExclusive, HeldPc, SetupPc, LoopPc, Goto, Alive,
        updateEtcdStatus, Written, NotWritten, EndTick
    <2>5. TargetSet'
      BY <1>19 DEF periodicStatus, TargetSet, ReconcileExclusive, HeldPc,
        SetupPc, LoopPc, Goto, updateEtcdStatus, Written, NotWritten, EndTick
    <2>6. JoinsExactMembership'
      BY <1>19 DEF periodicStatus, JoinsExactMembership, ReconcileExclusive,
        HeldPc, SetupPc, LoopPc, Goto, updateEtcdStatus, Written, NotWritten,
        EndTick
    <2> QED
      BY <2>1, <2>2, <2>3, <2>4, <2>5, <2>6
  <1>20. CASE unlock(g)
    <2>1. ReconcileExclusive'
      BY <1>20 DEF unlock, ReconcileExclusive, HeldPc, SetupPc, LoopPc, Goto,
        GoPc
    <2>2. EnsembleHomes'
      BY <1>20 DEF unlock, EnsembleHomes
    <2>3. NothingUnseen'
      BY <1>20 DEF unlock, NothingUnseen, ReconcileExclusive, HeldPc, SetupPc,
        LoopPc, Goto, Alive
    <2>4. ViewOfMembers'
      BY <1>20 DEF unlock, ViewOfMembers, NothingUnseen, TargetSet,
        ReconcileExclusive, HeldPc, SetupPc, LoopPc, Goto, Alive
    <2>5. TargetSet'
      BY <1>20 DEF unlock, TargetSet, ReconcileExclusive, HeldPc, SetupPc,
        LoopPc, Goto
    <2>6. JoinsExactMembership'
      BY <1>20 DEF unlock, JoinsExactMembership, ReconcileExclusive, HeldPc,
        SetupPc, LoopPc, Goto
    <2> QED
      BY <2>1, <2>2, <2>3, <2>4, <2>5, <2>6
  <1>21. CASE setUnsync(g)
    <2>1. ReconcileExclusive'
      BY <1>21 DEF setUnsync, ReconcileExclusive, HeldPc, SetupPc, LoopPc,
        Goto, GoPc
    <2>2. EnsembleHomes'
      BY <1>21 DEF setUnsync, EnsembleHomes
    <2>3. NothingUnseen'
      BY <1>21 DEF setUnsync, NothingUnseen, ReconcileExclusive, HeldPc,
        SetupPc, LoopPc, Goto, Alive
    <2>4. ViewOfMembers'
      BY <1>21 DEF setUnsync, ViewOfMembers, NothingUnseen, TargetSet,
        ReconcileExclusive, HeldPc, SetupPc, LoopPc, Goto, Alive
    <2>5. TargetSet'
      BY <1>21 DEF setUnsync, TargetSet, ReconcileExclusive, HeldPc, SetupPc,
        LoopPc, Goto
    <2>6. JoinsExactMembership'
      BY <1>21 DEF setUnsync, JoinsExactMembership, ReconcileExclusive,
        HeldPc, SetupPc, LoopPc, Goto
    <2> QED
      BY <2>1, <2>2, <2>3, <2>4, <2>5, <2>6
  <1> QED
    BY <1>1, <1>2, <1>3, <1>4, <1>5, <1>6, <1>7, <1>8, <1>9, <1>10, <1>11,
       <1>12, <1>13, <1>14, <1>15, <1>16, <1>17, <1>18, <1>19, <1>20, <1>21
       DEF Goroutine, Setup, Loop, Repair, Leave

\* The steps of the controller worker keep the invariant: the goroutine that
\* it may start does not hold the lock.
LEMMA MainMembership == ASSUME TypeOK, MembershipInv, Main PROVE MembershipInv'
  <1> USE NoneAssumption DEF NoneAssumption
  <1>1. pc \in [Gor -> GoPc] /\ lock \in Gor \cup {None}
    BY DEF TypeOK, GoType
  <1>2. /\ UNCHANGED <<podVars, etcdVars, lock, manVars>>
        /\ UNCHANGED pc \/ \E h \in Idle : Goto(h, "started")
    BY DEF Main, MainRead, SyncUnchanged, SyncFixed, SyncFailed, MainEnd, Spawn, goVars
  <1>3. \A h \in Gor : pc'[h] = pc[h] \/ (pc[h] \notin HeldPc /\ pc'[h] = "started")
    BY <1>1, <1>2 DEF Goto, Idle, HeldPc, SetupPc, LoopPc
  <1>4. ReconcileExclusive'
    BY <1>2, <1>3 DEF MembershipInv, ReconcileExclusive, HeldPc, SetupPc, LoopPc
  <1>5. EnsembleHomes' /\ NothingUnseen'
    BY <1>2, <1>3
    DEF MembershipInv, EnsembleHomes, NothingUnseen, Alive, podVars, etcdVars, manVars
  <1>6. ViewOfMembers'
    BY <1>1, <1>2, <1>3
    DEF MembershipInv, ViewOfMembers, Alive, podVars, etcdVars, manVars, HeldPc, LoopPc
  <1>7. TargetSet' /\ JoinsExactMembership'
    BY <1>2, <1>3
    DEF MembershipInv, TargetSet, JoinsExactMembership, etcdVars, manVars
  <1> QED
    BY <1>4, <1>5, <1>6, <1>7 DEF MembershipInv

\* The steps of the environment keep the invariant: no pod comes to life that
\* was not pending, and a crash leaves nothing to be wrong about.
LEMMA EnvironmentMembership ==
    ASSUME TypeOK, MembershipInv, Environment PROVE MembershipInv'
  <1> USE NoneAssumption
      DEF NoneAssumption, MembershipInv, apiVars, podVars, etcdVars, goVars,
          manVars, mainVars, bounds
  <1>1. CASE \E n \in Name : PodStarts(n) \/ PodLost(n)
    <2>1. PICK n \in Name : PodStarts(n) \/ PodLost(n)
      BY <1>1
    <2>2. /\ UNCHANGED <<etcdVars, goVars, manVars>>
          /\ \A x \in Name : Alive(x)' => Alive(x)
          /\ \A x \in Name : Alive(x)' /\ pod[x] = "Running" => pod'[x] = "Running"
      BY <2>1 DEF PodStarts, PodLost, Alive, TypeOK, PodType
    <2>3. NothingUnseen'
      BY <2>2 DEF NothingUnseen
    <2>4. ViewOfMembers'
      BY <2>2 DEF ViewOfMembers, TypeOK, ManType
    <2> QED
      BY <2>2, <2>3, <2>4
      DEF ReconcileExclusive, EnsembleHomes, TargetSet, JoinsExactMembership
  <1>2. CASE Edit
    BY <1>2
    DEF Edit, ReconcileExclusive, EnsembleHomes, NothingUnseen, ViewOfMembers,
        TargetSet, JoinsExactMembership, Alive
  <1>3. CASE Crash
    BY <1>3
    DEF Crash, ReconcileExclusive, EnsembleHomes, NothingUnseen, ViewOfMembers,
        TargetSet, JoinsExactMembership, HeldPc, SetupPc, LoopPc
  <1> QED
    BY <1>1, <1>2, <1>3 DEF Environment

\* A step that changes nothing keeps the invariant.
LEMMA StutterMembership == ASSUME MembershipInv, UNCHANGED vars PROVE MembershipInv'
  BY DEF MembershipInv, vars, apiVars, podVars, etcdVars, goVars, manVars,
         ReconcileExclusive, EnsembleHomes, NothingUnseen, ViewOfMembers,
         TargetSet, JoinsExactMembership, Alive

\* The invariant holds in every reachable state.
THEOREM MembershipCorrect == Spec => []MembershipInv
  <1>1. TypeOK /\ MembershipInv /\ [Next]_vars => MembershipInv'
    BY MainMembership, GoroutineMembership, EnvironmentMembership,
       StutterMembership DEF Next
  <1> QED
    BY InitMembership, TypeCorrect, <1>1, PTL DEF Spec

\* At most one goroutine is between Lock and Unlock of m.sync, however many
\* are started by the race on m.syncing and whatever crashes or fails.
THEOREM Exclusive == Spec => []ReconcileExclusive
  BY MembershipCorrect, PTL DEF MembershipInv

\* Every pod that joins the etcd cluster is told exactly its voting members,
\* although the operator never compares m.members with them at that point.
THEOREM JoinsExact == Spec => []JoinsExactMembership
  BY MembershipCorrect, PTL DEF MembershipInv
=============================================================================
