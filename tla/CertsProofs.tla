----------------------------- MODULE CertsProofs -----------------------------
(* Proofs about module Certs, for all bounds. *)
EXTENDS Certs, TLAPS

\* The steps at which SystemInit holds the client certificate it has read.
Holding == {"forget endpoints", "forget cert", "compare", "drop endpoints", "drop cert",
            "create cert"}

\* Where the pass is says what Keystone has: certificates go after the endpoints that need
\* them, and endpoints come after the certificate.
Order ==
  /\ pc \in Holding => tls /\ copy # 0
  /\ pc \in {"forget cert", "drop cert", "create cert"} => ~ ep
  /\ pc = "register" /\ tls => cert # 0
  /\ pc \in {"etcd", "delete server", "delete client", "delete peer", "issue", "create server",
             "create client", "create peer", "read"} => tls

IInv == TypeOK /\ Order /\ EndpointsHaveCertificate

\* The three secrets of etcd are among the secrets, and "client" is one of them.
LEMMA SecretsAre == "client" \in Secrets /\ "cluster" \in Secrets /\ Etcd \subseteq Secrets
  BY DEF Secrets, Etcd

\* Creating or deleting a secret keeps the types of the API server's and the lister's.
LEMMA SetTypes ==
  ASSUME TypeOK, NEW s \in Secrets, NEW n \in Nat, Set(s, n)
  PROVE  /\ secret' \in [Secrets -> Nat] /\ cache' \in [Secrets -> Nat]
         /\ seen' \in [Secrets -> BOOLEAN]
  BY DEF TypeOK, Set

\* An event the environment spends was left.
LEMMA SpendTypes ==
  ASSUME TypeOK, NEW e \in {"faults", "stale", "crashes", "deletes"}, Spend(e)
  PROVE  left' \in [{"faults", "stale", "crashes", "deletes"} -> Nat]
<1> left[e] \in Nat /\ left[e] - 1 \in Nat
  BY DEF TypeOK, Spend
<1> QED
  BY DEF TypeOK, Spend

\* The initial states satisfy the inductive invariant.
LEMMA InitIInv == Init => IInv
<1> SUFFICES ASSUME Init PROVE IInv OBVIOUS
<1>1. left \in [{"faults", "stale", "crashes", "deletes"} -> Nat]
  BY CertsAssumption DEF CertsAssumption, Init
<1>2. /\ secret \in [Secrets -> Nat] /\ cache \in [Secrets -> Nat] /\ seen \in [Secrets -> BOOLEAN]
  BY DEF Init
<1> QED
  BY <1>1, <1>2 DEF Init, IInv, TypeOK, Order, Holding, EndpointsHaveCertificate, Steps, Flags

\* A failed pass leaves Keystone as it is and starts again from nothing.
LEMMA FailsIInv ==
  ASSUME IInv, Fails, left' \in [{"faults", "stale", "crashes", "deletes"} -> Nat]
  PROVE  IInv'
  BY DEF IInv, TypeOK, Order, Holding, EndpointsHaveCertificate, Fails, EndPass, Steps, Flags,
         objects, keystone

\* Every step of the manager of certificates keeps the inductive invariant.
LEMMA CreateOrUpdateIInv ==
  ASSUME IInv, CreateOrUpdateCluster \/ CreateOrUpdateEtcd \/ CreateEtcdCert
  PROVE  IInv'
<1> USE DEF Steps, Flags, objects, keystone
<1>1. CASE CreateOrUpdateCluster
  <2>1. CASE cache["cluster"] # 0
    BY <1>1, <2>1
    DEF CreateOrUpdateCluster, IInv, TypeOK, Order, Holding, EndpointsHaveCertificate
  <2>2. CASE cache["cluster"] = 0 /\ secret["cluster"] = 0
    <3>1. Set("cluster", 1) /\ UNCHANGED <<tls, ca, issued, flag, stored, copy, cert, ep, left>>
          /\ pc' = (IF tls THEN "read" ELSE "register")
      BY <1>1, <2>2 DEF CreateOrUpdateCluster
    <3>2. /\ secret' \in [Secrets -> Nat] /\ cache' \in [Secrets -> Nat]
          /\ seen' \in [Secrets -> BOOLEAN]
      BY <3>1, SetTypes, SecretsAre DEF IInv
    <3> QED
      BY <3>1, <3>2 DEF IInv, TypeOK, Order, Holding, EndpointsHaveCertificate
  <2>3. CASE cache["cluster"] = 0 /\ secret["cluster"] # 0
    BY <1>1, <2>3, FailsIInv DEF CreateOrUpdateCluster, IInv, TypeOK
  <2> QED BY <2>1, <2>2, <2>3
<1>2. CASE CreateOrUpdateEtcd
  BY <1>2 DEF CreateOrUpdateEtcd, IInv, TypeOK, Order, Holding, EndpointsHaveCertificate
<1>3. ASSUME NEW s \in Etcd, NEW here \in {"delete server", "delete client", "delete peer"},
             NEW next \in {"delete client", "delete peer", "issue"}, DeleteSecret(s, here, next)
      PROVE  IInv'
  <2>1. /\ secret' \in [Secrets -> Nat] /\ cache' \in [Secrets -> Nat]
        /\ seen' \in [Secrets -> BOOLEAN]
    <3>1. CASE UNCHANGED objects BY <3>1 DEF IInv, TypeOK
    <3>2. CASE Set(s, 0) BY <3>2, SetTypes, SecretsAre DEF IInv
    <3> QED BY <1>3, <3>1, <3>2 DEF DeleteSecret
  <2>2. left' \in [{"faults", "stale", "crashes", "deletes"} -> Nat]
    <3>1. CASE UNCHANGED left BY <3>1 DEF IInv, TypeOK
    <3>2. CASE Spend("faults") BY <3>2, SpendTypes DEF IInv
    <3> QED BY <1>3, <3>1, <3>2 DEF DeleteSecret
  <2> QED
    BY <1>3, <2>1, <2>2 DEF DeleteSecret, IInv, TypeOK, Order, Holding, EndpointsHaveCertificate
<1>4. CASE NewCACert
  <2>1. issued' \in Nat /\ ca' \in Nat
    <3>1. issued \in Nat BY DEF IInv, TypeOK
    <3>2. issued' = issued + 1 /\ ca' = issued + 1 BY <1>4 DEF NewCACert
    <3> QED BY <3>1, <3>2
  <2>2. TypeOK'
    BY <1>4, <2>1 DEF NewCACert, IInv, TypeOK
  <2>3. Order' /\ EndpointsHaveCertificate'
    BY <1>4 DEF NewCACert, IInv, Order, Holding, EndpointsHaveCertificate
  <2> QED BY <2>2, <2>3 DEF IInv
<1>5. ASSUME NEW s \in Etcd, NEW here \in {"create server", "create client", "create peer"},
             NEW next \in {"create client", "create peer", "read"}, CreateSecret(s, here, next)
      PROVE  IInv'
  <2>1. CASE secret[s] = 0
    <3>1. Set(s, ca) /\ UNCHANGED <<tls, ca, issued, flag, stored, copy, cert, ep, left>>
          /\ pc = here /\ pc' = next
      BY <1>5, <2>1 DEF CreateSecret
    <3>2. /\ secret' \in [Secrets -> Nat] /\ cache' \in [Secrets -> Nat]
          /\ seen' \in [Secrets -> BOOLEAN]
      BY <3>1, SetTypes, SecretsAre DEF IInv, TypeOK
    <3> QED
      BY <3>1, <3>2 DEF IInv, TypeOK, Order, Holding, EndpointsHaveCertificate
  <2>2. CASE secret[s] # 0
    BY <1>5, <2>2, FailsIInv DEF CreateSecret, IInv, TypeOK
  <2> QED BY <2>1, <2>2
<1>6. CASE CreateEtcdCert
  BY <1>6, <1>3, <1>4, <1>5 DEF CreateEtcdCert, Etcd
<1> QED BY <1>1, <1>2, <1>6

\* Every step of SystemInit keeps the inductive invariant.
LEMMA SystemInitIInv ==
  ASSUME IInv, SystemInit
  PROVE  IInv'
<1> USE DEF Steps, Flags, objects, keystone
<1>1. CASE ReadCertificate
  <2>1. CASE secret["client"] = 0
    BY <1>1, <2>1, FailsIInv DEF ReadCertificate, IInv, TypeOK
  <2>2. CASE secret["client"] # 0
    <3>1. secret["client"] \in Nat BY SecretsAre DEF IInv, TypeOK
    <3> QED
      BY <1>1, <2>2, <3>1
      DEF ReadCertificate, IInv, TypeOK, Order, Holding, EndpointsHaveCertificate
  <2> QED BY <2>1, <2>2
<1>2. CASE DeleteServiceEndpoints("forget endpoints", "forget cert")
  BY <1>2 DEF DeleteServiceEndpoints, IInv, TypeOK, Order, Holding, EndpointsHaveCertificate
<1>3. CASE DeleteServiceEndpoints("drop endpoints", "drop cert")
  BY <1>3 DEF DeleteServiceEndpoints, IInv, TypeOK, Order, Holding, EndpointsHaveCertificate
<1>4. CASE ForgetCertificate
  BY <1>4 DEF ForgetCertificate, IInv, TypeOK, Order, Holding, EndpointsHaveCertificate
<1>5. CASE EnsureServiceCertificate
  BY <1>5 DEF EnsureServiceCertificate, IInv, TypeOK, Order, Holding, EndpointsHaveCertificate
<1>6. CASE DropCertificate
  BY <1>6 DEF DropCertificate, IInv, TypeOK, Order, Holding, EndpointsHaveCertificate
<1>7. CASE CreateServiceCertificate
  BY <1>7 DEF CreateServiceCertificate, IInv, TypeOK, Order, Holding, EndpointsHaveCertificate
<1>8. CASE RegisterEndpoints
  <2>1. left' \in [{"faults", "stale", "crashes", "deletes"} -> Nat]
    BY <1>8, SpendTypes DEF RegisterEndpoints, IInv, TypeOK
  <2> QED
    BY <1>8, <2>1
    DEF RegisterEndpoints, EndPass, IInv, TypeOK, Order, Holding, EndpointsHaveCertificate
<1> QED
  BY <1>1, <1>2, <1>3, <1>4, <1>5, <1>6, <1>7, <1>8 DEF SystemInit

\* The inductive step.
LEMMA NextIInv == IInv /\ [Next]_vars => IInv'
<1> SUFFICES ASSUME IInv, [Next]_vars PROVE IInv' OBVIOUS
<1> USE DEF Steps, Flags, objects, keystone
<1>1. CASE PassStart
  <2>1. left' \in [{"faults", "stale", "crashes", "deletes"} -> Nat]
    BY <1>1, SpendTypes DEF PassStart, IInv, TypeOK
  <2> QED
    BY <1>1, <2>1 DEF PassStart, IInv, TypeOK, Order, Holding, EndpointsHaveCertificate
<1>2. CASE CreateOrUpdateCluster \/ CreateOrUpdateEtcd \/ CreateEtcdCert
  BY <1>2, CreateOrUpdateIInv
<1>3. CASE SystemInit
  BY <1>3, SystemInitIInv
<1>4. CASE RequestFails
  BY <1>4, SpendTypes, FailsIInv DEF RequestFails, IInv
<1>5. CASE Watch
  <2>1. /\ cache' \in [Secrets -> Nat] /\ seen' \in [Secrets -> BOOLEAN]
    BY <1>5 DEF Watch, IInv, TypeOK
  <2>2. UNCHANGED <<tls, secret, pc, ca, issued, flag, stored, copy, cert, ep, left>>
    BY <1>5 DEF Watch
  <2> QED
    BY <2>1, <2>2 DEF IInv, TypeOK, Order, Holding, EndpointsHaveCertificate
<1>6. CASE Crash
  <2>1. left' \in [{"faults", "stale", "crashes", "deletes"} -> Nat]
    BY <1>6, SpendTypes DEF Crash, IInv
  <2> QED
    BY <1>6, <2>1 DEF Crash, IInv, TypeOK, Order, Holding, EndpointsHaveCertificate
<1>7. CASE UserDelete
  <2>1. PICK s \in Etcd : Spend("deletes") /\ Set(s, 0)
                          /\ UNCHANGED <<tls, pc, ca, issued, flag, stored, copy, cert, ep>>
    BY <1>7 DEF UserDelete
  <2>2. left' \in [{"faults", "stale", "crashes", "deletes"} -> Nat]
    BY <2>1, SpendTypes DEF IInv
  <2>3. /\ secret' \in [Secrets -> Nat] /\ cache' \in [Secrets -> Nat]
        /\ seen' \in [Secrets -> BOOLEAN]
    BY <2>1, SetTypes, SecretsAre DEF IInv
  <2> QED
    BY <2>1, <2>2, <2>3 DEF IInv, TypeOK, Order, Holding, EndpointsHaveCertificate
<1>8. CASE UNCHANGED vars
  BY <1>8 DEF vars, IInv, TypeOK, Order, Holding, EndpointsHaveCertificate
<1> QED
  BY <1>1, <1>2, <1>3, <1>4, <1>5, <1>6, <1>7, <1>8 DEF Next, Pass

\* The variables of Certs keep their types, for all bounds.
THEOREM CertsTypeCorrect == Spec => []TypeOK
<1>1. IInv => TypeOK BY DEF IInv
<1> QED BY InitIInv, NextIInv, <1>1, PTL DEF Spec

\* Keystone never lists etcd's endpoints without the certificate they need, however many
\* requests fail, listers lag, operators crash and secrets are deleted.
THEOREM EndpointsAlwaysHaveCertificate == Spec => []EndpointsHaveCertificate
<1>1. IInv => EndpointsHaveCertificate BY DEF IInv
<1> QED BY InitIInv, NextIInv, <1>1, PTL DEF Spec
=============================================================================
