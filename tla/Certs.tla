-------------------------------- MODULE Certs --------------------------------
(****************************************************************************)
(* The certificates of a cluster: CertsManager.CreateOrUpdate               *)
(* (pkg/manager/certs) makes the secrets of the cluster and of etcd with    *)
(* pkg/controller/onecloud_cert.go and onecloud_etcd_cert.go, and the       *)
(* second session of keystone's SystemInit (onecloud_control.go) publishes  *)
(* etcd's client certificate and its endpoints in Keystone.  A certificate  *)
(* is the number of the CA that signed it, 0 for none.                      *)
(****************************************************************************)
EXTENDS Naturals, FiniteSets

CONSTANTS
  MaxCA,       \* bound: CAs issued for etcd
  MaxFaults,   \* bound: failed requests
  MaxStale,    \* bound: passes that start while the lister is behind
  MaxCrashes,  \* bound: restarts of the operator
  MaxDeletes   \* bound: secrets somebody deletes

ASSUME CertsAssumption ==
  /\ MaxCA \in Nat \ {0}
  /\ \A n \in {MaxFaults, MaxStale, MaxCrashes, MaxDeletes} : n \in Nat

VARIABLES
  tls,      \* oc.Spec.Etcd.EnableTls
  secret,   \* secret -> the CA of the one in the API server
  cache,    \* secret -> the CA of the one in the lister
  seen,     \* secret -> the lister has the newest version
  pc,       \* what the pass does next
  ca,       \* the CA CreateEtcdCert works with
  issued,   \* CAs issued so far
  flag,     \* oc.Spec.Etcd.CreatedSecrets in the pass: "unset", "no" or "yes"
  stored,   \* the same in the API server
  copy,     \* the client certificate SystemInit has read
  cert,     \* the service certificate of etcd in Keystone
  ep,       \* etcd's endpoints are registered in Keystone
  left      \* what the environment may still do

objects == <<secret, cache, seen>>
keystone == <<cert, ep>>
vars == <<tls, objects, pc, ca, issued, flag, stored, copy, keystone, left>>

Etcd == {"server", "client", "peer"}
Secrets == Etcd \cup {"cluster"}

\* The steps of a pass that touch certificates, in order.
Steps == {"idle", "cluster", "etcd", "delete server", "delete client", "delete peer", "issue",
          "create server", "create client", "create peer", "read", "forget endpoints",
          "forget cert", "compare", "drop endpoints", "drop cert", "create cert", "register"}

Spend(event) == left[event] > 0 /\ left' = [left EXCEPT ![event] = @ - 1]

Set(s, n) ==
  /\ secret' = [secret EXCEPT ![s] = n]
  /\ seen' = [seen EXCEPT ![s] = FALSE]
  /\ UNCHANGED cache
-----------------------------------------------------------------------------
PassStart ==
  /\ pc = "idle"
  /\ IF \A s \in Secrets : seen[s] THEN UNCHANGED left ELSE Spend("stale")
  /\ pc' = "cluster" /\ flag' = stored
  /\ UNCHANGED <<tls, objects, ca, issued, stored, copy, keystone>>

EndPass == pc' = "idle" /\ flag' = "unset" /\ copy' = 0

\* A failed pass writes the object back only if its status has changed.
Fails ==
  /\ EndPass /\ stored' \in {stored, flag}
  /\ UNCHANGED <<tls, objects, ca, issued, keystone>>

\* An error of a request ends the pass.
RequestFails ==
  /\ pc \notin {"idle", "etcd", "issue", "delete server", "delete client", "delete peer"}
  /\ Spend("faults")
  /\ Fails

\* CreateCert, and no look at etcd's secrets in this pass.
CreateOrUpdateCluster ==
  /\ pc = "cluster"
  /\ IF cache["cluster"] # 0
     THEN pc' = (IF tls THEN "etcd" ELSE "register")
          /\ UNCHANGED <<tls, objects, ca, issued, flag, stored, copy, keystone>>
     ELSE IF secret["cluster"] = 0
     THEN Set("cluster", 1) /\ pc' = (IF tls THEN "read" ELSE "register")
          /\ UNCHANGED <<tls, ca, issued, flag, stored, copy, keystone>>
     ELSE Fails
  /\ UNCHANGED left

\* One secret that the lister does not have, and all three are made again.
CreateOrUpdateEtcd ==
  /\ pc = "etcd"
  /\ IF \E s \in Etcd : cache[s] = 0
     THEN flag' = "no" /\ pc' = "delete server"
     ELSE pc' = "read" /\ UNCHANGED flag
  /\ UNCHANGED <<tls, objects, ca, issued, stored, copy, keystone, left>>

\* An error, NotFound or another, is only logged.
DeleteSecret(s, here, next) ==
  /\ pc = here
  /\ \/ secret[s] = 0 /\ UNCHANGED <<objects, left>>
     \/ secret[s] # 0 /\ Set(s, 0) /\ UNCHANGED left
     \/ Spend("faults") /\ UNCHANGED objects
  /\ pc' = next
  /\ UNCHANGED <<tls, ca, issued, flag, stored, copy, keystone>>

\* A mutant: the CA of the last time is used, which at first does not exist.
NewCACertOld ==
  /\ pc = "issue" /\ issued < MaxCA
  /\ issued' = issued + 1 /\ ca' = issued - 1 /\ pc' = "create server"
  /\ UNCHANGED <<tls, objects, flag, stored, copy, keystone, left>>

NewCACert ==
  /\ pc = "issue" /\ issued < MaxCA
  /\ issued' = issued + 1 /\ ca' = issued + 1 /\ pc' = "create server"
  /\ UNCHANGED <<tls, objects, flag, stored, copy, keystone, left>>

\* A secret that could not be deleted is still there: AlreadyExists.
CreateSecret(s, here, next) ==
  /\ pc = here
  /\ IF secret[s] = 0
     THEN Set(s, ca) /\ pc' = next /\ UNCHANGED <<tls, ca, issued, flag, stored, copy, keystone>>
     ELSE Fails
  /\ UNCHANGED left

CreateEtcdCert ==
  \/ DeleteSecret("server", "delete server", "delete client")
  \/ DeleteSecret("client", "delete client", "delete peer")
  \/ DeleteSecret("peer", "delete peer", "issue")
  \/ NewCACert
  \/ CreateSecret("server", "create server", "create client")
  \/ CreateSecret("client", "create client", "create peer")
  \/ CreateSecret("peer", "create peer", "read")
-----------------------------------------------------------------------------
(* keystoneComponent.SystemInit, in a session with Keystone. *)

\* A mutant: the certificate is forgotten before the endpoints that need it.
ReadCertificateForget ==
  /\ pc = "read"
  /\ IF secret["client"] = 0
     THEN Fails
     ELSE /\ copy' = secret["client"]
          /\ pc' = IF flag = "no" THEN "forget cert" ELSE "compare"
          /\ UNCHANGED <<tls, objects, ca, issued, flag, stored, keystone>>
  /\ UNCHANGED left

\* getEtcdCertificate asks the API server.
ReadCertificate ==
  /\ pc = "read"
  /\ IF secret["client"] = 0
     THEN Fails
     ELSE /\ copy' = secret["client"]
          /\ pc' = IF flag = "no" THEN "forget endpoints" ELSE "compare"
          /\ UNCHANGED <<tls, objects, ca, issued, flag, stored, keystone>>
  /\ UNCHANGED left

DeleteServiceEndpoints(here, next) ==
  /\ pc = here /\ pc' = next /\ ep' = FALSE
  /\ UNCHANGED <<tls, objects, ca, issued, flag, stored, copy, cert, left>>

\* doDeleteEtcdCertificate is done: CreatedSecrets = true.
ForgetCertificate ==
  /\ pc = "forget cert" /\ pc' = "compare" /\ cert' = 0 /\ flag' = "yes"
  /\ UNCHANGED <<tls, objects, ca, issued, stored, copy, ep, left>>

\* A mutant: a certificate in Keystone is taken as the right one.
EnsureServiceCertificateAny ==
  /\ pc = "compare"
  /\ pc' = IF cert = 0 THEN "create cert" ELSE "register"
  /\ UNCHANGED <<tls, objects, ca, issued, flag, stored, copy, keystone, left>>

EnsureServiceCertificate ==
  /\ pc = "compare"
  /\ pc' = CASE cert = 0 -> "create cert" [] cert = copy -> "register" [] OTHER -> "drop endpoints"
  /\ UNCHANGED <<tls, objects, ca, issued, flag, stored, copy, keystone, left>>

DropCertificate ==
  /\ pc = "drop cert" /\ pc' = "create cert" /\ cert' = 0
  /\ UNCHANGED <<tls, objects, ca, issued, flag, stored, copy, ep, left>>

CreateServiceCertificate ==
  /\ pc = "create cert" /\ pc' = "register" /\ cert' = copy
  /\ UNCHANGED <<tls, objects, ca, issued, flag, stored, copy, ep, left>>

\* doCreateEtcdServiceEndpoint, and the rest of the pass, which writes the object back: the
\* checksum of the changed spec is new.
RegisterEndpoints ==
  /\ pc = "register" /\ ep' = TRUE
  /\ EndPass
  /\ \/ stored' = flag /\ UNCHANGED left
     \/ stored' = stored /\ Spend("faults")
  /\ UNCHANGED <<tls, objects, ca, issued, cert>>

SystemInit ==
  \/ ReadCertificate
  \/ DeleteServiceEndpoints("forget endpoints", "forget cert") \/ ForgetCertificate
  \/ EnsureServiceCertificate
  \/ DeleteServiceEndpoints("drop endpoints", "drop cert") \/ DropCertificate
  \/ CreateServiceCertificate \/ RegisterEndpoints
-----------------------------------------------------------------------------
Watch ==
  \E s \in Secrets :
    /\ ~ seen[s]
    /\ cache' = [cache EXCEPT ![s] = secret[s]] /\ seen' = [seen EXCEPT ![s] = TRUE]
    /\ UNCHANGED <<tls, secret, pc, ca, issued, flag, stored, copy, keystone, left>>

Crash ==
  /\ Spend("crashes")
  /\ pc' = "idle" /\ flag' = "unset" /\ copy' = 0
  /\ cache' = secret /\ seen' = [s \in Secrets |-> TRUE]
  /\ UNCHANGED <<tls, secret, ca, issued, stored, keystone>>

UserDelete ==
  \E s \in Etcd :
    /\ secret[s] # 0 /\ Spend("deletes") /\ Set(s, 0)
    /\ UNCHANGED <<tls, pc, ca, issued, flag, stored, copy, keystone>>

Init ==
  /\ tls \in BOOLEAN
  /\ secret = [s \in Secrets |-> 0] /\ cache = secret /\ seen = [s \in Secrets |-> TRUE]
  /\ pc = "idle" /\ ca = 0 /\ issued = 0 /\ flag = "unset" /\ stored = "unset" /\ copy = 0
  /\ cert = 0 /\ ep = FALSE
  /\ left = [faults |-> MaxFaults, stale |-> MaxStale, crashes |-> MaxCrashes,
             deletes |-> MaxDeletes]

Pass ==
  \/ PassStart \/ CreateOrUpdateCluster \/ CreateOrUpdateEtcd \/ CreateEtcdCert \/ SystemInit

Next == Pass \/ RequestFails \/ Watch \/ Crash \/ UserDelete

Spec == Init /\ [][Next]_vars

\* The queue starts passes again, the steps of one follow each other, watches deliver.
FairSpec == Spec /\ WF_vars(Pass) /\ WF_vars(Watch)
-----------------------------------------------------------------------------
Flags == {"unset", "no", "yes"}

\* Every variable has its type.
TypeOK ==
  /\ tls \in BOOLEAN
  /\ secret \in [Secrets -> Nat] /\ cache \in [Secrets -> Nat] /\ seen \in [Secrets -> BOOLEAN]
  /\ pc \in Steps /\ ca \in Nat /\ issued \in Nat /\ flag \in Flags /\ stored \in Flags
  /\ copy \in Nat /\ cert \in Nat /\ ep \in BOOLEAN
  /\ left \in [{"faults", "stale", "crashes", "deletes"} -> Nat]

\* Keystone never lists etcd's endpoints without the certificate they need: endpoints are
\* deleted before it and registered after it, whatever fails in between.
EndpointsHaveCertificate == tls /\ ep => cert # 0

\* With one failed request, stale read, restart or deleted secret, clients of etcd and etcd
\* end up with certificates of one CA, and Keystone with the client's, although the note
\* that it must be renewed (CreatedSecrets) may be lost.
CertificatesAgree ==
  <>[](/\ tls => secret["server"] # 0 /\ secret["client"] = secret["server"]
                /\ cert = secret["client"] /\ secret["peer"] # 0
       /\ ep)
=============================================================================
