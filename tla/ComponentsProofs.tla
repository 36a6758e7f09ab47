-------------------------- MODULE ComponentsProofs --------------------------
(****************************************************************************)
(* Catalogue and Components: type correctness, that workloads run only with *)
(* what they need, that keystone comes first, and the order in which images *)
(* reach the Open vSwitch daemon sets.                                      *)
(****************************************************************************)
EXTENDS Components, TLAPS, WellFoundedInduction
-----------------------------------------------------------------------------
(* The catalogue. *)

\* The managers, by name.
LEMMA ManagersAre ==
  Managers =
    {"keystone", "victoria-metrics", "telegraf", "region", "scheduler", "kubeserver",
     "webconsole", "glance", "region-dns", "yunionagent", "ansibleserver", "apigateway",
     "meter", "billing", "esxi-agent", "ovn-north", "apimap", "vpcagent",
     "host-deployer", "host-image", "host", "host-sdnagent", "host-ovn-controller",
     "host-ovsdb-server", "host-ovs-vswitchd", "host-health", "monitor", "cloudmon",
     "web", "logger", "climc", "cloudmux", "autoupdate", "cloudnet", "cloudproxy",
     "cloudevent", "devtool", "yunionconf", "s3gateway", "notify", "baremetal-agent",
     "onecloud-service-operator", "itsm", "cloudid", "suggestion", "scheduledtask",
     "report", "lbagent", "echarts-ssr", "bastionhost", "extdb", "llm", "mcp-server",
     "aiproxy", "monitor-stack"}
  BY DEF Managers, Sequential, Parallel, Addons

\* Keystone's manager: the first of the pass, in one zone, which sets up what comes after it.
LEMMA KeystoneIs ==
  /\ "keystone" \in Managers /\ "keystone" \notin Parallel \cup Addons
  /\ ~ ManagerOf["keystone"].zoned /\ ~ ManagerOf["keystone"].early
  /\ {"setup", "services"} \subseteq ManagerOf["keystone"].has
<1>1. "keystone" \in Managers /\ ManagerOf["keystone"] = keystoneManager
  BY ManagersAre DEF ManagerOf
<1>2. /\ ~ keystoneManager.zoned /\ ~ keystoneManager.early
      /\ {"setup", "services"} \subseteq keystoneManager.has
  BY DEF keystoneManager, Manager
<1> QED BY <1>1, <1>2 DEF Parallel, Addons

\* OVN's manager, the other one that StopServices spares, needs neither database nor account.
LEMMA OvnNorthIs ==
  "ovn-north" \in Managers /\ {"db", "user", "config"} \cap ManagerOf["ovn-north"].has = {}
<1>1. "ovn-north" \in Managers /\ ManagerOf["ovn-north"] = ovnNorthManager
  BY ManagersAre DEF ManagerOf
<1>2. {"db", "user", "config"} \cap ovnNorthManager.has = {}
  BY DEF ovnNorthManager, Manager
<1> QED BY <1>1, <1>2

OVSManagers == {"host-ovsdb-server", "host-ovs-vswitchd", "host-ovn-controller"}

\* The Open vSwitch managers: a daemon set each, and nothing else.
LEMMA OVSManagersAre ==
  ASSUME NEW c \in OVSManagers
  PROVE  ManagerOf[c].has = {"daemonset"}
<1>1. ManagerOf[c] \in
        {hostOvsdbServerManager, hostOvsVswitchdManager, hostOvnControllerManager}
  BY ManagersAre DEF ManagerOf, OVSManagers
<1>2. hostOvsdbServerManager.has = {"daemonset"}
  BY DEF hostOvsdbServerManager, hostBasedDsManager, Manager
<1>3. hostOvsVswitchdManager.has = {"daemonset"}
  BY DEF hostOvsVswitchdManager, hostBasedDsManager, Manager
<1>4. hostOvnControllerManager.has = {"daemonset"}
  BY DEF hostOvnControllerManager, hostBasedDsManager, Manager
<1> QED BY <1>1, <1>2, <1>3, <1>4

\* All managers but the two that wait for another one's daemon set.
Unordered ==
  {keystoneManager, vmManager, telegrafManager, regionManager, schedulerManager,
   kubeManager, webconsoleManager, glanceManager, regionDNSManager, yunionagentManager,
   ansibleManager, apiGatewayManager, meterManager, billingManager, esxiManager,
   ovnNorthManager, apiMapManager, vpcAgentManager, hostDeployerManager,
   hostImageManager, hostManager, hostSdnagentManager, hostOvsdbServerManager,
   hostHealthManager, monitorManager, cloudmonManager, webManager, loggerManager,
   climcManager, cloudmuxManager, autoUpdateManager, cloudnetManager, cloudproxyManager,
   cloudeventManager, devtoolManager, yunoinconfManager, s3gatewayManager,
   notifyManager, baremetalManager, serviceOperatorManager, itsmManager, cloudidManager,
   suggestionManager, scheduledtaskManager, reportManager, lbagentManager,
   echartsSSRManager, bastionHostManager, extdbManager, llmManager, mcpServerManager,
   aiProxyManager, monitorStackManager}

\* The daemon set that a manager waits for: none, but for two.
LEMMA WaitsForNone ==
  /\ keystoneManager.after = "" /\ vmManager.after = "" /\ telegrafManager.after = ""
  /\ regionManager.after = "" /\ schedulerManager.after = "" /\ kubeManager.after = ""
  /\ webconsoleManager.after = "" /\ glanceManager.after = "" /\ regionDNSManager.after = ""
  /\ yunionagentManager.after = "" /\ ansibleManager.after = "" /\ apiGatewayManager.after = ""
  /\ meterManager.after = "" /\ billingManager.after = "" /\ esxiManager.after = ""
  /\ ovnNorthManager.after = "" /\ apiMapManager.after = "" /\ vpcAgentManager.after = ""
  /\ hostDeployerManager.after = "" /\ hostImageManager.after = "" /\ hostManager.after = ""
  /\ hostSdnagentManager.after = "" /\ hostOvsdbServerManager.after = ""
  /\ hostHealthManager.after = ""
  /\ monitorManager.after = "" /\ cloudmonManager.after = "" /\ webManager.after = ""
  /\ loggerManager.after = "" /\ climcManager.after = "" /\ cloudmuxManager.after = ""
  /\ autoUpdateManager.after = "" /\ cloudnetManager.after = "" /\ cloudproxyManager.after = ""
  /\ cloudeventManager.after = "" /\ devtoolManager.after = "" /\ yunoinconfManager.after = ""
  /\ s3gatewayManager.after = "" /\ notifyManager.after = "" /\ baremetalManager.after = ""
  /\ serviceOperatorManager.after = "" /\ itsmManager.after = "" /\ cloudidManager.after = ""
  /\ suggestionManager.after = "" /\ scheduledtaskManager.after = "" /\ reportManager.after = ""
  /\ lbagentManager.after = "" /\ echartsSSRManager.after = "" /\ bastionHostManager.after = ""
  /\ extdbManager.after = "" /\ llmManager.after = "" /\ mcpServerManager.after = ""
  /\ aiProxyManager.after = "" /\ monitorStackManager.after = ""
  BY DEF Manager, hostBasedDsManager,
         keystoneManager, vmManager, telegrafManager, regionManager, schedulerManager,
         kubeManager, webconsoleManager, glanceManager, regionDNSManager,
         yunionagentManager, ansibleManager, apiGatewayManager, meterManager,
         billingManager, esxiManager, ovnNorthManager, apiMapManager, vpcAgentManager,
         hostDeployerManager, hostImageManager, hostManager, hostSdnagentManager,
         hostOvsdbServerManager, hostHealthManager, monitorManager, cloudmonManager,
         webManager, loggerManager, climcManager, cloudmuxManager, autoUpdateManager,
         cloudnetManager, cloudproxyManager, cloudeventManager, devtoolManager,
         yunoinconfManager, s3gatewayManager, notifyManager, baremetalManager,
         serviceOperatorManager, itsmManager, cloudidManager, suggestionManager,
         scheduledtaskManager, reportManager, lbagentManager, echartsSSRManager,
         bastionHostManager, extdbManager, llmManager, mcpServerManager, aiProxyManager,
         monitorStackManager

LEMMA UnorderedWait ==
  ASSUME NEW m \in Unordered
  PROVE  m.after = ""
  BY WaitsForNone, Zenon DEF Unordered

LEMMA UnorderedAre ==
  ASSUME NEW c \in Managers, c \notin {"host-ovn-controller", "host-ovs-vswitchd"}
  PROVE  ManagerOf[c] \in Unordered
  BY ManagersAre DEF ManagerOf, Unordered

\* Only two managers wait for another one's daemon set; all are Open vSwitch managers.
LEMMA AfterIs ==
  ASSUME NEW c \in Managers, ManagerOf[c].after \in Managers
  PROVE  c \in OVSManagers /\ ManagerOf[c].after \in OVSManagers
<1>1. "" \notin Managers
  BY ManagersAre
<1>2. c \in {"host-ovn-controller", "host-ovs-vswitchd"} \/ ManagerOf[c].after = ""
  BY UnorderedAre, UnorderedWait
<1>3. c \in {"host-ovn-controller", "host-ovs-vswitchd"}
  BY <1>1, <1>2
<1>4. ManagerOf["host-ovn-controller"] = hostOvnControllerManager
  BY ManagersAre DEF ManagerOf
<1>5. ManagerOf["host-ovs-vswitchd"] = hostOvsVswitchdManager
  BY ManagersAre DEF ManagerOf
<1>6. /\ hostOvnControllerManager.after = "host-ovs-vswitchd"
      /\ hostOvsVswitchdManager.after = "host-ovsdb-server"
  BY DEF hostOvnControllerManager, hostOvsVswitchdManager, hostBasedDsManager, Manager
<1> QED BY <1>3, <1>4, <1>5, <1>6 DEF OVSManagers

\* The sequence begins with keystone and names no manager twice, nor one that is started later.
LEMMA SequentialIs ==
  /\ Len(Sequential) \in Nat /\ DOMAIN Sequential = 1..Len(Sequential) /\ 1 \in DOMAIN Sequential
  /\ Sequential[1] = "keystone"
  /\ \A i, j \in DOMAIN Sequential : Sequential[i] = Sequential[j] => i = j
  /\ \A i \in DOMAIN Sequential : Sequential[i] \notin Parallel \cup Addons
  /\ Parallel \cap Addons = {}
<1>1. Len(Sequential) = 29 /\ DOMAIN Sequential = 1..29 /\ Sequential[1] = "keystone"
  BY DEF Sequential
<1>2. \A i, j \in 1..29 : Sequential[i] = Sequential[j] => i = j
  BY DEF Sequential
<1>3. \A i \in 1..29 : Sequential[i] \notin Parallel \cup Addons
  BY DEF Sequential, Parallel, Addons
<1> QED BY <1>1, <1>2, <1>3 DEF Parallel, Addons
-----------------------------------------------------------------------------
(* The order of the steps. *)

LEMMA PlaceType == \A s \in Steps : Place[s] \in Nat
  BY DEF Place, Steps

\* The objects come after what they need, the end of syncComponent comes last.
LEMMA PlaceOf ==
  /\ {"db", "dbuser", "user", "config", "setup", "services", "restart", "done"} \subseteq Steps
  /\ ObjectSteps \subseteq Steps /\ External \subseteq Steps
  /\ "idle" \notin Steps /\ "failed" \notin Steps
  /\ Place["db"] = 2 /\ Place["dbuser"] = 3 /\ Place["user"] = 6 /\ Place["config"] = 7
  /\ Place["deployment"] = 9 /\ Place["daemonset"] = 11 /\ Place["setup"] = 15
  /\ Place["services"] = 17 /\ Place["done"] = 31
  BY DEF Place, Steps, ObjectSteps, External, ClusterComponents, syncPhase

LEMMA MinNat ==
  ASSUME NEW T \in SUBSET Nat, T # {}
  PROVE  \E x \in T : \A y \in T : x <= y
<1> DEFINE R == OpToRel(<, Nat)
<1>1. IsWellFoundedOn(R, Nat)
  BY NatLessThanWellFounded
<1>2. \A x, y \in Nat : <<x, y>> \notin R => y <= x
  BY DEF OpToRel
<1> HIDE DEF R
<1>3. \E x \in T : \A y \in T : ~ (<<y, x>> \in R)
  BY <1>1, WFMin
<1> QED BY <1>2, <1>3

\* First returns one of the steps, and no other comes before it.
LEMMA FirstIn ==
  ASSUME NEW S \in SUBSET Steps, S # {}
  PROVE  First(S) \in S /\ \A t \in S : Place[First(S)] <= Place[t]
<1> DEFINE T == { Place[s] : s \in S }
<1>1. T \in SUBSET Nat /\ T # {}
  BY PlaceType
<1>2. \E n \in T : \A m \in T : n <= m
  BY <1>1, MinNat
<1>3. \E s \in S : \A t \in S : Place[s] <= Place[t]
  BY <1>2
<1> QED BY <1>3 DEF First
-----------------------------------------------------------------------------
(* The inductive invariant: the pass. *)

MgrInv == mgr = [c \in active |-> ManagerOf[c]]

\* A step that the agenda has because the manager has it; "restart" is added by Setup.
Scheduled(u, s) ==
  s \in M(u).has \cup {"dbuser", "grant", "restart"} /\ ~ ReturnsEarly(u, oc)

\* The steps still to come are not before the one the unit is at, and end with "done".
OrderInv ==
  \A u \in Units :
    /\ at[u] \in {"idle", "failed"} => todo[u] = {}
    /\ Syncing(u) => "done" \in todo[u]
    /\ \A s \in todo[u] : Place[at[u]] <= Place[s]
    /\ \A s \in todo[u] \cup {at[u]} : s \notin {"idle", "failed", "done"} => Scheduled(u, s)

\* The steps whose effect later ones rely on, and that effect.
Milestones == {"db", "dbuser", "user", "config", "setup", "services"}
Reached(u, s) == IF s = "config" THEN Exists(server[u]["cm"]) ELSE s \in done[u]
\* While services are stopped, an account that cannot be created is only logged.
Excused(s) == stop /\ s \in {"user", "config"}

\* What a unit had to do, and is neither at nor still to come to, is reached.
AgendaInv ==
  \A u \in Units, s \in Milestones :
    at[u] \notin {"idle", "failed"} /\ Runs(u, s) /\ ~ Excused(s) =>
      s \in todo[u] \/ s = at[u] \/ Reached(u, s)

\* Units whose turn has not come are idle.
WaitInv ==
  /\ stage = "idle" => turn = 0 /\ \A u \in Units : at[u] = "idle"
  /\ stage = "sequential" =>
       \A u \in Units : at[u] # "idle" => \E i \in 1..turn : u[1] = Sequential[i]
  /\ stage = "parallel" => \A u \in Units : u[1] \in Addons => at[u] = "idle"

\* Keystone runs alone, and nobody after it unless it is done.
KeystoneInv ==
  "keystone" \in active =>
    /\ stage = "sequential" /\ turn = 1 => \A u \in Units \ {Keystone} : at[u] = "idle"
    /\ turn > 1 \/ stage \in {"parallel", "addons"} => stop \/ at[Keystone] = "done"

\* An update is repeated for the object that the step is about.
AgainInv ==
  \A u \in Units : again[u] # "" =>
    /\ at[u] \in ObjectSteps /\ again[u] # "cm"
    /\ again[u] = "main" <=> at[u] \in {"deployment", "daemonset"}

PassInv == OrderInv /\ AgendaInv /\ WaitInv /\ KeystoneInv /\ AgainInv
-----------------------------------------------------------------------------
(* Units. *)

\* The managers followed are the catalogue's, and a manager without zones has one unit.
LEMMA UnitsAre ==
  ASSUME TypeOK, MgrInv
  PROVE  /\ active \subseteq Managers
         /\ \A c \in active : <<c, "">> \in Units
         /\ \A u \in Units : u[1] \in active /\ M(u) = ManagerOf[u[1]] /\ u = <<u[1], u[2]>>
         /\ \A u \in Units : ~ ManagerOf[u[1]].zoned => u[2] = ""
         /\ \A c \in active : ~ ManagerOf[c].zoned => UnitsOf(c) = {<<c, "">>}
         /\ \A c \in active : \A u \in UnitsOf(c) : u \in Units /\ u[1] = c
<1>1. active \subseteq Managers
  BY ComponentsAssumption DEF TypeOK
<1>2. \A c \in active : mgr[c] = ManagerOf[c]
  BY DEF MgrInv
<1>3. DOMAIN Zones = 1..Len(Zones) /\ Len(Zones) \in Nat /\ 1 \in DOMAIN Zones /\ Zones[1] = ""
  <2>1. PICK S : Zones \in Seq(S)
    BY ComponentsAssumption
  <2>2. Len(Zones) > 0
    BY ComponentsAssumption
  <2>3. DOMAIN Zones = 1..Len(Zones) /\ Len(Zones) \in Nat /\ 1 \in DOMAIN Zones
    BY <2>1, <2>2
  <2> QED BY <2>3, ComponentsAssumption
<1>4. \A c \in active : <<c, "">> \in UnitsOf(c)
  BY <1>3 DEF UnitsOf
<1>5. \A c \in active : \A u \in UnitsOf(c) : u = <<c, u[2]>> /\ u[1] = c
  BY DEF UnitsOf
<1>6. \A c \in active : ~ ManagerOf[c].zoned => UnitsOf(c) = {<<c, "">>}
  BY <1>2, <1>3 DEF UnitsOf
<1>7. \A u \in Units : \E c \in active : u \in UnitsOf(c)
  BY DEF Units
<1>8. \A c \in active : UnitsOf(c) \subseteq Units
  BY DEF Units
<1>9. \A u \in Units : u[1] \in active /\ u \in UnitsOf(u[1]) /\ u = <<u[1], u[2]>>
  BY <1>5, <1>7
<1>10. \A u \in Units : M(u) = ManagerOf[u[1]]
  BY <1>2, <1>9 DEF M
<1>11. \A u \in Units : ~ ManagerOf[u[1]].zoned => u[2] = ""
  <2> SUFFICES ASSUME NEW u \in Units, ~ ManagerOf[u[1]].zoned
               PROVE  u[2] = ""
    OBVIOUS
  <2>1. PICK c \in active : u = <<c, "">>
    BY <1>6, <1>9
  <2> QED BY <2>1
<1> QED BY <1>1, <1>4, <1>5, <1>6, <1>8, <1>9, <1>10, <1>11

\* The group of a behaviour does not change, nor does what depends on it alone.
LEMMA Frame ==
  ASSUME mgr' = mgr
  PROVE  /\ active' = active /\ Units' = Units
         /\ \A c : UnitsOf(c)' = UnitsOf(c)
         /\ \A u : M(u)' = M(u)
<1>1. active' = active
  BY DEF active
<1>2. \A c : UnitsOf(c)' = UnitsOf(c)
  BY DEF UnitsOf
<1>3. Units' = Units
  BY <1>1, <1>2 DEF Units
<1> QED BY <1>1, <1>2, <1>3 DEF M
-----------------------------------------------------------------------------
(* How a unit goes on. *)

\* Unit u leaves a step: it fails, or comes to the first of the steps that are left for it,
\* and then what it was at is reached.
Advances(u) ==
  /\ \E a \in Steps \cup {"failed"}, T \in SUBSET Steps :
       /\ at' = [at EXCEPT ![u] = a] /\ todo' = [todo EXCEPT ![u] = T]
       /\ \/ a = "failed" /\ T = {}
          \/ /\ a \in Steps /\ "done" \in T \cup {a}
             /\ T \cup {a} \subseteq todo[u] \cup {"restart"}
             /\ \A s \in todo[u] : s \in T \cup {a} \/ Excused(s)
             /\ \A s \in T : Place[a] <= Place[s]
             /\ \A s \in Milestones : s = at[u] /\ ~ Excused(s) => Reached(u, s)'
  /\ \E b \in BOOLEAN : bad' = [bad EXCEPT ![u] = b]
  /\ again' = [again EXCEPT ![u] = ""]
  /\ UNCHANGED <<oc, stage, turn>>

\* What was set up stays set up, and configurations stay.
Keeps ==
  \A u \in Units :
    /\ done[u] \cap Milestones \subseteq done'[u]
    /\ Exists(server[u]["cm"]) => Exists(server'[u]["cm"])

LEMMA GoesOn ==
  ASSUME NEW u, NEW S \in SUBSET Steps, "done" \in S, GoOn(u, S)
  PROVE  \E a \in S, T \in SUBSET Steps :
           /\ at' = [at EXCEPT ![u] = a] /\ todo' = [todo EXCEPT ![u] = T]
           /\ T \cup {a} = S /\ \A s \in T : Place[a] <= Place[s]
<1>1. First(S) \in S /\ \A t \in S : Place[First(S)] <= Place[t]
  BY FirstIn
<1>2. S \ {First(S)} \in SUBSET Steps
  OBVIOUS
<1> WITNESS First(S) \in S, S \ {First(S)} \in SUBSET Steps
<1> QED BY <1>1 DEF GoOn

LEMMA ReturnAdvances ==
  ASSUME TypeOK, OrderInv, NEW u \in Units, Syncing(u), NEW ok \in BOOLEAN, Return(u, ok),
         \A s \in Milestones : s = at[u] /\ ok => Reached(u, s)'
  PROVE  Advances(u)
<1> DEFINE err == bad[u] \/ ~ ok
           fails == err /\ ~ Tolerated(at[u])
           S == todo[u] \ { s \in {"config"} : at[u] = "user" /\ err }
<1>1. /\ again' = [again EXCEPT ![u] = ""] /\ UNCHANGED <<oc, stage, turn>>
      /\ \E b \in BOOLEAN : bad' = [bad EXCEPT ![u] = b]
  BY DEF Return
<1>2. S \in SUBSET Steps /\ "done" \in S
  BY DEF TypeOK, OrderInv
<1>3. CASE fails /\ ~ (at[u] = "deployment" /\ "readonly" \in todo[u])
  <2>1. at' = [at EXCEPT ![u] = "failed"] /\ todo' = [todo EXCEPT ![u] = {}]
    BY <1>3 DEF Return
  <2> QED BY <1>1, <2>1 DEF Advances
<1>4. CASE ~ (fails /\ ~ (at[u] = "deployment" /\ "readonly" \in todo[u]))
  <2>1. GoOn(u, S)
    BY <1>4 DEF Return
  <2>2. PICK a \in S, T \in SUBSET Steps :
          /\ at' = [at EXCEPT ![u] = a] /\ todo' = [todo EXCEPT ![u] = T]
          /\ T \cup {a} = S /\ \A s \in T : Place[a] <= Place[s]
    BY <2>1, <1>2, GoesOn
  <2>3. \A s \in Milestones : s = at[u] /\ ~ Excused(s) => Reached(u, s)'
    BY <1>4 DEF Milestones, Excused, Tolerated
  <2>4. \A s \in todo[u] : s \in T \cup {a} \/ Excused(s)
    BY <1>4, <2>2 DEF Excused, Tolerated
  <2>5. a \in Steps /\ T \cup {a} \subseteq todo[u] /\ "done" \in T \cup {a}
    BY <1>2, <2>2
  <2> QED BY <1>1, <2>2, <2>3, <2>4, <2>5 DEF Advances
<1> QED BY <1>3, <1>4

\* While a pass runs, what the spec asks of a unit does not change.
LEMMA SameRules ==
  ASSUME UNCHANGED <<mgr, stop, oc>>
  PROVE  /\ \A u : ReturnsEarly(u, oc)' <=> ReturnsEarly(u, oc)
         /\ \A u, s : Scheduled(u, s)' <=> Scheduled(u, s)
         /\ \A s : Excused(s)' <=> Excused(s)
<1>1. \A u : M(u)' = M(u)
  BY Frame
<1>2. \A u : ReturnsEarly(u, oc)' <=> ReturnsEarly(u, oc)
  BY <1>1 DEF ReturnsEarly
<1> QED BY <1>1, <1>2 DEF Scheduled, Excused

\* Set-up that is done adds nothing to an agenda.
LEMMA RunsLess ==
  ASSUME UNCHANGED <<mgr, stop, oc>>, Keeps, NEW u \in Units, NEW s \in Milestones, Runs(u, s)'
  PROVE  Runs(u, s)
<1>1. M(u)' = M(u)
  BY Frame
<1>2. ReturnsEarly(u, oc)' <=> ReturnsEarly(u, oc)
  BY SameRules
<1>3. /\ isInProductVersion(u, oc)' <=> isInProductVersion(u, oc)
      /\ syncsConfig(u, oc)' <=> syncsConfig(u, oc)
      /\ IsDisabled(u, oc)' <=> IsDisabled(u, oc)
  BY <1>1 DEF isInProductVersion, syncsConfig, IsDisabled
<1>4. "dbuser" \notin done'[u] => "dbuser" \notin done[u]
  BY DEF Keeps, Milestones
<1> QED BY <1>1, <1>2, <1>3, <1>4 DEF Runs, Milestones

\* What was reached stays reached.
LEMMA ReachedStays ==
  ASSUME Keeps, NEW u \in Units, NEW s \in Milestones, Reached(u, s)
  PROVE  Reached(u, s)'
  BY DEF Keeps, Reached

\* Leaving a step keeps the order of the pass.
LEMMA AdvanceKeeps ==
  ASSUME TypeOK, MgrInv, PassInv, UNCHANGED <<mgr, stop, spec>>, Keeps,
         NEW u \in Units, Syncing(u), Advances(u)
  PROVE  PassInv'
<1> USE DEF PassInv
<1>0. UNCHANGED <<mgr, stop, oc, stage, turn>> /\ Units' = Units /\ active' = active
  BY Frame DEF Advances
<1>1. PICK a \in Steps \cup {"failed"}, T \in SUBSET Steps :
        /\ at' = [at EXCEPT ![u] = a] /\ todo' = [todo EXCEPT ![u] = T]
        /\ \/ a = "failed" /\ T = {}
           \/ /\ a \in Steps /\ "done" \in T \cup {a}
              /\ T \cup {a} \subseteq todo[u] \cup {"restart"}
              /\ \A s \in todo[u] : s \in T \cup {a} \/ Excused(s)
              /\ \A s \in T : Place[a] <= Place[s]
              /\ \A s \in Milestones : s = at[u] /\ ~ Excused(s) => Reached(u, s)'
  BY DEF Advances
<1>2. /\ at'[u] = a /\ todo'[u] = T
      /\ \A v \in Units \ {u} : at'[v] = at[v] /\ todo'[v] = todo[v]
  BY <1>1 DEF TypeOK
<1>3. a \notin {"idle"} /\ at[u] \notin {"idle", "failed", "done"}
  BY PlaceOf DEF Syncing
<1>4. OrderInv'
  <2> SUFFICES ASSUME NEW v \in Units
               PROVE  /\ at'[v] \in {"idle", "failed"} => todo'[v] = {}
                      /\ Syncing(v)' => "done" \in todo'[v]
                      /\ \A s \in todo'[v] : Place[at'[v]] <= Place[s]
                      /\ \A s \in todo'[v] \cup {at'[v]} :
                           s \notin {"idle", "failed", "done"} => Scheduled(v, s)'
    BY <1>0 DEF OrderInv
  <2>1. CASE v # u
    BY <2>1, <1>0, <1>2, SameRules DEF OrderInv, Syncing
  <2>2. CASE v = u
    <3>1. \A s \in T \cup {a} : s \notin {"idle", "failed", "done"} => Scheduled(u, s)
      BY <1>1, <1>3 DEF OrderInv, Scheduled
    <3> QED BY <2>2, <3>1, <1>0, <1>1, <1>2, <1>3, PlaceOf, SameRules DEF Syncing
  <2> QED BY <2>1, <2>2
<1>5. AgendaInv'
  <2> SUFFICES ASSUME NEW v \in Units, NEW s \in Milestones,
                      at'[v] \notin {"idle", "failed"}, Runs(v, s)', ~ Excused(s)'
               PROVE  s \in todo'[v] \/ s = at'[v] \/ Reached(v, s)'
    BY <1>0 DEF AgendaInv
  <2>1. Runs(v, s) /\ ~ Excused(s)
    BY <1>0, RunsLess, SameRules
  <2>2. Reached(v, s) => Reached(v, s)'
    BY ReachedStays
  <2>3. CASE v # u
    BY <2>1, <2>2, <2>3, <1>2 DEF AgendaInv
  <2>4. CASE v = u
    <3>1. s \in todo[u] \/ s = at[u] \/ Reached(u, s)
      BY <2>1, <2>4, <1>3 DEF AgendaInv
    <3> QED BY <3>1, <2>1, <2>2, <2>4, <1>1, <1>2
  <2> QED BY <2>3, <2>4
<1>6. WaitInv'
  <2>1. at[u] # "idle" /\ at'[u] # "idle"
    BY <1>2, <1>3
  <2> QED BY <2>1, <1>0, <1>2 DEF WaitInv
<1>7. KeystoneInv'
  <2> SUFFICES ASSUME "keystone" \in active
               PROVE  /\ stage = "sequential" /\ turn = 1 =>
                           \A v \in Units \ {Keystone} : at'[v] = "idle"
                      /\ turn > 1 \/ stage \in {"parallel", "addons"} =>
                           stop \/ at'[Keystone] = "done"
    BY <1>0 DEF KeystoneInv
  <2>1. Keystone \in Units
    BY UnitsAre DEF Keystone
  <2> QED BY <2>1, <1>2, <1>3 DEF KeystoneInv
<1>8. AgainInv'
  <2>1. again'[u] = "" /\ \A v \in Units \ {u} : again'[v] = again[v]
    BY DEF Advances, TypeOK
  <2> QED BY <2>1, <1>0, <1>2 DEF AgainInv
<1> QED BY <1>4, <1>5, <1>6, <1>7, <1>8

\* The units S begin syncComponent.
Starts(S) ==
  /\ at' = [u \in Units |-> IF u \in S THEN First(Agenda(u)) ELSE at[u]]
  /\ todo' = [u \in Units |-> IF u \in S THEN Agenda(u) \ {First(Agenda(u))} ELSE todo[u]]

LEMMA AgendaIs ==
  ASSUME NEW u
  PROVE  /\ Agenda(u) \in SUBSET Steps /\ "done" \in Agenda(u)
         /\ First(Agenda(u)) \in Agenda(u)
         /\ \A t \in Agenda(u) : Place[First(Agenda(u))] <= Place[t]
         /\ \A s \in Agenda(u) : s = "done" \/ Scheduled(u, s)
         /\ \A s \in Milestones : Runs(u, s) => s \in Agenda(u)
<1>1. Agenda(u) \in SUBSET Steps /\ "done" \in Agenda(u)
  BY PlaceOf DEF Agenda
<1>2. First(Agenda(u)) \in Agenda(u) /\ \A t \in Agenda(u) : Place[First(Agenda(u))] <= Place[t]
  BY <1>1, FirstIn
<1>3. \A s \in Agenda(u) : s = "done" \/ Scheduled(u, s)
  BY DEF Agenda, Runs, Scheduled
<1>4. \A s \in Milestones : Runs(u, s) => s \in Agenda(u)
  BY PlaceOf DEF Agenda, Milestones
<1> QED BY <1>1, <1>2, <1>3, <1>4

LEMMA StartKeeps ==
  ASSUME TypeOK, OrderInv, AgendaInv, AgainInv, NEW S, Starts(S),
         \A u \in Units \cap S : at[u] = "idle",
         UNCHANGED <<mgr, stop, oc, again, done, server>>
  PROVE  /\ OrderInv' /\ AgendaInv' /\ AgainInv'
         /\ \A u \in Units \cap S : at'[u] \in Steps
         /\ \A u \in Units \ S : at'[u] = at[u]
<1>0. Units' = Units
  BY Frame
<1>1. \A u \in Units \cap S : at'[u] = First(Agenda(u)) /\ todo'[u] = Agenda(u) \ {First(Agenda(u))}
  BY DEF Starts
<1>2. \A u \in Units \ S : at'[u] = at[u] /\ todo'[u] = todo[u]
  BY DEF Starts
<1>3. \A u \in Units \cap S : at'[u] \in Steps
  BY <1>1, AgendaIs
<1>4. OrderInv'
  <2> SUFFICES ASSUME NEW v \in Units
               PROVE  /\ at'[v] \in {"idle", "failed"} => todo'[v] = {}
                      /\ Syncing(v)' => "done" \in todo'[v]
                      /\ \A s \in todo'[v] : Place[at'[v]] <= Place[s]
                      /\ \A s \in todo'[v] \cup {at'[v]} :
                           s \notin {"idle", "failed", "done"} => Scheduled(v, s)'
    BY <1>0 DEF OrderInv
  <2>1. CASE v \notin S
    BY <2>1, <1>2, SameRules DEF OrderInv, Syncing
  <2>2. CASE v \in S
    BY <2>2, <1>1, <1>3, AgendaIs, SameRules, PlaceOf DEF Syncing
  <2> QED BY <2>1, <2>2
<1>5. AgendaInv'
  <2> SUFFICES ASSUME NEW v \in Units, NEW s \in Milestones,
                      at'[v] \notin {"idle", "failed"}, Runs(v, s)', ~ Excused(s)'
               PROVE  s \in todo'[v] \/ s = at'[v] \/ Reached(v, s)'
    BY <1>0 DEF AgendaInv
  <2>1. Keeps
    BY DEF Keeps
  <2>2. Runs(v, s) /\ ~ Excused(s)
    BY <2>1, RunsLess, SameRules
  <2>3. CASE v \in S
    BY <2>2, <2>3, <1>1, AgendaIs
  <2>4. CASE v \notin S
    BY <2>1, <2>2, <2>4, <1>2, ReachedStays DEF AgendaInv
  <2> QED BY <2>3, <2>4
<1>6. AgainInv'
  <2>1. \A u \in Units : again[u] # "" => at'[u] = at[u]
    BY <1>2, PlaceOf DEF AgainInv
  <2> QED BY <2>1, <1>0 DEF AgainInv
<1> QED BY <1>2, <1>3, <1>4, <1>5, <1>6
-----------------------------------------------------------------------------
(* The steps of the pass. *)

LEMMA EndKeeps ==
  ASSUME EndPass, mgr' = mgr
  PROVE  PassInv'
<1>0. Units' = Units
  BY Frame
<1>1. \A u \in Units : at'[u] = "idle" /\ todo'[u] = {} /\ again'[u] = ""
  BY DEF EndPass
<1>2. stage' = "idle" /\ turn' = 0
  BY DEF EndPass
<1>3. OrderInv' /\ AgendaInv' /\ AgainInv'
  BY <1>0, <1>1, PlaceOf DEF OrderInv, AgendaInv, AgainInv, Syncing
<1>4. WaitInv'
  BY <1>0, <1>1, <1>2 DEF WaitInv
<1>5. KeystoneInv'
  BY <1>2 DEF KeystoneInv
<1> QED BY <1>3, <1>4, <1>5 DEF PassInv

LEMMA PassStartKeeps ==
  ASSUME PassInv, PassStart
  PROVE  PassInv'
<1> USE DEF PassInv
<1>0. Units' = Units /\ UNCHANGED <<turn, at, todo, again>> /\ stage' = "sequential"
  BY Frame DEF PassStart
<1>1. turn = 0 /\ \A u \in Units : at[u] = "idle" /\ todo[u] = {} /\ again[u] = ""
  BY DEF PassStart, WaitInv, OrderInv, AgainInv, ObjectSteps
<1>2. OrderInv' /\ AgendaInv' /\ AgainInv'
  BY <1>0, <1>1, PlaceOf DEF OrderInv, AgendaInv, AgainInv, Syncing
<1>3. WaitInv'
  BY <1>0, <1>1 DEF WaitInv
<1>4. KeystoneInv'
  <2>1. turn' = 0 /\ stage' = "sequential"
    BY <1>0, <1>1
  <2> QED BY <2>1 DEF KeystoneInv
<1> QED BY <1>2, <1>3, <1>4

LEMMA TurnIs ==
  ASSUME TypeOK
  PROVE  turn \in Nat /\ (turn > 0 => turn \in DOMAIN Sequential)
<1>1. Len(Sequential) \in Nat /\ DOMAIN Sequential = 1..Len(Sequential)
  BY SequentialIs
<1>2. turn \in 0..Len(Sequential)
  BY DEF TypeOK
<1> QED BY <1>1, <1>2

\* No manager has two places in the sequence.
LEMMA SequentialOnce ==
  ASSUME NEW i \in DOMAIN Sequential, NEW j \in DOMAIN Sequential, Sequential[i] = Sequential[j]
  PROVE  i = j
  BY SequentialIs

LEMMA KeystoneUnit ==
  ASSUME TypeOK, MgrInv, NEW u \in Units, u[1] = "keystone"
  PROVE  u = Keystone
<1>1. u[2] = ""
  BY UnitsAre, KeystoneIs
<1>2. u = <<u[1], u[2]>>
  BY UnitsAre
<1> QED BY <1>1, <1>2, Zenon DEF Keystone

\* A manager that is over, in one zone, has no unit that is syncing.
LEMMA OverIs ==
  ASSUME TypeOK, MgrInv, NEW c \in active, ~ ManagerOf[c].zoned, Over(c)
  PROVE  /\ ~ Syncing(<<c, "">>)
         /\ ~ Failed(c) => at[<<c, "">>] = "done"
<1>1. UnitsOf(c) = {<<c, "">>}
  BY UnitsAre
<1> QED BY <1>1 DEF Over, Failed, Syncing

\* Keystone is over when the pass has started it, and done unless services are stopped.
LEMMA KeystoneOver ==
  ASSUME TypeOK, MgrInv, PassInv, stage = "sequential", turn > 0, "keystone" \in active,
         Over(Sequential[turn]), ~ (Failed(Sequential[turn]) /\ ~ stop)
  PROVE  stop \/ at[Keystone] = "done"
<1>1. CASE turn = 1
  BY <1>1, OverIs, KeystoneIs, SequentialIs DEF Keystone
<1>2. CASE turn # 1
  BY <1>2, TurnIs DEF PassInv, KeystoneInv
<1> QED BY <1>1, <1>2

LEMMA StartIs ==
  ASSUME NEW cs, Start(cs)
  PROVE  Starts({ u \in Units : u[1] \in cs /\ u[2] = "" })
  BY DEF Start, Starts

LEMMA StartNextKeeps ==
  ASSUME TypeOK, MgrInv, PassInv, stage = "sequential", StartNext,
         turn > 0 => Over(Sequential[turn]),
         ~ (turn > 0 /\ Failed(Sequential[turn]) /\ ~ stop),
         UNCHANGED <<mgr, stop, done, server>>
  PROVE  PassInv'
<1> USE DEF PassInv
<1>1. PICK i \in Upcoming :
        (\A j \in Upcoming : i <= j) /\ turn' = i /\ Start({Sequential[i]})
  BY DEF StartNext
<1>2. UNCHANGED <<mgr, stop, oc, stage, again, done, server>>
  BY DEF StartNext
<1>3. i \in DOMAIN Sequential /\ i \in Nat /\ i > turn /\ turn \in Nat
  BY <1>1, SequentialIs, TurnIs DEF Upcoming
<1> DEFINE S == { u \in Units : u[1] \in {Sequential[i]} /\ u[2] = "" }
<1>4. \A u \in Units \cap S : at[u] = "idle"
  <2> SUFFICES ASSUME NEW u \in Units, u[1] = Sequential[i], at[u] # "idle" PROVE FALSE
    OBVIOUS
  <2>1. PICK j \in 1..turn : u[1] = Sequential[j]
    BY DEF WaitInv
  <2>2. turn \in DOMAIN Sequential /\ j \in DOMAIN Sequential
    BY <2>1, <1>3, TurnIs, SequentialIs
  <2>3. i = j
    BY <2>1, <2>2, <1>3, SequentialOnce
  <2> QED BY <2>1, <2>3, <1>3
<1>5. Starts(S)
  BY <1>1, StartIs
<1> HIDE DEF S
<1>6. /\ OrderInv' /\ AgendaInv' /\ AgainInv'
      /\ \A u \in Units \cap S : at'[u] \in Steps
      /\ \A u \in Units \ S : at'[u] = at[u]
  BY <1>2, <1>4, <1>5, StartKeeps
<1>7. Units' = Units /\ active' = active
  BY <1>2, Frame
<1>8. \A u \in Units : u \in S => u[1] = Sequential[i]
  BY DEF S
<1>9. WaitInv'
  <2> SUFFICES ASSUME NEW u \in Units, at'[u] # "idle"
               PROVE  \E j \in 1..i : u[1] = Sequential[j]
    BY <1>1, <1>2, <1>7 DEF WaitInv
  <2>1. CASE u \in S
    BY <2>1, <1>3, <1>8
  <2>2. CASE u \notin S
    BY <2>2, <1>3, <1>6 DEF WaitInv
  <2> QED BY <2>1, <2>2
<1>10. KeystoneInv'
  <2> SUFFICES ASSUME "keystone" \in active
               PROVE  /\ i = 1 => \A u \in Units \ {Keystone} : at'[u] = "idle"
                      /\ i > 1 => stop \/ at'[Keystone] = "done"
    BY <1>1, <1>2, <1>7 DEF KeystoneInv
  <2>1. Keystone \in Units /\ Keystone[1] = "keystone"
    BY UnitsAre DEF Keystone
  <2>2. ASSUME i = 1, NEW u \in Units, u # Keystone
        PROVE  at'[u] = "idle"
    <3>1. at[u] = "idle"
      BY <2>2, <1>3 DEF WaitInv
    <3>2. u[1] # "keystone"
      BY <2>2, KeystoneUnit
    <3>3. u \notin S
      BY <2>2, <3>2, <1>8, SequentialIs
    <3> QED BY <2>2, <3>1, <3>3, <1>6
  <2>3. ASSUME i > 1
        PROVE  stop \/ at'[Keystone] = "done"
    <3>1. 1 \in DOMAIN Sequential /\ Sequential[1] = "keystone"
      BY SequentialIs
    <3>2. turn # 0
      BY <2>3, <3>1, <1>1, <1>3 DEF Upcoming
    <3>3. stop \/ at[Keystone] = "done"
      BY <3>2, <1>3, KeystoneOver
    <3>4. Sequential[i] # "keystone"
      BY <2>3, <3>1, <1>3, SequentialIs
    <3>5. Keystone \notin S
      BY <3>4, <2>1, <1>8
    <3> QED BY <2>1, <3>3, <3>5, <1>6
  <2> QED BY <2>2, <2>3
<1> QED BY <1>6, <1>9, <1>10

LEMMA SequentialKeeps ==
  ASSUME TypeOK, MgrInv, PassInv, SequentialStep
  PROVE  PassInv'
<1>0. stage = "sequential" /\ (turn > 0 => Over(Sequential[turn])) /\
      UNCHANGED <<mgr, stop, done, server>>
  BY DEF SequentialStep, objects, outside
<1>1. CASE turn > 0 /\ Failed(Sequential[turn]) /\ ~ stop
  <2>1. EndPass
    BY <1>1 DEF SequentialStep
  <2> QED BY <2>1, <1>0, EndKeeps
<1>2. CASE ~ (turn > 0 /\ Failed(Sequential[turn]) /\ ~ stop) /\ Upcoming # {}
  <2>1. StartNext
    BY <1>2 DEF SequentialStep
  <2> QED BY <2>1, <1>0, <1>2, StartNextKeeps
<1>3. CASE ~ (turn > 0 /\ Failed(Sequential[turn]) /\ ~ stop) /\ Upcoming = {}
  <2> USE DEF PassInv
  <2> DEFINE S == { u \in Units : u[1] \in Parallel /\ u[2] = "" }
  <2>1. stage' = "parallel" /\ Start(Parallel) /\ UNCHANGED <<oc, turn, again>>
    BY <1>3 DEF SequentialStep
  <2>2. Starts(S)
    BY <2>1, StartIs
  <2>3. \A u \in Units : u[1] \in Parallel \cup Addons => at[u] = "idle"
    <3> SUFFICES ASSUME NEW u \in Units, u[1] \in Parallel \cup Addons, at[u] # "idle"
                 PROVE  FALSE
      OBVIOUS
    <3>1. PICK j \in 1..turn : u[1] = Sequential[j]
      BY <1>0 DEF WaitInv
    <3>2. turn \in DOMAIN Sequential /\ j \in DOMAIN Sequential
      BY <3>1, TurnIs, SequentialIs
    <3> QED BY <3>1, <3>2, SequentialIs
  <2>4. \A u \in Units : u \in S => u[1] \in Parallel
    OBVIOUS
  <2> HIDE DEF S
  <2>5. /\ OrderInv' /\ AgendaInv' /\ AgainInv'
        /\ \A u \in Units \ S : at'[u] = at[u]
    BY <2>1, <2>2, <2>3, <2>4, <1>0, StartKeeps
  <2>6. Units' = Units /\ active' = active
    BY <1>0, Frame
  <2>7. WaitInv'
    <3>1. \A u \in Units : u[1] \in Addons => u \notin S
      BY <2>4, SequentialIs
    <3> QED BY <3>1, <2>1, <2>3, <2>5, <2>6 DEF WaitInv
  <2>8. KeystoneInv'
    <3> SUFFICES ASSUME "keystone" \in active PROVE stop \/ at'[Keystone] = "done"
      BY <1>0, <2>1, <2>6 DEF KeystoneInv
    <3>1. turn \in Nat /\ turn # 0
      BY <1>3, SequentialIs, TurnIs DEF Upcoming
    <3>2. stop \/ at[Keystone] = "done"
      BY <1>0, <1>3, <3>1, KeystoneOver
    <3>3. Keystone \in Units /\ Keystone[1] = "keystone"
      BY UnitsAre DEF Keystone
    <3>4. Keystone \notin S
      BY <3>3, <2>4, KeystoneIs
    <3> QED BY <3>2, <3>3, <3>4, <2>5
  <2> QED BY <2>5, <2>7, <2>8
<1> QED BY <1>1, <1>2, <1>3

LEMMA ParallelKeeps ==
  ASSUME TypeOK, MgrInv, PassInv, ParallelEnd
  PROVE  PassInv'
<1>0. stage = "parallel" /\ UNCHANGED <<mgr, stop, done, server>>
  BY DEF ParallelEnd, objects, outside
<1>1. CASE EndPass
  BY <1>0, <1>1, EndKeeps
<1>2. CASE ~ EndPass
  <2> USE DEF PassInv
  <2> DEFINE S == { u \in Units : u[1] \in Addons /\ u[2] = "" }
  <2>1. stage' = "addons" /\ Start(Addons) /\ UNCHANGED <<oc, turn, again>>
    BY <1>2 DEF ParallelEnd
  <2>2. Starts(S)
    BY <2>1, StartIs
  <2>3. \A u \in Units : u \in S => u[1] \in Addons /\ at[u] = "idle"
    BY <1>0 DEF WaitInv
  <2> HIDE DEF S
  <2>4. /\ OrderInv' /\ AgendaInv' /\ AgainInv'
        /\ \A u \in Units \ S : at'[u] = at[u]
    BY <2>1, <2>2, <2>3, <1>0, StartKeeps
  <2>5. Units' = Units /\ active' = active
    BY <1>0, Frame
  <2>6. WaitInv'
    BY <2>1 DEF WaitInv
  <2>7. KeystoneInv'
    <3> SUFFICES ASSUME "keystone" \in active PROVE stop \/ at'[Keystone] = "done"
      BY <1>0, <2>1, <2>5 DEF KeystoneInv
    <3>1. Keystone \in Units /\ Keystone[1] = "keystone"
      BY UnitsAre DEF Keystone
    <3>2. Keystone \notin S
      BY <3>1, <2>3, KeystoneIs
    <3> QED BY <3>1, <3>2, <1>0, <2>4 DEF KeystoneInv
  <2> QED BY <2>4, <2>6, <2>7
<1> QED BY <1>1, <1>2

LEMMA NextZoneKeeps ==
  ASSUME TypeOK, MgrInv, PassInv, NEW u \in Units, NextZone(u)
  PROVE  PassInv'
<1> USE DEF PassInv
<1>0. at[u] = "done" /\ UNCHANGED <<mgr, stop, oc, stage, turn, again, done, server>>
  BY DEF NextZone, objects, outside
<1>1. PICK z \in Units : z[1] = u[1] /\ at[z] = "idle" /\ GoOn(z, Agenda(z))
  BY DEF NextZone
<1>2. Starts({z})
  BY <1>1 DEF Starts, GoOn, TypeOK
<1>3. /\ OrderInv' /\ AgendaInv' /\ AgainInv'
      /\ \A v \in Units \ {z} : at'[v] = at[v]
  BY <1>0, <1>1, <1>2, StartKeeps
<1>4. Units' = Units /\ active' = active
  BY <1>0, Frame
<1>5. ManagerOf[u[1]].zoned
  <2> SUFFICES ASSUME ~ ManagerOf[u[1]].zoned PROVE FALSE
    OBVIOUS
  <2>1. u[2] = "" /\ z[2] = ""
    BY <1>1, UnitsAre
  <2>2. u = <<u[1], u[2]>> /\ z = <<z[1], z[2]>>
    BY UnitsAre
  <2>3. u = z
    BY <1>1, <2>1, <2>2, Zenon
  <2> QED BY <2>3, <1>0, <1>1
<1>6. WaitInv'
  BY <1>0, <1>1, <1>3, <1>4 DEF WaitInv
<1>7. KeystoneInv'
  <2> SUFFICES ASSUME "keystone" \in active
               PROVE  /\ stage = "sequential" /\ turn = 1 =>
                           \A v \in Units \ {Keystone} : at'[v] = "idle"
                      /\ turn > 1 \/ stage \in {"parallel", "addons"} =>
                           stop \/ at'[Keystone] = "done"
    BY <1>0, <1>4 DEF KeystoneInv
  <2>1. Keystone \in Units /\ Keystone[1] = "keystone"
    BY UnitsAre DEF Keystone
  <2>2. z # Keystone /\ u # Keystone
    BY <2>1, <1>1, <1>5, KeystoneIs
  <2>3. ~ (stage = "sequential" /\ turn = 1)
    BY <2>2, <1>0 DEF KeystoneInv
  <2> QED BY <2>1, <2>2, <2>3, <1>3 DEF KeystoneInv
<1> QED BY <1>3, <1>6, <1>7
-----------------------------------------------------------------------------
(* The inductive invariant: the objects. *)

\* A lister that has the newest version has the object itself; a configuration that a
\* lister has exists.
CacheInv ==
  \A u \in Units :
    /\ \A k \in Kinds : seen[u][k] => cache[u][k] = server[u][k]
    /\ Exists(cache[u]["cm"]) => Exists(server[u]["cm"])

\* An image with which a daemon set is reported ready, by the API server or by the lister,
\* is one with which it has been ready.
ProvenInv ==
  \A u \in Units :
    /\ server[u]["main"].ready => server[u]["main"].v \in proven[u]
    /\ cache[u]["main"].ready => cache[u]["main"].v \in proven[u]

\* The daemon set that unit u waits for has been ready with the image of this pass.
BelowProven(u) == M(u).after \in active => oc.image \in proven[<<M(u).after, "">>]

\* It has when a refused update is to be repeated.
RetryInv == \A u \in Units : again[u] # "" => BelowProven(u)

ObjectInv == CacheInv /\ ProvenInv /\ RetryInv /\ WorkloadsProvisioned
IInv == TypeOK /\ MgrInv /\ PassInv /\ ObjectInv

\* What the workload of unit u needs is there.
Provided(u) ==
  u[1] # "host" =>
    /\ "db" \in M(u).has => {"db", "dbuser"} \subseteq done[u]
    /\ "user" \in M(u).has => "user" \in done[u]
    /\ "config" \in M(u).has /\ M(u).config # "onlyInCMP" => Exists(server[u]["cm"])

\* Keystone has been set up, if unit u has to wait for it.
KeystoneSet(u) ==
  "keystone" \in active /\ u # Keystone /\ ~ stop /\ ~ shouldDelete(Keystone, oc) =>
    {"setup", "services"} \subseteq done[Keystone]

\* The API server stores object o; an object that the invariant lets a step store.
Puts(u, k, o) ==
  /\ server' = [server EXCEPT ![u][k] = o]
  /\ seen' = [seen EXCEPT ![u][k] = FALSE]
  /\ cache' = cache

Allowed(u, k, o) ==
  /\ k = "cm" => Exists(o)
  /\ k = "main" /\ ~ Exists(o) => ~ o.ready
  /\ k = "main" /\ Exists(o) =>
       /\ o.v = oc.image /\ BelowProven(u) /\ (o.ready => o.v \in proven[u])
       /\ Exists(server[u]["main"]) \/ (Provided(u) /\ KeystoneSet(u))

LEMMA SpecTypes ==
  ASSUME TypeOK
  PROVE  /\ spec.image \in Nat /\ spec.port \in Nat /\ oc.image \in Nat /\ oc.port \in Nat
         /\ spec \in ClusterSpec /\ oc \in ClusterSpec
<1>1. spec \in ClusterSpec /\ oc \in ClusterSpec
  BY DEF TypeOK
<1> QED BY <1>1 DEF ClusterSpec

LEMMA ObjectTypes ==
  ASSUME TypeOK, NEW u \in Units
  PROVE  /\ server \in [Units -> [Kinds -> Object]] /\ seen \in [Units -> [Kinds -> BOOLEAN]]
         /\ again[u] \in Kinds \cup {""}
         /\ \A k \in Kinds :
              /\ server[u][k] \in Object /\ server[u][k].v \in Nat /\ server[u][k].ann \in Nat
              /\ cache[u][k] \in Object /\ cache[u][k].v \in Nat /\ cache[u][k].ann \in Nat
<1>1. server[u] \in [Kinds -> Object] /\ cache[u] \in [Kinds -> Object]
  BY DEF TypeOK
<1>2. \A o \in Object : o.v \in Nat /\ o.ann \in Nat
  BY DEF Object
<1>3. again[u] \in Kinds \cup {""}
  BY DEF TypeOK
<1>4. server \in [Units -> [Kinds -> Object]] /\ seen \in [Units -> [Kinds -> BOOLEAN]]
  BY DEF TypeOK
<1> QED BY <1>1, <1>2, <1>3, <1>4

LEMMA KindIs ==
  ASSUME TypeOK, AgainInv, NEW u \in Units, at[u] \in ObjectSteps
  PROVE  /\ Kind(u) \in Kinds \ {"cm"}
         /\ Kind(u) = "main" <=> at[u] \in {"deployment", "daemonset"}
<1>1. CASE again[u] # ""
  <2>1. Kind(u) = again[u] /\ again[u] \in Kinds
    BY <1>1, ObjectTypes DEF Kind
  <2> QED BY <1>1, <2>1 DEF AgainInv
<1>2. CASE again[u] = ""
  <2>1. syncService(u) \in {"svc", "slave"}
    BY DEF syncService
  <2> QED BY <1>2, <2>1 DEF Kind, Kinds, ObjectSteps
<1> QED BY <1>1, <1>2

LEMMA WantIs ==
  ASSUME TypeOK, NEW u
  PROVE  Want(u) \in Nat /\ (at[u] \in Workloads => Want(u) = oc.image)
  BY SpecTypes DEF Want, Workloads

LEMMA BelowIs ==
  ASSUME TypeOK, MgrInv, NEW u \in Units, M(u).after \in active
  PROVE  /\ u[1] \in OVSManagers /\ M(u).after \in OVSManagers
         /\ <<M(u).after, "">> \in Units
  BY UnitsAre, AfterIs

\* The operator creates or updates a daemon set only when the lister has the one below as
\* ready with the image of the pass, and what the lister says has been so.
LEMMA LooksBelow ==
  ASSUME IInv, NEW u \in Units, at[u] \in {"deployment", "daemonset"}, ~ NotYet(u)
  PROVE  BelowProven(u)
<1> USE DEF IInv, PassInv, ObjectInv
<1> SUFFICES ASSUME M(u).after \in active
             PROVE  oc.image \in proven[<<M(u).after, "">>]
  BY DEF BelowProven
<1> DEFINE b == <<M(u).after, "">>
<1>1. b \in Units /\ u[1] \in OVSManagers /\ M(u) = ManagerOf[u[1]]
  BY BelowIs, UnitsAre
<1>2. at[u] \in M(u).has \cup {"dbuser", "grant", "restart"}
  BY DEF OrderInv, Scheduled
<1>3. at[u] = "daemonset"
  BY <1>1, <1>2, OVSManagersAre
<1>4. M(u).after # ""
  BY BelowIs DEF OVSManagers
<1>5. cache[b]["main"].v = oc.image /\ cache[b]["main"].ready
  BY <1>3, <1>4 DEF NotYet, isDsReady
<1> QED BY <1>1, <1>5 DEF ProvenInv

\* A unit that has come to its workload has reached what the workload needs.
LEMMA CreateProvided ==
  ASSUME IInv, NEW u \in Units, at[u] \in {"deployment", "daemonset"}, ~ Unwanted(u)
  PROVE  Provided(u)
<1> USE DEF IInv, PassInv
<1>1. isInProductVersion(u, oc) /\ ~ shouldStop(u) /\ ~ IsDisabled(u, oc)
  BY DEF Unwanted, shouldDelete
<1>2. ~ ReturnsEarly(u, oc)
  BY DEF OrderInv, Scheduled
<1>3. \A s \in {"db", "dbuser", "user", "config"} : s \notin todo[u] /\ s # at[u]
  BY PlaceOf DEF OrderInv
<1>4. \A s \in {"db", "dbuser", "user", "config"} :
        Runs(u, s) /\ ~ stop => Reached(u, s)
  BY <1>3 DEF AgendaInv, Milestones, Excused
<1>5. CASE u[1] = "ovn-north"
  <2>1. M(u) = ManagerOf["ovn-north"]
    BY <1>5, UnitsAre
  <2> QED BY <2>1, OvnNorthIs DEF Provided
<1>6. CASE u[1] # "ovn-north" /\ u[1] # "host"
  <2>1. ~ stop
    BY <1>1, <1>6 DEF shouldStop
  <2>2. "db" \in M(u).has => Runs(u, "db") /\ ("dbuser" \in done[u] \/ Runs(u, "dbuser"))
    BY <1>1, <1>2 DEF Runs, syncPhase
  <2>3. "user" \in M(u).has => Runs(u, "user")
    BY <1>1, <1>2 DEF Runs, syncPhase
  <2>4. "config" \in M(u).has /\ M(u).config # "onlyInCMP" => Runs(u, "config")
    BY <1>1, <1>2 DEF Runs, syncPhase, syncsConfig
  <2> QED BY <1>4, <2>1, <2>2, <2>3, <2>4 DEF Provided, Reached
<1>7. CASE u[1] = "host"
  BY <1>7 DEF Provided
<1> QED BY <1>5, <1>6, <1>7

\* Nobody but keystone comes to a workload before keystone is done, with its set-up.
LEMMA CreateAfterKeystone ==
  ASSUME IInv, NEW u \in Units, Syncing(u)
  PROVE  KeystoneSet(u)
<1> USE DEF IInv, PassInv
<1> SUFFICES ASSUME "keystone" \in active, u # Keystone, ~ stop, ~ shouldDelete(Keystone, oc)
             PROVE  {"setup", "services"} \subseteq done[Keystone]
  BY DEF KeystoneSet
<1>1. Keystone \in Units /\ Keystone[1] = "keystone" /\ M(Keystone) = ManagerOf["keystone"]
  BY UnitsAre DEF Keystone
<1>2. at[u] # "idle"
  BY DEF Syncing
<1>3. at[Keystone] = "done"
  <2>1. stage \in {"idle", "sequential", "parallel", "addons"}
    BY DEF TypeOK
  <2>2. CASE stage = "idle"
    BY <2>2, <1>2 DEF WaitInv
  <2>3. CASE stage = "sequential"
    <3>1. turn \in Nat
      BY TurnIs
    <3>2. turn # 0
      BY <2>3, <1>2 DEF WaitInv
    <3>3. turn # 1
      BY <2>3, <1>2 DEF KeystoneInv
    <3> QED BY <3>1, <3>2, <3>3 DEF KeystoneInv
  <2>4. CASE stage \in {"parallel", "addons"}
    BY <2>4 DEF KeystoneInv
  <2> QED BY <2>1, <2>2, <2>3, <2>4
<1>4. \A s \in {"setup", "services"} : s \notin todo[Keystone]
  BY <1>1, <1>3, PlaceOf DEF OrderInv
<1>5. ~ ReturnsEarly(Keystone, oc)
  BY <1>1, KeystoneIs DEF ReturnsEarly
<1>6. \A s \in {"setup", "services"} : Runs(Keystone, s)
  BY <1>1, <1>5, KeystoneIs DEF Runs, shouldDelete, syncPhase
<1>7. \A s \in {"setup", "services"} : Reached(Keystone, s)
  BY <1>1, <1>3, <1>4, <1>6 DEF AgendaInv, Milestones, Excused
<1> QED BY <1>7 DEF Reached
-----------------------------------------------------------------------------
(* What a unit's step stores. *)

Writes ==
  /\ proven' = proven
  /\ \E u \in Units, k \in Kinds, o \in Object : Puts(u, k, o) /\ Allowed(u, k, o)

LEMMA Removes ==
  ASSUME NEW u \in Units, NEW k \in Kinds, k # "cm", Store(u, k, None)
  PROVE  Writes
<1>1. None \in Object /\ ~ Exists(None) /\ ~ None.ready
  BY DEF None, Object, Exists
<1>2. Puts(u, k, None) /\ Allowed(u, k, None) /\ proven' = proven
  BY <1>1 DEF Store, Puts, Allowed
<1> QED BY <1>1, <1>2 DEF Writes

LEMMA ActingIs ==
  ASSUME NEW u \in Units, at[u] \in ObjectSteps
  PROVE  Syncing(u) /\ (at[u] \in {"deployment", "daemonset"} => at[u] \in Workloads)
  BY DEF ObjectSteps, Syncing, Workloads

LEMMA CreateWrites ==
  ASSUME IInv, NEW u \in Units, Create(u)
  PROVE  Writes
<1> USE DEF IInv, PassInv
<1> DEFINE o == Fresh(u)
           k == Kind(u)
<1>1. at[u] \in ObjectSteps /\ ~ NotYet(u) /\ ~ Unwanted(u) /\ ~ Exists(cache[u][k])
  BY DEF Create, Acting, Quiet, Old
<1>2. k \in Kinds \ {"cm"} /\ (k = "main" => at[u] \in {"deployment", "daemonset"})
  BY <1>1, KindIs
<1>3. o \in Object /\ o.v = Want(u) /\ ~ o.ready
  BY WantIs DEF Fresh, Object
<1>4. Puts(u, k, o) /\ proven' = proven
  BY DEF Create, Store, Puts
<1> HIDE DEF o, k
<1>5. ASSUME k = "main"
      PROVE  o.v = oc.image /\ BelowProven(u) /\ Provided(u) /\ KeystoneSet(u)
  <2>1. Syncing(u) /\ o.v = oc.image
    BY <1>1, <1>2, <1>3, <1>5, ActingIs, WantIs
  <2>2. BelowProven(u) /\ Provided(u) /\ KeystoneSet(u)
    BY <1>1, <1>2, <1>5, <2>1, LooksBelow, CreateProvided, CreateAfterKeystone
  <2> QED BY <2>1, <2>2
<1>6. Allowed(u, k, o)
  BY <1>2, <1>3, <1>5 DEF Allowed
<1> QED BY <1>2, <1>3, <1>4, <1>6 DEF Writes

\* An update: the pods stay ready when their image does.
LEMMA UpdatesWrite ==
  ASSUME IInv, NEW u \in Units, at[u] \in ObjectSteps, NEW o \in Object, Store(u, Kind(u), o),
         Exists(New(u)), o.v = Want(u),
         o.ready => New(u).ready /\ New(u).v = Want(u),
         at[u] \in {"deployment", "daemonset"} => BelowProven(u)
  PROVE  Writes
<1> USE DEF IInv, PassInv, ObjectInv
<1> DEFINE k == Kind(u)
<1>1. k \in Kinds \ {"cm"} /\ (k = "main" => at[u] \in {"deployment", "daemonset"})
  BY KindIs
<1>2. Puts(u, k, o) /\ proven' = proven /\ Exists(server[u][k])
  BY DEF Store, Puts, New
<1>3. o.ready => server[u][k].ready /\ server[u][k].v = o.v
  BY DEF New
<1> HIDE DEF k
<1>4. k = "main" => o.v = oc.image /\ BelowProven(u)
  BY <1>1, ActingIs, WantIs
<1>5. k = "main" => (o.ready => o.v \in proven[u])
  BY <1>3 DEF ProvenInv
<1>6. Allowed(u, k, o)
  <2>1. CASE Exists(o)
    BY <1>1, <1>2, <1>4, <1>5, <2>1 DEF Allowed
  <2>2. CASE ~ Exists(o)
    BY <1>1, <1>2, <1>3, <2>2 DEF Allowed, Exists
  <2> QED BY <2>1, <2>2
<1> QED BY <1>1, <1>2, <1>6 DEF Writes

LEMMA UpdateWrites ==
  ASSUME IInv, NEW u \in Units, Update(u)
  PROVE  Writes
<1> USE DEF IInv, PassInv, ObjectInv
<1>1. /\ at[u] \in ObjectSteps /\ ~ NotYet(u) /\ Exists(Old(u))
      /\ seen[u][Kind(u)] /\ Store(u, Kind(u), Updated(u))
  BY DEF Update, Updating, Acting, Quiet
<1>2. Kind(u) \in Kinds /\ (Kind(u) = "main" <=> at[u] \in {"deployment", "daemonset"})
  BY <1>1, KindIs
<1>3. Old(u) = New(u)
  BY <1>1, <1>2 DEF CacheInv, Old, New
<1>4. New(u).ready \in BOOLEAN
  BY <1>2, ObjectTypes DEF New, Object
<1>5. /\ Updated(u) \in Object /\ Updated(u).v = Want(u)
      /\ Updated(u).ready <=> New(u).ready /\ New(u).v = Want(u)
  BY <1>4, WantIs DEF Updated, Object
<1>6. at[u] \in {"deployment", "daemonset"} => BelowProven(u)
  BY <1>1, LooksBelow
<1> QED BY <1>1, <1>3, <1>5, <1>6, UpdatesWrite

LEMMA RetryWrites ==
  ASSUME IInv, NEW u \in Units, Retry(u)
  PROVE  Writes
<1> USE DEF IInv, PassInv, ObjectInv
<1>1. /\ again[u] # "" /\ Exists(New(u)) /\ (seen[u][Kind(u)] \/ at[u] = "ingress")
      /\ Store(u, Kind(u), Repeated(u))
  BY DEF Retry
<1>2. at[u] \in ObjectSteps /\ BelowProven(u)
  BY <1>1 DEF AgainInv, RetryInv
<1>3. Kind(u) \in Kinds /\ (Kind(u) = "main" <=> at[u] \in {"deployment", "daemonset"})
  BY <1>2, KindIs
<1>4. New(u).ready \in BOOLEAN /\ New(u).ann \in Nat /\ Old(u).ann \in Nat
  BY <1>3, ObjectTypes DEF New, Old, Object
<1>5. /\ Repeated(u) \in Object /\ Repeated(u).v = Want(u)
      /\ Repeated(u).ready <=> New(u).ready /\ New(u).v = Want(u)
  BY <1>4, WantIs DEF Repeated, Updated, Object
<1> QED BY <1>1, <1>2, <1>5, UpdatesWrite

LEMMA ConfigWrites ==
  ASSUME IInv, NEW u \in Units, syncConfigMap(u)
  PROVE  (UNCHANGED objects \/ Writes) /\ Exists(server'[u]["cm"])
<1> USE DEF IInv, ObjectInv
<1> DEFINE o == [v |-> 2, ann |-> 2, ready |-> FALSE]
<1>0. "cm" \in Kinds /\ o \in Object /\ Exists(o)
  BY DEF Kinds, Object, Exists
<1>1. CASE Store(u, "cm", o)
  <2>1. Puts(u, "cm", o) /\ Allowed(u, "cm", o) /\ proven' = proven
    BY <1>0, <1>1 DEF Store, Puts, Allowed
  <2>2. server'[u]["cm"] = o
    BY <1>0, <1>1, ObjectTypes DEF Store
  <2> QED BY <1>0, <2>1, <2>2 DEF Writes
<1>2. CASE ~ Store(u, "cm", o)
  <2>1. UNCHANGED objects /\ (Exists(cache[u]["cm"]) \/ server[u]["cm"].v = 2)
    BY <1>2 DEF syncConfigMap
  <2>2. Exists(server[u]["cm"])
    BY <2>1 DEF CacheInv, Exists
  <2> QED BY <2>1, <2>2 DEF objects
<1> QED BY <1>1, <1>2
-----------------------------------------------------------------------------
(* The steps of a unit. *)

OutsideOK ==
  /\ done \in [Units -> SUBSET (External \cup {"setup"})]
  /\ reg \in [Units -> [url : Nat, slave : {"none", "off", "on"}]]
  /\ left \in [edits : Nat, faults : Nat, crashes : Nat, deletes : Nat,
               outages : Nat, all : Nat]

DoneGrows == \A u \in Units : done[u] \cap Milestones \subseteq done'[u]

\* What every step of a unit does that leaves a step of syncComponent.
Goes(u) ==
  /\ Syncing(u) /\ Advances(u) /\ UNCHANGED <<mgr, stop, spec>>
  /\ Keeps /\ (UNCHANGED objects \/ Writes) /\ OutsideOK'

LEMMA WritesKeep ==
  ASSUME TypeOK, UNCHANGED objects \/ Writes, DoneGrows
  PROVE  Keeps
<1>1. ASSUME NEW u \in Units, Exists(server[u]["cm"])
      PROVE  Exists(server'[u]["cm"])
  <2>1. CASE UNCHANGED objects
    BY <1>1, <2>1 DEF objects
  <2>2. CASE Writes
    <3>1. PICK v \in Units, k \in Kinds, o \in Object : Puts(v, k, o) /\ Allowed(v, k, o)
      BY <2>2 DEF Writes
    <3>2. server'[u]["cm"] = IF u = v /\ k = "cm" THEN o ELSE server[u]["cm"]
      BY <3>1, ObjectTypes DEF Puts, Kinds
    <3> QED BY <1>1, <3>1, <3>2 DEF Allowed
  <2> QED BY <2>1, <2>2
<1> QED BY <1>1 DEF Keeps, DoneGrows

LEMMA StepGoes ==
  ASSUME IInv, NEW u \in Units, Syncing(u), NEW ok \in BOOLEAN, Return(u, ok),
         UNCHANGED <<mgr, stop, spec>>, UNCHANGED objects \/ Writes, DoneGrows, OutsideOK',
         \A s \in Milestones : s = at[u] /\ ok => Reached(u, s)'
  PROVE  Goes(u)
  BY WritesKeep, ReturnAdvances DEF Goes, IInv, PassInv

LEMMA OutsideSame ==
  ASSUME TypeOK, UNCHANGED <<mgr, done, reg>>, left' = left
  PROVE  OutsideOK' /\ DoneGrows
<1>1. OutsideOK
  BY DEF TypeOK, OutsideOK
<1> QED BY <1>1, Frame DEF OutsideOK, DoneGrows

LEMMA ObjectGoes ==
  ASSUME IInv, NEW u \in Units, at[u] \in ObjectSteps, NEW ok \in BOOLEAN, Return(u, ok),
         UNCHANGED <<mgr, stop, spec, outside, left>>, UNCHANGED objects \/ Writes
  PROVE  Goes(u)
<1>1. Syncing(u)
  BY ActingIs
<1>2. at[u] \notin Milestones
  BY DEF ObjectSteps, Milestones
<1>3. OutsideOK' /\ DoneGrows
  BY OutsideSame DEF outside, IInv
<1> QED BY <1>1, <1>2, <1>3, StepGoes

LEMMA ObjectStepsGo ==
  ASSUME IInv, NEW u \in Units,
         \/ PassOver(u) \/ Create(u) \/ Delete(u) \/ Refused(u) \/ Update(u) \/ Retry(u)
         \/ GiveUp(u)
  PROVE  Goes(u)
<1> USE DEF IInv, PassInv
<1>1. CASE PassOver(u)
  BY <1>1, ObjectGoes DEF PassOver
<1>2. CASE Create(u)
  <2>1. Writes
    BY <1>2, CreateWrites
  <2> QED BY <1>2, <2>1, ObjectGoes DEF Create, Acting
<1>3. CASE Delete(u)
  <2>1. at[u] \in ObjectSteps /\ Store(u, Kind(u), None)
    BY <1>3 DEF Delete, Acting
  <2>2. Writes
    BY <2>1, KindIs, Removes
  <2> QED BY <1>3, <2>1, <2>2, ObjectGoes DEF Delete
<1>4. CASE Refused(u)
  BY <1>4, ObjectGoes DEF Refused, Acting
<1>5. CASE Update(u)
  <2>1. Writes
    BY <1>5, UpdateWrites
  <2> QED BY <1>5, <2>1, ObjectGoes DEF Update, Updating, Acting
<1>6. CASE Retry(u)
  <2>1. Writes
    BY <1>6, RetryWrites
  <2>2. at[u] \in ObjectSteps
    BY <1>6 DEF Retry, AgainInv
  <2> QED BY <1>6, <2>1, <2>2, ObjectGoes DEF Retry
<1>7. CASE GiveUp(u)
  <2>1. at[u] \in ObjectSteps
    BY <1>7 DEF GiveUp, AgainInv
  <2> QED BY <1>7, <2>1, ObjectGoes DEF GiveUp
<1> QED BY <1>1, <1>2, <1>3, <1>4, <1>5, <1>6, <1>7

LEMMA ConfigGoes ==
  ASSUME IInv, NEW u \in Units, syncConfigMap(u)
  PROVE  Goes(u)
<1>1. at[u] = "config" /\ Return(u, TRUE) /\ UNCHANGED <<mgr, stop, spec, outside, left>>
  BY DEF syncConfigMap
<1>2. (UNCHANGED objects \/ Writes) /\ Exists(server'[u]["cm"])
  BY ConfigWrites
<1>3. Syncing(u)
  BY <1>1 DEF Syncing
<1>4. OutsideOK' /\ DoneGrows
  BY <1>1, OutsideSame DEF outside, IInv
<1>5. \A s \in Milestones : s = at[u] => Reached(u, s)'
  BY <1>1, <1>2 DEF Reached
<1> QED BY <1>1, <1>2, <1>3, <1>4, <1>5, StepGoes

LEMMA OutsideTypes ==
  ASSUME TypeOK, NEW u \in Units
  PROVE  /\ done \in [Units -> SUBSET (External \cup {"setup"})]
         /\ reg \in [Units -> [url : Nat, slave : {"none", "off", "on"}]]
         /\ left \in [edits : Nat, faults : Nat, crashes : Nat, deletes : Nat,
                      outages : Nat, all : Nat]
         /\ reg[u] \in [url : Nat, slave : {"none", "off", "on"}]
  BY DEF TypeOK

LEMMA EnsureGoes ==
  ASSUME IInv, NEW u \in Units, NEW step \in External, Ensure(u, step)
  PROVE  Goes(u)
<1>0. TypeOK
  BY DEF IInv
<1>1. /\ at[u] = step /\ Return(u, TRUE) /\ UNCHANGED <<mgr, stop, spec, objects, reg, left>>
      /\ done' = [done EXCEPT ![u] = @ \cup {step}]
  BY DEF Ensure
<1>2. Syncing(u)
  BY <1>1 DEF Syncing, External, ClusterComponents, syncPhase
<1>3. /\ done' \in [Units -> SUBSET (External \cup {"setup"})]
      /\ step \in done'[u] /\ DoneGrows
  BY <1>0, <1>1, OutsideTypes DEF DoneGrows
<1>4. OutsideOK'
  BY <1>0, <1>1, <1>3, Frame, OutsideTypes DEF OutsideOK
<1>5. \A s \in Milestones : s = at[u] => Reached(u, s)'
  <2>1. step # "config"
    BY DEF External, ClusterComponents, syncPhase
  <2> QED BY <1>1, <1>3, <2>1 DEF Reached
<1> QED BY <1>1, <1>2, <1>3, <1>4, <1>5, StepGoes

LEMMA SpendTypes ==
  ASSUME left \in [edits : Nat, faults : Nat, crashes : Nat, deletes : Nat,
                   outages : Nat, all : Nat],
         \/ Spend("faults") \/ Spend("edits") \/ Spend("crashes") \/ Spend("deletes")
         \/ Spend("outages")
  PROVE  left' \in [edits : Nat, faults : Nat, crashes : Nat, deletes : Nat,
                    outages : Nat, all : Nat]
<1>0. /\ left.edits \in Nat /\ left.faults \in Nat /\ left.crashes \in Nat
      /\ left.deletes \in Nat /\ left.outages \in Nat /\ left.all \in Nat
  OBVIOUS
<1>1. CASE Spend("faults")
  <2>1. /\ left["faults"] > 0 /\ left["all"] > 0
        /\ left' = [left EXCEPT !["faults"] = @ - 1, !["all"] = @ - 1]
    BY <1>1 DEF Spend
  <2> QED BY <1>0, <2>1
<1>2. CASE Spend("edits")
  <2>1. /\ left["edits"] > 0 /\ left["all"] > 0
        /\ left' = [left EXCEPT !["edits"] = @ - 1, !["all"] = @ - 1]
    BY <1>2 DEF Spend
  <2> QED BY <1>0, <2>1
<1>3. CASE Spend("crashes")
  <2>1. /\ left["crashes"] > 0 /\ left["all"] > 0
        /\ left' = [left EXCEPT !["crashes"] = @ - 1, !["all"] = @ - 1]
    BY <1>3 DEF Spend
  <2> QED BY <1>0, <2>1
<1>4. CASE Spend("deletes")
  <2>1. /\ left["deletes"] > 0 /\ left["all"] > 0
        /\ left' = [left EXCEPT !["deletes"] = @ - 1, !["all"] = @ - 1]
    BY <1>4 DEF Spend
  <2> QED BY <1>0, <2>1
<1>5. CASE Spend("outages")
  <2>1. /\ left["outages"] > 0 /\ left["all"] > 0
        /\ left' = [left EXCEPT !["outages"] = @ - 1, !["all"] = @ - 1]
    BY <1>5 DEF Spend
  <2> QED BY <1>0, <2>1
<1> QED BY <1>1, <1>2, <1>3, <1>4, <1>5

LEMMA EnsureStepGoes ==
  ASSUME IInv, NEW u \in Units, EnsureStep(u)
  PROVE  Goes(u)
<1>0. TypeOK
  BY DEF IInv
<1>1. CASE isClusterComponentEnabled(u)
  <2>1. /\ at[u] \in ClusterComponents /\ done' = [done EXCEPT ![u] = @ \ {at[u]}]
        /\ Spend("faults") /\ Return(u, FALSE) /\ UNCHANGED <<mgr, stop, spec, objects, reg>>
    BY <1>1 DEF isClusterComponentEnabled
  <2>2. Syncing(u) /\ at[u] \notin Milestones
    BY <2>1 DEF Syncing, ClusterComponents, Milestones
  <2>3. done' \in [Units -> SUBSET (External \cup {"setup"})] /\ DoneGrows
    BY <1>0, <2>1, <2>2, OutsideTypes DEF DoneGrows
  <2>4. OutsideOK'
    BY <1>0, <2>1, <2>3, Frame, OutsideTypes, SpendTypes DEF OutsideOK
  <2> QED BY <2>1, <2>2, <2>3, <2>4, StepGoes
<1>2. CASE OnlyLogged(u)
  <2>1. /\ at[u] \in {"policies", "alerts"} /\ Spend("faults") /\ Return(u, TRUE)
        /\ UNCHANGED <<mgr, stop, spec, objects, done, reg>>
    BY <1>2 DEF OnlyLogged, outside
  <2>2. Syncing(u) /\ at[u] \notin Milestones
    BY <2>1 DEF Syncing, Milestones
  <2>3. DoneGrows
    BY <2>1 DEF DoneGrows
  <2>4. OutsideOK'
    BY <1>0, <2>1, Frame, OutsideTypes, SpendTypes DEF OutsideOK
  <2> QED BY <2>1, <2>2, <2>3, <2>4, StepGoes
<1>3. CASE \E step \in External : Ensure(u, step)
  BY <1>3, EnsureGoes
<1>4. isClusterComponentEnabled(u) \/ OnlyLogged(u) \/ \E step \in External : Ensure(u, step)
  BY DEF EnsureStep, EnsureCronJobs, CreateDatabase, CreateDBUser, grant,
         EnsureClusterClickhouseUser, EnsureServiceAccount, doPolicyRoleInit,
         doCreateCommonService, ensureZoneAndWire, initScheduleData, ensureTemplates,
         syncCommonAlerts, getOrCreateProxyAgent, syncGlobalSettings,
         ensureAiProxyAPILogBucket, syncBucketPolicy, SyncMinio, SyncMonitorMinio,
         SyncMonitorThanos, SyncMonitorStack, syncClusterComponent,
         External, ClusterComponents, syncPhase
<1> QED BY <1>1, <1>2, <1>3, <1>4

LEMMA RestartRegionGoes ==
  ASSUME IInv, NEW u \in Units, RestartRegion(u)
  PROVE  Goes(u)
<1>1. at[u] = "restart" /\ Return(u, TRUE) /\ UNCHANGED <<mgr, stop, spec, done, reg, left>>
  BY DEF RestartRegion, outside
<1>2. UNCHANGED objects \/ Writes
  <2>1. "region" \in active => Region \in Units
    BY UnitsAre DEF Region, IInv
  <2>2. UNCHANGED objects \/ ("region" \in active /\ Store(Region, "main", None))
    BY DEF RestartRegion
  <2> QED BY <2>1, <2>2, Removes DEF Kinds
<1>3. Syncing(u) /\ at[u] \notin Milestones
  BY <1>1 DEF Syncing, Milestones
<1>4. OutsideOK' /\ DoneGrows
  BY <1>1, OutsideSame DEF IInv
<1> QED BY <1>1, <1>2, <1>3, <1>4, StepGoes

LEMMA RequestFailsGoes ==
  ASSUME IInv, NEW u \in Units, RequestFails(u)
  PROVE  Goes(u)
<1>0. TypeOK
  BY DEF IInv
<1>1. /\ Syncing(u) /\ Return(u, at[u] = "restart") /\ (left' = left \/ Spend("faults"))
      /\ UNCHANGED <<mgr, stop, spec, objects, done, reg>>
  BY DEF RequestFails, outside
<1>2. DoneGrows
  BY <1>1 DEF DoneGrows
<1>3. OutsideOK'
  BY <1>0, <1>1, Frame, OutsideTypes, SpendTypes DEF OutsideOK
<1>4. \A s \in Milestones : s = at[u] /\ (at[u] = "restart") => Reached(u, s)'
  BY DEF Milestones
<1>5. (at[u] = "restart") \in BOOLEAN
  OBVIOUS
<1> DEFINE ok == at[u] = "restart"
<1>6. ok \in BOOLEAN /\ Return(u, ok) /\ \A s \in Milestones : s = at[u] /\ ok => Reached(u, s)'
  BY <1>1, <1>4, <1>5
<1> HIDE DEF ok
<1> QED BY <1>1, <1>2, <1>3, <1>6, StepGoes

LEMMA SetupGoes ==
  ASSUME IInv, NEW u \in Units, Setup(u)
  PROVE  Goes(u)
<1>0. TypeOK /\ OrderInv /\ AgainInv
  BY DEF IInv, PassInv
<1>1. /\ at[u] = "setup" /\ UNCHANGED <<mgr, stop, spec, objects, left>>
      /\ reg' = [reg EXCEPT ![u] = Registered(u)]
      /\ done' = [done EXCEPT ![u] = @ \cup {"setup"}]
  BY DEF Setup
<1>2. Syncing(u)
  BY <1>1 DEF Syncing
<1>3. /\ done' \in [Units -> SUBSET (External \cup {"setup"})]
      /\ "setup" \in done'[u] /\ DoneGrows
  BY <1>0, <1>1, OutsideTypes DEF DoneGrows
<1>4. Registered(u) \in [url : Nat, slave : {"none", "off", "on"}]
  <2>1. oc.port \in Nat
    BY <1>0, SpecTypes
  <2>2. reg[u].url \in Nat /\ reg[u].slave \in {"none", "off", "on"} /\
        reg[u] \in [url : Nat, slave : {"none", "off", "on"}]
    BY <1>0, OutsideTypes
  <2> QED BY <2>1, <2>2 DEF Registered
<1>5. OutsideOK'
  BY <1>0, <1>1, <1>3, <1>4, Frame, OutsideTypes DEF OutsideOK
<1>6. \A s \in Milestones : s = at[u] => Reached(u, s)'
  BY <1>1, <1>3 DEF Reached
<1>7. CASE Return(u, TRUE)
  BY <1>1, <1>2, <1>3, <1>5, <1>6, <1>7, StepGoes
<1>8. CASE ~ Return(u, TRUE)
  <2> DEFINE S == todo[u] \cup {"restart"}
  <2>1. GoOn(u, S) /\ UNCHANGED <<oc, stage, turn, bad, again>>
    BY <1>8 DEF Setup
  <2>2. S \in SUBSET Steps /\ "done" \in S
    BY <1>0, <1>2, PlaceOf DEF OrderInv, TypeOK
  <2>3. PICK a \in S, T \in SUBSET Steps :
          /\ at' = [at EXCEPT ![u] = a] /\ todo' = [todo EXCEPT ![u] = T]
          /\ T \cup {a} = S /\ \A s \in T : Place[a] <= Place[s]
    BY <2>1, <2>2, GoesOn
  <2>4. again' = [again EXCEPT ![u] = ""]
    <3>1. again[u] = ""
      BY <1>0, <1>1 DEF AgainInv, ObjectSteps
    <3> QED BY <1>0, <2>1, <3>1 DEF TypeOK
  <2>5. \E b \in BOOLEAN : bad' = [bad EXCEPT ![u] = b]
    <3>1. bad \in [Units -> BOOLEAN]
      BY <1>0 DEF TypeOK
    <3>2. bad[u] \in BOOLEAN /\ bad = [bad EXCEPT ![u] = bad[u]]
      BY <3>1
    <3> QED BY <2>1, <3>2
  <2>6. Advances(u)
    BY <1>6, <2>1, <2>2, <2>3, <2>4, <2>5 DEF Advances
  <2>7. Keeps
    BY <1>0, <1>1, <1>3, WritesKeep
  <2> QED BY <1>1, <1>2, <1>5, <2>6, <2>7 DEF Goes
<1> QED BY <1>7, <1>8

LEMMA EnableGoes ==
  ASSUME IInv, NEW u \in Units, EnsureEnableService(u)
  PROVE  Goes(u)
<1>0. TypeOK
  BY DEF IInv
<1> DEFINE word == IF reg[u].slave = "none" THEN reg[u].slave
                   ELSE IF "readonly" \in M(u).has /\ oc.slave THEN "on" ELSE "off"
<1>1. /\ at[u] = "enable" /\ Return(u, TRUE)
      /\ UNCHANGED <<mgr, stop, spec, objects, done, left>>
      /\ reg' = [reg EXCEPT ![u].slave = word]
  BY DEF EnsureEnableService
<1>2. Syncing(u) /\ at[u] \notin Milestones
  BY <1>1 DEF Syncing, Milestones
<1>3. word \in {"none", "off", "on"}
  OBVIOUS
<1> HIDE DEF word
<1>4. reg' \in [Units -> [url : Nat, slave : {"none", "off", "on"}]]
  BY <1>0, <1>1, <1>3, OutsideTypes
<1>5. OutsideOK' /\ DoneGrows
  BY <1>0, <1>1, <1>4, Frame, OutsideTypes DEF OutsideOK, DoneGrows
<1> QED BY <1>1, <1>2, <1>5, StepGoes

\* A step of a unit repeats a refused update, starts another zone, or goes on.
LEMMA UnitStepIs ==
  ASSUME IInv, NEW u \in Units, UnitStep(u)
  PROVE  Goes(u) \/ Conflict(u) \/ NextZone(u)
<1>1. CASE EnsureStep(u)
  BY <1>1, EnsureStepGoes
<1>2. CASE Setup(u) \/ RestartRegion(u) \/ EnsureEnableService(u)
  BY <1>2, SetupGoes, RestartRegionGoes, EnableGoes
<1>3. CASE syncConfigMap(u) \/ RequestFails(u)
  BY <1>3, ConfigGoes, RequestFailsGoes
<1>4. CASE \/ PassOver(u) \/ Create(u) \/ Delete(u) \/ Refused(u)
           \/ Update(u) \/ Retry(u) \/ GiveUp(u)
  BY <1>4, ObjectStepsGo
<1> QED BY <1>1, <1>2, <1>3, <1>4 DEF UnitStep
-----------------------------------------------------------------------------
(* The objects along a step. *)

LEMMA ProvisionedIs ==
  WorkloadsProvisioned <=> \A u \in Units : Exists(server[u]["main"]) => Provided(u)
  BY DEF WorkloadsProvisioned, Provided

LEMMA ProvidedStays ==
  ASSUME mgr' = mgr, Keeps, NEW u \in Units, Provided(u)
  PROVE  Provided(u)'
<1>1. M(u)' = M(u)
  BY Frame
<1>2. /\ \A s \in {"db", "dbuser", "user"} : s \in done[u] => s \in done'[u]
      /\ Exists(server[u]["cm"]) => Exists(server'[u]["cm"])
  BY DEF Keeps, Milestones
<1> QED BY <1>1, <1>2 DEF Provided

\* Steps that leave the objects alone.
LEMMA SameObjects ==
  ASSUME ObjectInv, UNCHANGED <<mgr, objects>>, Keeps,
         \A u \in Units : again'[u] # "" => BelowProven(u) /\ oc' = oc
  PROVE  ObjectInv'
<1> USE DEF ObjectInv
<1>0. UNCHANGED <<server, cache, seen, proven>> /\ Units' = Units /\ active' = active /\
      \A u : M(u)' = M(u)
  BY Frame DEF objects
<1>1. CacheInv' /\ ProvenInv'
  BY <1>0 DEF CacheInv, ProvenInv
<1>2. RetryInv'
  <2> SUFFICES ASSUME NEW u \in Units, again'[u] # "" PROVE BelowProven(u)'
    BY <1>0 DEF RetryInv
  <2> QED BY <1>0 DEF BelowProven
<1>3. WorkloadsProvisioned'
  <2>1. \A u \in Units : Exists(server[u]["main"]) => Provided(u)'
    BY ProvidedStays, ProvisionedIs
  <2> QED BY <1>0, <2>1 DEF WorkloadsProvisioned, Provided
<1> QED BY <1>1, <1>2, <1>3

\* Steps that store an object.
LEMMA WritesKeepObjects ==
  ASSUME IInv, Writes, UNCHANGED <<mgr, spec, oc>>, Keeps,
         \A u \in Units : again'[u] # "" => again'[u] = again[u]
  PROVE  ObjectInv'
<1> USE DEF IInv, PassInv, ObjectInv
<1>0. Units' = Units /\ active' = active /\ \A u : M(u)' = M(u)
  BY Frame
<1>1. PICK v \in Units, k \in Kinds, o \in Object : Puts(v, k, o) /\ Allowed(v, k, o)
  BY DEF Writes
<1>2. /\ cache' = cache /\ proven' = proven
      /\ \A u \in Units, j \in Kinds :
           /\ ~ (u = v /\ j = k) => server'[u][j] = server[u][j] /\ seen'[u][j] = seen[u][j]
           /\ u = v /\ j = k => server'[u][j] = o /\ seen'[u][j] = FALSE
  BY <1>1, ObjectTypes DEF Puts, Writes
<1>3. "main" \in Kinds /\ "cm" \in Kinds
  BY DEF Kinds
<1>4. CacheInv'
  <2> SUFFICES ASSUME NEW u \in Units
               PROVE  /\ \A j \in Kinds : seen'[u][j] => cache'[u][j] = server'[u][j]
                      /\ Exists(cache'[u]["cm"]) => Exists(server'[u]["cm"])
    BY <1>0 DEF CacheInv
  <2> QED BY <1>2 DEF CacheInv, Keeps
<1>5. ProvenInv'
  <2> SUFFICES ASSUME NEW u \in Units, server'[u]["main"].ready
               PROVE  server'[u]["main"].v \in proven[u]
    BY <1>0, <1>2 DEF ProvenInv
  <2>1. CASE u = v /\ k = "main"
    <3>1. server'[u]["main"] = o
      BY <2>1, <1>2, <1>3
    <3>2. o.v \in proven[u]
      BY <2>1, <3>1, <1>1, Zenon DEF Allowed
    <3> QED BY <3>1, <3>2, Zenon
  <2>2. CASE ~ (u = v /\ k = "main")
    BY <2>2, <1>2, <1>3 DEF ProvenInv
  <2> QED BY <2>1, <2>2
<1>6. RetryInv'
  BY <1>0, <1>2 DEF RetryInv, BelowProven
<1>7. WorkloadsProvisioned'
  <2> SUFFICES ASSUME NEW u \in Units, Exists(server'[u]["main"]) PROVE Provided(u)'
    BY <1>0 DEF WorkloadsProvisioned, Provided
  <2>1. Exists(server[u]["main"]) \/ Provided(u)
    BY <1>1, <1>2, <1>3 DEF Allowed
  <2> QED BY <2>1, ProvidedStays, ProvisionedIs
<1> QED BY <1>4, <1>5, <1>6, <1>7
-----------------------------------------------------------------------------
(* Types, and the steps of a unit together. *)

ControlOK ==
  /\ active \in Groups /\ stop \in BOOLEAN /\ spec \in ClusterSpec /\ oc \in ClusterSpec
  /\ stage \in {"idle", "sequential", "parallel", "addons"} /\ turn \in 0..Len(Sequential)
MovesOK ==
  /\ at \in [Units -> Steps \cup {"idle", "failed"}] /\ todo \in [Units -> SUBSET Steps]
  /\ bad \in [Units -> BOOLEAN] /\ again \in [Units -> Kinds \cup {""}]
ObjectsOK ==
  /\ server \in [Units -> [Kinds -> Object]] /\ cache \in [Units -> [Kinds -> Object]]
  /\ seen \in [Units -> [Kinds -> BOOLEAN]] /\ proven \in [Units -> SUBSET Nat]

LEMMA TypeParts == TypeOK <=> ControlOK /\ MovesOK /\ ObjectsOK /\ OutsideOK
  BY Zenon DEF TypeOK, ControlOK, MovesOK, ObjectsOK, OutsideOK

LEMMA NextTypeParts == ControlOK' /\ MovesOK' /\ ObjectsOK' /\ OutsideOK' => TypeOK'
  BY Zenon DEF TypeOK, ControlOK, MovesOK, ObjectsOK, OutsideOK

LEMMA PutsKeeps ==
  ASSUME TypeOK, mgr' = mgr, NEW u \in Units, NEW k \in Kinds, NEW o \in Object, Puts(u, k, o),
         proven' \in [Units -> SUBSET Nat]
  PROVE  ObjectsOK'
<1>1. ObjectsOK /\ Units' = Units
  BY TypeParts, Frame
<1> QED BY <1>1 DEF ObjectsOK, Puts

LEMMA PutsIs ==
  ASSUME TypeOK, NEW u \in Units, NEW k \in Kinds, NEW o \in Object, Puts(u, k, o)
  PROVE  \A v \in Units, j \in Kinds :
           /\ ~ (v = u /\ j = k) => server'[v][j] = server[v][j] /\ seen'[v][j] = seen[v][j]
           /\ v = u /\ j = k => server'[v][j] = o /\ ~ seen'[v][j]
  BY ObjectTypes DEF Puts

LEMMA WriteTypes ==
  ASSUME TypeOK, mgr' = mgr, UNCHANGED objects \/ Writes
  PROVE  ObjectsOK'
<1>0. ObjectsOK /\ Units' = Units
  BY TypeParts, Frame
<1>1. CASE UNCHANGED objects
  BY <1>0, <1>1 DEF ObjectsOK, objects
<1>2. CASE Writes
  <2>1. PICK v \in Units, k \in Kinds, o \in Object : Puts(v, k, o)
    BY <1>2 DEF Writes
  <2>2. proven' \in [Units -> SUBSET Nat]
    BY <1>0, <1>2 DEF Writes, ObjectsOK
  <2> QED BY <2>1, <2>2, PutsKeeps
<1> QED BY <1>1, <1>2

LEMMA AdvanceTypes ==
  ASSUME TypeOK, mgr' = mgr, NEW u \in Units, Advances(u)
  PROVE  MovesOK'
<1>0. MovesOK /\ Units' = Units
  BY TypeParts, Frame
<1>1. PICK a \in Steps \cup {"failed"}, T \in SUBSET Steps :
        at' = [at EXCEPT ![u] = a] /\ todo' = [todo EXCEPT ![u] = T]
  BY DEF Advances
<1>2. PICK b \in BOOLEAN : bad' = [bad EXCEPT ![u] = b]
  BY DEF Advances
<1>3. again' = [again EXCEPT ![u] = ""]
  BY DEF Advances
<1> QED BY <1>0, <1>1, <1>2, <1>3 DEF MovesOK

LEMMA SameControl ==
  ASSUME TypeOK, UNCHANGED <<mgr, stop, spec, oc, stage, turn>>
  PROVE  ControlOK' /\ (MgrInv => MgrInv')
  BY TypeParts, Frame DEF ControlOK, MgrInv

LEMMA GoesKeeps ==
  ASSUME IInv, NEW u \in Units, Goes(u)
  PROVE  IInv'
<1>0. TypeOK /\ MgrInv /\ PassInv /\ ObjectInv
  BY DEF IInv
<1>1. UNCHANGED <<mgr, stop, spec, oc, stage, turn>> /\ again' = [again EXCEPT ![u] = ""]
  BY DEF Goes, Advances
<1>2. TypeOK' /\ MgrInv'
  <2>1. ControlOK' /\ MgrInv'
    BY <1>0, <1>1, SameControl
  <2>2. MovesOK' /\ ObjectsOK' /\ OutsideOK'
    BY <1>0, <1>1, AdvanceTypes, WriteTypes DEF Goes
  <2> QED BY <2>1, <2>2, NextTypeParts
<1>3. PassInv'
  BY <1>0, <1>1, AdvanceKeeps DEF Goes
<1>4. \A v \in Units : again'[v] # "" => again'[v] = again[v]
  BY <1>0, <1>1, TypeParts DEF MovesOK
<1>5. ObjectInv'
  <2>1. CASE UNCHANGED objects
    <3>1. \A v \in Units : again'[v] # "" => BelowProven(v) /\ oc' = oc
      BY <1>0, <1>1, <1>4 DEF ObjectInv, RetryInv
    <3> QED BY <1>0, <1>1, <2>1, <3>1, SameObjects DEF Goes
  <2>2. CASE Writes
    BY <1>1, <1>4, <2>2, WritesKeepObjects DEF Goes
  <2> QED BY <2>1, <2>2 DEF Goes
<1> QED BY <1>2, <1>3, <1>5 DEF IInv

\* Steps after which every unit is where it was.
LEMMA SamePass ==
  ASSUME PassInv, UNCHANGED <<mgr, stop, oc, stage, turn, at, todo>>, Keeps
  PROVE  OrderInv' /\ AgendaInv' /\ WaitInv' /\ KeystoneInv'
<1>0. Units' = Units /\ active' = active
  BY Frame
<1>1. OrderInv' /\ WaitInv' /\ KeystoneInv'
  BY <1>0, SameRules DEF PassInv, OrderInv, WaitInv, KeystoneInv, Syncing
<1>2. AgendaInv'
  <2> SUFFICES ASSUME NEW v \in Units, NEW s \in Milestones,
                      at[v] \notin {"idle", "failed"}, Runs(v, s)', ~ Excused(s)'
               PROVE  s \in todo[v] \/ s = at[v] \/ Reached(v, s)'
    BY <1>0 DEF AgendaInv
  <2>1. Runs(v, s) /\ ~ Excused(s)
    BY RunsLess, SameRules
  <2> QED BY <2>1, ReachedStays DEF AgendaInv, PassInv
<1> QED BY <1>1, <1>2

LEMMA ConflictKeeps ==
  ASSUME IInv, NEW u \in Units, Conflict(u)
  PROVE  IInv'
<1>0. TypeOK /\ MgrInv /\ PassInv /\ ObjectInv
  BY DEF IInv
<1>1. /\ UNCHANGED <<mgr, stop, spec, oc, stage, turn, at, todo, bad, objects, done, reg, left>>
      /\ again' = [again EXCEPT ![u] = Kind(u)]
  BY DEF Conflict, outside
<1>2. at[u] \in ObjectSteps /\ ~ NotYet(u)
  BY DEF Conflict, Updating, Acting, Quiet
<1>3. Units' = Units /\ active' = active
  BY <1>1, Frame
<1>4. /\ Kind(u) \in Kinds \ {"cm"}
      /\ Kind(u) = "main" <=> at[u] \in {"deployment", "daemonset"}
  BY <1>0, <1>2, KindIs DEF PassInv
<1>5. again'[u] = Kind(u) /\ \A v \in Units \ {u} : again'[v] = again[v]
  BY <1>0, <1>1, TypeParts DEF MovesOK
<1>6. TypeOK' /\ MgrInv'
  <2>1. MovesOK'
    BY <1>0, <1>1, <1>3, <1>4, TypeParts DEF MovesOK
  <2>2. OutsideOK' /\ ObjectsOK'
    BY <1>0, <1>1, OutsideSame, WriteTypes
  <2>3. ControlOK' /\ MgrInv'
    BY <1>0, <1>1, SameControl
  <2> QED BY <2>1, <2>2, <2>3, NextTypeParts
<1>7. Keeps
  BY <1>0, <1>1, OutsideSame, WritesKeep
<1>8. PassInv'
  <2>1. OrderInv' /\ AgendaInv' /\ WaitInv' /\ KeystoneInv'
    BY <1>0, <1>1, <1>7, SamePass
  <2>2. AgainInv'
    BY <1>0, <1>1, <1>2, <1>3, <1>4, <1>5 DEF PassInv, AgainInv
  <2> QED BY <2>1, <2>2 DEF PassInv
<1>9. ObjectInv'
  <2>1. BelowProven(u)
    <3>1. CASE at[u] \in {"deployment", "daemonset"}
      BY <3>1, <1>2, LooksBelow
    <3>2. CASE at[u] \notin {"deployment", "daemonset"}
      <4> SUFFICES ASSUME M(u).after \in active PROVE FALSE
        BY DEF BelowProven
      <4>1. M(u) = ManagerOf[u[1]] /\ u[1] \in OVSManagers
        BY <1>0, BelowIs, UnitsAre
      <4>2. at[u] \in M(u).has \cup {"dbuser", "grant", "restart"}
        BY <1>0, <1>2 DEF PassInv, OrderInv, Scheduled, ObjectSteps
      <4> QED BY <1>2, <3>2, <4>1, <4>2, OVSManagersAre DEF ObjectSteps
    <3> QED BY <3>1, <3>2
  <2>2. \A v \in Units : again'[v] # "" => BelowProven(v) /\ oc' = oc
    BY <1>0, <1>1, <1>5, <2>1 DEF ObjectInv, RetryInv
  <2> QED BY <1>0, <1>1, <1>7, <2>2, SameObjects
<1> QED BY <1>6, <1>8, <1>9 DEF IInv
-----------------------------------------------------------------------------
(* The steps of the pass together. *)

\* A step of the pass leaves the objects alone, and forgets refused updates with the spec.
LEMMA PassObjects ==
  ASSUME IInv, UNCHANGED <<mgr, spec, objects, done>>,
         (oc' = oc /\ again' = again) \/ (oc' = spec /\ \A u \in Units : again'[u] = "")
  PROVE  ObjectInv'
<1>0. TypeOK /\ ObjectInv
  BY DEF IInv
<1>1. \A u \in Units : again'[u] # "" => BelowProven(u) /\ oc' = oc
  BY <1>0 DEF ObjectInv, RetryInv
<1>2. Keeps
  BY DEF Keeps, objects
<1> QED BY <1>0, <1>1, <1>2, SameObjects

LEMMA EndTypes ==
  ASSUME TypeOK, EndPass, UNCHANGED <<mgr, spec>>, stop' \in BOOLEAN
  PROVE  ControlOK' /\ MovesOK' /\ oc' = spec /\ \A u \in Units : again'[u] = ""
<1>1. Units' = Units /\ active' = active /\ ControlOK
  BY Frame, TypeParts
<1>2. 0 \in 0..Len(Sequential)
  <2>1. Len(Sequential) \in Nat
    BY SequentialIs
  <2> QED BY <2>1
<1>3. ControlOK'
  BY <1>1, <1>2 DEF EndPass, ControlOK
<1>4. MovesOK'
  BY <1>1 DEF EndPass, MovesOK
<1> QED BY <1>3, <1>4 DEF EndPass

LEMMA StartTypes ==
  ASSUME TypeOK, NEW S, Starts(S), UNCHANGED <<mgr, bad, again>>
  PROVE  MovesOK'
<1>1. Units' = Units /\ MovesOK
  BY Frame, TypeParts
<1>2. \A u \in Units : First(Agenda(u)) \in Steps /\ Agenda(u) \in SUBSET Steps
  BY AgendaIs
<1>3. at' \in [Units -> Steps \cup {"idle", "failed"}] /\ todo' \in [Units -> SUBSET Steps]
  BY <1>1, <1>2 DEF Starts, MovesOK
<1> QED BY <1>1, <1>3 DEF MovesOK

LEMMA SequentialTypes ==
  ASSUME TypeOK, SequentialStep
  PROVE  /\ ControlOK' /\ MovesOK'
         /\ (oc' = oc /\ again' = again) \/ (oc' = spec /\ \A u \in Units : again'[u] = "")
<1>0. UNCHANGED <<mgr, stop, spec>>
  BY DEF SequentialStep
<1>1. ControlOK /\ Units' = Units /\ active' = active
  BY <1>0, TypeParts, Frame
<1>2. CASE EndPass
  <2>1. stop' \in BOOLEAN
    BY <1>0, <1>1 DEF ControlOK
  <2> QED BY <1>0, <1>2, <2>1, EndTypes
<1>3. CASE StartNext
  <2>1. PICK i \in Upcoming : turn' = i /\ Start({Sequential[i]})
    BY <1>3 DEF StartNext
  <2>2. UNCHANGED <<oc, stage, bad, again>>
    BY <1>3 DEF StartNext
  <2>3. turn' \in 0..Len(Sequential)
    <3>1. i \in 1..Len(Sequential)
      BY SequentialIs DEF Upcoming
    <3> QED BY <2>1, <3>1
  <2>4. ControlOK'
    BY <1>0, <1>1, <2>2, <2>3 DEF ControlOK
  <2>5. MovesOK'
    BY <1>0, <2>1, <2>2, StartIs, StartTypes
  <2> QED BY <2>2, <2>4, <2>5
<1>4. CASE stage' = "parallel" /\ Start(Parallel) /\ UNCHANGED <<oc, turn, bad, again>>
  <2>1. ControlOK'
    BY <1>0, <1>1, <1>4 DEF ControlOK
  <2>2. MovesOK'
    BY <1>0, <1>4, StartIs, StartTypes
  <2> QED BY <1>4, <2>1, <2>2
<1> QED BY <1>2, <1>3, <1>4 DEF SequentialStep

LEMMA ParallelTypes ==
  ASSUME TypeOK, ParallelEnd
  PROVE  /\ ControlOK' /\ MovesOK'
         /\ (oc' = oc /\ again' = again) \/ (oc' = spec /\ \A u \in Units : again'[u] = "")
<1>0. UNCHANGED <<mgr, stop, spec>>
  BY DEF ParallelEnd
<1>1. ControlOK /\ active' = active
  BY <1>0, TypeParts, Frame
<1>2. CASE EndPass
  <2>1. stop' \in BOOLEAN
    BY <1>0, <1>1 DEF ControlOK
  <2> QED BY <1>0, <1>2, <2>1, EndTypes
<1>3. CASE stage' = "addons" /\ Start(Addons) /\ UNCHANGED <<oc, turn, bad, again>>
  <2>1. ControlOK'
    BY <1>0, <1>1, <1>3 DEF ControlOK
  <2>2. MovesOK'
    BY <1>0, <1>3, StartIs, StartTypes
  <2> QED BY <1>3, <2>1, <2>2
<1> QED BY <1>2, <1>3 DEF ParallelEnd

LEMMA PassStepsKeep ==
  ASSUME IInv, PassStart \/ SequentialStep \/ ParallelEnd \/ AddonsEnd
  PROVE  IInv'
<1>0. TypeOK /\ MgrInv /\ PassInv /\ ObjectInv
  BY DEF IInv
<1>1. UNCHANGED <<mgr, stop, spec, objects, done, reg, left>>
  BY DEF PassStart, SequentialStep, ParallelEnd, AddonsEnd, outside
<1>2. ControlOK /\ MovesOK /\ Units' = Units /\ active' = active
  BY <1>0, <1>1, TypeParts, Frame
<1>3. /\ PassInv' /\ ControlOK' /\ MovesOK'
      /\ (oc' = oc /\ again' = again) \/ (oc' = spec /\ \A u \in Units : again'[u] = "")
  <2>1. CASE PassStart
    <3>1. \A u \in Units : again[u] = ""
      BY <1>0, <2>1 DEF PassStart, PassInv, WaitInv, AgainInv, ObjectSteps
    <3>2. ControlOK' /\ MovesOK'
      BY <1>1, <1>2, <2>1 DEF PassStart, ControlOK, MovesOK
    <3> QED BY <1>0, <2>1, <3>1, <3>2, PassStartKeeps DEF PassStart
  <2>2. CASE SequentialStep
    BY <1>0, <2>2, SequentialKeeps, SequentialTypes
  <2>3. CASE ParallelEnd
    BY <1>0, <2>3, ParallelKeeps, ParallelTypes
  <2>4. CASE AddonsEnd
    <3>1. EndPass /\ stop' \in BOOLEAN
      BY <1>1, <1>2, <2>4 DEF AddonsEnd, ControlOK
    <3> QED BY <1>0, <1>1, <3>1, EndKeeps, EndTypes
  <2> QED BY <2>1, <2>2, <2>3, <2>4
<1>4. OutsideOK' /\ ObjectsOK' /\ MgrInv'
  BY <1>0, <1>1, <1>2, OutsideSame, WriteTypes DEF MgrInv
<1>5. ObjectInv'
  BY <1>1, <1>3, PassObjects
<1> QED BY <1>3, <1>4, <1>5, NextTypeParts DEF IInv

LEMMA NextZoneStep ==
  ASSUME IInv, NEW u \in Units, NextZone(u)
  PROVE  IInv'
<1>0. TypeOK /\ MgrInv /\ PassInv /\ ObjectInv
  BY DEF IInv
<1>1. UNCHANGED <<mgr, stop, spec, oc, stage, turn, bad, again, objects, done, reg, left>>
  BY DEF NextZone, outside
<1>2. PICK z \in Units : GoOn(z, Agenda(z))
  BY DEF NextZone
<1>3. Starts({z})
  BY <1>0, <1>2, TypeParts DEF Starts, GoOn, MovesOK
<1>4. MovesOK'
  BY <1>0, <1>1, <1>3, StartTypes
<1>5. ControlOK' /\ MgrInv' /\ OutsideOK' /\ ObjectsOK'
  BY <1>0, <1>1, SameControl, OutsideSame, WriteTypes
<1>6. PassInv' /\ ObjectInv'
  BY <1>0, <1>1, NextZoneKeeps, PassObjects
<1> QED BY <1>4, <1>5, <1>6, NextTypeParts DEF IInv
-----------------------------------------------------------------------------
(* The environment. *)

\* An event outside the operator leaves the pass where it is.
LEMMA EventPass ==
  ASSUME IInv, UNCHANGED <<mgr, stop, oc, stage, turn, at, todo, bad, again>>,
         spec' \in ClusterSpec, Keeps
  PROVE  MgrInv' /\ PassInv' /\ ControlOK' /\ MovesOK'
<1>0. TypeOK /\ MgrInv /\ PassInv
  BY DEF IInv
<1>1. Units' = Units /\ active' = active /\ ControlOK /\ MovesOK
  BY <1>0, TypeParts, Frame
<1>2. OrderInv' /\ AgendaInv' /\ WaitInv' /\ KeystoneInv'
  BY <1>0, SamePass
<1>3. AgainInv'
  BY <1>0, <1>1 DEF PassInv, AgainInv
<1>4. MgrInv' /\ ControlOK' /\ MovesOK'
  BY <1>0, <1>1 DEF MgrInv, ControlOK, MovesOK
<1> QED BY <1>2, <1>3, <1>4 DEF PassInv

LEMMA RestartKeeps ==
  ASSUME IInv, Restart, left' = left \/ Spend("crashes")
  PROVE  IInv'
<1>0. TypeOK /\ MgrInv /\ PassInv /\ ObjectInv
  BY DEF IInv
<1>1. /\ EndPass /\ UNCHANGED <<mgr, spec, server, proven, done, reg>>
      /\ cache' = server /\ seen' = [u \in Units |-> [k \in Kinds |-> TRUE]]
      /\ stop' \in BOOLEAN
  BY ComponentsAssumption DEF Restart, outside
<1>2. Units' = Units /\ active' = active
  BY <1>1, Frame
<1>3. ControlOK' /\ MovesOK' /\ oc' = spec /\ \A u \in Units : again'[u] = ""
  BY <1>0, <1>1, EndTypes
<1>4. ObjectsOK' /\ OutsideOK' /\ MgrInv'
  <2>1. ObjectsOK /\ OutsideOK
    BY <1>0, TypeParts
  <2>2. ObjectsOK' /\ MgrInv'
    BY <1>0, <1>1, <1>2, <2>1 DEF ObjectsOK, MgrInv
  <2>3. OutsideOK'
    BY <1>1, <1>2, <2>1, SpendTypes DEF OutsideOK
  <2> QED BY <2>2, <2>3
<1>5. PassInv'
  BY <1>1, EndKeeps
<1>6. Keeps
  BY <1>1 DEF Keeps
<1>7. CacheInv'
  BY <1>1, <1>2 DEF CacheInv
<1>8. ProvenInv'
  BY <1>0, <1>1, <1>2 DEF ObjectInv, ProvenInv
<1>9. RetryInv'
  BY <1>2, <1>3 DEF RetryInv
<1>10. WorkloadsProvisioned'
  <2>1. \A u \in Units : Exists(server[u]["main"]) => Provided(u)'
    BY <1>0, <1>1, <1>6, ProvidedStays, ProvisionedIs DEF ObjectInv
  <2> QED BY <1>1, <1>2, <2>1 DEF WorkloadsProvisioned, Provided
<1> QED BY <1>3, <1>4, <1>5, <1>7, <1>8, <1>9, <1>10, NextTypeParts DEF IInv, ObjectInv

LEMMA WatchKeeps ==
  ASSUME IInv, Watch
  PROVE  IInv'
<1>0. TypeOK /\ MgrInv /\ PassInv /\ ObjectInv
  BY DEF IInv
<1>1. PICK u \in Units, k \in Kinds :
        /\ cache' = [cache EXCEPT ![u][k] = server[u][k]]
        /\ seen' = [seen EXCEPT ![u][k] = TRUE]
  BY DEF Watch
<1>2. UNCHANGED <<mgr, stop, spec, oc, stage, turn, at, todo, bad, again, server, proven,
                  done, reg, left>>
  BY DEF Watch, pass, outside
<1>3. Units' = Units /\ active' = active /\ \A v : M(v)' = M(v)
  BY <1>2, Frame
<1>4. ObjectsOK
  BY <1>0, TypeParts
<1>5. \A v \in Units, j \in Kinds :
        /\ cache'[v][j] = IF v = u /\ j = k THEN server[v][j] ELSE cache[v][j]
        /\ seen'[v][j] = IF v = u /\ j = k THEN TRUE ELSE seen[v][j]
  BY <1>1, <1>4 DEF ObjectsOK
<1>6. ObjectsOK'
  BY <1>1, <1>2, <1>3, <1>4 DEF ObjectsOK
<1>7. Keeps
  BY <1>2 DEF Keeps
<1>8. MgrInv' /\ PassInv' /\ ControlOK' /\ MovesOK'
  BY <1>0, <1>2, <1>7, EventPass, SpecTypes
<1>9. "main" \in Kinds /\ "cm" \in Kinds
  BY DEF Kinds
<1>10. CacheInv'
  <2> SUFFICES ASSUME NEW v \in Units
               PROVE  /\ \A j \in Kinds : seen'[v][j] => cache'[v][j] = server[v][j]
                      /\ Exists(cache'[v]["cm"]) => Exists(server[v]["cm"])
    BY <1>2, <1>3 DEF CacheInv
  <2>1. \A j \in Kinds : seen'[v][j] => cache'[v][j] = server[v][j]
    BY <1>0, <1>5 DEF ObjectInv, CacheInv
  <2>2. cache'[v]["cm"] = server[v]["cm"] \/ cache'[v]["cm"] = cache[v]["cm"]
    BY <1>5, <1>9
  <2>3. Exists(cache'[v]["cm"]) => Exists(server[v]["cm"])
    BY <1>0, <2>2, Zenon DEF ObjectInv, CacheInv
  <2> QED BY <2>1, <2>3
<1>11. ProvenInv'
  <2> SUFFICES ASSUME NEW v \in Units, cache'[v]["main"].ready
               PROVE  cache'[v]["main"].v \in proven[v]
    BY <1>0, <1>2, <1>3 DEF ObjectInv, ProvenInv
  <2>1. cache'[v]["main"] = server[v]["main"] \/ cache'[v]["main"] = cache[v]["main"]
    BY <1>5, <1>9
  <2> QED BY <1>0, <2>1, Zenon DEF ObjectInv, ProvenInv
<1>12. RetryInv' /\ WorkloadsProvisioned'
  BY <1>0, <1>2, <1>3 DEF ObjectInv, RetryInv, BelowProven, WorkloadsProvisioned
<1>13. OutsideOK'
  BY <1>0, <1>2, OutsideSame
<1> QED BY <1>6, <1>8, <1>10, <1>11, <1>12, <1>13, NextTypeParts DEF IInv, ObjectInv

\* The pods of a workload become ready, or are so no more.
LEMMA SetsReady ==
  ASSUME TypeOK, NEW u \in Units, NEW b \in BOOLEAN, cache' = cache,
         server' = [server EXCEPT ![u]["main"].ready = b],
         seen' = [seen EXCEPT ![u]["main"] = FALSE]
  PROVE  \E o \in Object : o.v = server[u]["main"].v /\ o.ready = b /\ Puts(u, "main", o)
<1>1. server[u]["main"] \in Object
  BY ObjectTypes DEF Kinds
<1>2. PICK o \in Object : o = [server[u]["main"] EXCEPT !.ready = b]
  BY <1>1 DEF Object
<1>3. o.v = server[u]["main"].v /\ o.ready = b
  BY <1>1, <1>2 DEF Object
<1>4. Puts(u, "main", o)
  BY <1>2 DEF Puts
<1> QED BY <1>3, <1>4

LEMMA PodsKeep ==
  ASSUME IInv, NEW u \in Units, NEW o \in Object,
         o.v = server[u]["main"].v, Puts(u, "main", o),
         UNCHANGED <<mgr, stop, spec, pass, cache, outside>>,
         proven' \in [Units -> SUBSET Nat], \A v \in Units : proven[v] \subseteq proven'[v],
         o.ready => o.v \in proven'[u],
         left' = left \/ Spend("outages")
  PROVE  IInv'
<1>0. TypeOK /\ MgrInv /\ PassInv /\ ObjectInv /\ ObjectsOK
  BY TypeParts DEF IInv
<1>1. UNCHANGED <<mgr, stop, spec, oc, stage, turn, at, todo, bad, again, cache, done, reg>>
  BY DEF pass, outside
<1>2. Units' = Units /\ active' = active /\ \A v : M(v)' = M(v)
  BY <1>1, Frame
<1>3. "main" \in Kinds /\ "cm" \in Kinds
  BY DEF Kinds
<1>4. /\ ObjectsOK'
      /\ \A v \in Units, j \in Kinds :
           /\ ~ (v = u /\ j = "main") => server'[v][j] = server[v][j] /\ seen'[v][j] = seen[v][j]
           /\ v = u /\ j = "main" => server'[v][j] = o /\ ~ seen'[v][j]
  <2>1. ObjectsOK'
    BY <1>0, <1>1, <1>3, PutsKeeps
  <2>2. \A v \in Units, j \in Kinds :
           /\ ~ (v = u /\ j = "main") => server'[v][j] = server[v][j] /\ seen'[v][j] = seen[v][j]
           /\ v = u /\ j = "main" => server'[v][j] = o /\ ~ seen'[v][j]
    BY <1>0, <1>3, PutsIs
  <2> QED BY <2>1, <2>2
<1>5. Keeps
  <2>1. \A v \in Units : server'[v]["cm"] = server[v]["cm"]
    BY <1>3, <1>4
  <2> QED BY <1>1, <2>1, Zenon DEF Keeps
<1>6. MgrInv' /\ PassInv' /\ ControlOK' /\ MovesOK'
  <2>1. spec' \in ClusterSpec
    BY <1>0, <1>1, SpecTypes
  <2> QED BY <2>1, <1>1, <1>5, EventPass
<1>7. CacheInv'
  <2> SUFFICES ASSUME NEW v \in Units
               PROVE  /\ \A j \in Kinds : seen'[v][j] => cache[v][j] = server'[v][j]
                      /\ Exists(cache[v]["cm"]) => Exists(server'[v]["cm"])
    BY <1>1, <1>2 DEF CacheInv
  <2>1. server'[v]["cm"] = server[v]["cm"]
    BY <1>3, <1>4
  <2>2. Exists(cache[v]["cm"]) => Exists(server'[v]["cm"])
    BY <1>0, <2>1, Zenon DEF ObjectInv, CacheInv
  <2>3. \A j \in Kinds : seen'[v][j] => cache[v][j] = server'[v][j]
    BY <1>0, <1>4 DEF ObjectInv, CacheInv
  <2> QED BY <2>2, <2>3
<1>8. ProvenInv'
  <2> SUFFICES ASSUME NEW v \in Units
               PROVE  /\ server'[v]["main"].ready => server'[v]["main"].v \in proven'[v]
                      /\ cache[v]["main"].ready => cache[v]["main"].v \in proven'[v]
    BY <1>1, <1>2 DEF ProvenInv
  <2>1. /\ server[v]["main"].ready => server[v]["main"].v \in proven'[v]
        /\ cache[v]["main"].ready => cache[v]["main"].v \in proven'[v]
    BY <1>0 DEF ObjectInv, ProvenInv
  <2>2. CASE v # u
    <3>1. server'[v]["main"] = server[v]["main"]
      BY <2>2, <1>3, <1>4
    <3> QED BY <2>1, <3>1, Zenon
  <2>3. CASE v = u
    <3>1. server'[v]["main"] = o
      BY <2>3, <1>3, <1>4
    <3> QED BY <2>1, <2>3, <3>1, Zenon
  <2> QED BY <2>2, <2>3
<1>9. RetryInv'
  <2> SUFFICES ASSUME NEW v \in Units, again[v] # "", M(v).after \in active
               PROVE  oc.image \in proven'[<<M(v).after, "">>]
    BY <1>1, <1>2 DEF RetryInv, BelowProven
  <2>1. <<M(v).after, "">> \in Units
    BY <1>0, BelowIs
  <2>2. oc.image \in proven[<<M(v).after, "">>]
    BY <1>0 DEF ObjectInv, RetryInv, BelowProven
  <2> QED BY <2>1, <2>2
<1>10. WorkloadsProvisioned'
  <2> SUFFICES ASSUME NEW v \in Units, Exists(server'[v]["main"]) PROVE Provided(v)'
    BY <1>2 DEF WorkloadsProvisioned, Provided
  <2>1. Exists(server[v]["main"])
    BY <1>3, <1>4 DEF Exists
  <2>2. Provided(v)
    BY <1>0, <2>1, ProvisionedIs DEF ObjectInv
  <2> QED BY <2>2, <1>1, <1>5, ProvidedStays
<1>11. OutsideOK'
  <2>1. OutsideOK
    BY <1>0, TypeParts
  <2> QED BY <1>1, <1>2, <2>1, SpendTypes DEF OutsideOK
<1> QED BY <1>4, <1>6, <1>7, <1>8, <1>9, <1>10, <1>11, NextTypeParts DEF IInv, ObjectInv

LEMMA RolloutKeeps ==
  ASSUME IInv, Rollout
  PROVE  IInv'
<1>1. PICK u \in Units :
        /\ server' = [server EXCEPT ![u]["main"].ready = TRUE]
        /\ seen' = [seen EXCEPT ![u]["main"] = FALSE]
        /\ proven' = [proven EXCEPT ![u] = @ \cup {server[u]["main"].v}]
        /\ UNCHANGED <<mgr, stop, spec, pass, cache, outside, left>>
  BY DEF Rollout
<1>2. proven \in [Units -> SUBSET Nat] /\ server[u]["main"].v \in Nat
  BY ObjectTypes DEF IInv, TypeOK, Kinds
<1>3. /\ proven' \in [Units -> SUBSET Nat] /\ \A v \in Units : proven[v] \subseteq proven'[v]
      /\ server[u]["main"].v \in proven'[u]
  BY <1>1, <1>2
<1>4. PICK o \in Object : o.v = server[u]["main"].v /\ o.ready = TRUE /\ Puts(u, "main", o)
  BY <1>1, SetsReady DEF IInv
<1> QED BY <1>1, <1>3, <1>4, PodsKeep

LEMMA PodsLostKeeps ==
  ASSUME IInv, PodsLost
  PROVE  IInv'
<1>1. PICK u \in Units :
        /\ server' = [server EXCEPT ![u]["main"].ready = FALSE]
        /\ seen' = [seen EXCEPT ![u]["main"] = FALSE]
        /\ UNCHANGED <<mgr, stop, spec, pass, cache, proven, outside>> /\ Spend("outages")
  BY DEF PodsLost
<1>2. proven' \in [Units -> SUBSET Nat] /\ \A v \in Units : proven[v] \subseteq proven'[v]
  BY <1>1 DEF IInv, TypeOK
<1>3. PICK o \in Object : o.v = server[u]["main"].v /\ o.ready = FALSE /\ Puts(u, "main", o)
  BY <1>1, SetsReady DEF IInv
<1> QED BY <1>1, <1>2, <1>3, PodsKeep

LEMMA UserDeleteKeeps ==
  ASSUME IInv, UserDelete
  PROVE  IInv'
<1>0. TypeOK /\ MgrInv /\ PassInv /\ ObjectInv
  BY DEF IInv
<1>1. UNCHANGED <<mgr, stop, spec, oc, stage, turn, at, todo, bad, again, done, reg>>
  BY DEF UserDelete, pass, outside
<1>2. PICK u \in Units, k \in {"main", "svc"} : Spend("deletes") /\ Store(u, k, None)
  BY DEF UserDelete
<1>3. Writes
  BY <1>2, Removes DEF Kinds
<1>4. Keeps
  BY <1>0, <1>1, <1>3, WritesKeep DEF DoneGrows
<1>5. MgrInv' /\ PassInv' /\ ControlOK' /\ MovesOK'
  BY <1>0, <1>1, <1>4, EventPass, SpecTypes
<1>6. ObjectInv' /\ ObjectsOK'
  BY <1>0, <1>1, <1>3, <1>4, WritesKeepObjects, WriteTypes
<1>7. OutsideOK'
  <2>1. OutsideOK /\ Units' = Units
    BY <1>0, <1>1, TypeParts, Frame
  <2> QED BY <1>1, <1>2, <2>1, SpendTypes DEF OutsideOK
<1> QED BY <1>5, <1>6, <1>7, NextTypeParts DEF IInv

\* An edit leaves a cluster's spec.
LEMMA EditsAre ==
  ASSUME TypeOK, MgrInv, NEW s \in Edits
  PROVE  s \in ClusterSpec
<1>1. /\ spec \in ClusterSpec /\ spec.pv \in All /\ spec.off \in SUBSET Keys
      /\ spec.features \in SUBSET Features /\ spec.image \in Nat /\ spec.slave \in BOOLEAN
      /\ spec.port \in Nat
  BY SpecTypes DEF ClusterSpec
<1>2. \A c \in active : mgr[c].key \in Keys
  BY UnitsAre DEF MgrInv, Keys
<1>3. \/ \E i \in Nat : s = [spec EXCEPT !.image = i]
      \/ \E k \in Keys : s = [spec EXCEPT !.off = (@ \ {k}) \cup ({k} \ @)]
      \/ \E p \in ProductVersions : s = [spec EXCEPT !.pv = p]
      \/ s = [spec EXCEPT !.port = @ + 1]
      \/ s = [spec EXCEPT !.slave = ~ @]
      \/ s = [spec EXCEPT !.features = Features \ @]
  <2>1. 1..MaxImage \subseteq Nat
    OBVIOUS
  <2> QED BY <1>2, <2>1 DEF Edits
<1>4. ASSUME NEW i \in Nat, s = [spec EXCEPT !.image = i]
      PROVE  s \in ClusterSpec
  BY <1>1, <1>4 DEF ClusterSpec
<1>5. ASSUME NEW k \in Keys, s = [spec EXCEPT !.off = (@ \ {k}) \cup ({k} \ @)]
      PROVE  s \in ClusterSpec
  BY <1>1, <1>5 DEF ClusterSpec
<1>6. ASSUME NEW p \in ProductVersions, s = [spec EXCEPT !.pv = p]
      PROVE  s \in ClusterSpec
  <2>1. p \in All
    BY ComponentsAssumption
  <2> QED BY <1>1, <1>6, <2>1 DEF ClusterSpec
<1>7. CASE s = [spec EXCEPT !.port = @ + 1]
  BY <1>1, <1>7 DEF ClusterSpec
<1>8. CASE s = [spec EXCEPT !.slave = ~ @]
  BY <1>1, <1>8 DEF ClusterSpec
<1>9. CASE s = [spec EXCEPT !.features = Features \ @]
  BY <1>1, <1>9 DEF ClusterSpec
<1> QED BY <1>3, <1>4, <1>5, <1>6, <1>7, <1>8, <1>9

LEMMA UserEditKeeps ==
  ASSUME IInv, UserEdit
  PROVE  IInv'
<1>0. TypeOK /\ MgrInv /\ PassInv /\ ObjectInv
  BY DEF IInv
<1>1. UNCHANGED <<mgr, stop, oc, stage, turn, at, todo, bad, again, objects, done, reg>>
  BY DEF UserEdit, pass, outside
<1>2. Spend("edits") /\ spec' \in Edits
  BY DEF UserEdit
<1>3. spec' \in ClusterSpec
  BY <1>0, <1>2, EditsAre
<1>4. Keeps
  BY <1>1 DEF Keeps, objects
<1>5. MgrInv' /\ PassInv' /\ ControlOK' /\ MovesOK'
  BY <1>1, <1>3, <1>4, EventPass
<1>6. OutsideOK' /\ ObjectsOK'
  <2>1. OutsideOK /\ Units' = Units
    BY <1>0, <1>1, TypeParts, Frame
  <2>2. OutsideOK'
    BY <1>1, <1>2, <2>1, SpendTypes DEF OutsideOK
  <2> QED BY <1>0, <1>1, <2>2, WriteTypes
<1>7. ObjectInv'
  <2>1. \A u \in Units : again'[u] # "" => BelowProven(u) /\ oc' = oc
    BY <1>0, <1>1 DEF ObjectInv, RetryInv
  <2> QED BY <1>0, <1>1, <1>4, <2>1, SameObjects
<1> QED BY <1>5, <1>6, <1>7, NextTypeParts DEF IInv
-----------------------------------------------------------------------------
(* The theorems. *)

LEMMA InitIInv == Init => IInv
<1> SUFFICES ASSUME Init PROVE IInv
  OBVIOUS
<1>1. PICK g \in Groups : mgr = [c \in g |-> ManagerOf[c]]
  BY DEF Init
<1>2. active = g /\ active \in Groups /\ MgrInv
  BY <1>1 DEF active, MgrInv
<1>3. /\ stop \in BOOLEAN /\ oc = spec /\ stage = "idle" /\ turn = 0
      /\ at = [u \in Units |-> "idle"] /\ todo = [u \in Units |-> {}]
      /\ bad = [u \in Units |-> FALSE] /\ again = [u \in Units |-> ""]
      /\ cache = server /\ seen = [u \in Units |-> [k \in Kinds |-> TRUE]]
      /\ proven = [u \in Units |-> {}]
      /\ done = [u \in Units |-> {}] /\ reg = [u \in Units |-> [url |-> 0, slave |-> "none"]]
  BY ComponentsAssumption DEF Init
<1>4. spec \in ClusterSpec
  <2>1. PICK p \in ProductVersions :
          spec = [pv |-> p, off |-> {}, features |-> Features, image |-> 1,
                  slave |-> FALSE, port |-> 1]
    BY DEF Init
  <2>2. p \in All
    BY ComponentsAssumption
  <2> QED BY <2>1, <2>2 DEF ClusterSpec
<1>5. ControlOK
  <2>1. Len(Sequential) \in Nat
    BY SequentialIs
  <2>2. 0 \in 0..Len(Sequential)
    BY <2>1
  <2> QED BY <1>2, <1>3, <1>4, <2>2 DEF ControlOK
<1>6. MovesOK
  BY <1>3 DEF MovesOK
<1>7. /\ server \in [Units -> [Kinds -> Object]]
      /\ \A u \in Units : server[u]["main"] = None
  <2>1. PICK n \in {0, 1} : server = [u \in Units |-> [k \in Kinds |->
          IF n = 1 /\ k = "cm" /\ "config" \in M(u).has
          THEN [v |-> 1, ann |-> 1, ready |-> FALSE] ELSE None]]
    BY DEF Init
  <2>2. None \in Object /\ [v |-> 1, ann |-> 1, ready |-> FALSE] \in Object
    BY DEF None, Object
  <2>3. "main" \in Kinds
    BY DEF Kinds
  <2> QED BY <2>1, <2>2, <2>3
<1>8. ObjectsOK
  BY <1>3, <1>7 DEF ObjectsOK
<1>9. OutsideOK
  <2>1. left \in [edits : Nat, faults : Nat, crashes : Nat, deletes : Nat,
                  outages : Nat, all : Nat]
    <3>1. MaxEvents[active] \in Nat
      BY <1>2, ComponentsAssumption
    <3> QED BY <3>1, ComponentsAssumption DEF Init
  <2>2. done \in [Units -> SUBSET (External \cup {"setup"})]
    BY <1>3
  <2>3. reg \in [Units -> [url : Nat, slave : {"none", "off", "on"}]]
    BY <1>3
  <2> QED BY <2>1, <2>2, <2>3 DEF OutsideOK
<1>10. OrderInv /\ AgendaInv /\ AgainInv
  BY <1>3 DEF OrderInv, AgendaInv, AgainInv, Syncing, Scheduled
<1>11. WaitInv
  BY <1>3 DEF WaitInv
<1>12. KeystoneInv
  <2>1. stage = "idle" /\ turn = 0
    BY <1>3
  <2> QED BY <2>1 DEF KeystoneInv
<1>13. \A u \in Units : ~ Exists(server[u]["main"]) /\ ~ server[u]["main"].ready
  <2>1. ~ Exists(None) /\ ~ None.ready
    BY DEF None, Exists
  <2> QED BY <1>7, <2>1
<1>14. ProvenInv
  BY <1>3, <1>13 DEF ProvenInv
<1>15. CacheInv /\ RetryInv
  BY <1>3 DEF CacheInv, RetryInv
<1>16. WorkloadsProvisioned
  BY <1>13 DEF WorkloadsProvisioned
<1> QED BY <1>2, <1>5, <1>6, <1>8, <1>9, <1>10, <1>11, <1>12, <1>14, <1>15, <1>16, TypeParts
        DEF IInv, PassInv, ObjectInv

LEMMA StutterKeeps ==
  ASSUME IInv, UNCHANGED vars
  PROVE  IInv'
<1>0. TypeOK /\ MgrInv /\ PassInv /\ ObjectInv
  BY DEF IInv
<1>1. UNCHANGED <<mgr, stop, spec, oc, stage, turn, at, todo, bad, again, objects, done, reg, left>>
  BY DEF vars, pass, outside
<1>2. Keeps
  BY <1>1 DEF Keeps, objects
<1>3. MgrInv' /\ PassInv' /\ ControlOK' /\ MovesOK'
  BY <1>0, <1>1, <1>2, EventPass, SpecTypes
<1>4. ObjectInv' /\ ObjectsOK' /\ OutsideOK'
  BY <1>0, <1>1, PassObjects, WriteTypes, OutsideSame
<1> QED BY <1>3, <1>4, NextTypeParts DEF IInv

LEMMA NextIInv == IInv /\ [Next]_vars => IInv'
<1> SUFFICES ASSUME IInv, [Next]_vars PROVE IInv'
  OBVIOUS
<1>1. ASSUME NEW u \in Units, UnitStep(u) PROVE IInv'
  BY <1>1, UnitStepIs, GoesKeeps, ConflictKeeps, NextZoneStep
<1>2. CASE PassStart \/ SequentialStep \/ ParallelEnd \/ AddonsEnd
  BY <1>2, PassStepsKeep
<1>3. CASE Panic \/ Crash
  BY <1>3, RestartKeeps DEF Panic, Crash
<1>4. CASE Watch
  BY <1>4, WatchKeeps
<1>5. CASE Rollout
  BY <1>5, RolloutKeeps
<1>6. CASE PodsLost
  BY <1>6, PodsLostKeeps
<1>7. CASE UserDelete
  BY <1>7, UserDeleteKeeps
<1>8. CASE UserEdit
  BY <1>8, UserEditKeeps
<1>9. CASE UNCHANGED vars
  BY <1>9, StutterKeeps
<1> QED BY <1>1, <1>2, <1>3, <1>4, <1>5, <1>6, <1>7, <1>8, <1>9 DEF Next, Operator

LEMMA Inductive == Spec => []IInv
  BY InitIInv, NextIInv, PTL DEF Spec

\* The pass, the managers and the environment keep every variable in its type.
THEOREM ComponentsTypeCorrect == Spec => []TypeOK
<1>1. IInv => TypeOK
  BY DEF IInv
<1> QED BY <1>1, Inductive, PTL

\* A workload runs only with its database, accounts and configuration in place, whichever
\* requests failed, however old the cache is and wherever the operator crashed: the steps of
\* syncComponent come in their order, and an error ends them.
THEOREM RunsProvisioned == Spec => []WorkloadsProvisioned
<1>1. IInv => WorkloadsProvisioned
  BY DEF IInv, ObjectInv
<1> QED BY <1>1, Inductive, PTL

\* The steps that change what the API server has: a write that the invariant allows, or
\* Kubernetes' report that the pods of a workload are ready, or are so no more.
LEMMA ServerSteps ==
  ASSUME IInv, Next
  PROVE  server' = server \/ Writes \/ Rollout \/ PodsLost
<1>1. ASSUME NEW u \in Units, UnitStep(u)
      PROVE  server' = server \/ Writes
  BY <1>1, UnitStepIs DEF Goes, Conflict, NextZone, objects
<1>2. CASE PassStart \/ SequentialStep \/ ParallelEnd \/ AddonsEnd
  BY <1>2 DEF PassStart, SequentialStep, ParallelEnd, AddonsEnd, objects
<1>3. CASE Panic \/ Crash
  BY <1>3 DEF Panic, Crash, Restart
<1>4. CASE Watch \/ UserEdit
  BY <1>4 DEF Watch, UserEdit, objects
<1>5. CASE UserDelete
  BY <1>5, Removes DEF UserDelete, Kinds
<1> QED BY <1>1, <1>2, <1>3, <1>4, <1>5 DEF Next, Operator

\* A step after which the main object of unit u is there, with another image.
LEMMA MainChanges ==
  ASSUME IInv, Next, NEW u \in Units, Exists(server'[u]["main"]),
         server'[u]["main"].v # server[u]["main"].v
  PROVE  /\ server'[u]["main"].v = oc.image /\ BelowProven(u)
         /\ ~ Exists(server[u]["main"]) => KeystoneSet(u)
<1>0. TypeOK /\ "main" \in Kinds
  BY DEF IInv, Kinds
<1>1. ~ (Rollout \/ PodsLost)
  <2> SUFFICES ASSUME Rollout \/ PodsLost PROVE FALSE
    OBVIOUS
  <2>1. PICK w \in Units, b \in BOOLEAN : server' = [server EXCEPT ![w]["main"].ready = b]
    BY DEF Rollout, PodsLost
  <2>2. server \in [Units -> [Kinds -> Object]]
    BY <1>0, ObjectTypes
  <2>3. server'[u]["main"] = server[u]["main"] \/
        server'[u]["main"] = [server[u]["main"] EXCEPT !.ready = b]
    BY <1>0, <2>1, <2>2
  <2>4. server[u]["main"] \in Object
    BY <1>0, ObjectTypes
  <2>5. [server[u]["main"] EXCEPT !.ready = b].v = server[u]["main"].v
    BY <2>4 DEF Object
  <2> QED BY <2>3, <2>5, Zenon
<1>2. PICK v \in Units, k \in Kinds, o \in Object : Puts(v, k, o) /\ Allowed(v, k, o)
  BY <1>1, ServerSteps DEF Writes
<1>3. server'[u]["main"] = IF u = v /\ k = "main" THEN o ELSE server[u]["main"]
  BY <1>0, <1>2, ObjectTypes DEF Puts
<1>4. u = v /\ k = "main" /\ server'[u]["main"] = o
  BY <1>3, Zenon
<1>5. o.v = oc.image /\ BelowProven(u) /\ (Exists(server[u]["main"]) \/ KeystoneSet(u))
  BY <1>2, <1>4, Zenon DEF Allowed
<1> QED BY <1>4, <1>5, Zenon

\* Nothing but keystone is created before keystone has its endpoints and the common
\* services, unless services are being stopped or keystone is not wanted: keystone is the
\* first of the sequence, and an error in it ends the pass.
THEOREM KeystoneComesFirst == Spec => KeystoneFirst
<1>1. ASSUME IInv, Next, NEW u \in Units \ {Keystone},
             "keystone" \in active, ~ stop, ~ shouldDelete(Keystone, oc),
             ~ Exists(server[u]["main"]), Exists(server'[u]["main"])
      PROVE  {"setup", "services"} \subseteq done[Keystone]
  <2>1. KeystoneSet(u)
    BY <1>1, MainChanges DEF Exists
  <2> QED BY <1>1, <2>1 DEF KeystoneSet
<1>2. IInv /\ [Next]_vars =>
        [\A u \in Units \ {Keystone} :
           /\ "keystone" \in active /\ ~ stop /\ ~ shouldDelete(Keystone, oc)
           /\ ~ Exists(server[u]["main"]) /\ Exists(server'[u]["main"])
           => {"setup", "services"} \subseteq done[Keystone]]_vars
  BY <1>1
<1> QED BY <1>2, Inductive, PTL DEF Spec, KeystoneFirst

\* A daemon set is given an image only after the one it depends on has been ready with that
\* image, also when a refused update is repeated without looking again: pods may be lost and
\* images set back at any time, and the lister may lag behind with any number of objects, but
\* what it says has been so.
THEOREM RolledOutInOrder == Spec => RolloutOrder
<1>1. ASSUME IInv, Next, NEW u \in Units, M(u).after \in active,
             Exists(server'[u]["main"]), server'[u]["main"].v # server[u]["main"].v
      PROVE  server'[u]["main"].v \in proven[<<M(u).after, "">>]
  <2>1. server'[u]["main"].v = oc.image /\ BelowProven(u)
    BY <1>1, MainChanges
  <2> QED BY <1>1, <2>1, Zenon DEF BelowProven
<1>2. IInv /\ [Next]_vars =>
        [\A u \in Units :
           LET new == server'[u]["main"] IN
           M(u).after \in active /\ Exists(new) /\ new.v # server[u]["main"].v =>
             new.v \in proven[<<M(u).after, "">>]]_vars
  BY <1>1
<1> QED BY <1>2, Inductive, PTL DEF Spec, RolloutOrder
=============================================================================
