------------------------------ MODULE Catalogue ------------------------------
(****************************************************************************)
(* The component managers of pkg/manager/component, one definition for each *)
(* Go type and named after it.  A manager is a cloudComponentFactory: data  *)
(* that syncComponent reads and module Components interprets.  Its fields:  *)
(*   key      the part of OnecloudCluster.Spec whose Disable it obeys       *)
(*   pv       getProductVersions                                            *)
(*   needs    what IsDisabled asks of the cluster besides                   *)
(*   guard    whether IsDisabled also tests the product version             *)
(*   has      the steps of syncComponent for which its factory methods      *)
(*            return something (a database, a user, a workload ...)         *)
(*   config   when its config map is written: once, always, or once and     *)
(*            again while the stored one lacks an option (missing), which   *)
(*            glance looks for only in CMP; the deployer has one only there *)
(*   slave    getService returns a second service for read-only replicas    *)
(*   register the endpoints its phase control registers: slave (with one    *)
(*            for the replicas), plain, fixed (a constant URL), tsdb (the   *)
(*            same, and region is restarted), service (none)                *)
(*   ports    the default node ports of its services                        *)
(*   zoned    synced once for each zone (multiZoneSync)                     *)
(*   after    the daemon set that must be ready before its own (isDsReady)  *)
(*   early    Sync returns at once without the feature it needs             *)
(****************************************************************************)
EXTENDS Sequences, FiniteSets

\* The product versions isValidProductVersion accepts, and the usual subsets.
All == {"FullStack", "CMP", "Edge", "LightEdge", "AI"}
NotLight == All \ {"LightEdge"}
Classic == {"FullStack", "CMP", "Edge"}
Hosting == All \ {"CMP"}

Features == {"EE", "EEorESEE", "CloudNet", "S3Gateway", "LocalVpc", "Minio", "Prometheus",
             "Clickhouse"}

\* What ComponentManager answers when a manager does not override a method.
Manager ==
  [key |-> "", pv |-> All, needs |-> {}, guard |-> TRUE, has |-> {}, config |-> "once",
   slave |-> FALSE, register |-> "slave", ports |-> {}, zoned |-> FALSE,
   after |-> "", early |-> FALSE]

\* The daemon sets that share the host agent's configuration.
hostBasedDsManager == [Manager EXCEPT !.pv = Hosting, !.has = {"daemonset"}]

aiProxyManager ==
  [Manager EXCEPT !.key = "AiProxy", !.pv = NotLight, !.guard = FALSE,
     !.has = {"db", "user", "config", "deployment", "service", "ingress", "setup", "enable"},
     !.slave = TRUE, !.ports = {31513}]

ansibleManager ==
  [Manager EXCEPT !.key = "AnsibleServer", !.pv = NotLight,
     !.has = {"db", "user", "config", "deployment", "readonly", "service", "setup", "enable"},
     !.slave = TRUE, !.ports = {30890}]

apiGatewayManager ==
  [Manager EXCEPT !.key = "APIGateway",
     !.has = {"user", "config", "deployment", "service", "setup", "enable"}, !.slave = TRUE,
     !.register = "plain", !.ports = {30300, 30443}]

apiMapManager ==
  [Manager EXCEPT !.key = "ApiMap", !.pv = Hosting,
     !.has = {"user", "config", "deployment", "service", "setup", "enable"}, !.slave = TRUE,
     !.ports = {31999}]

autoUpdateManager ==
  [Manager EXCEPT !.key = "AutoUpdate", !.needs = {"EE"},
     !.has = {"db", "clickhouse", "user", "config", "deployment", "service", "setup", "enable"},
     !.config = "missing", !.slave = TRUE, !.ports = {30981}]

baremetalManager ==
  [Manager EXCEPT !.key = "BaremetalAgent", !.pv = {"Baremetal", "Edge", "FullStack"},
     !.has = {"user", "config", "pvc", "deployment", "setup"}, !.register = "service",
     !.zoned = TRUE]

bastionHostManager ==
  [Manager EXCEPT !.key = "BastionHost", !.pv = Classic, !.needs = {"EE"},
     !.has = {"db", "user", "config", "deployment", "service", "setup", "enable"},
     !.slave = TRUE, !.ports = {30983}]

billingManager ==
  [Manager EXCEPT !.key = "Billing", !.pv = Classic, !.needs = {"EE"},
     !.has = {"db", "clickhouse", "user", "config", "deployment", "readonly", "service", "setup",
              "enable"},
     !.slave = TRUE, !.ports = {30404}]

climcManager ==
  [Manager EXCEPT !.key = "Climc", !.has = {"config", "deployment"}]

cloudeventManager ==
  [Manager EXCEPT !.key = "Cloudevent", !.pv = {"CMP", "FullStack"},
     !.has = {"db", "clickhouse", "user", "config", "deployment", "service", "setup", "enable"},
     !.slave = TRUE, !.ports = {30892}]

cloudidManager ==
  [Manager EXCEPT !.key = "CloudId", !.pv = {"CMP", "FullStack"},
     !.has = {"db", "user", "config", "deployment", "service", "setup", "enable"},
     !.slave = TRUE, !.ports = {30893}]

cloudmonManager ==
  [Manager EXCEPT !.key = "Cloudmon", !.pv = Classic,
     !.has = {"cronjobs", "user", "config", "deployment", "service", "setup"}, !.slave = TRUE,
     !.ports = {30931}]

cloudmuxManager ==
  [Manager EXCEPT !.key = "Cloudmux", !.pv = Classic, !.has = {"deployment"}]

cloudnetManager ==
  [Manager EXCEPT !.key = "Cloudnet", !.pv = {"FullStack"}, !.needs = {"CloudNet"},
     !.has = {"db", "user", "config", "deployment", "service", "setup"}, !.slave = TRUE,
     !.ports = {30891}, !.early = TRUE]

cloudproxyManager ==
  [Manager EXCEPT !.key = "Cloudproxy", !.pv = Classic,
     !.has = {"db", "user", "config", "deployment", "service", "setup", "agent", "enable"},
     !.slave = TRUE, !.register = "plain", !.ports = {30882}]

devtoolManager ==
  [Manager EXCEPT !.key = "Devtool", !.pv = NotLight,
     !.has = {"db", "user", "config", "deployment", "service", "setup", "templates", "enable"},
     !.slave = TRUE, !.register = "plain", !.ports = {30997}]

echartsSSRManager ==
  [Manager EXCEPT !.key = "EChartsSSR", !.pv = Classic, !.needs = {"EE"},
     !.has = {"deployment", "service", "setup", "enable"}, !.register = "fixed"]

esxiManager ==
  [Manager EXCEPT !.key = "EsxiAgent", !.pv = Classic,
     !.has = {"user", "config", "deployment"}, !.config = "missing",
     !.zoned = TRUE]

extdbManager ==
  [Manager EXCEPT !.key = "Extdb", !.pv = Classic, !.needs = {"EE"},
     !.has = {"db", "clickhouse", "user", "config", "deployment", "service", "setup", "enable"},
     !.slave = TRUE, !.ports = {30991}]

glanceManager ==
  [Manager EXCEPT !.key = "Glance",
     !.has = {"db", "clickhouse", "user", "config", "pvc", "deployment", "readonly", "service",
              "setup", "enable"},
     !.config = "missingInCMP", !.slave = TRUE, !.ports = {30292}]

hostDeployerManager ==
  [Manager EXCEPT !.key = "HostDeployer", !.has = {"user", "config", "daemonset"},
     !.config = "onlyInCMP"]

hostHealthManager ==
  [hostBasedDsManager EXCEPT !.key = "HostAgent"]

hostImageManager ==
  [hostBasedDsManager EXCEPT !.key = "HostImage"]

hostOvnControllerManager ==
  [hostBasedDsManager EXCEPT !.key = "HostAgent", !.needs = {"LocalVpc"},
     !.after = "host-ovs-vswitchd"]

hostOvsVswitchdManager ==
  [hostBasedDsManager EXCEPT !.key = "HostAgent", !.after = "host-ovsdb-server"]

hostOvsdbServerManager ==
  [hostBasedDsManager EXCEPT !.key = "HostAgent"]

hostSdnagentManager ==
  [hostBasedDsManager EXCEPT !.key = "HostAgent"]

hostManager ==
  [Manager EXCEPT !.key = "HostAgent", !.pv = Hosting,
     !.has = {"user", "config", "daemonset", "setup"}, !.config = "missing",
     !.register = "service"]

itsmManager ==
  [Manager EXCEPT !.key = "Itsm", !.pv = Classic, !.needs = {"EE"},
     !.has = {"db", "user", "config", "deployment", "service", "setup", "enable"},
     !.slave = TRUE, !.register = "plain", !.ports = {30595}]

keystoneManager ==
  [Manager EXCEPT !.key = "Keystone",
     !.has = {"db", "clickhouse", "config", "deployment", "readonly", "service", "policies",
              "setup", "services", "enable"},
     !.slave = TRUE, !.ports = {30500, 30357}]

kubeManager ==
  [Manager EXCEPT !.key = "KubeServer",
     !.has = {"db", "clickhouse", "user", "config", "deployment", "service", "setup", "minio",
              "enable"},
     !.slave = TRUE, !.ports = {30442}]

lbagentManager ==
  [Manager EXCEPT !.key = "Lbagent", !.pv = {"AI", "Edge", "FullStack"},
     !.has = {"user", "config", "daemonset", "setup"}, !.config = "always",
     !.register = "service"]

llmManager ==
  [Manager EXCEPT !.key = "LLM", !.pv = NotLight, !.guard = FALSE,
     !.has = {"db", "user", "config", "deployment", "service", "setup", "enable"},
     !.slave = TRUE, !.register = "plain", !.ports = {31512}]

loggerManager ==
  [Manager EXCEPT !.key = "Logger",
     !.has = {"db", "clickhouse", "user", "config", "deployment", "service", "setup", "enable"},
     !.slave = TRUE, !.ports = {30999}]

mcpServerManager ==
  [Manager EXCEPT !.key = "McpServer", !.pv = NotLight, !.guard = FALSE,
     !.has = {"user", "config", "deployment", "service", "setup", "enable"}, !.slave = TRUE,
     !.ports = {30876}]

meterManager ==
  [Manager EXCEPT !.key = "Meter", !.pv = Classic, !.needs = {"EE"},
     !.has = {"db", "clickhouse", "user", "config", "deployment", "readonly", "service", "setup",
              "enable"},
     !.slave = TRUE, !.ports = {30909}]

monitorManager ==
  [Manager EXCEPT !.key = "Monitor",
     !.has = {"db", "clickhouse", "user", "config", "deployment", "service", "setup", "alerts",
              "enable"},
     !.slave = TRUE, !.register = "plain", !.ports = {30093}]

monitorStackManager ==
  [Manager EXCEPT !.key = "MonitorStack", !.pv = NotLight,
     !.has = {"db", "monitorMinio", "bucket", "thanos", "stack", "bucketPolicy"}]

notifyManager ==
  [Manager EXCEPT !.key = "Notify",
     !.has = {"db", "clickhouse", "user", "config", "deployment", "service", "setup", "enable"},
     !.slave = TRUE, !.ports = {30777}]

ovnNorthManager ==
  [Manager EXCEPT !.key = "OvnNorth", !.pv = Hosting, !.needs = {"LocalVpc"},
     !.has = {"deployment", "service"}, !.ports = {32241, 32242}]

regionManager ==
  [Manager EXCEPT !.key = "RegionServer",
     !.has = {"db", "clickhouse", "user", "config", "deployment", "readonly", "service", "setup",
              "zones", "schedtags", "enable"},
     !.slave = TRUE, !.ports = {30888}]

regionDNSManager ==
  [Manager EXCEPT !.key = "RegionDNS", !.has = {"config", "daemonset", "service"},
     !.config = "always"]

reportManager ==
  [Manager EXCEPT !.key = "Report", !.pv = NotLight, !.needs = {"EE"},
     !.has = {"db", "clickhouse", "user", "config", "deployment", "service", "setup", "enable"},
     !.slave = TRUE, !.ports = {30967}]

s3gatewayManager ==
  [Manager EXCEPT !.key = "S3gateway", !.pv = {"CMP", "FullStack"}, !.needs = {"S3Gateway"},
     !.has = {"user", "config", "deployment", "service", "setup", "enable"}, !.slave = TRUE,
     !.ports = {30884}]

scheduledtaskManager ==
  [Manager EXCEPT !.key = "Scheduledtask", !.pv = NotLight,
     !.has = {"config", "deployment", "service", "setup", "enable"}, !.slave = TRUE,
     !.ports = {30978}]

schedulerManager ==
  [Manager EXCEPT !.key = "Scheduler",
     !.has = {"config", "deployment", "service", "setup", "enable"}, !.slave = TRUE,
     !.ports = {30887}]

serviceOperatorManager ==
  [Manager EXCEPT !.key = "ServiceOperator", !.pv = Classic,
     !.has = {"user", "config", "deployment", "service"}, !.slave = TRUE, !.ports = {30885}]

suggestionManager ==
  [Manager EXCEPT !.key = "Suggestion", !.pv = NotLight, !.needs = {"EE"},
     !.has = {"db", "user", "config", "deployment", "service", "setup", "enable"},
     !.slave = TRUE, !.ports = {30987}]

telegrafManager ==
  [Manager EXCEPT !.key = "Telegraf", !.pv = Hosting, !.has = {"daemonset"}]

vmManager ==
  [Manager EXCEPT !.key = "VictoriaMetrics",
     !.has = {"pvc", "deployment", "service", "setup", "enable"}, !.slave = TRUE,
     !.register = "tsdb", !.ports = {30428}]

vpcAgentManager ==
  [Manager EXCEPT !.key = "VpcAgent", !.pv = Hosting, !.needs = {"LocalVpc"},
     !.has = {"user", "config", "deployment", "service", "setup", "enable"}, !.slave = TRUE,
     !.ports = {30932}]

webManager ==
  [Manager EXCEPT !.key = "Web", !.has = {"config", "deployment", "service", "ingress"}]

webconsoleManager ==
  [Manager EXCEPT !.key = "Webconsole",
     !.has = {"db", "clickhouse", "user", "config", "deployment", "service", "setup", "enable"},
     !.config = "missing", !.slave = TRUE, !.ports = {30899}]

yunionagentManager ==
  [Manager EXCEPT !.key = "Yunionagent", !.needs = {"EEorESEE"},
     !.has = {"db", "user", "config", "daemonset", "service", "setup", "enable"},
     !.register = "plain", !.ports = {30898}]

yunoinconfManager ==
  [Manager EXCEPT !.key = "Yunionconf",
     !.has = {"db", "user", "config", "deployment", "service", "setup", "settings", "enable"},
     !.slave = TRUE, !.ports = {30889}]

-----------------------------------------------------------------------------
\* The order of a pass.  InfluxDB is commented out of it.
Sequential ==
  << "keystone", "victoria-metrics", "telegraf", "region", "scheduler", "kubeserver",
     "webconsole", "glance", "region-dns", "yunionagent", "ansibleserver", "apigateway",
     "meter", "billing", "esxi-agent", "ovn-north", "apimap", "vpcagent", "host-deployer",
     "host-image", "host", "host-sdnagent", "host-ovn-controller", "host-ovsdb-server",
     "host-ovs-vswitchd", "host-health", "monitor", "cloudmon", "web" >>

\* Started together in an errgroup, after the last of the sequential ones.
Parallel ==
  { "logger", "climc", "cloudmux", "autoupdate", "cloudnet", "cloudproxy", "cloudevent",
    "devtool", "yunionconf", "s3gateway", "notify", "baremetal-agent",
    "onecloud-service-operator", "itsm", "cloudid", "suggestion", "scheduledtask",
    "report", "lbagent", "echarts-ssr", "bastionhost", "extdb", "llm", "mcp-server",
    "aiproxy" }

\* Synced last; their errors are only logged.
Addons == { "monitor-stack" }

Managers == { Sequential[i] : i \in DOMAIN Sequential } \cup Parallel \cup Addons

\* The manager of a component type.
ManagerOf ==
  [c \in Managers |->
     CASE c = "keystone" -> keystoneManager
       [] c = "victoria-metrics" -> vmManager
       [] c = "telegraf" -> telegrafManager
       [] c = "region" -> regionManager
       [] c = "scheduler" -> schedulerManager
       [] c = "kubeserver" -> kubeManager
       [] c = "webconsole" -> webconsoleManager
       [] c = "glance" -> glanceManager
       [] c = "region-dns" -> regionDNSManager
       [] c = "yunionagent" -> yunionagentManager
       [] c = "ansibleserver" -> ansibleManager
       [] c = "apigateway" -> apiGatewayManager
       [] c = "meter" -> meterManager
       [] c = "billing" -> billingManager
       [] c = "esxi-agent" -> esxiManager
       [] c = "ovn-north" -> ovnNorthManager
       [] c = "apimap" -> apiMapManager
       [] c = "vpcagent" -> vpcAgentManager
       [] c = "host-deployer" -> hostDeployerManager
       [] c = "host-image" -> hostImageManager
       [] c = "host" -> hostManager
       [] c = "host-sdnagent" -> hostSdnagentManager
       [] c = "host-ovn-controller" -> hostOvnControllerManager
       [] c = "host-ovsdb-server" -> hostOvsdbServerManager
       [] c = "host-ovs-vswitchd" -> hostOvsVswitchdManager
       [] c = "host-health" -> hostHealthManager
       [] c = "monitor" -> monitorManager
       [] c = "cloudmon" -> cloudmonManager
       [] c = "web" -> webManager
       [] c = "logger" -> loggerManager
       [] c = "climc" -> climcManager
       [] c = "cloudmux" -> cloudmuxManager
       [] c = "autoupdate" -> autoUpdateManager
       [] c = "cloudnet" -> cloudnetManager
       [] c = "cloudproxy" -> cloudproxyManager
       [] c = "cloudevent" -> cloudeventManager
       [] c = "devtool" -> devtoolManager
       [] c = "yunionconf" -> yunoinconfManager
       [] c = "s3gateway" -> s3gatewayManager
       [] c = "notify" -> notifyManager
       [] c = "baremetal-agent" -> baremetalManager
       [] c = "onecloud-service-operator" -> serviceOperatorManager
       [] c = "itsm" -> itsmManager
       [] c = "cloudid" -> cloudidManager
       [] c = "suggestion" -> suggestionManager
       [] c = "scheduledtask" -> scheduledtaskManager
       [] c = "report" -> reportManager
       [] c = "lbagent" -> lbagentManager
       [] c = "echarts-ssr" -> echartsSSRManager
       [] c = "bastionhost" -> bastionHostManager
       [] c = "extdb" -> extdbManager
       [] c = "llm" -> llmManager
       [] c = "mcp-server" -> mcpServerManager
       [] c = "aiproxy" -> aiProxyManager
       [] c = "monitor-stack" -> monitorStackManager]
=============================================================================
