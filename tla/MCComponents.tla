---------------------------- MODULE MCComponents ----------------------------
(* Instances of Components for TLC. *)
EXTENDS Components

\* Two daemon sets, one of which waits for the other.
DaemonSets == {"host-ovsdb-server", "host-ovs-vswitchd"}

\* Managers that between them have every step, kind of endpoint, way to write a
\* configuration, exception and dependency of the catalogue: each alone, and some that meet
\* in a pass: a failed one among parallel ones, daemon sets that roll out in order.
Alone ==
  { {c} : c \in { "glance", "kubeserver", "monitor", "cloudmon", "web", "host", "ovn-north",
                 "host-deployer", "baremetal-agent", "cloudnet", "devtool", "cloudproxy",
                 "yunionconf", "aiproxy", "yunionagent", "s3gateway", "monitor-stack" } } \cup
  { {"cloudmux", "itsm"}, {"keystone", "telegraf"}, {"victoria-metrics", "region"}, DaemonSets }

\* Two events for a deployment with a service: an event meets the repair of another.
AloneEvents == [g \in Groups |-> IF g = {"ovn-north"} THEN 2 ELSE 1]
AloneLag == [g \in Groups |-> 1]

\* Managers that depend on each other through the pass.
Together ==
  { {"keystone", "telegraf"}, {"cloudmux", "climc"}, {"web"}, {"host"},
    {"monitor-stack"}, DaemonSets }

\* A daemon set is written while the cache is behind with another one.
TogetherEvents == [g \in Groups |-> IF g = {"cloudmux", "climc"} THEN 1 ELSE 2]
TogetherLag == [g \in Groups |-> IF g = DaemonSets THEN 2 ELSE 1]

TwoZones == <<"", "z2">>
=============================================================================
