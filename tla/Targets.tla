------------------------------ MODULE Targets ------------------------------
(***************************************************************************)
(* What an owner's object and the cluster amount to: the pools with their  *)
(* members, the listeners of a layer 4 load balancer, the security rules   *)
(* of the nodes and the subnet of the load balancer.  The endpoint         *)
(* resolver, and the builders of service_uc, ingress_uc, service_glb_uc    *)
(* and vglb_uc on top of it, as operators.                                 *)
(*                                                                         *)
(* A cluster is a record: the Services there are (svc), the nodes that are *)
(* ready (ready), and for each Service the pods of its Endpoints, ready or *)
(* not, or None without such an object (ends).                             *)
(***************************************************************************)
EXTENDS Naturals, Sequences, FiniteSets, FiniteSetsExt

CONSTANTS
  Node, Labelled,      \* nodes; those with the target node labels
  Pod, HostOf,         \* pods; the node of each
  Service, TypeOf,     \* Services; "ClusterIP" or "NodePort" (or above)
  PortsOf,             \* ... their ports: names, numbers, protocols, node ports
  PodPort,             \* the ports of each pod, by name of the Service's port
  Subnet, ZoneOf,      \* subnets; the zone of each
  SubnetOf,            \* ... the one of each node
  DefaultSubnet,       \* ... the one of the first node
  Native,              \* Cilium with native routing
  None

Zone == {ZoneOf[x] : x \in Subnet}

ASSUME TargetsAssumption ==
  /\ Labelled \subseteq Node /\ HostOf \in [Pod -> Node] /\ SubnetOf \in [Node -> Subnet]
  /\ DefaultSubnet \in Subnet /\ None \notin Subnet \cup Zone /\ Native \in BOOLEAN
  /\ TypeOf \in [Service -> {"ClusterIP", "NodePort"}]
  /\ \A s \in Service : \A i, j \in DOMAIN PortsOf[s] :
       PortsOf[s][i].num = PortsOf[s][j].num => i = j

-----------------------------------------------------------------------------
(* The endpoint resolver. *)

\* A port is asked for by its name, or by its number; the first match counts.
\* The number alone: two ports of a number with different protocols, which
\* TargetsAssumption leaves out, ask for two listeners on one port, and
\* deployListener refuses the second.
ByName(name) == [name |-> name, num |-> 0]
ByNumber(num) == [name |-> None, num |-> num]

Matching(s, key) ==
  {i \in DOMAIN PortsOf[s] :
     IF key.name # None THEN PortsOf[s][i].name = key.name ELSE PortsOf[s][i].num = key.num}
LookupPort(s, key) == PortsOf[s][Min(Matching(s, key))]

\* The reference is good: the Service is there and has the port.
Resolvable(cl, s, key) == s \in cl.svc /\ Matching(s, key) # {}

Selected(o) == IF o.labels THEN Labelled ELSE Node

\* Nodes that are ready and have the labels, at the node port.
ResolveNodePortEndpoints(cl, o, s, key) ==
  {[ip |-> n, port |-> LookupPort(s, key).node] : n \in cl.ready \cap Selected(o)}

\* The pods behind the port, wherever they run.
Behind(cl, s, key) ==
  {p \in cl.ends[s] : LookupPort(s, key).name \in DOMAIN PodPort[p]}
PortOfPod(p, s, key) == PodPort[p][LookupPort(s, key).name]
ResolvePodEndpoints(cl, s, key) ==
  {[ip |-> p, port |-> PortOfPod(p, s, key)] : p \in Behind(cl, s, key)}
GetListTargetPort(cl, s, key) == {PortOfPod(p, s, key) : p \in Behind(cl, s, key)}

-----------------------------------------------------------------------------
(* Pools.  An object has a kind, the Service it is about (None for an        *)
(* Ingress), and the annotations: target type, node labels, check port,      *)
(* check protocol, ports with the proxy protocol, ...                        *)

\* A ClusterIP Service has no node ports; an Ingress is taken at its word.
GetTargetType(o) ==
  IF o.svc # None /\ TypeOf[o.svc] = "ClusterIP" THEN "ip" ELSE o.target

\* The errors that fail the whole build.
NoNodePort(o, s) == GetTargetType(o) = "instance" /\ TypeOf[s] = "ClusterIP"
NoEndpoints(cl, o, s) == GetTargetType(o) = "ip" /\ cl.ends[s] = None
CannotBuildPool(cl, o, s) == NoNodePort(o, s) \/ NoEndpoints(cl, o, s)

Endpoints(cl, o, s, key) ==
  IF GetTargetType(o) = "instance" THEN ResolveNodePortEndpoints(cl, o, s, key)
  ELSE ResolvePodEndpoints(cl, s, key)

\* A check port out of range is no check port.
BuildHealthcheckPort(o) == IF o.check \in 1..65535 THEN o.check ELSE None

BuildMembers(cl, o, s, key) ==
  {[ip |-> e.ip, port |-> e.port,
    monitor |-> IF BuildHealthcheckPort(o) = None THEN e.port ELSE BuildHealthcheckPort(o)] :
     e \in Endpoints(cl, o, s, key)}

\* UDP is checked with a ping.
BuildPoolHealthCheckProtocol(o, proto) == IF proto = "UDP" THEN "PING-UDP" ELSE o.probe

\* The pool of a Service's port.  With the proxy protocol it is another pool.
Proxied(o, port) == o.proxy \cap {"*", port.name} # {} /\ port.proto = "TCP"
PoolName(o, port) == <<IF Proxied(o, port) THEN "PROXY" ELSE port.proto, port.num>>

BuildServicePool(cl, o, port) ==
  [proto |-> IF Proxied(o, port) THEN "PROXY" ELSE port.proto,
   health |-> BuildPoolHealthCheckProtocol(o, port.proto),
   members |-> BuildMembers(cl, o, o.svc, ByNumber(port.num))]

\* A global load balancer knows no UDP.
BuildGlobalPool(cl, o, port) ==
  [proto |-> IF Proxied(o, port) THEN "PROXY" ELSE "TCP", health |-> o.probe,
   members |-> BuildMembers(cl, o, o.svc, ByNumber(port.num))]

ServicePorts(o) == {PortsOf[o.svc][i] : i \in DOMAIN PortsOf[o.svc]}

\* Each port has its pool and its listener.
BuildServicePools(cl, o) ==
  LET portOf(n) == CHOOSE port \in ServicePorts(o) : PoolName(o, port) = n
  IN [n \in {PoolName(o, port) : port \in ServicePorts(o)} |->
        IF o.kind = "service" THEN BuildServicePool(cl, o, portOf(n))
        ELSE BuildGlobalPool(cl, o, portOf(n))]
BuildServiceListeners(o) ==
  [num \in {port.num : port \in ServicePorts(o)} |->
     [pool |-> PoolName(o, LookupPort(o.svc, ByNumber(num))), policies |-> <<>>]]

\* The pool of an Ingress's backend.
BuildIngressPool(cl, o, b) ==
  [proto |-> "HTTP", health |-> BuildPoolHealthCheckProtocol(o, "TCP"),
   members |-> BuildMembers(cl, o, b.svc, b.key)]

-----------------------------------------------------------------------------
(* Security rules: what the nodes let in, from which subnet. *)

Rule(proto, port, from) == [proto |-> proto, port |-> port, from |-> from]

\* Without node ports in the way, every node may have to reach every pod.
NativeRules(cl, o, s, key, proto) ==
  IF Native /\ GetTargetType(o) = "instance"
  THEN {Rule(proto, port, from) :
          port \in GetListTargetPort(cl, s, key), from \in {SubnetOf[n] : n \in Node}}
  ELSE {}

BuildPoolSecgroupRule(cl, o, s, key, proto, from) ==
  {Rule(proto, e.port, from) : e \in Endpoints(cl, o, s, key)}
    \cup {Rule(proto, port, from) : port \in {BuildHealthcheckPort(o)} \ {None}}
    \cup NativeRules(cl, o, s, key, proto)

\* Where UDP comes in, a ping does.
EnsureSecgroupPING_UDP(rules) ==
  rules \cup {Rule("ICMP", "any", r.from) : r \in {q \in rules : q.proto = "UDP"}}

\* Whatever leaves a node may.
EnsureDefaultEgressSecgroupRule(rules) == rules \cup {Rule("ALL", "out", "any")}

CannotBuildRules(cl, o, s) ==
  CannotBuildPool(cl, o, s) \/ (Native /\ GetTargetType(o) = "instance" /\ cl.ends[s] = None)

BuildServiceRules(cl, o, from) ==
  EnsureDefaultEgressSecgroupRule(EnsureSecgroupPING_UDP(UNION
    {BuildPoolSecgroupRule(cl, o, o.svc, ByNumber(port.num), port.proto, from) :
       port \in ServicePorts(o)}))

-----------------------------------------------------------------------------
(* The subnet. *)

\* In this order: that of the load balancer asked for by id, the one seen on
\* the cloud, the one first written, the one preferred, one with a node in the
\* zone preferred, that of the first node.  None: there is no such subnet.
InZone(z) == {SubnetOf[n] : n \in {m \in Node : ZoneOf[SubnetOf[m]] = z}}
Preferred(o) ==
  CASE o.subnet # None -> o.subnet
    [] o.subnet = None /\ o.zone \notin {None, ZoneOf[DefaultSubnet]} ->
         IF InZone(o.zone) = {} THEN None ELSE CHOOSE x \in InZone(o.zone) : TRUE
    [] OTHER -> DefaultSubnet

\* Mutant of BuildSubnetAndZone: what was written comes before what was seen.
SubnetAsWritten(o, pinned, seen, written) ==
  IF o.pin THEN pinned ELSE IF written # None THEN written
  ELSE IF seen # None THEN seen ELSE Preferred(o)

BuildSubnetAndZone(o, pinned, seen, written) ==
  IF o.pin THEN pinned ELSE IF seen # None THEN seen
  ELSE IF written # None THEN written ELSE Preferred(o)
=============================================================================
