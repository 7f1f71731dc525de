------------------------------- MODULE Build -------------------------------
(***************************************************************************)
(* From an object of the cluster to traffic: an owner's reconcile builds   *)
(* the configuration and the security rules (modules Targets and           *)
(* Policies), the reconcile of the configuration puts the load balancer,   *)
(* the pools, the listeners and, one by one, the policies on the cloud and *)
(* takes away those that are wanted no longer.  The two run side by side,  *)
(* at any time: for events of their objects and whenever caches resync.    *)
(*                                                                         *)
(* One object and its load balancer; a global one has no subnet, no        *)
(* policies and no NSG.  How pools and listeners are shared and adopted is *)
(* in the modules Pools and Listeners, the life of the load balancer in    *)
(* LbcReconcile, that of a global one in Global, and the owners' caches,   *)
(* finalizers and events in Owner.                                         *)
(***************************************************************************)
EXTENDS Policies

CONSTANTS
  Objects,     \* what the object may be edited to, for each kind
  Clusters,    \* what the cluster may be like
  PinSubnet,   \* where the load balancer is that an object may ask for by id
  NamedSubnets,\* where one of the wanted name may be already; None: there is none
  MaxEdits, MaxFaults

VARIABLES
  obj, cluster,   \* the owner's object, and the rest of the cluster
  conf,           \* the LBC or GLBC; None before there is one
  group,          \* the NSG, with the rules of its managed group
  status,         \* of the LBC: the subnet seen, and per listener its policies
  own,            \* the owner's reconcile, between configuration and NSG
  dpc, task,      \* the reconcile of the configuration
  cloud,          \* the load balancer's subnet, its pools, its listeners
  stray,          \* history: policies made by a reconcile that ended there
  edits, faults

owner == <<conf, group, own>>
deploy == <<status, dpc, task, cloud, stray>>
vars == <<obj, cluster, owner, deploy, edits, faults>>

ASSUME BuildAssumption ==
  /\ PinSubnet \in Subnet /\ NamedSubnets \subseteq Subnet \cup {None} /\ NamedSubnets # {}
  /\ MaxEdits \in Nat /\ MaxFaults \in Nat

Idle == [obj |-> None, from |-> None]
NoTask == [conf |-> None, left |-> <<>>, next |-> 1, id |-> None, new |-> <<>>]

Init ==
  /\ obj \in Objects /\ cluster \in Clusters
  /\ conf = None /\ group = None /\ own = Idle
  /\ status = [subnet |-> None, made |-> <<>>] /\ dpc = "idle" /\ task = NoTask
  /\ cloud = [lb |-> None, pools |-> <<>>, lis |-> <<>>]
  /\ stray = {} /\ edits = 0 /\ faults = 0

-----------------------------------------------------------------------------
(* The owner's reconcile: the configuration, then the NSG. *)

IsIngress(o) == o.kind = "ingress"
Local(o) == o.kind \in {"service", "ingress"}

CannotBuild(cl, o) ==
  IF IsIngress(o) THEN CannotBuildIngress(cl, o) ELSE CannotBuildPool(cl, o, o.svc)
BuildPools(cl, o) == IF IsIngress(o) THEN BuildIngressPools(cl, o) ELSE BuildServicePools(cl, o)
BuildListeners(cl, o) ==
  IF IsIngress(o) THEN BuildIngressListeners(cl, o) ELSE BuildServiceListeners(o)

CannotBuildGroup(cl, o) ==
  IF IsIngress(o) THEN CannotBuildIngressRules(cl, o) ELSE CannotBuildRules(cl, o, o.svc)
BuildRules(cl, o, from) ==
  IF IsIngress(o) THEN BuildIngressRules(cl, o, from) ELSE BuildServiceRules(cl, o, from)

\* All that may be built, in tables; None where a build fails.
Built ==
  [cl \in Clusters, o \in Objects |->
     IF CannotBuild(cl, o) THEN None
     ELSE [pools |-> BuildPools(cl, o), lis |-> BuildListeners(cl, o)]]
RulesBuilt ==
  [cl \in Clusters, o \in Objects, from \in Subnet |->
     IF CannotBuildGroup(cl, o) THEN None ELSE BuildRules(cl, o, from)]

\* The subnet is written once, when the LBC is made; after that what has been
\* seen on the cloud counts.
BuildConfig ==
  LET written == IF conf = None THEN None ELSE conf.subnet
      from == IF Local(obj) THEN BuildSubnetAndZone(obj, PinSubnet, status.subnet, written)
              ELSE DefaultSubnet
      built == Built[cluster, obj]
  IN /\ own = Idle /\ from # None /\ built # None
     /\ conf' = [subnet |-> IF conf = None THEN from ELSE conf.subnet, pin |-> obj.pin,
                 layer7 |-> IsIngress(obj), pools |-> built.pools, lis |-> built.lis]
     /\ own' = IF Local(obj) THEN [obj |-> obj, from |-> from] ELSE Idle
     /\ UNCHANGED <<obj, cluster, group, deploy, edits, faults>>

\* With groups of the user's, none is managed.
BuildGroup ==
  LET o == own.obj
      rules == IF o.auto THEN RulesBuilt[cluster, o, own.from] ELSE {}
  IN /\ own # Idle
     /\ group' = IF rules = None THEN group ELSE [nodes |-> Selected(o), rules |-> rules]
     /\ own' = Idle
     /\ UNCHANGED <<obj, cluster, conf, deploy, edits, faults>>

-----------------------------------------------------------------------------
(* The reconcile of the configuration. *)

Goto(step) == dpc' = step

\* A table with one entry written, and one with the entries of another.
Put(f, x, v) == [y \in DOMAIN f \cup {x} |-> IF y = x THEN v ELSE f[y]]
Over(f, g) == f @@ g
SpecListeners(c) == SetToSeq(DOMAIN c.lis)

\* The load balancer with the id or the name asked for, or a new one.
DeployLoadBalancer ==
  /\ dpc = "idle" /\ conf # None
  /\ task' = [NoTask EXCEPT !.conf = conf, !.left = SpecListeners(conf)]
  /\ \E named \in NamedSubnets :
       cloud' = [cloud EXCEPT !.lb =
         CASE @ # None -> @
           [] @ = None /\ conf.pin -> PinSubnet
           [] OTHER -> IF named # None THEN named ELSE conf.subnet]
  /\ Goto("sync")
  /\ UNCHANGED <<obj, cluster, owner, status, stray, edits, faults>>

SyncStatus ==
  /\ dpc = "sync" /\ status' = [status EXCEPT !.subnet = cloud.lb]
  /\ Goto("pools")
  /\ UNCHANGED <<obj, cluster, owner, task, cloud, stray, edits, faults>>

DeployPools ==
  /\ dpc = "pools" /\ cloud' = [cloud EXCEPT !.pools = Over(task.conf.pools, @)]
  /\ Goto("listener")
  /\ UNCHANGED <<obj, cluster, owner, status, task, stray, edits, faults>>

Current == Head(task.left)
Want == task.conf.lis[Current]
Policy == Want.policies[task.next]
OnCloud == cloud.lis[Current].policies

\* A listener that is not there is made and then recorded, ...
CreateListener ==
  /\ dpc = "listener" /\ task.left # <<>> /\ Current \notin DOMAIN cloud.lis
  /\ cloud' = [cloud EXCEPT !.lis = Put(@, Current, [pool |-> Want.pool, policies |-> <<>>])]
  /\ Goto("addListener")
  /\ UNCHANGED <<obj, cluster, owner, status, task, stray, edits, faults>>

\* ... one that is found is recorded first; both are then updated.
StatusAddListener ==
  /\ \/ dpc = "addListener"
     \/ dpc = "listener" /\ task.left # <<>> /\ Current \in DOMAIN cloud.lis
  /\ status' = [status EXCEPT !.made =
       Put(@, Current, IF Current \in DOMAIN @ THEN @[Current] ELSE {})]
  /\ Goto("update")
  /\ UNCHANGED <<obj, cluster, owner, task, cloud, stray, edits, faults>>

UpdateListener ==
  /\ dpc = "update"
  /\ cloud' = [cloud EXCEPT !.lis = Put(@, Current, [pool |-> Want.pool, policies |-> OnCloud])]
  /\ task' = [task EXCEPT !.next = 1, !.new = Put(@, Current, {})]
  /\ Goto("policy")
  /\ UNCHANGED <<obj, cluster, owner, status, stray, edits, faults>>

Found == {j \in DOMAIN OnCloud : OnCloud[j].name = Policy.name}

\* Mutant of NeedUpdate: the redirection is compared whatever the action.
NeedUpdateAll(want, cur) ==
  want.action # cur.action \/ want.pool # cur.pool \/ want.url # cur.url \/ want.rules # cur.rules

NeedUpdate(want, cur) ==
  \/ want.action # cur.action \/ want.rules # cur.rules
  \/ want.action = "REDIRECT_TO_POOL" /\ want.pool # cur.pool
  \/ want.action = "REDIRECT_TO_URL" /\ want.url # cur.url

WithPolicies(ps) == [cloud EXCEPT !.lis[Current].policies = ps]
NextPolicy(id) ==
  task' = [task EXCEPT !.next = @ + 1, !.id = None, !.new[Current] = @ \cup {id}]

Ids(ps) == {ps[j].id : j \in DOMAIN ps}
PolicyIds == UNION {Ids(cloud.lis[l].policies) : l \in DOMAIN cloud.lis}
IdsInUse == PolicyIds \cup UNION {status.made[l] : l \in DOMAIN status.made}
NewId == CHOOSE id \in 1..Cardinality(IdsInUse) + 1 : id \notin IdsInUse

CreatePolicy ==
  /\ dpc = "policy" /\ task.next \in DOMAIN Want.policies /\ Found = {}
  /\ cloud' = WithPolicies(Append(OnCloud,
       [id |-> NewId, name |-> Policy.name, rules |-> Policy.rules, action |-> Policy.action,
        pool |-> Policy.pool, url |-> Policy.url]))
  /\ task' = [task EXCEPT !.id = NewId] /\ Goto("record")
  /\ UNCHANGED <<obj, cluster, owner, status, stray, edits, faults>>

UpdatePolicy ==
  /\ dpc = "policy" /\ task.next \in DOMAIN Want.policies
  /\ \E j \in Found :
       IF NeedUpdate(Policy, OnCloud[j])
       THEN /\ cloud' = WithPolicies([OnCloud EXCEPT ![j] = PolicyUpdate(Policy, @)])
            /\ task' = [task EXCEPT !.id = OnCloud[j].id] /\ Goto("record")
       ELSE NextPolicy(OnCloud[j].id) /\ UNCHANGED <<cloud, dpc>>
  /\ UNCHANGED <<obj, cluster, owner, status, stray, edits, faults>>

\* Mutant of StatusAddPolicy: nothing is recorded before the end.
StatusAddNothing ==
  /\ dpc = "record" /\ NextPolicy(task.id) /\ Goto("policy")
  /\ UNCHANGED <<obj, cluster, owner, status, cloud, stray, edits, faults>>

StatusAddPolicy ==
  /\ dpc = "record"
  /\ status' = [status EXCEPT !.made = Put(@, Current, {task.id} \cup @[Current])]
  /\ NextPolicy(task.id) /\ Goto("policy")
  /\ UNCHANGED <<obj, cluster, owner, cloud, stray, edits, faults>>

Reorder ==
  /\ dpc = "policy" /\ task.next \notin DOMAIN Want.policies
  /\ \E q \in Sorted(Want.policies, OnCloud) :
       cloud' = IF NeedReorder(Want.policies, OnCloud, q)
                THEN WithPolicies(ReorderPolicies(OnCloud, q)) ELSE cloud
  /\ task' = [task EXCEPT !.left = Tail(@)] /\ Goto("listener")
  /\ UNCHANGED <<obj, cluster, owner, status, stray, edits, faults>>

-----------------------------------------------------------------------------
(* What is wanted no longer. *)

Redundant(l) == l \notin DOMAIN task.new
New(l) == IF Redundant(l) THEN {} ELSE task.new[l]

\* A listener goes as a whole when it has no policies but those recorded, and
\* a default pool, if any, that is wanted no longer.  (The pool must also have
\* been made here and hold our members only: here they all are and do.)
CanDeleteWholeListener(l) ==
  ~task.conf.layer7 \/
    (/\ Ids(cloud.lis[l].policies) \subseteq status.made[l]
     /\ cloud.lis[l].pool \notin DOMAIN task.conf.pools)

Recorded == DOMAIN status.made \cap DOMAIN cloud.lis
Whole == {l \in Recorded : Redundant(l) /\ CanDeleteWholeListener(l)}

DeleteListener ==
  /\ dpc = "listener" /\ task.left = <<>>
  /\ \E l \in Whole :
       cloud' = [cloud EXCEPT !.lis = [k \in DOMAIN @ \ {l} |-> @[k]]]
  /\ UNCHANGED <<obj, cluster, owner, status, dpc, task, stray, edits, faults>>

RedundantPolicies(l) == (status.made[l] \ New(l)) \cap Ids(cloud.lis[l].policies)

DeletePolicy ==
  /\ dpc = "listener" /\ task.left = <<>>
  /\ \E l \in Recorded \ Whole : \E j \in DOMAIN cloud.lis[l].policies :
       /\ cloud.lis[l].policies[j].id \in RedundantPolicies(l)
       /\ cloud' = [cloud EXCEPT !.lis[l].policies = RemoveAt(@, j)]
  /\ UNCHANGED <<obj, cluster, owner, status, dpc, task, stray, edits, faults>>

PoolsOfListener(lis) == {lis.pool} \cup {lis.policies[j].pool : j \in DOMAIN lis.policies}
InUse == UNION {PoolsOfListener(cloud.lis[l]) : l \in DOMAIN cloud.lis}

\* The redundant pools, and the new records.
Finish ==
  /\ dpc = "listener" /\ task.left = <<>>
  /\ Whole = {} /\ \A l \in Recorded : RedundantPolicies(l) = {}
  /\ cloud' = [cloud EXCEPT !.pools =
       [n \in DOMAIN @ \cap (DOMAIN task.conf.pools \cup InUse) |-> @[n]]]
  /\ status' = [status EXCEPT !.made = task.new]
  /\ stray' = (stray \cap PolicyIds) \ UNION {task.new[l] : l \in DOMAIN task.new}
  /\ dpc' = "idle" /\ task' = NoTask
  /\ UNCHANGED <<obj, cluster, owner, edits, faults>>

-----------------------------------------------------------------------------
(* Failures and changes. *)

\* A call fails or the program ends: the reconcile starts again.
Fail ==
  /\ dpc # "idle" /\ faults < MaxFaults /\ faults' = faults + 1
  /\ stray' = IF dpc = "record" /\ task.id \notin status.made[Current]
              THEN stray \cup {task.id} ELSE stray
  /\ dpc' = "idle" /\ task' = NoTask /\ own' = Idle
  /\ UNCHANGED <<obj, cluster, conf, group, status, cloud, edits>>

Edit ==
  /\ edits < MaxEdits /\ edits' = edits + 1
  /\ obj' \in {o \in Objects \ {obj} : o.kind = obj.kind /\ o.pin = obj.pin /\ o.svc = obj.svc}
  /\ UNCHANGED <<cluster, owner, deploy, faults>>

ClusterChanges ==
  /\ edits < MaxEdits /\ edits' = edits + 1
  /\ cluster' \in Clusters \ {cluster}
  /\ UNCHANGED <<obj, owner, deploy, faults>>

-----------------------------------------------------------------------------
OwnerReconcile == BuildConfig \/ BuildGroup
DeployListener == CreateListener \/ StatusAddListener \/ UpdateListener
DeployPolicy == CreatePolicy \/ UpdatePolicy \/ StatusAddPolicy
DeleteRedundant == DeleteListener \/ DeletePolicy
Deploy ==
  \/ DeployLoadBalancer \/ SyncStatus \/ DeployPools \/ DeployListener
  \/ DeployPolicy \/ Reorder \/ DeleteRedundant \/ Finish

Next == OwnerReconcile \/ Deploy \/ Fail \/ Edit \/ ClusterChanges

Spec == Init /\ [][Next]_vars

\* Each controller's worker goes on; events and resyncs start it again.
FairSpec == Spec /\ WF_vars(OwnerReconcile) /\ WF_vars(Deploy)

-----------------------------------------------------------------------------
(* Correctness. *)

PC == {"idle", "sync", "pools", "listener", "addListener", "update", "policy", "record"}

TypeOK ==
  /\ obj \in Objects /\ cluster \in Clusters /\ dpc \in PC
  /\ cloud.lb \in Subnet \cup {None} /\ status.subnet \in {None, cloud.lb}
  /\ (dpc = "idle") <=> (task = NoTask)
  /\ own = Idle \/ (own.obj \in Objects /\ own.from \in Subnet)
  /\ stray \subseteq PolicyIds \cup IdsInUse
  /\ edits \in 0..MaxEdits /\ faults \in 0..MaxFaults

\* A policy on the cloud is in the status, in the hands of the reconcile that
\* goes on, or was left by one that ended between the call that made it and
\* the write that records it (deployPolicy): no other way leads to a policy
\* that deployDeleteRedundantPoliciesFrom does not know of.
PolicyOnBooks ==
  \A l \in DOMAIN cloud.lis : \A id \in Ids(cloud.lis[l].policies) :
    \/ l \in DOMAIN status.made /\ id \in status.made[l]
    \/ dpc = "record" /\ id = task.id
    \/ id \in New(l) \cup stray

\* The object can be built, and its security rules.
Buildable ==
  /\ Built[cluster, obj] # None /\ BuildSubnetAndZone(obj, PinSubnet, cloud.lb, None) # None
  /\ Local(obj) => RulesBuilt[cluster, obj, DefaultSubnet] # None

\* What is wanted is there.
Deployed ==
  /\ conf # None /\ DOMAIN conf.pools \subseteq DOMAIN cloud.pools
  /\ DOMAIN conf.lis \subseteq DOMAIN cloud.lis
  /\ \A l \in DOMAIN cloud.lis : PoolsOfListener(cloud.lis[l]) \subseteq DOMAIN cloud.pools \cup {None}

\* What a member needs to be let in: its traffic, and the check of its pool,
\* from the subnet of the load balancer.
NodeOf(m) == IF m.ip \in Node THEN m.ip ELSE HostOf[m.ip]
Transport(pool) == IF pool.proto = "UDP" THEN "UDP" ELSE "TCP"
Needs(pool, m) ==
  {Rule(Transport(pool), m.port, cloud.lb),
   IF pool.health = "PING-UDP" THEN Rule("ICMP", "any", cloud.lb)
   ELSE Rule("TCP", m.monitor, cloud.lb)}

\* ... and, with native routing, what a node passes on to the pods of others.
Forwarded ==
  IF IsIngress(obj)
  THEN UNION {NativeRules(cluster, obj, b.svc, b.key, "TCP") : b \in PathBackends(cluster, obj)}
  ELSE UNION {NativeRules(cluster, obj, obj.svc, ByNumber(q.num), q.proto) : q \in ServicePorts(obj)}

\* Where the security group is the controller's, its rules come to let in, on
\* every node that has it, what the load balancer sends to the members: from
\* the subnet the load balancer is in, wherever that turned out to be
\* (syncLBCStatus, buildSubnetAndZone), on the ports of the members and of
\* their checks (buildPoolSecgroupRule, ensureSecgroupPING_UDP).
Admitted ==
  <>[](Local(obj) /\ obj.auto /\ Buildable /\ obj.probe # "PING-UDP" =>
         /\ Deployed /\ group # None
         /\ \A n \in DOMAIN conf.pools : \A m \in cloud.pools[n].members :
              NodeOf(m) \in group.nodes => Needs(cloud.pools[n], m) \subseteq group.rules
         /\ Forwarded \subseteq group.rules)

\* A request: the host and the path.  Requests to other hosts have None.
Request == [host : Host \cup {None}, path : BoundedSeq(Character, 2)]

Holds(r, q) ==
  IF r.on = "HOST_NAME" THEN q.host = r.value
  ELSE IF r.compare = "EQUAL_TO" THEN q.path = r.value ELSE IsPrefix(r.value, q.path)
Takes(rules, q) == \A r \in rules : Holds(r, q)

\* Where a listener sends a request: to the pool of the first policy that
\* takes it, or to the default pool.
Destination(lis, q) ==
  LET taking == {j \in DOMAIN lis.policies : Takes(lis.policies[j].rules, q)}
  IN IF taking = {} THEN lis.pool ELSE lis.policies[Min(taking)].pool
Reaches(n) == IF n = None THEN {} ELSE {[ip |-> m.ip, port |-> m.port] : m \in cloud.pools[n].members}

\* The paths of the object that are about a request, and those that no other
\* is preferred to: one of a host to one of any, a longer one to a shorter,
\* an exact one to a prefix.
About(l, q) ==
  {x \in Served(cluster, obj) : ListenerOf(obj, HostAt(obj, x)) = l
                                 /\ Takes(BuildPolicyByPath(HostAt(obj, x), PathAt(obj, x)), q)}
Preferable(x, y) ==
  \/ HostAt(obj, x) # None /\ HostAt(obj, y) = None
  \/ /\ HostAt(obj, x) = HostAt(obj, y)
     /\ \/ Len(PathAt(obj, x).path) > Len(PathAt(obj, y).path)
        \/ /\ Len(PathAt(obj, x).path) = Len(PathAt(obj, y).path)
           /\ PathAt(obj, x).type # "Prefix" /\ PathAt(obj, y).type = "Prefix"
Best(l, q) == {x \in About(l, q) : \A y \in About(l, q) : ~Preferable(y, x)}

BackendsOf(l, q) ==
  IF Best(l, q) # {} THEN {Backend(PathAt(obj, x)) : x \in Best(l, q)}
  ELSE IF DefaultGood(cluster, obj) THEN {obj.default} ELSE {}
Plain(l, q) == \A x \in About(l, q) : PathAt(obj, x).conf = None

RightlyRouted(l, q) ==
  LET eps == {Endpoints(cluster, obj, b.svc, b.key) : b \in BackendsOf(l, q)}
  IN Reaches(Destination(cloud.lis[l], q)) \in (IF eps = {} THEN {{}} ELSE eps)

\* With automatic reordering every request of an Ingress comes to be sent to
\* the endpoints of the path that Kubernetes prefers, or of the default
\* backend (buildAutoAddPolicyPosition, deployPolicies and the reordering),
\* whatever order policies were created, renamed and updated in; and every
\* port of a Service to that of its endpoints.  Not on a listener where a
\* policy was left behind.
Routed ==
  <>[](Buildable =>
         /\ Deployed
         /\ IsIngress(obj) =>
              /\ ListenersOf(obj) \subseteq DOMAIN cloud.lis
              /\ obj.reorder =>
                   \A l \in ListenersOf(obj) : Ids(cloud.lis[l].policies) \cap stray = {} =>
                     \A q \in Request : Plain(l, q) => RightlyRouted(l, q)
         /\ ~IsIngress(obj) =>
              \A p \in ServicePorts(obj) :
                /\ p.num \in DOMAIN cloud.lis
                /\ Reaches(cloud.lis[p.num].pool) = Endpoints(cluster, obj, obj.svc, ByNumber(p.num)))

\* Reconciles come to find nothing to do: after the last change no policy is
\* updated or moved again and no record is rewritten (compareL7Rules and the
\* comparisons of buildPolicyUpdateRequest agree with what the cloud keeps).
Quiet ==
  /\ <>[](dpc # "record")
  /\ <>[][UNCHANGED <<conf, group, status, cloud>>]_vars

\* A listener that was made for an Ingress goes when the Ingress wants it no
\* longer.  The code does not keep this: with a default backend both listeners
\* have the default pool, and canDeleteWholeListener spares a listener whose
\* default pool is still wanted, so the one for HTTPS stays when TLS is taken
\* out of the Ingress, and Finish drops it from the status.
Retired ==
  <>[](Buildable /\ IsIngress(obj) /\ stray = {} => DOMAIN cloud.lis \subseteq ListenersOf(obj))
=============================================================================
