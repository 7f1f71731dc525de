# TLA+ models of the VNGCloud load balancer controller

The controller turns Kubernetes Services, Ingresses and its own custom resources
into VNGCloud load balancers, global load balancers and security groups. This
directory models how it decides what is created, what is put on it, what is shared,
what is migrated and, above all, what may be deleted, when several objects, several
clusters and the users work on the same cloud resources and any call may fail.

`PROJECT.json` lists the components, the runs, the mutants that each property is
tested against, the map from definitions to source lines, the hazards, the findings
and the theorems. Paths below are relative to `src/`.

## 1. Inventory

| Component | State | Operations | Interacts with | Hard because | Correct when |
|---|---|---|---|---|---|
| Load balancer lifecycle, `internal/usecase/lbc_uc/{lbc_uc,deploy_lb,delete_lb,status}.go` | `status` of a LoadBalancerConfig (LBC): id in use, created id, adopted id, records of what was put where, the retiring snapshot; one mutex per load balancer id | adopt by pin or name, create, wait for ACTIVE, migrate, deploy, tear down, delete | vLB API, status patches, siblings via the mutex | every status patch and API call is a separate step; a retry starts from whatever was written | a user's load balancer is never deleted, no traffic is lost in a migration, nothing made here is left behind, the finalizer comes off |
| Sharing between clusters, `deploy_tag.go`, `delete_tag.go`, `vngcloud_tags.go`, `ttl_cache.go` | cluster list and created-by tag on the load balancer, a tag cache in each controller | claim, release, last cluster out | controllers of other clusters, through tags only | the tags API overwrites, there is no compare-and-swap, reads are cached | the last one out deletes, nobody else does; a claim is not lost for good |
| Pools and members, `deploy_pool.go`, `delete_pool.go` | `status.createdPools` | create, adopt by name, merge own members, record, trim, delete | other LBCs and the user on the pool | replace-all update, record after push, a teardown without the mutex | members added by hand stay, own ones are on somebody's books, whoever stays is served |
| Listeners and ACL, `deploy_listener.go`, `delete_listener.go`, `listener_acl.go`, `internal/usecase/listeneracl`, `validate.go` | adopted listeners with their original pool and ACL | adopt, update, restore, delete, cross-validate | peers that declare an ACL field | who restores what when two leave | an adopted listener ends as it was found, a declared ACL does not flap |
| Policies, `deploy_policy.go`, `ingress_uc/build_listener.go` | `status.createdListeners[].createdPolicies` | create, update, record, reorder, delete | listeners, pools | found by names that hold indexes, ordered by weights, one call each | a request goes where Kubernetes prefers; none is off the books |
| Node security groups, `internal/usecase/nsg_uc` | status of a NodeSecurityGroup (NSG): managed id, what is attached to which server | create a managed group and keep its rules, attach, detach, retire | compute API, other NSGs and the user on the same servers | the API replaces a server's whole set of groups; status is written after the fact | hand-attached groups stay, wanted ones arrive, nothing is left behind |
| Global load balancers, `internal/usecase/glbc_uc` | status of a GlobalLoadBalancerConfig (GLBC) | create, adopt, migrate, pools, groups of members, listeners, delete | vglb API | no record of who made what, a migration tears down first | as the first row |
| Owners, `service_uc`, `ingress_uc`, `service_glb_uc`, `vglb_uc` | labels that tie an LBC, NSG or GLBC to its owner; finalizers | build, create, patch, wait, publish the address, delete and wait | the Kubernetes API, informer caches, the controllers of the children | list-then-create on a cache that lags; two goroutines delete | one child each, children follow, the owner goes last |
| Builders and the endpoint resolver, `build_*.go`, `pkg/endpoint_resolver` | none | object and cluster to pools, members, listeners, rules, subnet | nodes, Endpoints, Services | the members and the rules that admit them are built apart | the nodes admit what the load balancer sends |
| Repositories, `internal/repository` | subnet, server network and tag caches | one SDK or API call each | all of the above | lost answers | |
| Manager, event handlers, finalizers, errors, `cmd/main.go`, `internal/controller`, `pkg/errs`, `pkg/k8s` | work queues | enqueue, retry, resync | all of the above | who is told of what | every object is reconciled again and again |
| Certificates, annotations, configuration, names, CNI detection, metrics, logging, CRD installation | none that matters here | parsing, reads, uploads | | | |

## 2. The modules

| Module | About | Extends or instantiates | Model and proofs |
|---|---|---|---|
| LbcReconcile | life of the load balancers of a cluster's LBCs | | MCLbcReconcile, LbcReconcileProofs |
| SharedLb | one load balancer of several clusters, its tags | | MCSharedLb, SharedLbProofs |
| NodeSecurityGroup | NSGs on shared servers | | MCNodeSecurityGroup, NodeSecurityGroupProofs |
| Pools | pools and members of several LBCs | | MCPools, PoolsProofs |
| Listeners | one listener of several LBCs, its ACL | | MCListeners, ListenersProofs |
| Global | GLBCs and global load balancers | | MCGlobal, GlobalProofs |
| Custody | abstract: what an owner promises of its children | | |
| Owner | the four kinds of owners | instantiates Custody | MCOwner, OwnerProofs |
| Targets, Policies | the builders, as operators | Policies extends Targets | |
| Build | an owner's reconcile beside that of its LBC or GLBC | extends Policies | MCBuild, BuildProofs |

The lifecycle modules share one reading of the code. A reconcile is a program with a
program counter; each action is one call that leaves the process, an API write or a status
patch, so that everything may happen between two of them. What a reconcile read when it
began (`task`) stays as it was: `patchMutateStatusObject` patches a fresh copy. A fault ends
a reconcile at any step, the call having failed, its answer having been lost or the process
having crashed, and the next one finds what was written so far.

### LbcReconcile

* `st[l]` is the part of the status the code decides from: `lb`
  (`loadBalancerId`), `created` and `adopted`, `res` (the `created*` lists are
  filled) and `retiring` (the parked snapshot of a migration).
* `Lock` takes `lbLocks` under the key of `getLoadBalancerID`, an unpinned LBC without
  a load balancer takes none.
* `DeployLoadBalancer` chooses between adopting the pin, adopting by name, creating,
  migrating and going on; `Park`, `Clear`, `EnsureExist` are the steps of
  `migrateLoadBalancer`; `Put` and `Record` the deployment and its record;
  `TeardownRetiring`, `Unpark` what is left of a migration; `Decide`, `Strip`,
  `CheckEmpty`, `DeleteLoadBalancer`, `Finish` the deletion.
* `EditPin`, `Delete`, `Settle` are the user and the vLB service.

What an LBC puts on a load balancer is one unit, the LBC itself as a member of
`on[b]`. `maker`, `served`, `booked` and `astray` are history variables; the last one has the
load balancers whose making was cut off between the creation and the records of it, that an
LBC was moved away from, or that another LBC than the maker came to use.

`EditPin` includes a pin to a load balancer that does not exist: the owner controllers refuse
one (`service_uc/build_lbc.go:341-348`), but an LBC may be written by hand, and a load balancer
may go after the pin was accepted. Only LbcUnpin and LbcBounce have such edits.

### SharedLb

One load balancer, several clusters, each with its controller, its tag cache and
its mutex. `Fetch` is a ListTags that missed the cache, and the put into the cache
comes with the step after it, so a put may follow another reconcile's invalidation
(`vngcloud_tags.go`, `ttl_cache.go`). `DiffClaim` and `DiffRelease` decide from the
cached tags whether there is anything to write, read again afresh and overwrite in
`CreateTags`. `LastClusterOutOf`, `CreatedByThisCluster`, `CanDeleteWhole`,
`HasOtherLBC` are the code's predicates. A sibling may join while the maker is still in the pass that
made the load balancer, which holds no mutex (`deploy_lb.go:173-174`, `237`). The history `late[l]` has who
put something on the load balancer between the check of `l`'s deletion that it may go and the call: LBCs of other
clusters and the maker's first pass (`Overtaken`), since the mutex keeps the rest out.

LbcReconcile has the whole lifecycle with the tag as a Boolean, SharedLb the
tags in full with the lifecycle reduced to join, leave and re-pin.

### NodeSecurityGroup

The NSGs of a cluster on shared servers. `Find`, `Create`, `ChangeRule`,
`PatchManaged` are `ensureManagedSecurityGroup`; `SelectNodes`, `Get`, `Update`,
`Note` the loop over removed, kept and added servers, in this order; `Retire`,
`DeleteSecurityGroup` are `deleteManagedSecurityGroupIfUnused`; `Error` has a
disjunct for each way a call can fail, with what the code does about it. The controller has one worker
(`cmd/main.go:400`), so that a reconcile begins when no other is under way (`Begin`) and two NSGs never
race; what does come between `Get` and `Update` is the user, who attaches a group on the portal
(`AttachByHand`). A group attached by hand is one no spec names (`Group` and `Hand` are
disjoint): one that a spec names too is the NSG's to remove. Three histories: `hand` has what the user attached
outside that window, `loose` the groups on a server that status lost sight of when an attachment
failed or was interrupted, `orphan` the managed groups that an ensure that failed had left out of status
and none has found again.

### Pools

The pools of one load balancer, found by name. `Adopt`, `GetPoolMembers`, `Push`,
`StatusAddPoolMember` are `deployPool` on a pool that is there, `Merge` is
`mergePoolMembers`; `ListRedundant`, `ReadRedundant`, `TrimPool` are
`deleteRedundantPools`. An LBC that was re-pinned is `retiring` and works without the
mutex. The user adds members on the portal at any time (`AddByHand`). `refs` is what the
listeners and policies point at, and changes in one step here (`Listeners`).

### Listeners

One listener, on one port. `AdoptListener` and `RecordDisplaced` write down the pool and the
ACL fields that were found before `UpdateListener` replaces them; `RecordReleased` and `Restore` put
back what no peer declares; `CanDeleteAny`, `CanDeleteWhole` decide between deletion and
`Strip`. `Declared` and `Conflict` are `collectAclPeers` and `validateCrossLBCs`. Of policies and pools
it is kept whose they are.

### Global

GLBCs of one or several names and the global load balancers, with the state of the service
(`BUILD`, `ACTIVE`, `ERROR`; `Provision` is the service coming to a decision). `Ensure`,
`Attach`, `FindByName`, `CreateLb`, `StatusAddLb`, `WaitLb` are `ensureLoadBalancer`; `CreatePool` to
`StatusAddListener` the deployment, `ReadListeners` to `TrimPool` what is redundant or torn
down, in a deployment, in a migration and in a deletion (`mode`); `ReadWhole`, `IsEmpty`, `DeleteLb` the
deletion of a load balancer as a whole. `left` is the history of those that were migrated away
from, `loose` says that a crash or the user left something unrecorded. The passes of two GLBCs are interleaved
although the controller has one worker (`glbc_controller.go:52-74`, `226`: the limit is never set): the properties and
theorems hold for any number of workers, of which one is a case.

### Custody and Owner

`Custody` is the promise: nothing is made before the finalizer is on the owner, and the finalizer
does not come off while anything that was made is there, unless the user tells the controller to
let go. `Owner` is how the code keeps it, for a Service, an Ingress, a Service with a global
load balancer and a VngcloudGlobalLoadBalancer. `api` is what the API server has, `cache` what
the informer shows (`Sync` delivers one object). `Read` decides from the cache; `CreateConfig`, `PatchConfig`,
`CreateGroup`, `PatchGroup` write; `WaitCreated`, `WaitGivenUp` are the wait for the cache after a
creation; `Publish` shows the address; `DeleteConfig`, `DeleteGroup` are the two goroutines of a deletion,
`Waiting` the requeue, `RemoveFinalizers` its end. `Edit`, `NodeEvent`, `EndpointEvent`, `Resync` say who
is put into which queue. The children are controllers' objects elsewhere: `ComeUp` and `Finalize` stand for
the modules above.

`InCustody` is the refinement: `Owner` implements `Custody!Spec` with `held` the
finalizers and `things` the children the API server has, except those that were lost sight of
(`lost`: the wait for the cache was given up) and those of an owner the user took off the
controller (`left`).

### Targets, Policies, Build

`Targets` and `Policies` translate the builders into operators over an object and a cluster:
the endpoint resolver, pools with members and their checks, listeners, security rules, the subnet
and its zone; the rules of policies, their weights, their order, and the comparisons of
`deploy_policy.go` with what a listener has. A path is a sequence of characters, a name what goes into it.
`Build` sets them in motion: `BuildConfig` and `BuildGroup` are two steps of an owner's reconcile, each
on what the cluster is at that moment; the reconcile of the configuration deploys load balancer, pools,
listeners and, call by call, policies (`CreatePolicy`, `UpdatePolicy`, `StatusAddPolicy`, `Reorder`), then
takes away what is redundant (`DeleteListener`, `DeletePolicy`, `Finish`). A listener is created, recorded and updated in
three steps (`CreateListener`, `StatusAddListener`, `UpdateListener`).


## 3. What is checked

Every run is small, but each is the smallest instance in which the cases it asks about
happen, and every action of the modules fires in a passing run. Deadlock is not
checked: a system whose objects are gone, or an object that cannot be built, leaves
nothing to do.

| Run | Instance | Shows |
|---|---|---|
| LbcLife | one LBC, two load balancers its user brought (one bears its name), one that is missing, two to create, each of which may end in ERROR; one unpin or re-pin, deletion at any moment, two faults | `UserLbNeverDeleted`, `NoFalseProvenance`, `NoOutage`, `GoneLeavesNothing`, `OwnLbReclaimed`, `PinHonoured`, `EventuallyServed`, `DeletionCompletes` |
| LbcShare | two LBCs, two load balancers a user brought and one to create, one re-pin | `OneWriterButLeaving`, `ServingLbNeverDeleted` |
| SharedTurns | three clusters, or two one of which has two LBCs, one of which made the load balancer; controllers in turns, one failing | `LbReclaimed`, `IdsInStep` |
| SharedRace | two LBCs, of two clusters or of one, one of which made the load balancer; controllers interleaved step by step, failures and stops in both, re-pins | `ServingLbNeverDeleted` |
| SharedBrought | two clusters on a user's load balancer, controllers interleaved step by step, re-pins | `UserLbKept`, `ClaimHeals` |
| Nsg | two NSGs on one server, or one on two; one edit or group attached on the portal, one failing call, lost answer or crash anywhere | `HandAttachedKept`, `AllDetached`, `ManagedReclaimed`, `EventuallyApplied`, `DeletionCompletes` |
| Pools | two LBCs and the portal on two pools, one edit or departure (one LBC may be re-pinned away), one failing call or crash | `HandKept`, `NoStray`, `MembersServed` |
| Listeners | two LBCs on a user's listener with a pool and an ACL, one edit or departure, one fault | `UserListenerKept`, `LeftAsFound`, `AclStable`, `ServingListenerKept`, `ListenerServed` |
| Global | two GLBCs of one name, a user's global load balancer and one to create, one edit, one fault | `UserGroupKept`, `Reclaimed`, `SiblingKept`, `GlobalServed` |
| Owner | a Service with both its controllers, an Ingress or a VGLB, a lagging cache | `OneConfig`, `InCustody` (the refinement), `Followed`, `Withdrawn` |
| Build | fourteen objects in three clusters, one change of object or cluster, one fault | `PolicyOnBooks`, `Admitted`, `Routed`, `Quiet` |

One run ends in a violation, LbcUnpin: one LBC re-pinned to a missing load balancer and then
unpinned refutes `UserLbNeverDeleted`. Beside the runs there are configurations for what the
runs' bounds or the properties' histories leave out. TLC refutes a property in each of them, in
seconds; section "Disagreements found" has what happens.

| Configuration | Instance | Refutes |
|---|---|---|
| LbcMutex | two LBCs, one re-pinned | `OneWriterPerLb` |
| LbcOutpinned | two LBCs, one re-pinned from the load balancer it made, the other to it | `ServingLbNeverDeleted` |
| LbcOrphan | one LBC, a fault at the record of the creation | `MadeNotForgotten` |
| LbcBounce | one LBC re-pinned to a missing load balancer and back | `NoOutage` |
| LbcReparked | one LBC re-pinned, a fault at `ensureExist` | `GoneLeavesNothing` |
| LbcStuck | one LBC, a fault during the wait for a new load balancer | `EventuallyServed` |
| SharedServed | two clusters, interleaved | `ServedNotDeleted` |
| NsgForget, NsgLeak | one NSG, one edit, one failing attachment | `FailedStayVisible`, `ManagedDeleted` |
| ListenersRace | two LBCs without a default backend, one re-pinned | `ServingListenerKept` |
| ListenersTwice | two LBCs that adopt the user's listener | `HandedBack` |

The bounds. Two faults let a fault hit the retry of a fault. One cluster more than two is
needed for a last one out that neither made the load balancer nor is alone; two NSGs, LBCs
or GLBCs suffice to race, since each works against the state it read. `MaxBusy` bounds the
clusters that work at once (1 in SharedTurns, all of them in SharedRace and SharedBrought), `Failing` names those
whose calls may fail, `FaultAt` the steps that may. LbcLife leaves out the creation of a load balancer up to its record and
`ensureExist` (`Outside`), about which are LbcOrphan, LbcStuck and LbcReparked; Nsg fails everywhere (`Everywhere`). `Scenes`
says which NSGs and servers an instance begins with, so that one run has both the shared server and the second one. In Owner the two controllers of a Service run at once without faults and with one
edit; the other objects have one fault and one wait that is given up, and the VGLB two edits. In
Build one change is a change from any of the objects to any other of its kind with the same Service and pin, or from any cluster
to any other. No run uses symmetry: members of a set differ in what they may do.

Fairness. `HandleReconcileError` requeues with back-off, the manager resyncs every
30 minutes by default (`cmd/main.go`), and the event handlers let resync events
through ("Allow periodic sync events ... for drift detection"), so every object is
reconciled again for ever: weak fairness of each object's reconcile (of the one worker's, with strong
fairness of each object's turn, for NSGs), and in Owner of
`Resync`, of each controller's steps and of `InitDone`. A goroutine that waits for a
`sync.Mutex` gets it in the end (its starvation mode is FIFO): strong fairness of `Lock` and
`Begin`. Cache entries expire and watches deliver (`Syncs`); the services finish what they build
(`Settle`, `Provision`); in Owner the children's own controllers finish too (`Others`), which
is what the other modules are about. Users and faults owe nothing.

### Disagreements found

Here the code does other than a comment or a document of the repository says. LbcUnpin is a run, and `findings` quotes
the comment; each of the others is a configuration to be run by hand, for example
`tlc -config LbcBounce.cfg MCLbcReconcile.tla`.

* LbcUnpin. The single field `adoptedLoadBalancerId` is overwritten with a pin that has not been verified: pinned,
  re-pinned to a load balancer that is missing, then unpinned and deleted, the LBC takes the user's load balancer with it.
* LbcMutex. The teardown of a migration holds the mutex of the new load balancer and writes the old one, and so does a
  deletion with a migration due (`lbc_uc.go:47`, "only one LBC can modify a LoadBalancer at a time"; the comment at
  `deploy_lb.go:99-104` knows). `OneWriterButLeaving` is what the mutex does ensure.
* LbcOutpinned. For the same reason a deletion with a migration due may delete a load balancer of its own that a sibling
  has been pinned to since it looked.
* LbcOrphan. After a crash between creation and its record the load balancer is found by name, adopted, and stays
  (`deploy_lb.go:208-210`).
* LbcBounce. Re-pinned to a missing load balancer and back, the LBC tears down the load balancer it has just
  deployed on, which is still parked as retiring (`deploy_lb.go:246`, "it keeps serving").
* LbcReparked. A migration retried after the live record was cleared parks the cleared record over the full one
  (`deploy_lb.go:247-248`).
* LbcStuck. A load balancer whose wait was interrupted and that ends in ERROR is never forgotten (`deploy_lb.go:219`).
* SharedServed. What the creator found on the load balancer may be out of date when it deletes it (`delete_lb.go:159-160`).
* NsgForget. A failed update of a kept server is recorded as done (`nsg_uc.go:202`).
* NsgLeak. The managed id in status changes before the servers are done, so the group outlives the NSG (`nsg_uc.go:222`).
* ListenersRace. The teardown without the mutex deletes a listener that a sibling adopts meanwhile. With a default pool
  it does not, since the check reads the live `Status.CreatedPools` (`delete_listener.go:316`).
* ListenersTwice. The second LBC to adopt a listener takes the first one's pool for the original (`deploy_listener.go:70-72`).

Others show up when a passing run is widened; this is why the runs are bounded where they are, or the property has a history.

* `IdsInStep` and `LbReclaimed`, with `MaxBusy = 2`: overwriting writes resurrect an
  id, or drop the provenance tag for good if its writer is deleted before it
  repairs it (`delete_tag.go:18-20`, `delete_lb.go:167-168`).
* `IdsInStep`, with `Early = {a2}`: a sibling is counted by its pin, but one deleted
  before its first reconcile has an empty status and never releases (`delete_tag.go:118-119`). With
  `Repins = {a2}` and a fault in cluster A: tags put into the cache after an invalidation make the
  release find nothing to write.
* `AllDetached` without `loose`: as NsgForget, and a crash before the entry of a new server is written leaves none.
  `ManagedReclaimed` without `orphan`: as NsgLeak, and a failed listing patches a nil id.
* `Retired` of Build, when it is added to `Build.cfg`: with a default backend both listeners of an
  Ingress have the default pool. When TLS is taken out, `canDeleteWholeListener` spares the HTTPS
  listener because its pool is still wanted (`delete_listener.go:304-311`), and the final write drops it from the
  status (`deploy_lb.go:83-95`). It serves on, keeps the load balancer from being deleted later, and counts as
  adopted should TLS come back. `adopted_listener_test.go:119-120` tests that decision for a listener that was
  adopted only.

Found while translating; what the models do about them is said in their comments.

* Listeners. `delete_listener.go:316` reads the live `Status.CreatedPools` where the teardown of a migration
  works from the snapshot. `docs/annotations/service.md:42` promises
  that an ACL is restored, which fails when two LBCs declare the same value. The teardown of a migration
  holds no mutex for the old load balancer and may overwrite the ACL of a sibling. A conflict between two
  LBCs stops all that share the listener. The deletion of a listener never takes away certificates, though
  `deploy_cert.go:105` says so.
* Policies. A policy without a position is -1 and sorts first, where the comment at
  `deploy_policy.go:312-313` says last. Names hold indexes of rule and path: an insertion renames what
  follows, and while that is under way an unchanged path may be unrouted. Host rules outrank others by
  weight, so an exact path of 100 times the host's length outranks a host. `Prefix` compares characters,
  not segments. A policy that was created but not recorded and then leaves the spec stays for good (`stray`).
* Builders. A node security group is made, without sources, for an object with the ignore annotation, and is
  left behind (`build_lbc.go:113`, against `docs/annotations/service.md:14`). With target type `ip` and node
  labels, pods on other nodes are members whose nodes are not in the security group. A `PING-UDP` check on a
  TCP port gets no ICMP rule (`Admitted` leaves it out). A ClusterIP backend, or one without Endpoints, fails the
  whole Ingress. An Ingress path without a Service, or a rule without HTTP, is a nil dereference
  (`build_pool.go:102`).
* Owners. `Create...` waits for the cache at most three times 250 ms (`k8s_repo.go:108`), then a second
  configuration may follow (`lost`). Endpoint events reach Services of type LoadBalancer and Ingresses only; the
  others wait for the resync.
* Global. The mutex is that of the pin (`glbc_uc.go:55`), which with one worker does no harm. A migration tears down first. All members that are in a
  group count as made here (`deploy_pool_member.go:72`). A status that names a load balancer that is gone or in
  ERROR never recovers. A load balancer that was made here and migrated away from stays. A user's global load
  balancer that is empty but for what is recorded is deleted.
  A GLBC whose port is edited and whose pool is not leaves the old listener behind (`delete_listener.go:88`): the
  pool behind it is still wanted, and the status written at the end no longer names the listener.

## 4. What is proved

With TLAPS, for every value of the constants that satisfies the modules' assumptions, with any
number of objects, edits and faults. Where the table has nothing in its last column there is no hypothesis
about behaviours. Where a theorem has one, the property is false without it, and the
hypothesis says in which situation; most are among the disagreements of section 3.

| Theorem | States | Under |
|---|---|---|
| `TypeCorrect` | `TypeOK` of LbcReconcile | |
| `ProvenanceHolds`, `UserLbSafe` | `NoFalseProvenance`, `UserLbNeverDeleted` | `OneWayPins`: pins are only removed, or never removed |
| `WritersExclude` | `OneWriterButLeaving` | no `repinEarly` edit |
| `ServingLbSafe` | `ServingLbNeverDeleted` | the same, and `DeletedAligned` |
| `MigratesWithoutOutage` | `NoOutage` | the same two, and `Switched` |
| `DeletionLeavesNothing` | `GoneLeavesNothing` | `Tidy` |
| `OwnLbsReclaimed` | `OwnLbReclaimed` | |
| `SharedTypeCorrect`, `SharedUserLbSafe` | `TypeOK`, `UserLbKept` of SharedLb | |
| `SharedServingLbSafe` | `ServingLbNeverDeleted` of SharedLb | |
| `SharedIdsInStep` | `IdsInStep` | `OneAtATime`, `EarlyAlone` |
| `NsgTypeCorrect`, `HandSafe` | `TypeOK`, `HandAttachedKept` | |
| `NsgAllDetached` | `AllDetached` | |
| `NsgManagedReclaimed` | `ManagedReclaimed` | |
| `PoolsTypeCorrect`, `HandMembersSafe`, `MembersOnBooks` | `TypeOK`, `HandKept`, `NoStray` | |
| `ListenersTypeCorrect`, `UserListenerSafe`, `AclStaysDeployed` | `TypeOK`, `UserListenerKept`, `AclStable` | |
| `ServingListenerSafe` | `ServingListenerKept` | `~Layer4`, `Repins = {}` |
| `ListenerLeftAsFound` | `LeftAsFound` | `PoolsApart` |
| `GlobalTypeCorrect`, `UserGroupsSafe` | `TypeOK`, `UserGroupKept` | |
| `SiblingsSafe` | `SiblingKept` | `PortsApart` |
| `GlobalReclaimed` | `Reclaimed` | `PortsApart`, `OnePort`, `UsersOwn` |
| `OwnerTypeCorrect`, `OwnerOneConfig`, `OwnerInCustody` | `TypeOK`, `OneConfig`, the refinement `InCustody` | |
| `PoliciesOnBooks` | `PolicyOnBooks` | |

The arguments. None of the properties is inductive as it stands; each invariant below was checked
by TLC as an invariant of an instance before it was proved.

* **LbcReconcileProofs**. *Users' load balancers.* That a deletion stops at a user's load balancer depends on
  what the reconcile read earlier. `IInv` adds, for every LBC, what is known of its target at each step
  (`TargetKnown`), that a user's load balancer in use is recorded as adopted or still pinned (`AdoptionKnown`), how
  the pin a reconcile read relates to the pin now (`PinKnown`), and that only what `createdByThisCluster` affirmed
  reaches `deleteLb` (`OursKnown`). LbcUnpin shows that `OneWayPins` is needed.
  *The mutex.* It is that of the pin as read, or of the id in status. `MutexInv` says that whoever writes a load
  balancer holds its mutex, is making it and nobody else knows it (`Creating`), or is leaving it. It is proved in two regimes: of
  any behaviour, for `WritersExclude`, and for `ServingLbSafe` of those in which no LBC is deleted while a migration of it is due
  (`DeletedAligned`), whose deletion would hold the mutex of the new pin and take down the old load balancer: LbcOutpinned shows that
  this is needed. `repinEarly` is a pin to a load balancer whose LBC is not yet served, whose maker holds no mutex.
  *Migrations.* `OutageInv`: what serves an LBC is what its status names, or, during the switch, the load balancer just
  deployed on. `Switched`: a pass that has parked the load balancer in use gets as far as moving
  `status.loadBalancerId`; if it does not and the pin is moved back, the LBC is served from the parked one and then
  taken off it (LbcBounce).
  *What is left behind.* `GoneInv`: all that was ever booked and is still there is in the status or parked (`Books`).
  `Tidy` names the two ways to lose a record: a migration parks over a teardown that is still due, or a pass comes back to a
  load balancer it had left and ends before the record (LbcReparked). `OwnInv` is the same for load balancers made
  here, with no hypothesis: where the making of one was cut off, or an LBC was moved away from it or came to use one that another
  made, the load balancer is in `astray`, and `OwnLbReclaimed` speaks of the others. Every one of them is on record as created by
  its maker and has nobody else on it (`OnRecord`), and is deleted before its maker is gone (`Ending`).
* **SharedLbProofs**. *A user's load balancer.* No created-by tag exists on it, in any cache or in any answer a
  reconcile holds (`Unmade`); stale reads can then only be stale about the cluster list, from which no right to delete
  follows. *Who is served.* `SharedServingLbSafe` holds of all behaviours. `HeldInv` says that whoever is between the check and the
  deletion holds the mutex of its controller and is being deleted (`Held`), and that what the load balancer carries is its own or
  came later by one that this mutex does not keep out (`Checked`). That there are such, SharedServed shows.
  *Turns.* The tags API has no compare-and-swap, and nothing keeps two clusters apart, so `SharedIdsInStep` is about behaviours in
  which no two reconciles work on the load balancer at once (`OneAtATime`); in others it is false for a while, as any of the
  overwriting writes shows. Caches may still be as old as they like:
  `TurnInv` says that an entry is right about the controller's own cluster (`Remembered`), which is all that the skipped writes rely on.
  `Accounted`: a listed cluster has somebody who will take its id off. `EarlyAlone`: an LBC that may be deleted before its
  first reconcile has no sibling, which would leave the id to it.
* **NodeSecurityGroupProofs**. *Hand-attached groups.* Every status is `Clean`, it names wanted groups only, and what a reconcile
  holds before it writes was read from a server that had the groups attached by hand (`Ready`); one that came after the read is not
  in `hand`.
  *What is left.* Everything attached is owed by an NSG, from its status or the write under way, or in `loose` (`Attributed`). One
  NSG is at work at a time, since the controller has one worker (`OneWorker`, `cmd/main.go:400`); with more the slower one would
  write back what the other has taken off. Failures and crashes may fall anywhere: those that make status forget a group put it
  into `loose` when they do. `ManInv` follows the managed group through search, creation, record and deletion; a reconcile that fails
  with it out of status puts it into `orphan`, and one that finds it by its name takes it out.
* **PoolsProofs**. The books, specs and what a reconcile read of them hold members of specs only (`Clean`), so nothing a
  merge or a trim takes out was added by hand; the list that is written back contains the members added by hand, because it
  was read with them (`Sound`); and a pool is created only under a name no pool has, since its maker
  holds the mutex. For `MembersOnBooks`, `TrackInv` says who answers for a member on a pool (`Tracked`) and how the books of a pass
  relate to those it read (`Ledger`).
* **ListenersProofs**. A running reconcile holds the mutex, but for the teardown of a migration (`Held`). Whoever has
  the user's listener on the books has it as adopted (`Adopting`); whoever runs agrees with what the
  others have deployed (`Respects`); a listener about to be deleted is its LBC's alone (`Sole`); the record of the only LBC that ever
  asked has at every step what it takes to undo what it did (`TraceInv`). `Repins = {}`: the
  teardown of a migration holds no mutex and decides from a snapshot. `~Layer4`: there `canDeleteWholeListener` is not asked. `PoolsApart`:
  no LBC asks for the pool of the user's listener; once the user has deleted that listener, one made on this pool would hold his members and stay.
* **GlobalProofs**. *Users and siblings.* A group the user brought has another name than any GLBC's and comes off no books; what a pass has read
  of a load balancer still holds where it has the mutex (`SiblingInv`). `PortsApart`: no two GLBCs ask for one port with
  different pools, since `DeployListener` points the listener of a port to its own pool whoever made it. `UserGroupKept` speaks of pools in which the user has a
  group of his own: a pool of his that has none counts as empty and may go.
  *What is left.* `ReclaimInv` has two parts. `LedgerInv`, always true: the status a pass has read is the status there is, but for
  what the pass itself has recorded, and it names pools that were asked for only. `Order`, true until something comes `loose`: who has members
  in a pool has it in the status with these members, or is deploying it (`Booked`), and with it the port of its listener
  (`Filed`); a pass that deploys finds what it put up (`Standing`), because of two passes on one load
  balancer one has created it and changes its own members only, and the other has the mutex (`Exclusive`); a teardown
  takes the listeners of a pool that is its alone, then the pool, or its own group from one that is not, and does not end before the last
  (`Sweeping`); a pool or listener that is not the user's has members of a GLBC (`Intact`), so a load balancer that is
  not empty when a GLBC leaves it is minded by another (`Minded`). `OnePort`: a pool is asked for behind one port, by
  whomever. TLC refutes `Reclaimed` for a GLBC whose port is edited and whose pool is not: `canDeleteWholeListener` keeps the old
  listener, whose pool is still wanted, and `deploy` ends with a status that no longer names it. `UsersOwn`: a pool of the user's that a
  GLBC asks for has members of his and, on the port asked for, a listener of his; TLC refutes `Reclaimed` for one that has the
  listener elsewhere, since the GLBC's own listener then points to a pool it may not delete. TLC evaluates the three on the instance of run Global.
* **OwnerProofs**. A child that is there shows in the cache, or is the one its maker still waits for, or was lost
  sight of (`Seen`). From it follows what a reconcile may conclude from a list that is empty (`Known`): one that is about to create a
  configuration makes the only one, and a deletion both of whose parts saw nothing leaves nothing. `Kept` ties
  this to the finalizers. The step simulation maps `Ensure` to `Take`, a creation to `Make`, `Finalize` and
  `WaitGivenUp` to `Drop`, `RemoveFinalizers` to `Release` and `LetGo` to `Abandon`; everything else stutters.
* **BuildProofs**. The end of a reconcile replaces the records of all listeners by what it collected. What it collected
  is on the listener it was collected for (`Held`), no id is on two listeners (`Apart`, which rests on the service giving out
  ids that nobody has), redundant policies are gone by then, and before that the status lists every policy but the one in hand
  (`OnBooks`).

Only model-checked: the liveness properties (`EventuallyServed`, `PinHonoured`, both `DeletionCompletes`, `ClaimHeals`,
`EventuallyApplied`, `MembersServed`, `ListenerServed`, `GlobalServed`, `Followed`, `Withdrawn`, `Admitted`, `Routed`,
`Quiet`), which need fairness; `LbReclaimed`, for clusters in turns; and what sorting and the builders compute for every input, which needs induction over
data.

## 5. What is not modelled

* Certificates: upload, reference and removal. Resizing (`deployPackageId`), user-defined tags, the
  mirror of addresses in status, the tuning annotations (timeouts, algorithms, stickiness).
* Stale informer reads of LBCs, GLBCs and NSGs: such an object is read as it is when its reconcile
  begins. `GetLoadBalancerByName` sees one page of results; the model sees all.
* Names are the values that go into them; that their hashes differ is taken for granted.
* In the builders: fail-open and nodes in state Unknown; global objects have no subnet, policies or
  security groups, as in the code; the tuning of the global builders. A listener that leaked and is
  adopted again.
* `validateSelf`, annotations, configuration, CNI detection, metrics, logging, the version check, CRD
  installation, leader election: no state the properties depend on. The SDK wrappers of `internal/repository` are
  the atomic steps of the modules; their subnet and server caches are not kept.
* In LbcReconcile the finalizer is on from the start: an object deleted before its first reconcile is
  in SharedLb (`Early`) and in Owner only.

## 6. Plan

1. A theorem for the type invariant of Build.
2. An abstract specification of a load balancer's life (used by tenants, deleted only when
   unused and made here) that LbcReconcile, SharedLb and Global implement under refinement mappings.
3. Certificates by reference, beside Listeners.
