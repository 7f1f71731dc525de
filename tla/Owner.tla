------------------------------- MODULE Owner -------------------------------
(***************************************************************************)
(* The owners of configurations: Services and Ingresses, for which a       *)
(* LoadBalancerConfig (LBC) and a NodeSecurityGroup (NSG) are kept, and    *)
(* Services with a global load balancer and VngcloudGlobalLoadBalancers    *)
(* (VGLBs), for which a GlobalLoadBalancerConfig (GLBC) is: service_uc,    *)
(* ingress_uc, service_glb_uc and vglb_uc with their controllers, event    *)
(* handlers and finalizers.                                                *)
(*                                                                         *)
(* What these objects ask for is made by other controllers of the same     *)
(* program.  Here each is a child that comes up, and goes once deleted.    *)
(* An owner's reconcile reads children from a cache that lags behind the   *)
(* API server; the owner itself is as the cache has it, since its events   *)
(* come from there and its finalizers are written with a version check.    *)
(***************************************************************************)
EXTENDS Naturals, FiniteSets

CONSTANTS
  Used,       \* the sets of kinds of owners that a cluster may have
  Config,     \* names for LBCs and GLBCs (generated, so never the same)
  Group,      \* the NSG, whose name is that of its owner
  None,
  Want,       \* what a spec may ask for
  Specs,      \* the specs each kind may be given
  \* bounds, for each set of kinds:
  MaxEdits,   \* ... on what the user and the cluster change
  MaxLate,    \* ... on waits for the cache that are given up
  MaxFaults   \* ... on failing calls and crashes

Kind == {"service", "ingress", "serviceGlb", "vglb"}
Local == {"service", "ingress"}     \* LBC and NSG; the others: a GLBC

\* The object a kind of owner is: a Service may have both load balancers.
Object(k) == IF k = "serviceGlb" THEN "service" ELSE k
Objects == {Object(k) : k \in Kind}

Slot == Config \cup {Group}
Child == [want : Want, up : BOOLEAN, deleting : BOOLEAN]
Children == [Slot -> Child \cup {None}]

\* on: served, by its type or class or as a VGLB ("type"), or by annotation
\* only ("note").  want: what the object, the nodes and the endpoints amount
\* to.  pre (VGLBs): a Service, a config cluster and a fleet are "missing";
\* this is not the config cluster and no load balancer is known ("follower")
Asked ==
  [on : {"off", "type", "note"}, ignore : BOOLEAN, want : Want,
   pre : {"missing", "follower", "ok"}]

ASSUME OwnerAssumption ==
  /\ Used \subseteq SUBSET Kind
  /\ Specs \in [Kind -> SUBSET Asked]
  /\ Group \notin Config /\ None \notin Child \cup Slot \cup Want
  /\ MaxEdits \in [Used -> Nat] /\ MaxLate \in [Used -> Nat] /\ MaxFaults \in [Used -> Nat]

VARIABLES
  used,       \* the kinds of owners in this cluster
  spec,       \* what each asks for
  state,      \* each object: live, deleting, gone
  fin,        \* the kinds whose finalizer is on their object
  addr,       \* the kinds whose object shows an address
  api, cache, \* the children, on the API server and in the cache
  ready,      \* initDone
  queue,      \* the work queues: the kinds to reconcile
  pc, plan,   \* each running reconcile: its next step; what it is writing
  todo,       \* ... the goroutines of a deletion still to report
  still,      \* ... some child is still there, or could not be asked
  lost,       \* history: made, but not yet seen when the wait was given up
  left,       \* history: let go with the ignore annotation
  edits, late, faults

object == <<spec, state, fin, addr>>
run == <<pc, plan, todo, still>>
history == <<lost, left>>
bounds == <<edits, late, faults>>
vars == <<used, object, api, cache, ready, queue, run, history, bounds>>

Empty == [s \in Slot |-> None]
NotThere == [on |-> "off", ignore |-> FALSE, want |-> CHOOSE w \in Want : TRUE, pre |-> "missing"]
NoPlan == [slot |-> None, old |-> None, new |-> None]
Parts == {"config", "group"}

Init ==
  /\ used \in Used
  /\ spec \in {s \in [Kind -> Asked] :
                 \A k \in Kind : s[k] \in IF k \in used THEN Specs[k] ELSE {NotThere}}
  /\ state = [o \in Objects |-> "live"] /\ fin = {} /\ addr = {}
  /\ api = [k \in Kind |-> Empty] /\ cache = [k \in Kind |-> Empty]
  /\ ready = FALSE /\ queue = {k \in used : spec[k].on # "off"}
  /\ pc = [k \in Kind |-> "idle"] /\ plan = [k \in Kind |-> NoPlan]
  /\ todo = [k \in Kind |-> {}] /\ still = [k \in Kind |-> FALSE]
  /\ lost = {} /\ left = {} /\ edits = 0 /\ late = 0 /\ faults = 0

-----------------------------------------------------------------------------
(* Events. *)

Live(k) == state[Object(k)] = "live"
Supported(k) == Live(k) /\ spec[k].on # "off"
\* What every event handler asks before it queues an owner.
Managed(k) == k \in fin \/ Supported(k)
Enqueued(kinds) == queue \cup {k \in kinds \cap used : Managed(k)}

Goto(k, step) == pc' = [pc EXCEPT ![k] = step]

Return(k) ==
  /\ Goto(k, "idle") /\ plan' = [plan EXCEPT ![k] = NoPlan]
  /\ todo' = [todo EXCEPT ![k] = {}] /\ still' = [still EXCEPT ![k] = FALSE]

\* HandleReconcileError: queued again, at once, later, or backing off.
Retry(k) == Return(k) /\ queue' = queue \cup {k}

\* Manager.Start: init of the use case, without which every request is put off.
InitDone ==
  /\ ~ready /\ ready' = TRUE
  /\ UNCHANGED <<used, object, api, cache, queue, run, history, bounds>>

-----------------------------------------------------------------------------
(* reconcile and reconcileEnsure. *)

Start(k) == ready /\ k \in queue /\ pc[k] = "idle" /\ queue' = queue \ {k}

Ensure(k) ==
  /\ Start(k) /\ Supported(k)
  /\ fin' = fin \cup {k} /\ Goto(k, "read")
  /\ UNCHANGED <<used, spec, state, addr, api, cache, ready, plan, todo, still, history, bounds>>

Cached(k) == {c \in Config : cache[k][c] # None}

\* The use case has another look, and gives up for now.
Refused(k) ==
  \/ k \in Local /\ ~Supported(k)
  \/ k = "vglb" /\ spec[k].pre = "missing"
  \/ Cardinality(Cached(k)) > 1

Refuse(k) ==
  /\ pc[k] = "read" /\ Refused(k) /\ Retry(k)
  /\ UNCHANGED <<used, object, api, cache, ready, history, bounds>>

Ignored(k) == k \in Local /\ spec[k].ignore
AfterConfig(k) == IF k \in Local THEN "group" ELSE "address"

\* The children are listed and the new spec is built.  With the ignore
\* annotation only the NSG is; a cluster that follows makes no GLBC.
Read(k) ==
  LET known == Cached(k)
      c == IF known = {} THEN None ELSE CHOOSE c \in known : TRUE
      skip == \/ Ignored(k)
              \/ k = "vglb" /\ spec[k].pre = "follower" /\ c = None
  IN /\ pc[k] = "read" /\ Refused(k) = FALSE
     /\ plan' = [plan EXCEPT ![k] =
          [slot |-> c, old |-> IF c = None THEN None ELSE cache[k][c].want, new |-> spec[k].want]]
     /\ Goto(k, IF skip THEN AfterConfig(k) ELSE "write")
     /\ UNCHANGED <<used, object, api, cache, ready, queue, todo, still, history, bounds>>

-----------------------------------------------------------------------------
(* buildLoadBalancerConfig, buildNodeSecurityGroup, ...: create or patch. *)

Free(k) == {c \in Config : api[k][c] = None /\ cache[k][c] = None}
New(w) == [want |-> w, up |-> FALSE, deleting |-> FALSE]

\* Create..., and then wait until the cache has it.
Make(k, s) ==
  /\ api' = [api EXCEPT ![k][s] = New(plan[k].new)]
  /\ plan' = [plan EXCEPT ![k].slot = s] /\ Goto(k, "wait")
  /\ UNCHANGED <<queue, todo, still>>

\* A patch of what the cache had: nothing if that was right already, and an
\* error if the child is gone.
Patch(k, s, old, next) ==
  IF old = plan[k].new THEN Goto(k, next) /\ UNCHANGED <<api, queue, plan, todo, still>>
  ELSE IF api[k][s] # None
  THEN /\ api' = [api EXCEPT ![k][s].want = plan[k].new] /\ Goto(k, next)
       /\ UNCHANGED <<queue, plan, todo, still>>
  ELSE Retry(k) /\ UNCHANGED api

CreateConfig(k) ==
  /\ pc[k] = "write" /\ plan[k].slot = None /\ Free(k) # {}
  /\ Make(k, CHOOSE c \in Free(k) : TRUE)
  /\ UNCHANGED <<used, object, cache, ready, history, bounds>>

PatchConfig(k) ==
  /\ pc[k] = "write" /\ plan[k].slot # None
  /\ Patch(k, plan[k].slot, plan[k].old, AfterConfig(k))
  /\ UNCHANGED <<used, object, cache, ready, history, bounds>>

CreateGroup(k) ==
  /\ pc[k] = "group" /\ cache[k][Group] = None
  /\ IF api[k][Group] = None THEN Make(k, Group) ELSE Retry(k) /\ UNCHANGED api
  /\ UNCHANGED <<used, object, cache, ready, history, bounds>>

PatchGroup(k) ==
  /\ pc[k] = "group" /\ cache[k][Group] # None
  /\ Patch(k, Group, cache[k][Group].want, "address")
  /\ UNCHANGED <<used, object, cache, ready, history, bounds>>

\* Mutant of WaitCreated: no wait.
WaitNot(k) ==
  /\ pc[k] = "wait"
  /\ Goto(k, IF plan[k].slot = Group THEN "address" ELSE AfterConfig(k))
  /\ UNCHANGED <<used, object, api, cache, ready, queue, plan, todo, still, history, bounds>>

WaitCreated(k) ==
  /\ pc[k] = "wait" /\ cache[k][plan[k].slot] # None
  /\ Goto(k, IF plan[k].slot = Group THEN "address" ELSE AfterConfig(k))
  /\ UNCHANGED <<used, object, api, cache, ready, queue, plan, todo, still, history, bounds>>

WaitGivenUp(k) ==
  /\ pc[k] = "wait" /\ cache[k][plan[k].slot] = None
  /\ late < MaxLate[used] /\ late' = late + 1
  /\ lost' = lost \cup {<<k, plan[k].slot>>} /\ Retry(k)
  /\ UNCHANGED <<used, object, api, cache, ready, left, edits, faults>>

\* The address of the only configuration.  The one of a GLBC is a domain,
\* which UpdateServiceStatusAddress takes for no Service but a LoadBalancer,
\* and for those it is not called.
Publish(k) ==
  LET known == Cached(k)
      shown == k # "serviceGlb" /\ Cardinality(known) = 1 /\ \A c \in known : cache[k][c].up
  IN /\ pc[k] = "address"
     /\ addr' = IF shown THEN addr \cup {k} ELSE addr
     /\ Return(k)
     /\ UNCHANGED <<used, spec, state, fin, api, cache, ready, queue, history, bounds>>

-----------------------------------------------------------------------------
(* reconcileDelete. *)

Release(k) ==
  LET o == Object(k)
      others == {j \in fin \ {k} : Object(j) = o}
  IN /\ fin' = fin \ {k}
     /\ state' = [state EXCEPT ![o] = IF @ = "deleting" /\ others = {} THEN "gone" ELSE @]
     /\ Return(k)
     /\ UNCHANGED <<used, spec, addr, api, cache, ready, lost, bounds>>

Skip(k) ==
  /\ Start(k) /\ ~Supported(k) /\ k \notin fin
  /\ UNCHANGED <<used, object, api, cache, ready, run, history, bounds>>

\* With the ignore annotation nothing is deleted, and the finalizer comes off.
LetGo(k) ==
  /\ Start(k) /\ ~Supported(k) /\ k \in fin /\ Ignored(k)
  /\ Release(k) /\ left' = left \cup {k}

\* Mutant of Delete: the NSG is forgotten.
DeleteLbcOnly(k) ==
  /\ Start(k) /\ ~Supported(k) /\ k \in fin /\ ~Ignored(k)
  /\ Goto(k, "delete") /\ todo' = [todo EXCEPT ![k] = {"config"}]
  /\ UNCHANGED <<used, object, api, cache, ready, plan, still, history, bounds>>

Delete(k) ==
  /\ Start(k) /\ ~Supported(k) /\ k \in fin /\ ~Ignored(k)
  /\ Goto(k, "delete")
  /\ todo' = [todo EXCEPT ![k] = IF k \in Local THEN Parts ELSE {"config"}]
  /\ UNCHANGED <<used, object, api, cache, ready, plan, still, history, bounds>>

\* Mutant of Deleted: a child already being deleted does not count as there.
DeletedNow(k, slots) ==
  LET now == {s \in slots : cache[k][s] # None /\ ~cache[k][s].deleting}
  IN /\ api' = [api EXCEPT ![k] = [s \in Slot |->
          IF s \in now /\ api[k][s] # None
          THEN [api[k][s] EXCEPT !.deleting = TRUE] ELSE api[k][s]]]
     /\ still' = [still EXCEPT ![k] = @ \/ now # {}]

\* What the cache has and does not show as being deleted is deleted.
Deleted(k, slots) ==
  /\ api' = [api EXCEPT ![k] = [s \in Slot |->
       IF /\ s \in slots /\ cache[k][s] # None /\ api[k][s] # None
          /\ ~cache[k][s].deleting
       THEN [api[k][s] EXCEPT !.deleting = TRUE] ELSE api[k][s]]]
  /\ still' = [still EXCEPT ![k] = @ \/ \E s \in slots : cache[k][s] # None]

DeletePart(k, part, slots) ==
  /\ pc[k] = "delete" /\ part \in todo[k] /\ Deleted(k, slots)
  /\ todo' = [todo EXCEPT ![k] = @ \ {part}]
  /\ UNCHANGED <<used, object, cache, ready, queue, pc, plan, history, bounds>>

DeleteConfig(k) == DeletePart(k, "config", Config)
DeleteGroup(k) == DeletePart(k, "group", {Group})

\* One of the goroutines fails; the other one goes on.
DeleteFails(k) ==
  /\ pc[k] = "delete" /\ faults < MaxFaults[used] /\ faults' = faults + 1
  /\ \E part \in todo[k] : todo' = [todo EXCEPT ![k] = @ \ {part}]
  /\ still' = [still EXCEPT ![k] = TRUE]
  /\ UNCHANGED <<used, object, api, cache, ready, queue, pc, plan, history, edits, late>>

Waiting(k) ==
  /\ pc[k] = "delete" /\ todo[k] = {} /\ still[k] /\ Retry(k)
  /\ UNCHANGED <<used, object, api, cache, ready, history, bounds>>

RemoveFinalizers(k) ==
  /\ pc[k] = "delete" /\ todo[k] = {} /\ ~still[k]
  /\ Release(k) /\ UNCHANGED <<queue, left>>

-----------------------------------------------------------------------------
(* Around the reconciles. *)

\* A call fails, and the reconcile with it.
Fail(k) ==
  /\ pc[k] \notin {"idle", "delete", "wait"} /\ faults < MaxFaults[used] /\ faults' = faults + 1
  /\ Retry(k)
  /\ UNCHANGED <<used, object, api, cache, ready, history, edits, late>>

\* The program ends and starts: caches are filled anew and every object
\* that is there makes a create event.
Restart ==
  /\ ready /\ faults < MaxFaults[used] /\ faults' = faults + 1
  /\ ready' = FALSE /\ cache' = api /\ queue' = {k \in used : Managed(k)}
  /\ pc' = [k \in Kind |-> "idle"] /\ plan' = [k \in Kind |-> NoPlan]
  /\ todo' = [k \in Kind |-> {}] /\ still' = [k \in Kind |-> FALSE]
  /\ UNCHANGED <<used, object, api, history, edits, late>>

\* The cache catches up.  Services and Ingresses are told of their LBC;
\* nobody is told of an NSG or a GLBC.
Sync(k, s) ==
  /\ cache[k][s] # api[k][s]
  /\ cache' = [cache EXCEPT ![k][s] = api[k][s]]
  /\ queue' = IF k \in Local /\ s \in Config THEN Enqueued({k}) ELSE queue
  /\ UNCHANGED <<used, object, api, ready, run, history, bounds>>

\* Mutant of Resync: an update event with nothing changed is dropped.
ResyncDropped(k) == k \in used \ queue /\ Managed(k) /\ UNCHANGED vars

\* The cache's periodic resync, an update event with nothing changed.
Resync(k) ==
  /\ k \in used \ queue /\ Managed(k) /\ queue' = Enqueued({k})
  /\ UNCHANGED <<used, object, api, cache, ready, run, history, bounds>>

\* The children's own controllers: one comes up (a Service shows nothing of
\* its GLBC, so that one's is left out), one asked to go goes.
ComeUp(k, c) ==
  /\ k # "serviceGlb" /\ c \in Config /\ api[k][c] # None /\ ~api[k][c].up /\ ~api[k][c].deleting
  /\ api' = [api EXCEPT ![k][c].up = TRUE]
  /\ UNCHANGED <<used, object, cache, ready, queue, run, history, bounds>>

Finalize(k, s) ==
  /\ api[k][s] # None /\ api[k][s].deleting
  /\ api' = [api EXCEPT ![k][s] = None] /\ lost' = lost \ {<<k, s>>}
  /\ UNCHANGED <<used, object, cache, ready, queue, run, left, bounds>>

\* What an owner asks for changes, and these are told.
Change(k, asked, told) ==
  /\ k \in used /\ Live(k) /\ edits < MaxEdits[used] /\ edits' = edits + 1
  /\ spec' = [spec EXCEPT ![k] = asked]
  /\ queue' = queue \cup told
  /\ UNCHANGED <<used, state, fin, addr, api, cache, ready, run, history, late, faults>>

\* The user edits the object; the handlers ask about it as it is now.
Edit(k) ==
  \E s \in Specs[k] \ {spec[k]} :
    Change(k, s, {j \in used : /\ Object(j) = Object(k)
                              /\ \/ j \in fin
                                 \/ (IF j = k THEN s ELSE spec[j]).on # "off"})

\* Nodes come, go or change: everyone served is told.
NodeEvent(k) ==
  \E w \in Want \ {spec[k].want} :
    Change(k, [spec[k] EXCEPT !.want = w], {j \in used : Managed(j)})

\* Endpoints change: Ingresses are told, and Services by their type; Services
\* that are served by annotation, and the global owners, are not.
Hears(k) == k = "ingress" \/ (k = "service" /\ spec[k].on = "type")
EndpointEvent(k) ==
  \E w \in Want \ {spec[k].want} :
    Change(k, [spec[k] EXCEPT !.want = w], IF Hears(k) /\ Managed(k) THEN {k} ELSE {})

Remove(k) ==
  LET o == Object(k)
      holding == {j \in fin : Object(j) = o}
  IN /\ k \in used /\ Live(k) /\ edits < MaxEdits[used] /\ edits' = edits + 1
     /\ state' = [state EXCEPT ![o] = IF holding = {} THEN "gone" ELSE "deleting"]
     /\ queue' = queue \cup holding
     /\ UNCHANGED <<used, spec, fin, addr, api, cache, ready, run, history, late, faults>>

-----------------------------------------------------------------------------
(* One controller's steps, and those of each controller of the program. *)

Reconcile(k) == Ensure(k) \/ Skip(k) \/ LetGo(k) \/ Delete(k) \/ RemoveFinalizers(k)
BuildConfig(k) == Refuse(k) \/ Read(k) \/ CreateConfig(k) \/ PatchConfig(k)
BuildGroup(k) == CreateGroup(k) \/ PatchGroup(k)
Wait(k) == WaitCreated(k) \/ WaitGivenUp(k)
DeleteOwned(k) == DeleteConfig(k) \/ DeleteFails(k) \/ Waiting(k)

ServiceReconcile == Reconcile("service")
ServiceBuildLbc == BuildConfig("service")
ServiceBuildNsg == BuildGroup("service")
ServiceAddress == Publish("service")
ServiceDelete == DeleteOwned("service")
ServiceDeleteNsg == DeleteGroup("service")

IngressReconcile == Reconcile("ingress")
IngressBuildLbc == BuildConfig("ingress")
IngressBuildNsg == BuildGroup("ingress")
IngressAddress == Publish("ingress")
IngressDelete == DeleteOwned("ingress")
IngressDeleteNsg == DeleteGroup("ingress")

ServiceGlbReconcile == Reconcile("serviceGlb")
ServiceGlbBuild == BuildConfig("serviceGlb")
ServiceGlbAddress == Publish("serviceGlb")
ServiceGlbDelete == DeleteOwned("serviceGlb")

VglbReconcile == Reconcile("vglb")
VglbBuild == BuildConfig("vglb")
VglbAddress == Publish("vglb")
VglbDelete == DeleteOwned("vglb")

Steps(k) == Wait(k) \/ Fail(k)
ServiceStep ==
  \/ ServiceReconcile \/ ServiceBuildLbc \/ ServiceBuildNsg \/ ServiceAddress
  \/ ServiceDelete \/ ServiceDeleteNsg \/ Steps("service")
IngressStep ==
  \/ IngressReconcile \/ IngressBuildLbc \/ IngressBuildNsg \/ IngressAddress
  \/ IngressDelete \/ IngressDeleteNsg \/ Steps("ingress")
ServiceGlbStep ==
  ServiceGlbReconcile \/ ServiceGlbBuild \/ ServiceGlbAddress \/ ServiceGlbDelete \/ Steps("serviceGlb")
VglbStep == VglbReconcile \/ VglbBuild \/ VglbAddress \/ VglbDelete \/ Steps("vglb")

ServiceEvent == Edit("service") \/ Remove("service")
IngressEvent == Edit("ingress") \/ Remove("ingress")
ServiceGlbEvent == Edit("serviceGlb") \/ Remove("serviceGlb")
VglbEvent == Edit("vglb") \/ Remove("vglb")
ServiceNodeEvent == NodeEvent("service")
IngressNodeEvent == NodeEvent("ingress")
ServiceGlbNodeEvent == NodeEvent("serviceGlb")
VglbNodeEvent == NodeEvent("vglb")
ServiceEndpointEvent == EndpointEvent("service")
IngressEndpointEvent == EndpointEvent("ingress")
GlobalEndpoints == EndpointEvent("serviceGlb") \/ EndpointEvent("vglb")

Event ==
  \/ ServiceEvent \/ ServiceNodeEvent \/ ServiceEndpointEvent
  \/ IngressEvent \/ IngressNodeEvent \/ IngressEndpointEvent
  \/ ServiceGlbEvent \/ ServiceGlbNodeEvent \/ VglbEvent \/ VglbNodeEvent \/ GlobalEndpoints

Syncs(k) == \E s \in Slot : Sync(k, s)
Others(k) == \E s \in Slot : ComeUp(k, s) \/ Finalize(k, s)

Next ==
  \/ InitDone \/ Restart \/ Event
  \/ ServiceStep \/ IngressStep \/ ServiceGlbStep \/ VglbStep
  \/ \E k \in Kind : Syncs(k) \/ Others(k) \/ Resync(k)

Spec == Init /\ [][Next]_vars

\* A worker takes what is queued and goes on with it, init ends, the watch
\* delivers, the resync comes round and the children's controllers, which
\* their own modules are about, do what they are asked.
Fairness ==
  /\ WF_vars(InitDone)
  /\ WF_vars(ServiceStep) /\ WF_vars(IngressStep)
  /\ WF_vars(ServiceGlbStep) /\ WF_vars(VglbStep)
  /\ \A k \in Kind : WF_vars(Syncs(k)) /\ WF_vars(Others(k)) /\ WF_vars(Resync(k))

FairSpec == Spec /\ Fairness

-----------------------------------------------------------------------------
Plan == [slot : Slot \cup {None}, old : Want \cup {None}, new : Want \cup {None}]

\* Every variable has its type.
TypeOK ==
  /\ used \in Used /\ spec \in [Kind -> Asked]
  /\ state \in [Objects -> {"live", "deleting", "gone"}] /\ fin \subseteq used /\ addr \subseteq used
  /\ api \in [Kind -> Children] /\ cache \in [Kind -> Children]
  /\ ready \in BOOLEAN /\ queue \subseteq used
  /\ pc \in [Kind -> {"idle", "read", "write", "wait", "group", "address", "delete"}]
  /\ plan \in [Kind -> Plan] /\ todo \in [Kind -> SUBSET Parts] /\ still \in [Kind -> BOOLEAN]
  /\ lost \subseteq Kind \X Slot /\ left \subseteq used
  /\ edits \in 0..MaxEdits[used] /\ late \in 0..MaxLate[used] /\ faults \in 0..MaxFaults[used]

Alive(k) == {s \in Slot : api[k][s] # None}
Lost(k) == {s \in Slot : <<k, s>> \in lost}

\* An owner has one configuration at a time: the list that decides whether to
\* create one comes from the cache, and the wait after a creation keeps the
\* next list from missing it, unless that wait has been given up.
OneConfig == \A k \in Kind : Lost(k) = {} => Cardinality(Alive(k) \ {Group}) <= 1

\* Nothing is made without a finalizer, and none comes off while something
\* made is there, whatever the cache shows, whichever goroutine is first and
\* whatever fails; but for what a given-up wait has lost sight of.
Held == INSTANCE Custody WITH
  Owner <- Kind, Thing <- Slot, held <- fin,
  things <- {t \in (Kind \ left) \X Slot : api[t[1]][t[2]] # None /\ t \notin lost}
InCustody == Held!Spec

\* The children are what the spec asks for.
Wanted(k) ==
  /\ ~Ignored(k) /\ spec[k].pre = "ok" =>
       \E c \in Config : api[k][c] # None /\ ~api[k][c].deleting /\ api[k][c].want = spec[k].want
  /\ k \in Local =>
       /\ api[k][Group] # None /\ ~api[k][Group].deleting
       /\ api[k][Group].want = spec[k].want

\* Whatever events are missed, dropped or overtaken by the cache, each owner's
\* children end up as it asks, and its address is shown.
Followed ==
  <>[](\A k \in used : Supported(k) /\ Lost(k) = {} =>
         /\ Wanted(k)
         /\ ~Ignored(k) /\ spec[k].pre = "ok" /\ k # "serviceGlb" => k \in addr)

\* An owner that is deleted, or served no longer, ends with no children and no
\* finalizer, and goes if it is to go.
Withdrawn ==
  <>[](\A k \in used : ~Supported(k) /\ k \notin left =>
         /\ k \notin fin /\ Alive(k) \subseteq Lost(k)
         /\ ~Live(k) => state[Object(k)] = "gone")
=============================================================================
