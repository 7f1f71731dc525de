---------------------------- MODULE LbcReconcile ----------------------------
(***************************************************************************)
(* The life of a LoadBalancerConfig (LBC) and of the load balancer behind  *)
(* it, inside one cluster: internal/usecase/lbc_uc, deploy_lb.go and       *)
(* delete_lb.go, driven by lbc_controller.go.                              *)
(*                                                                         *)
(* A reconcile is a program (pc[l]) whose steps are the calls that leave   *)
(* the process: a write to the vLB API or one status patch.  Between       *)
(* two steps any other LBC may run, the user may edit the LBC, and the     *)
(* call may fail or the process may crash (Fault), which ends the          *)
(* reconcile and leaves what was written so far for the next one to find.  *)
(*                                                                         *)
(* What an LBC puts on a load balancer (listeners, policies, pools,        *)
(* members) is one unit here: the LBC itself as a member of on[lb].  The   *)
(* created* lists of its status are the flag res, "on the books".          *)
(***************************************************************************)
EXTENDS Naturals, FiniteSets

CONSTANTS
  LBC,        \* the LoadBalancerConfigs of the cluster
  LB,         \* load balancer ids
  UserLB,     \* the ones the user brought; the others are created here
  Missing,    \* the ones of those that exist no more: a pin may name them
  Named,      \* Named[u]: the LBCs whose spec.loadBalancerName may be u's name
  User,       \* the user as a tenant of a load balancer
  None,       \* nil
  Edits,      \* the edits of the pin the user makes: "unpin", "repin",
              \* "repinEarly", to a load balancer whose LBC is not yet Ready,
              \* and "repinLost", to one that exists no more
  MaxEdits,   \* bound on the number of edits
  FaultAt,    \* steps at which a call may fail or the process crash
  MaxFaults   \* bound on the number of faults

ASSUME ConstantsAssumption ==
  /\ UserLB \subseteq LB /\ Missing \subseteq UserLB
  /\ Named \in [UserLB -> SUBSET LBC]
  /\ None \notin LB /\ None \notin LBC
  /\ User \notin LBC
  /\ Edits \subseteq {"unpin", "repin", "repinEarly", "repinLost"}
  /\ MaxEdits \in Nat /\ MaxFaults \in Nat

VARIABLES
  lbs,        \* the vLB service: the load balancer's display status
  by,         \* its created-by tag names this cluster
  name,       \* the LBCs whose spec.loadBalancerName it bears
  on,         \* whose listeners and pools it carries
  pin,        \* spec.loadBalancerId
  phase,      \* the LBC object: live, deleting (deletionTimestamp), gone
  st,         \* the part of its status the reconcile decides from
  pc, task,   \* the running reconcile: its next step, and what it read
  lock,       \* lbLocks: the mutex of a load balancer id
  faults, edits,
  served,     \* history: a deploy of this LBC has completed
  booked,     \* history: load balancers on which its resources were recorded
  maker,      \* history: the LBC that created the load balancer
  astray      \* history: load balancers whose making was cut off, that an LBC was
              \* moved away from, or that another LBC than the maker came to use

cloud == <<lbs, by, name, on, maker>>
object == <<pin, phase>>
bounds == <<faults, edits>>
history == <<served, booked, astray>>
run == <<pc, task, lock>>
vars == <<cloud, object, st, run, bounds, history>>

Tenant == LBC \cup {User}
Exists(b) == lbs[b] \in {"building", "active", "error"}
MaybeLB == LB \cup {None}
PC == {"idle", "lockEnsure", "lockDelete", "resolve", "adopt", "create", "recordCreated", "recordLb",
       "waitActive", "forgetLb", "discardLb", "migrateAdopt", "park",
       "clear", "ensureExist", "tags", "put", "record", "retire", "unpark",
       "decide", "strip", "checkEmpty", "deleteLb", "finish"}

\* createLoadBalancer, from the creation to what it ends in.
Making == {"recordCreated", "recordLb", "waitActive", "forgetLb", "discardLb"}

NoRetiring == [id |-> None, res |-> FALSE]
NoStatus == [lb |-> None, created |-> None, adopted |-> None, res |-> FALSE,
             retiring |-> NoRetiring]
NoTask == [pin |-> None, lb |-> None, target |-> None,
           requeue |-> FALSE, ours |-> FALSE]

StatusType ==
  [lb : MaybeLB, created : MaybeLB, adopted : MaybeLB, res : BOOLEAN,
   retiring : [id : MaybeLB, res : BOOLEAN]]
TaskType ==
  [pin : MaybeLB, lb : MaybeLB, target : MaybeLB,
   requeue : BOOLEAN, ours : BOOLEAN]

Init ==
  /\ lbs = [b \in LB |-> IF b \notin UserLB THEN "absent"
                         ELSE IF b \in Missing THEN "gone" ELSE "active"]
  /\ by = [b \in LB |-> FALSE]
  /\ name \in {f \in [LB -> SUBSET LBC] :
                 \A b \in LB : f[b] \subseteq IF b \in UserLB THEN Named[b] ELSE {}}
  /\ on \in {f \in [LB -> {{}, {User}}] :
               \A b \in LB : f[b] # {} => b \in UserLB \ Missing}
  /\ pin \in [LBC -> UserLB \cup {None}]
  /\ phase = [l \in LBC |-> "live"]
  /\ st = [l \in LBC |-> NoStatus]
  /\ pc = [l \in LBC |-> "idle"]
  /\ task = [l \in LBC |-> NoTask]
  /\ lock = [b \in LB |-> None]
  /\ faults = 0 /\ edits = 0
  /\ served = [l \in LBC |-> FALSE]
  /\ booked = [l \in LBC |-> {}]
  /\ maker = [b \in LB |-> None]
  /\ astray = {}

-----------------------------------------------------------------------------
(* The shape of a step. *)

Goto(l, p) == pc' = [pc EXCEPT ![l] = p] /\ UNCHANGED <<task, lock>>

\* The reconcile returns: `defer lock.Unlock()`.
Return(l) ==
  /\ pc' = [pc EXCEPT ![l] = "idle"]
  /\ task' = [task EXCEPT ![l] = NoTask]
  /\ lock' = [b \in LB |-> IF lock[b] = l THEN None ELSE lock[b]]

-----------------------------------------------------------------------------
(* Ensure and Delete up to the first effect.  The object is read first, and   *)
(* only then is the mutex taken that the object read names.                   *)

Begin(l) ==
  /\ pc[l] = "idle"
  /\ phase[l] # "gone"
  /\ pc' = [pc EXCEPT ![l] = IF phase[l] = "live" THEN "lockEnsure" ELSE "lockDelete"]
  /\ task' = [task EXCEPT ![l] = [NoTask EXCEPT !.pin = pin[l], !.lb = st[l].lb]]
  /\ UNCHANGED <<cloud, object, st, lock, bounds, history>>

\* Mutant of GetLoadBalancerID: only a pinned load balancer is locked.
PinnedID(l) == task[l].pin

GetLoadBalancerID(l) == IF task[l].pin # None THEN task[l].pin ELSE task[l].lb

\* Mutant of Lock: delete() does not look at status.retiringLoadBalancer.
LockSkippingRetiring(l) ==
  LET k == GetLoadBalancerID(l)
  IN /\ \/ pc[l] = "lockEnsure" /\ pc' = [pc EXCEPT ![l] = "resolve"]
        \/ pc[l] = "lockDelete" /\ pc' = [pc EXCEPT ![l] = "decide"]
     /\ k # None => lock[k] = None
     /\ lock' = [b \in LB |-> IF b = k THEN l ELSE lock[b]]
     /\ UNCHANGED <<cloud, object, st, task, bounds, history>>

Lock(l) ==
  LET k == GetLoadBalancerID(l)
  IN /\ \/ /\ pc[l] = "lockEnsure"
           /\ pc' = [pc EXCEPT ![l] = "resolve"]
        \/ /\ pc[l] = "lockDelete"
           /\ pc' = [pc EXCEPT ![l] = IF st[l].retiring # NoRetiring
                                      THEN "retire" ELSE "decide"]
     /\ k # None => lock[k] = None
     /\ lock' = [b \in LB |-> IF b = k THEN l ELSE lock[b]]
     /\ UNCHANGED <<cloud, object, st, task, bounds, history>>

-----------------------------------------------------------------------------
(* deploy(): the load balancer. *)

\* deployLoadBalancer: which load balancer this reconcile is about.
Choose(l, p, b, again) ==
  /\ pc' = [pc EXCEPT ![l] = p]
  /\ task' = [task EXCEPT ![l] = [@ EXCEPT !.target = b, !.requeue = again]]

DeployLoadBalancer(l) ==
  LET t == task[l]
      byName == {b \in LB : Exists(b) /\ l \in name[b]}
  IN /\ pc[l] = "resolve"
     /\ \/ /\ t.lb # None /\ t.pin # None /\ t.pin # t.lb
           /\ Choose(l, "migrateAdopt", t.pin, TRUE)
        \/ /\ t.lb # None /\ (t.pin = None \/ t.pin = t.lb)
           /\ Choose(l, "ensureExist", t.lb, FALSE)
        \/ /\ t.lb = None /\ t.pin # None
           /\ Choose(l, "adopt", t.pin, TRUE)
        \/ /\ t.lb = None /\ t.pin = None
           /\ \E b \in byName : Choose(l, "adopt", b, TRUE)
        \/ /\ t.lb = None /\ t.pin = None /\ byName = {}
           /\ Choose(l, "create", None, FALSE)
     /\ UNCHANGED <<cloud, object, st, lock, bounds, history>>

\* Mutant of SetAdopted: an adoption is recorded in a migration only.
SetAdoptedInMigration(l) ==
  /\ \/ /\ pc[l] = "adopt" /\ Goto(l, "ensureExist")
        /\ UNCHANGED st
     \/ /\ pc[l] = "migrateAdopt" /\ Goto(l, "park")
        /\ st' = [st EXCEPT ![l].adopted = task[l].target]
  /\ UNCHANGED <<cloud, object, bounds, history>>

\* statusSetAdoptedLoadBalancerId, on the pin, by-name and migration paths.
SetAdopted(l) ==
  /\ \/ pc[l] = "adopt" /\ Goto(l, "ensureExist")
     \/ pc[l] = "migrateAdopt" /\ Goto(l, "park")
  /\ st' = [st EXCEPT ![l].adopted = task[l].target]
  /\ UNCHANGED <<cloud, object, bounds, history>>

\* createLoadBalancer: the request carries the first listener and pool when
\* the spec has both, so the new load balancer may be born with our content.
\* The ids of LB are the quota of the vLB account: beyond it a create fails.
CreateLoadBalancer(l) ==
  /\ pc[l] = "create"
  /\ \/ \E b \in LB \ UserLB, inline \in BOOLEAN :
          /\ lbs[b] = "absent"
          /\ lbs' = [lbs EXCEPT ![b] = "building"]
          /\ name' = [name EXCEPT ![b] = {l}]
          /\ on' = [on EXCEPT ![b] = IF inline THEN {l} ELSE {}]
          /\ maker' = [maker EXCEPT ![b] = l]
          /\ pc' = [pc EXCEPT ![l] = "recordCreated"]
          /\ task' = [task EXCEPT ![l].target = b]
          /\ UNCHANGED lock
     \/ /\ \A b \in LB \ UserLB : lbs[b] # "absent"
        /\ Return(l)
        /\ UNCHANGED <<lbs, name, on, maker>>
  /\ UNCHANGED <<by, object, st, bounds, history>>

SetCreated(l) ==
  /\ pc[l] = "recordCreated"
  /\ st' = [st EXCEPT ![l].created = task[l].target]
  /\ Goto(l, "recordLb")
  /\ UNCHANGED <<cloud, object, bounds, history>>

AddLoadBalancerId(l) ==
  /\ pc[l] = "recordLb"
  /\ st' = [st EXCEPT ![l].lb = task[l].target]
  /\ Goto(l, "waitActive")
  /\ UNCHANGED <<cloud, object, bounds, history>>

\* WaitForLBActive after a creation: ACTIVE, or ERROR and the id is forgotten.
WaitForLBActive(l) ==
  /\ pc[l] = "waitActive"
  /\ \/ lbs[task[l].target] = "active" /\ Goto(l, "ensureExist")
     \/ lbs[task[l].target] = "error" /\ Goto(l, "forgetLb")
     \/ lbs[task[l].target] = "gone" /\ Return(l)
  /\ UNCHANGED <<cloud, object, st, bounds, history>>

\* Mutant of ForgetLb: the id of the failed load balancer stays in status.
ForgetNothing(l) ==
  /\ pc[l] = "forgetLb"
  /\ Goto(l, "discardLb")
  /\ UNCHANGED <<cloud, object, st, bounds, history>>

ForgetLb(l) ==
  /\ pc[l] = "forgetLb"
  /\ st' = [st EXCEPT ![l].lb = None]
  /\ Goto(l, "discardLb")
  /\ UNCHANGED <<cloud, object, bounds, history>>

Gone(b) ==
  /\ lbs' = [lbs EXCEPT ![b] = "gone"]
  /\ on' = [on EXCEPT ![b] = {}]
  /\ UNCHANGED <<by, name, maker>>

\* Mutant of DiscardLb: the failed load balancer is forgotten, not deleted.
DiscardNothing(l) ==
  /\ pc[l] = "discardLb"
  /\ Return(l)
  /\ UNCHANGED <<cloud, object, st, bounds, history>>

DiscardLb(l) ==
  /\ pc[l] = "discardLb"
  /\ Gone(task[l].target)
  /\ Return(l)
  /\ UNCHANGED <<object, st, bounds, history>>

\* Mutant of Park: the old load balancer is stripped before the new one serves.
ParkStripped(l) ==
  /\ pc[l] = "park"
  /\ on' = [on EXCEPT ![task[l].lb] = @ \ {l}]
  /\ Goto(l, "clear")
  /\ UNCHANGED <<lbs, by, name, maker, object, st, bounds, history>>

\* migrateLoadBalancer, after the adoption record: park the snapshot, then
\* clear the live record for the new load balancer.
Park(l) ==
  /\ pc[l] = "park"
  /\ st' = [st EXCEPT ![l].retiring = [id |-> task[l].lb, res |-> st[l].res]]
  /\ astray' = astray \cup {task[l].lb}
  /\ Goto(l, "clear")
  /\ UNCHANGED <<cloud, object, bounds, served, booked>>

Clear(l) ==
  /\ pc[l] = "clear"
  /\ st' = [st EXCEPT ![l].res = FALSE]
  /\ Goto(l, "ensureExist")
  /\ UNCHANGED <<cloud, object, bounds, history>>

\* ensureExistLoadBalancer: a load balancer not found or in ERROR fails the
\* reconcile; one that is active (or becomes so) has its id put into status.
EnsureExist(l) ==
  LET b == task[l].target
  IN /\ pc[l] = "ensureExist"
     /\ \/ lbs[b] = "active" /\ st' = [st EXCEPT ![l].lb = b] /\ Goto(l, "tags")
        \/ lbs[b] \in {"error", "gone"} /\ Return(l) /\ UNCHANGED st
     /\ UNCHANGED <<cloud, object, bounds, history>>

\* Mutant of DeployTags: every LBC asserts provenance.
DeployTagsAlways(l) ==
  LET b == task[l].target
  IN /\ pc[l] = "tags"
     /\ by' = [by EXCEPT ![b] = @ \/ Exists(b)]
     /\ IF task[l].requeue \/ ~Exists(b) THEN Return(l) ELSE Goto(l, "put")
     /\ UNCHANGED <<lbs, name, on, maker, object, st, bounds, history>>

\* deployTags: only the LBC that created the load balancer asserts so on it.
\* A new id ends the reconcile here, so that the next one takes its lock.
DeployTags(l) ==
  LET b == task[l].target
  IN /\ pc[l] = "tags"
     /\ by' = [by EXCEPT ![b] = @ \/ (Exists(b) /\ st[l].created = b)]
     /\ IF task[l].requeue \/ ~Exists(b) THEN Return(l) ELSE Goto(l, "put")
     /\ UNCHANGED <<lbs, name, on, maker, object, st, bounds, history>>

-----------------------------------------------------------------------------
(* deploy(): what goes on the load balancer, and the retiring one. *)

\* deployPools and deployListeners; a load balancer deleted meanwhile refuses.
Put(l) ==
  LET b == task[l].target
  IN /\ pc[l] = "put"
     /\ \/ /\ Exists(b)
           /\ on' = [on EXCEPT ![b] = @ \cup {l}]
           /\ astray' = astray \cup (IF maker[b] = l THEN {} ELSE {b})
           /\ Goto(l, "record")
        \/ ~Exists(b) /\ Return(l) /\ UNCHANGED <<on, astray>>
     /\ UNCHANGED <<lbs, by, name, maker, object, st, bounds, served, booked>>

\* The statusAdd* patches and the wholesale one that closes the deploy.
Record(l) ==
  /\ pc[l] = "record"
  /\ st' = [st EXCEPT ![l].res = TRUE]
  /\ booked' = [booked EXCEPT ![l] = @ \cup {task[l].target}]
  /\ IF st[l].retiring # NoRetiring
     THEN Goto(l, "retire") /\ UNCHANGED served
     ELSE Return(l) /\ served' = [served EXCEPT ![l] = TRUE]
  /\ UNCHANGED <<cloud, object, bounds, astray>>

\* teardownRetiringLoadBalancer, from deploy() and from delete().
TeardownRetiring(l) ==
  LET r == st[l].retiring
  IN /\ pc[l] = "retire"
     /\ on' = IF Exists(r.id) /\ r.res
              THEN [on EXCEPT ![r.id] = @ \ {l}] ELSE on
     /\ Goto(l, "unpark")
     /\ UNCHANGED <<lbs, by, name, maker, object, st, bounds, history>>

\* Mutant of Unpark: the parked record is never cleared.
UnparkNothing(l) ==
  /\ pc[l] = "unpark"
  /\ IF task[l].target # None
     THEN Return(l) /\ served' = [served EXCEPT ![l] = TRUE]
     ELSE Goto(l, "decide") /\ UNCHANGED served
  /\ UNCHANGED <<cloud, object, st, bounds, booked, astray>>

\* statusSetRetiringLoadBalancer(nil); a deploy ends here, a delete goes on.
Unpark(l) ==
  /\ pc[l] = "unpark"
  /\ st' = [st EXCEPT ![l].retiring = NoRetiring]
  /\ IF task[l].target # None
     THEN Return(l) /\ served' = [served EXCEPT ![l] = TRUE]
     ELSE Goto(l, "decide") /\ UNCHANGED served
  /\ UNCHANGED <<cloud, object, bounds, booked, astray>>

-----------------------------------------------------------------------------
(* delete(). *)

CreatedByThisCluster(l, b) ==
  \/ by[b]
  \/ st[l].created = b
  \/ st[l].adopted # b /\ task[l].pin = None

\* Mutant of CanDeleteWhole: ownership is enough.
CanAlwaysDelete(l, b) == TRUE

\* canDeleteWholeLoadBalancer: everything on it is on this LBC's books.
CanDeleteWhole(l, b) == on[b] \subseteq (IF st[l].res THEN {l} ELSE {})

\* Mutant of Decide: a load balancer that is not found is an error.
DecideOnlyFound(l) ==
  LET b == task[l].lb
      mine == CreatedByThisCluster(l, b)
  IN /\ pc[l] = "decide"
     /\ IF b = None THEN Goto(l, "finish")
        ELSE IF ~Exists(b) THEN Return(l)
        ELSE /\ pc' = [pc EXCEPT ![l] = IF mine /\ CanDeleteWhole(l, b)
                                       THEN "deleteLb" ELSE "strip"]
             /\ task' = [task EXCEPT ![l].ours = mine]
             /\ UNCHANGED lock
     /\ UNCHANGED <<cloud, object, st, bounds, history>>

\* deleteLoadBalancer up to its first write: existence, ownership, coverage.
Decide(l) ==
  LET b == task[l].lb
      mine == CreatedByThisCluster(l, b)
  IN /\ pc[l] = "decide"
     /\ IF b = None \/ ~Exists(b)
        THEN Goto(l, "finish")
        ELSE /\ pc' = [pc EXCEPT ![l] = IF mine /\ CanDeleteWhole(l, b)
                                       THEN "deleteLb" ELSE "strip"]
             /\ task' = [task EXCEPT ![l].ours = mine]
             /\ UNCHANGED lock
     /\ UNCHANGED <<cloud, object, st, bounds, history>>

\* deleteRedundantListeners and deleteRedundantPools with nothing to keep.
Strip(l) ==
  LET b == task[l].lb
  IN /\ pc[l] = "strip"
     /\ on' = IF st[l].res THEN [on EXCEPT ![b] = @ \ {l}] ELSE on
     /\ Goto(l, "checkEmpty")
     /\ UNCHANGED <<lbs, by, name, maker, object, st, bounds, history>>

\* isLoadBalancerEmpty: an emptied load balancer of ours still goes.
CheckEmpty(l) ==
  /\ pc[l] = "checkEmpty"
  /\ IF on[task[l].lb] = {} /\ task[l].ours
     THEN Goto(l, "deleteLb") ELSE Goto(l, "finish")
  /\ UNCHANGED <<cloud, object, st, bounds, history>>

DeleteLoadBalancer(l) ==
  /\ pc[l] = "deleteLb"
  /\ IF Exists(task[l].lb)
     THEN Gone(task[l].lb) /\ Goto(l, "finish")
     ELSE Return(l) /\ UNCHANGED cloud
  /\ UNCHANGED <<object, st, bounds, history>>

\* The lock is released and the controller takes the finalizer off.
Finish(l) ==
  /\ pc[l] = "finish"
  /\ phase' = [phase EXCEPT ![l] = "gone"]
  /\ Return(l)
  /\ UNCHANGED <<cloud, pin, st, bounds, history>>

-----------------------------------------------------------------------------
(* The environment. *)

\* The vLB service finishes building a load balancer, or fails to.
Settle(b) ==
  /\ lbs[b] = "building"
  /\ \E s \in {"active", "error"} : lbs' = [lbs EXCEPT ![b] = s]
  /\ UNCHANGED <<by, name, on, maker, object, st, run, bounds, history>>

\* A call returns an error, or the process stops: the reconcile is over and
\* will be retried from the start.
Fault(l) ==
  /\ pc[l] \in FaultAt \ {"idle"}
  /\ faults < MaxFaults
  /\ faults' = faults + 1
  /\ astray' = astray \cup (IF pc[l] \in Making THEN {task[l].target} ELSE {})
  /\ Return(l)
  /\ UNCHANGED <<cloud, object, st, edits, served, booked>>

\* The pin is edited: in the spec of an LBC written by hand, or by the owner
\* controller, which copies the load-balancer-id annotation.  That one makes sure
\* first that the load balancer exists (buildLoadBalancerConfigSpecs), so that
\* "repinLost" is an edit by hand, or one whose load balancer went meanwhile.
EditKind(p) ==
  IF p = None THEN "unpin"
  ELSE IF lbs[p] = "gone" THEN "repinLost"
  ELSE IF p \in UserLB \/ served[maker[p]] THEN "repin" ELSE "repinEarly"

EditPin(l) ==
  \E p \in MaybeLB :
    /\ edits < MaxEdits
    /\ phase[l] = "live"
    /\ p # pin[l]
    /\ p # None => lbs[p] # "absent"
    /\ EditKind(p) \in Edits
    /\ pin' = [pin EXCEPT ![l] = p]
    /\ edits' = edits + 1
    /\ UNCHANGED <<cloud, phase, st, run, faults, history>>

Delete(l) ==
  /\ phase[l] = "live"
  /\ phase' = [phase EXCEPT ![l] = "deleting"]
  /\ UNCHANGED <<cloud, pin, st, run, bounds, history>>

-----------------------------------------------------------------------------
Reconcile(l) ==
  \/ Begin(l) \/ Lock(l) \/ DeployLoadBalancer(l) \/ SetAdopted(l)
  \/ CreateLoadBalancer(l) \/ SetCreated(l) \/ AddLoadBalancerId(l)
  \/ WaitForLBActive(l) \/ ForgetLb(l) \/ DiscardLb(l)
  \/ Park(l) \/ Clear(l) \/ EnsureExist(l) \/ DeployTags(l)
  \/ Put(l) \/ Record(l) \/ TeardownRetiring(l) \/ Unpark(l)
  \/ Decide(l) \/ Strip(l) \/ CheckEmpty(l) \/ DeleteLoadBalancer(l)
  \/ Finish(l)

Next ==
  \/ \E l \in LBC : Reconcile(l) \/ Fault(l) \/ EditPin(l) \/ Delete(l)
  \/ \E b \in LB : Settle(b)

Spec == Init /\ [][Next]_vars

(***************************************************************************)
(* Fairness.  The work queue retries every LBC for ever and a reconcile    *)
(* under way goes on (weak); one that waits for the mutex of its load      *)
(* balancer gets it in the end: sync.Mutex is FIFO once a waiter starves   *)
(* (strong).  The vLB service finishes what it builds.  Users owe nothing. *)
(***************************************************************************)
Fairness ==
  /\ \A l \in LBC : WF_vars(Reconcile(l)) /\ SF_vars(Lock(l))
  /\ \A b \in LB : WF_vars(Settle(b))

FairSpec == Spec /\ Fairness

-----------------------------------------------------------------------------
CloudType ==
  /\ lbs \in [LB -> {"absent", "building", "active", "error", "gone"}]
  /\ by \in [LB -> BOOLEAN]
  /\ name \in [LB -> SUBSET LBC]
  /\ on \in [LB -> SUBSET Tenant]
  /\ maker \in [LB -> LBC \cup {None}]
ObjectType ==
  /\ pin \in [LBC -> MaybeLB]
  /\ phase \in [LBC -> {"live", "deleting", "gone"}]
RunType ==
  /\ pc \in [LBC -> PC]
  /\ task \in [LBC -> TaskType]
  /\ lock \in [LB -> LBC \cup {None}]
HistoryType ==
  /\ served \in [LBC -> BOOLEAN]
  /\ booked \in [LBC -> SUBSET MaybeLB]
  /\ astray \subseteq MaybeLB
\* The state, status and the running reconciles included, is well formed.
TypeOK ==
  /\ CloudType /\ ObjectType /\ RunType /\ HistoryType
  /\ st \in [LBC -> StatusType]
  /\ faults \in Nat /\ edits \in Nat

\* createdByThisCluster (deploy_tag.go): a load balancer the user brought is
\* never deleted, whatever happens to the pin and wherever a reconcile stops.
UserLbNeverDeleted ==
  [][\A u \in UserLB : lbs[u] = "active" => lbs'[u] = "active"]_vars

\* deployTags: an adopted load balancer never comes to claim, on the tag or
\* in a status, that this cluster created it.
NoFalseProvenance ==
  \A u \in UserLB : ~by[u] /\ \A l \in LBC : st[l].created # u

\* canDeleteWholeLoadBalancer / isLoadBalancerEmpty: the load balancer that is
\* deleted carries nothing of the user's or of an LBC that stays.
ServingLbNeverDeleted ==
  [][\A b \in LB : Exists(b) /\ lbs'[b] = "gone" =>
       \A t \in on[b] : t \in LBC /\ (phase[t] = "deleting" \/ pc[t] = "discardLb")]_vars

\* The load balancer whose content or existence the next step of l changes.
Writing(l) ==
  CASE pc[l] \in {"put", "discardLb"} -> {task[l].target}
    [] pc[l] \in {"strip", "deleteLb"} -> {task[l].lb}
    [] pc[l] = "retire" /\ st[l].retiring.res -> {st[l].retiring.id}
    [] OTHER -> {}

\* getLBLock: "this ensures only one LBC can modify a LoadBalancer at a time".
OneWriterPerLb ==
  \A k, l \in LBC : k # l => Writing(k) \cap Writing(l) = {}

\* l writes a load balancer that it has been pinned away from: the teardown of
\* deploy(), and delete() with a migration due, whose mutex is that of the pin.
Leaving(l) ==
  \/ pc[l] = "retire"
  \/ pc[l] \in {"strip", "deleteLb"} /\ task[l].pin \notin {None, task[l].lb}

\* What getLBLock does ensure: of two LBCs that modify one load balancer at a time
\* one is leaving it, without its mutex.
OneWriterButLeaving ==
  \A k, l \in LBC :
    k # l /\ Writing(k) \cap Writing(l) # {} => Leaving(k) \/ Leaving(l)

\* migrateLoadBalancer: an LBC that has been served keeps being served, on
\* the old load balancer or on the new one, for as long as it is not deleted.
NoOutage ==
  \A l \in LBC : served[l] /\ phase[l] = "live" =>
     \E b \in LB : Exists(b) /\ l \in on[b]

\* delete(): once the LBC is gone nothing that was ever on its books is left,
\* on the current load balancer or on one it migrated away from.
GoneLeavesNothing ==
  \A l \in LBC : phase[l] = "gone" => \A b \in booked[l] : l \notin on[b]

\* createLoadBalancer, deleteLoadBalancer: of what an LBC made nothing outlives it
\* that ended in ERROR or has been on its books, unless the making was cut off, the
\* LBC was moved away from it (a migration takes the content off and leaves the
\* load balancer) or another LBC came to use it.
OwnLbReclaimed ==
  \A l \in LBC, b \in LB :
    phase[l] = "gone" /\ maker[b] = l /\ b \notin astray /\ Exists(b) =>
      lbs[b] = "active" /\ b \notin booked[l]

\* createLoadBalancer: "Recorded before anything else can fail: a load balancer we
\* created but do not recognise would be left behind for good."
MadeNotForgotten ==
  \A l \in LBC, b \in LB :
    phase[l] = "gone" /\ maker[b] = l /\ b \in booked[l] /\ Exists(b) => on[b] \ {l} # {}

\* The finalizer comes off in the end: deletion survives faults.
DeletionCompletes ==
  \A l \in LBC : phase[l] = "deleting" ~> phase[l] = "gone"

\* A migration ends: pinned to a load balancer that exists, the LBC is served
\* from it and owes the previous one nothing.
PinHonoured ==
  \A l \in LBC, u \in UserLB :
    pin[l] = u /\ Exists(u) ~>
      \/ pin[l] # u \/ phase[l] # "live" \/ ~Exists(u)
      \/ st[l].lb = u /\ l \in on[u] /\ st[l].retiring = NoRetiring

\* createLoadBalancer: a load balancer that ends in ERROR is deleted and
\* another one made, so an unpinned LBC is served in the end.
EventuallyServed ==
  \A l \in LBC :
    phase[l] = "live" ~>
      \/ served[l] \/ phase[l] # "live" \/ pin[l] # None
      \/ \A b \in LB \ UserLB : lbs[b] # "absent" /\ lbs[b] # "error"
=============================================================================
