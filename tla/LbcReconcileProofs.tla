------------------------- MODULE LbcReconcileProofs -------------------------
(***************************************************************************)
(* What LbcReconcile keeps, for any number of LBCs and load balancers:     *)
(*   - a load balancer the user brought is never deleted, as long as the   *)
(*     pin is edited one way only (IInv);                                  *)
(*   - of two LBCs that write a load balancer at a time one is leaving it, *)
(*     and none is deleted under an LBC that stays (MutexInv);             *)
(*   - a migration causes no outage (OutageInv);                           *)
(*   - a deletion leaves nothing that is on the books (GoneInv);           *)
(*   - a load balancer made for an LBC goes with it, unless it has gone    *)
(*     astray (OwnInv).                                                    *)
(* Each part says under which conditions, and what happens without them.   *)
(***************************************************************************)
EXTENDS LbcReconcile, TLAPS

OneWayPins == "unpin" \notin Edits \/ Edits \subseteq {"unpin"}

\* No edit removes a pin / no edit moves one.
KeepsPin == "unpin" \notin Edits
NeverMoves == Edits \subseteq {"unpin"}


\* What a deploy pass knows of its target.
TargetKnown(l) ==
  /\ pc[l] = "idle" => task[l] = NoTask
  /\ pc[l] \in Making => task[l].target \in LB \ UserLB
  /\ pc[l] \in {"lockEnsure", "resolve", "adopt"} => st[l].lb = task[l].lb
  /\ pc[l] = "adopt" => task[l].lb = None
  /\ pc[l] \in {"park", "clear"} => st[l].adopted = task[l].target
  /\ pc[l] \in {"adopt", "migrateAdopt", "park", "clear", "ensureExist",
                     "tags", "put", "record"} => task[l].target \in LB
  /\ pc[l] = "migrateAdopt" => task[l].pin # None
  /\ pc[l] \in {"lockDelete", "decide", "strip", "checkEmpty", "deleteLb", "finish"}
       => task[l].target = None

\* Where the load balancer in use is the user's, either the status says it was
\* adopted or the pin still stands.
AdoptionKnown(l) ==
  /\ st[l].lb \in UserLB => st[l].adopted = st[l].lb \/ (KeepsPin /\ pin[l] # None)
  /\ pc[l] = "ensureExist" /\ task[l].target \in UserLB =>
        st[l].adopted = task[l].target \/ (KeepsPin /\ pin[l] # None)
  /\ task[l].target = None /\ task[l].lb \in UserLB =>
        st[l].adopted = task[l].lb \/ task[l].pin # None

\* The pin as the running reconcile read it, against the pin as it is now.
PinKnown(l) ==
  /\ KeepsPin /\ task[l].pin # None => pin[l] # None
  /\ NeverMoves /\ pin[l] # None =>
        /\ st[l].lb \in {None, pin[l]}
        /\ pc[l] # "idle" => task[l].pin = pin[l]
  /\ NeverMoves /\ task[l].pin # None =>
        /\ task[l].lb \in {None, task[l].pin}
        /\ task[l].target \in {None, task[l].pin}
        /\ pc[l] # "create" /\ pc[l] \notin Making
  /\ NeverMoves => pc[l] \notin {"migrateAdopt", "park", "clear"}

OursKnown(l) ==
  /\ task[l].ours => task[l].lb \in LB \ UserLB
  /\ pc[l] = "deleteLb" => task[l].ours

LbcInv(l) == TargetKnown(l) /\ AdoptionKnown(l) /\ PinKnown(l) /\ OursKnown(l)

IInv == TypeOK /\ NoFalseProvenance /\ \A l \in LBC : LbcInv(l)

-----------------------------------------------------------------------------
(* Types.  Facts about the two ways a step leaves the reconcile it belongs to. *)

LEMMA PCNames ==
  /\ {"idle", "lockEnsure", "lockDelete", "resolve", "adopt", "create"} \subseteq PC
  /\ {"recordCreated", "recordLb"} \subseteq PC
  /\ {"waitActive", "forgetLb", "discardLb", "migrateAdopt", "park"} \subseteq PC
  /\ {"clear", "ensureExist", "tags", "put", "record", "retire"} \subseteq PC
  /\ {"unpark", "decide", "strip", "checkEmpty", "deleteLb", "finish"} \subseteq PC
BY DEF PC

LEMMA MaybeLBs == None \in MaybeLB /\ LB \subseteq MaybeLB
BY DEF MaybeLB

LEMMA GotoType ==
  ASSUME RunType, NEW l \in LBC, NEW p \in PC, Goto(l, p)
  PROVE  RunType'
BY DEF RunType, Goto

LEMMA ReturnType ==
  ASSUME RunType, NEW l \in LBC, Return(l)
  PROVE  RunType'
<1>1. NoTask \in TaskType
  BY DEF NoTask, TaskType, MaybeLB
<1>2. QED
  BY <1>1, PCNames DEF RunType, Return

LEMMA StatusFields ==
  ASSUME NEW s \in StatusType, NEW b \in MaybeLB, NEW r \in BOOLEAN
  PROVE  /\ s.lb \in MaybeLB /\ s.created \in MaybeLB /\ s.adopted \in MaybeLB
         /\ s.res \in BOOLEAN /\ s.retiring \in [id : MaybeLB, res : BOOLEAN]
         /\ [s EXCEPT !.lb = b] \in StatusType
         /\ [s EXCEPT !.created = b] \in StatusType
         /\ [s EXCEPT !.adopted = b] \in StatusType
         /\ [s EXCEPT !.res = r] \in StatusType
         /\ [s EXCEPT !.retiring = [id |-> b, res |-> r]] \in StatusType
         /\ [s EXCEPT !.retiring = NoRetiring] \in StatusType
BY DEF StatusType, NoRetiring, MaybeLB

LEMMA TaskFields ==
  ASSUME NEW t \in TaskType, NEW b \in MaybeLB, NEW c \in MaybeLB, NEW r \in BOOLEAN
  PROVE  /\ t.pin \in MaybeLB /\ t.lb \in MaybeLB /\ t.target \in MaybeLB
         /\ t.requeue \in BOOLEAN /\ t.ours \in BOOLEAN
         /\ [t EXCEPT !.target = b] \in TaskType
         /\ [t EXCEPT !.target = b, !.requeue = r] \in TaskType
         /\ [t EXCEPT !.ours = r] \in TaskType
         /\ [NoTask EXCEPT !.pin = b, !.lb = c] \in TaskType
BY DEF TaskType, NoTask, MaybeLB

LEMMA TypeInit == Init => TypeOK
<1> SUFFICES ASSUME Init PROVE TypeOK
  OBVIOUS
<1>1. NoStatus \in StatusType /\ NoTask \in TaskType
  BY DEF NoStatus, NoTask, NoRetiring, StatusType, TaskType, MaybeLB
<1>2. CloudType
  BY ConstantsAssumption DEF Init, CloudType, Tenant
<1>3. ObjectType /\ HistoryType
  BY ConstantsAssumption DEF Init, ObjectType, HistoryType, MaybeLB
<1>4. QED
  BY <1>1, <1>2, <1>3, PCNames DEF Init, TypeOK, RunType

LEMMA TypeStep == TypeOK /\ [Next]_vars => TypeOK'
<1> SUFFICES ASSUME TypeOK, [Next]_vars PROVE TypeOK'
  OBVIOUS
<1>s. ASSUME NEW k \in LBC
      PROVE  st[k] \in StatusType /\ task[k] \in TaskType /\ pin[k] \in MaybeLB
  BY DEF TypeOK, RunType, ObjectType
<1>f. ASSUME UNCHANGED <<cloud, object, bounds, history>>,
             st' \in [LBC -> StatusType], RunType'
      PROVE  TypeOK'
  BY <1>f DEF TypeOK, cloud, object, bounds, history, CloudType, ObjectType,
             HistoryType
<1>1. CASE UNCHANGED vars
  BY <1>1 DEF vars, run, TypeOK, cloud, object, bounds, history, CloudType,
             ObjectType, HistoryType, RunType
<1>2. ASSUME NEW l \in LBC, Begin(l) PROVE TypeOK'
  <2> DEFINE t == [NoTask EXCEPT !.pin = pin[l], !.lb = st[l].lb]
  <2>1. pin[l] \in MaybeLB /\ st[l].lb \in MaybeLB
    BY <1>s, StatusFields
  <2>2. t \in TaskType
    BY <2>1, <1>s, TaskFields
  <2> HIDE DEF t
  <2>3. task' = [task EXCEPT ![l] = t]
    BY <1>2 DEF Begin, t
  <2>4. RunType'
    BY <1>2, <2>2, <2>3, PCNames DEF TypeOK, RunType, Begin
  <2>5. QED
    BY <1>2, <1>f, <2>4 DEF TypeOK, Begin
<1>3. ASSUME NEW l \in LBC, Lock(l) PROVE TypeOK'
  <2>1. pc' \in [LBC -> PC] /\ lock' \in [LB -> LBC \cup {None}]
    BY <1>3, PCNames DEF TypeOK, RunType, Lock
  <2>2. QED
    BY <1>3, <1>f, <2>1 DEF TypeOK, RunType, Lock
<1>4. ASSUME NEW l \in LBC, DeployLoadBalancer(l) PROVE TypeOK'
  <2>1. task[l].lb \in MaybeLB /\ task[l].pin \in MaybeLB
    BY <1>s, TaskFields
  <2>2. \E p \in PC, b \in MaybeLB, r \in BOOLEAN : Choose(l, p, b, r)
    BY <1>4, <2>1, PCNames DEF DeployLoadBalancer, MaybeLB
  <2>3. PICK p \in PC, b \in MaybeLB, r \in BOOLEAN : Choose(l, p, b, r)
    BY <2>2
  <2>4. [task[l] EXCEPT !.target = b, !.requeue = r] \in TaskType
    BY <1>s, TaskFields
  <2>5. RunType'
    BY <1>4, <2>3, <2>4 DEF TypeOK, RunType, DeployLoadBalancer, Choose
  <2>6. QED
    BY <1>4, <1>f, <2>5 DEF TypeOK, DeployLoadBalancer
<1>5. ASSUME NEW l \in LBC, SetAdopted(l) PROVE TypeOK'
  <2>1. st' \in [LBC -> StatusType]
    BY <1>5, <1>s, MaybeLBs, StatusFields, TaskFields DEF TypeOK, SetAdopted
  <2>2. RunType'
    BY <1>5, PCNames, GotoType, ReturnType DEF TypeOK, SetAdopted
  <2>3. QED
    BY <1>5, <1>f, <2>1, <2>2 DEF SetAdopted
<1>6. ASSUME NEW l \in LBC, CreateLoadBalancer(l) PROVE TypeOK'
  <2>1. CASE \A b \in LB \ UserLB : lbs[b] # "absent"
    <3>1. Return(l) /\ UNCHANGED <<lbs, name, on, maker>>
      BY <1>6, <2>1 DEF CreateLoadBalancer
    <3>2. RunType'
      BY <3>1, ReturnType DEF TypeOK
    <3>3. QED
      BY <1>6, <1>f, <3>1, <3>2 DEF TypeOK, CreateLoadBalancer, cloud
  <2>2. CASE ~ \A b \in LB \ UserLB : lbs[b] # "absent"
    <3>1. PICK b \in LB, inline \in BOOLEAN :
            /\ lbs' = [lbs EXCEPT ![b] = "building"]
            /\ name' = [name EXCEPT ![b] = {l}]
            /\ on' = [on EXCEPT ![b] = IF inline THEN {l} ELSE {}]
            /\ maker' = [maker EXCEPT ![b] = l]
            /\ pc' = [pc EXCEPT ![l] = "recordCreated"]
            /\ task' = [task EXCEPT ![l].target = b]
            /\ UNCHANGED lock
      BY <1>6, <2>2 DEF CreateLoadBalancer
    <3>2. [task[l] EXCEPT !.target = b] \in TaskType
      BY <1>s, MaybeLBs, TaskFields
    <3>3. RunType'
      BY <3>1, <3>2, PCNames DEF TypeOK, RunType
    <3>4. CloudType'
      BY <1>6, <3>1 DEF TypeOK, CloudType, CreateLoadBalancer, Tenant
    <3>5. QED
      BY <1>6, <3>3, <3>4 DEF TypeOK, ObjectType, HistoryType, CreateLoadBalancer,
         object, bounds, history
  <2>3. QED
    BY <2>1, <2>2
<1>7. ASSUME NEW l \in LBC, SetCreated(l) PROVE TypeOK'
  <2>1. st' \in [LBC -> StatusType]
    BY <1>7, <1>s, MaybeLBs, StatusFields, TaskFields DEF TypeOK, SetCreated
  <2>2. RunType'
    BY <1>7, PCNames, GotoType, ReturnType DEF TypeOK, SetCreated
  <2>3. QED
    BY <1>7, <1>f, <2>1, <2>2 DEF SetCreated
<1>8. ASSUME NEW l \in LBC, AddLoadBalancerId(l) PROVE TypeOK'
  <2>1. st' \in [LBC -> StatusType]
    BY <1>8, <1>s, MaybeLBs, StatusFields, TaskFields DEF TypeOK, AddLoadBalancerId
  <2>2. RunType'
    BY <1>8, PCNames, GotoType, ReturnType DEF TypeOK, AddLoadBalancerId
  <2>3. QED
    BY <1>8, <1>f, <2>1, <2>2 DEF AddLoadBalancerId
<1>9. ASSUME NEW l \in LBC, WaitForLBActive(l) PROVE TypeOK'
  <2>1. RunType'
    BY <1>9, PCNames, GotoType, ReturnType DEF TypeOK, WaitForLBActive
  <2>2. QED
    BY <1>9, <1>f, <2>1 DEF TypeOK, WaitForLBActive
<1>10. ASSUME NEW l \in LBC, ForgetLb(l) PROVE TypeOK'
  <2>1. st' \in [LBC -> StatusType]
    BY <1>10, <1>s, MaybeLBs, StatusFields, TaskFields DEF TypeOK, ForgetLb
  <2>2. RunType'
    BY <1>10, PCNames, GotoType, ReturnType DEF TypeOK, ForgetLb
  <2>3. QED
    BY <1>10, <1>f, <2>1, <2>2 DEF ForgetLb
<1>11. ASSUME NEW l \in LBC, DiscardLb(l) PROVE TypeOK'
  <2>1. RunType'
    BY <1>11, PCNames, GotoType, ReturnType DEF TypeOK, DiscardLb
  <2>2. CloudType'
    BY <1>11 DEF TypeOK, CloudType, DiscardLb, Tenant, Gone
  <2>3. QED
    BY <1>11, <2>1, <2>2 DEF TypeOK, ObjectType, HistoryType, DiscardLb,
       object, bounds, history
<1>12. ASSUME NEW l \in LBC, Park(l) PROVE TypeOK'
  <2>1. st' \in [LBC -> StatusType]
    BY <1>12, <1>s, MaybeLBs, StatusFields, TaskFields DEF TypeOK, Park
  <2>2. RunType'
    BY <1>12, PCNames, GotoType, ReturnType DEF TypeOK, Park
  <2>t. task[l].lb \in MaybeLB
    BY <1>s, TaskFields
  <2>3. QED
    BY <1>12, <2>1, <2>2, <2>t DEF TypeOK, CloudType, ObjectType, HistoryType, Park,
       cloud, object, bounds
<1>13. ASSUME NEW l \in LBC, Clear(l) PROVE TypeOK'
  <2>1. st' \in [LBC -> StatusType]
    BY <1>13, <1>s, MaybeLBs, StatusFields, TaskFields DEF TypeOK, Clear
  <2>2. RunType'
    BY <1>13, PCNames, GotoType, ReturnType DEF TypeOK, Clear
  <2>3. QED
    BY <1>13, <1>f, <2>1, <2>2 DEF Clear
<1>14. ASSUME NEW l \in LBC, EnsureExist(l) PROVE TypeOK'
  <2>1. st' \in [LBC -> StatusType]
    <3>1. [st[l] EXCEPT !.lb = task[l].target] \in StatusType
      BY <1>s, StatusFields, TaskFields
    <3>2. QED
      BY <1>14, <3>1 DEF TypeOK, EnsureExist
  <2>2. RunType'
    BY <1>14, PCNames, GotoType, ReturnType DEF TypeOK, EnsureExist
  <2>3. QED
    BY <1>14, <1>f, <2>1, <2>2 DEF EnsureExist
<1>15. ASSUME NEW l \in LBC, DeployTags(l) PROVE TypeOK'
  <2>1. RunType'
    BY <1>15, PCNames, GotoType, ReturnType DEF TypeOK, DeployTags
  <2>2. CloudType'
    BY <1>15 DEF TypeOK, CloudType, DeployTags, Tenant
  <2>3. QED
    BY <1>15, <2>1, <2>2 DEF TypeOK, ObjectType, HistoryType, DeployTags,
       object, bounds, history
<1>16. ASSUME NEW l \in LBC, Put(l) PROVE TypeOK'
  <2>1. RunType'
    BY <1>16, PCNames, GotoType, ReturnType DEF TypeOK, Put
  <2>2. CloudType'
    BY <1>16 DEF TypeOK, CloudType, Put, Tenant
  <2>t. task[l].target \in MaybeLB
    BY <1>s, TaskFields
  <2>3. QED
    BY <1>16, <2>1, <2>2, <2>t DEF TypeOK, ObjectType, HistoryType, Put,
       object, bounds
<1>17. ASSUME NEW l \in LBC, Record(l) PROVE TypeOK'
  <2>1. st' \in [LBC -> StatusType]
    BY <1>17, <1>s, StatusFields DEF TypeOK, Record
  <2>2. RunType'
    BY <1>17, PCNames, GotoType, ReturnType DEF TypeOK, Record
  <2>3. HistoryType'
    <3>1. task[l].target \in MaybeLB
      BY <1>s, TaskFields
    <3>2. booked' \in [LBC -> SUBSET MaybeLB]
      BY <1>17, <3>1 DEF TypeOK, HistoryType, Record
    <3>3. QED
      BY <1>17, <3>2 DEF TypeOK, HistoryType, Record
  <2>4. QED
    BY <1>17, <2>1, <2>2, <2>3 DEF TypeOK, CloudType, ObjectType, Record,
       cloud, object, bounds
<1>18. ASSUME NEW l \in LBC, TeardownRetiring(l) PROVE TypeOK'
  <2>1. RunType'
    BY <1>18, PCNames, GotoType, ReturnType DEF TypeOK, TeardownRetiring
  <2>2. CloudType'
    BY <1>18 DEF TypeOK, CloudType, TeardownRetiring, Tenant
  <2>3. QED
    BY <1>18, <2>1, <2>2 DEF TypeOK, ObjectType, HistoryType, TeardownRetiring,
       object, bounds, history
<1>19. ASSUME NEW l \in LBC, Unpark(l) PROVE TypeOK'
  <2>1. st' \in [LBC -> StatusType]
    BY <1>19, <1>s, StatusFields DEF TypeOK, Unpark
  <2>2. RunType'
    BY <1>19, PCNames, GotoType, ReturnType DEF TypeOK, Unpark
  <2>3. HistoryType'
    BY <1>19 DEF TypeOK, HistoryType, Unpark
  <2>4. QED
    BY <1>19, <2>1, <2>2, <2>3 DEF TypeOK, CloudType, ObjectType, Unpark,
       cloud, object, bounds
<1>20. ASSUME NEW l \in LBC, Decide(l) PROVE TypeOK'
  <2>1. CASE Goto(l, "finish")
    BY <1>20, <1>f, <2>1, PCNames, GotoType DEF TypeOK, Decide
  <2>2. CASE ~Goto(l, "finish")
    <3>1. CreatedByThisCluster(l, task[l].lb) \in BOOLEAN
      BY DEF CreatedByThisCluster
    <3>2. [task[l] EXCEPT !.ours = CreatedByThisCluster(l, task[l].lb)] \in TaskType
      BY <1>s, <3>1, TaskFields
    <3>2a. RunType'
      BY <1>20, <2>2, <3>2, PCNames DEF TypeOK, RunType, Decide
    <3>3. QED
      BY <1>20, <1>f, <3>2a DEF TypeOK, Decide
  <2>3. QED
    BY <2>1, <2>2
<1>21. ASSUME NEW l \in LBC, Strip(l) PROVE TypeOK'
  <2>1. RunType'
    BY <1>21, PCNames, GotoType, ReturnType DEF TypeOK, Strip
  <2>2. CloudType'
    BY <1>21 DEF TypeOK, CloudType, Strip, Tenant
  <2>3. QED
    BY <1>21, <2>1, <2>2 DEF TypeOK, ObjectType, HistoryType, Strip,
       object, bounds, history
<1>22. ASSUME NEW l \in LBC, CheckEmpty(l) PROVE TypeOK'
  <2>1. RunType'
    BY <1>22, PCNames, GotoType, ReturnType DEF TypeOK, CheckEmpty
  <2>2. QED
    BY <1>22, <1>f, <2>1 DEF TypeOK, CheckEmpty
<1>23. ASSUME NEW l \in LBC, DeleteLoadBalancer(l) PROVE TypeOK'
  <2>1. RunType'
    BY <1>23, PCNames, GotoType, ReturnType DEF TypeOK, DeleteLoadBalancer
  <2>2. CloudType'
    BY <1>23 DEF TypeOK, CloudType, DeleteLoadBalancer, Tenant, Gone, Exists, cloud
  <2>3. QED
    BY <1>23, <2>1, <2>2 DEF TypeOK, ObjectType, HistoryType, DeleteLoadBalancer,
       object, bounds, history
<1>24. ASSUME NEW l \in LBC, Finish(l) PROVE TypeOK'
  <2>1. RunType'
    BY <1>24, ReturnType DEF TypeOK, Finish
  <2>2. QED
    BY <1>24, <2>1 DEF TypeOK, ObjectType, CloudType, HistoryType, Finish,
       cloud, bounds, history
<1>25. ASSUME NEW l \in LBC, Fault(l) PROVE TypeOK'
  <2>1. RunType'
    BY <1>25, ReturnType DEF TypeOK, Fault
  <2>t. task[l].target \in MaybeLB
    BY <1>s, TaskFields
  <2>2. QED
    BY <1>25, <2>1, <2>t DEF TypeOK, ObjectType, CloudType, HistoryType, Fault,
       cloud, object
<1>26. ASSUME NEW l \in LBC, EditPin(l) PROVE TypeOK'
  BY <1>26 DEF TypeOK, ObjectType, CloudType, HistoryType, RunType, EditPin,
     cloud, run, history
<1>27. ASSUME NEW l \in LBC, Delete(l) PROVE TypeOK'
  BY <1>27 DEF TypeOK, ObjectType, CloudType, HistoryType, RunType, Delete,
     cloud, run, bounds, history
<1>28. ASSUME NEW b \in LB, Settle(b) PROVE TypeOK'
  BY <1>28 DEF TypeOK, ObjectType, CloudType, HistoryType, RunType, Settle,
     object, run, bounds, history
<1>29. QED
  BY <1>1, <1>2, <1>3, <1>4, <1>5, <1>6, <1>7, <1>8, <1>9, <1>10, <1>11, <1>12,
      <1>13, <1>14, <1>15,
     <1>16, <1>17, <1>18, <1>19, <1>20, <1>21, <1>22, <1>23, <1>24, <1>25, <1>26, <1>27, <1>28 DEF Next, Reconcile

\* Every variable keeps its type, whatever the interleaving and the faults.
THEOREM TypeCorrect == Spec => []TypeOK
BY TypeInit, TypeStep, PTL DEF Spec

-----------------------------------------------------------------------------
(* Safety.  IInv speaks of one LBC at a time, and of it only what View lists. *)

View(k) == <<pc[k], task[k], st[k].lb, st[k].adopted, pin[k]>>

\* A step that leaves what IInv reads of status and spec alone, for every LBC.
Quiet ==
  /\ \A k \in LBC : UNCHANGED <<st[k].lb, st[k].adopted, st[k].created, pin[k]>>
  /\ UNCHANGED by

LEMMA ViewInv ==
  ASSUME NEW k, LbcInv(k), UNCHANGED View(k)
  PROVE  LbcInv(k)'
BY DEF View, LbcInv, TargetKnown, AdoptionKnown, PinKnown, OursKnown

\* A reconcile that ends forgets what it had read.
LEMMA IdleInv ==
  ASSUME NEW k, LbcInv(k), pc'[k] = "idle", task'[k] = NoTask,
         UNCHANGED <<st[k].lb, st[k].adopted, pin[k]>>
  PROVE  LbcInv(k)'
<1>1. /\ NoTask.pin = None /\ NoTask.lb = None /\ NoTask.target = None
      /\ NoTask.ours = FALSE
  BY DEF NoTask
<1>2. None \notin UserLB
  BY ConstantsAssumption
<1>3. QED
  BY <1>1, <1>2 DEF LbcInv, TargetKnown, AdoptionKnown, PinKnown, OursKnown, Making

LEMMA GotoView ==
  ASSUME RunType, NEW l \in LBC, NEW p, Goto(l, p)
  PROVE  /\ pc'[l] = p /\ task'[l] = task[l]
         /\ \A k \in LBC : k # l => pc'[k] = pc[k] /\ task'[k] = task[k]
BY DEF RunType, Goto

LEMMA ReturnView ==
  ASSUME RunType, NEW l \in LBC, Return(l)
  PROVE  /\ pc'[l] = "idle" /\ task'[l] = NoTask
         /\ \A k \in LBC : k # l => pc'[k] = pc[k] /\ task'[k] = task[k]
BY DEF RunType, Return

LEMMA StatusUpdates ==
  ASSUME NEW s \in StatusType, NEW b, NEW r
  PROVE  /\ [s EXCEPT !.res = b].lb = s.lb /\ [s EXCEPT !.res = b].adopted = s.adopted
         /\ [s EXCEPT !.res = b].created = s.created
         /\ [s EXCEPT !.retiring = b].lb = s.lb
         /\ [s EXCEPT !.retiring = b].adopted = s.adopted
         /\ [s EXCEPT !.retiring = b].created = s.created
         /\ [s EXCEPT !.created = b].lb = s.lb
         /\ [s EXCEPT !.created = b].adopted = s.adopted
         /\ [s EXCEPT !.created = b].created = b
         /\ [s EXCEPT !.adopted = b].lb = s.lb
         /\ [s EXCEPT !.adopted = b].adopted = b
         /\ [s EXCEPT !.adopted = b].created = s.created
         /\ [s EXCEPT !.lb = b].lb = b /\ [s EXCEPT !.lb = b].adopted = s.adopted
         /\ [s EXCEPT !.lb = b].created = s.created
BY DEF StatusType

LEMMA TaskUpdates ==
  ASSUME NEW t \in TaskType, NEW b, NEW r
  PROVE  /\ [t EXCEPT !.target = b].pin = t.pin /\ [t EXCEPT !.target = b].lb = t.lb
         /\ [t EXCEPT !.target = b].target = b /\ [t EXCEPT !.target = b].ours = t.ours
         /\ [t EXCEPT !.target = b, !.requeue = r].pin = t.pin
         /\ [t EXCEPT !.target = b, !.requeue = r].lb = t.lb
         /\ [t EXCEPT !.target = b, !.requeue = r].target = b
         /\ [t EXCEPT !.target = b, !.requeue = r].ours = t.ours
         /\ [t EXCEPT !.ours = b].pin = t.pin /\ [t EXCEPT !.ours = b].lb = t.lb
         /\ [t EXCEPT !.ours = b].target = t.target /\ [t EXCEPT !.ours = b].ours = b
BY DEF TaskType

\* What a step of l leaves of the invariant, once l's own part is shown.
LEMMA OthersInv ==
  ASSUME NEW l \in LBC, \A k \in LBC : LbcInv(k), LbcInv(l)',
         \A k \in LBC : k # l => UNCHANGED View(k)
  PROVE  \A k \in LBC : LbcInv(k)'
BY ViewInv

LEMMA QuietReturn ==
  ASSUME RunType, \A k \in LBC : LbcInv(k), NoFalseProvenance,
         NEW l \in LBC, Return(l), Quiet
  PROVE  NoFalseProvenance' /\ \A k \in LBC : LbcInv(k)'
<1>1. NoFalseProvenance'
  BY DEF NoFalseProvenance, Quiet
<1>2. LbcInv(l)'
  BY IdleInv, ReturnView DEF Quiet
<1>3. \A k \in LBC : k # l => UNCHANGED View(k)
  BY ReturnView DEF Quiet, View
<1>4. QED
  BY <1>1, <1>2, <1>3, OthersInv

LEMMA QuietGoto ==
  ASSUME RunType, \A k \in LBC : LbcInv(k), NoFalseProvenance,
         NEW l \in LBC, NEW p, Goto(l, p), Quiet, LbcInv(l)'
  PROVE  NoFalseProvenance' /\ \A k \in LBC : LbcInv(k)'
<1>1. NoFalseProvenance'
  BY DEF NoFalseProvenance, Quiet
<1>2. \A k \in LBC : k # l => UNCHANGED View(k)
  BY GotoView DEF Quiet, View
<1>3. QED
  BY <1>1, <1>2, OthersInv

LEMMA StepInv ==
  ASSUME OneWayPins, TypeOK, NoFalseProvenance, \A k \in LBC : LbcInv(k), [Next]_vars
  PROVE  NoFalseProvenance' /\ \A k \in LBC : LbcInv(k)'
<1> DEFINE Good == NoFalseProvenance' /\ \A k \in LBC : LbcInv(k)'
<1>r. RunType /\ pin \in [LBC -> MaybeLB] /\ st \in [LBC -> StatusType]
  BY DEF TypeOK, ObjectType
<1>s. \A k \in LBC : st[k] \in StatusType /\ task[k] \in TaskType
  BY DEF TypeOK, RunType
<1>q. ASSUME UNCHANGED <<by, pin, st>> PROVE Quiet
  BY <1>q DEF Quiet
<1>1. CASE UNCHANGED vars
  <2>1. Quiet /\ \A k \in LBC : UNCHANGED View(k)
    BY <1>1 DEF Quiet, View, vars, cloud, object, run
  <2>2. QED
    BY <2>1, ViewInv DEF Quiet, NoFalseProvenance
<1>2. ASSUME NEW l \in LBC, Begin(l) PROVE Good
  <2>1. /\ pc'[l] \in {"lockEnsure", "lockDelete"} /\ UNCHANGED <<st, pin>>
        /\ task'[l].pin = pin[l] /\ task'[l].lb = st[l].lb
        /\ task'[l].target = None /\ task'[l].ours = FALSE
    BY <1>2, <1>r DEF Begin, RunType, NoTask, object
  <2>2. LbcInv(l)'
    BY <1>r, <2>1, MaybeLBs, ConstantsAssumption
    DEF LbcInv, TargetKnown, AdoptionKnown, PinKnown, OursKnown, Making
  <2>3. NoFalseProvenance'
    BY <1>2 DEF Begin, NoFalseProvenance, cloud
  <2>4. \A k \in LBC : k # l => UNCHANGED View(k)
    BY <1>2, <1>r DEF Begin, View, RunType, object
  <2>5. QED
    BY <2>2, <2>3, <2>4, OthersInv
<1>3. ASSUME NEW l \in LBC, Lock(l) PROVE Good
  <2>q. Quiet
    BY <1>3, <1>q DEF Lock, cloud, object
  <2>1. /\ \/ pc[l] = "lockEnsure" /\ pc'[l] = "resolve"
           \/ pc[l] = "lockDelete" /\ pc'[l] \in {"retire", "decide"}
        /\ UNCHANGED <<st, pin, task>>
    BY <1>3, <1>r DEF Lock, RunType, object
  <2>2. LbcInv(l)'
    BY <2>1 DEF LbcInv, TargetKnown, AdoptionKnown, PinKnown, OursKnown, Making
  <2>3. \A k \in LBC : k # l => UNCHANGED View(k)
    BY <1>3, <1>r DEF Lock, View, RunType, object
  <2>4. QED
    BY <2>q, <2>2, <2>3, OthersInv DEF Quiet, NoFalseProvenance
<1>4. ASSUME NEW l \in LBC, DeployLoadBalancer(l) PROVE Good
  <2> DEFINE t == task[l]
             To(p, c) == /\ pc'[l] = p /\ t'.target = c /\ t'.pin = t.pin
                         /\ t'.lb = t.lb /\ t'.ours = t.ours
  <2>q. Quiet /\ UNCHANGED <<st, pin>>
    BY <1>4, <1>q DEF DeployLoadBalancer, cloud, object
  <2>s. pc[l] = "resolve" /\ t.lb \in MaybeLB /\ t.pin \in MaybeLB
    BY <1>4, <1>s, MaybeLBs, TaskFields DEF DeployLoadBalancer
  <2>v. ASSUME NEW p, NEW c, NEW r, Choose(l, p, c, r)
        PROVE  To(p, c) /\ \A k \in LBC : k # l => pc'[k] = pc[k] /\ task'[k] = task[k]
    <3>1. task'[l] = [task[l] EXCEPT !.target = c, !.requeue = r]
      BY <2>v, <1>r DEF Choose, RunType
    <3>2. QED
      BY <2>v, <3>1, <1>r, <1>s, TaskUpdates DEF Choose, RunType
  <2>1. \A k \in LBC : k # l => UNCHANGED View(k)
    <3>1. \E p, c, r : Choose(l, p, c, r)
      BY <1>4 DEF DeployLoadBalancer
    <3>2. QED
      BY <2>q, <2>v, <3>1 DEF View
  <2>2. CASE t.lb # None /\ t.pin # None /\ t.pin # t.lb
    <3>1. Choose(l, "migrateAdopt", t.pin, TRUE)
      BY <1>4, <2>2 DEF DeployLoadBalancer
    <3>2. To("migrateAdopt", t.pin)
      BY <2>v, <3>1
    <3>3. LbcInv(l)'
      BY <2>q, <2>s, <2>2, <3>2
      DEF MaybeLB, LbcInv, TargetKnown, AdoptionKnown, PinKnown, OursKnown, Making
    <3>4. QED
      BY <2>q, <2>1, <3>3, OthersInv DEF Quiet, NoFalseProvenance
  <2>3. CASE t.lb # None /\ (t.pin = None \/ t.pin = t.lb)
    <3>1. Choose(l, "ensureExist", t.lb, FALSE)
      BY <1>4, <2>3 DEF DeployLoadBalancer
    <3>2. To("ensureExist", t.lb)
      BY <2>v, <3>1
    <3>3. LbcInv(l)'
      BY <2>q, <2>s, <2>3, <3>2
      DEF MaybeLB, LbcInv, TargetKnown, AdoptionKnown, PinKnown, OursKnown, Making
    <3>4. QED
      BY <2>q, <2>1, <3>3, OthersInv DEF Quiet, NoFalseProvenance
  <2>4. CASE t.lb = None /\ t.pin # None
    <3>1. Choose(l, "adopt", t.pin, TRUE)
      BY <1>4, <2>4 DEF DeployLoadBalancer
    <3>2. To("adopt", t.pin)
      BY <2>v, <3>1
    <3>3. LbcInv(l)'
      BY <2>q, <2>s, <2>4, <3>2
      DEF MaybeLB, LbcInv, TargetKnown, AdoptionKnown, PinKnown, OursKnown, Making
    <3>4. QED
      BY <2>q, <2>1, <3>3, OthersInv DEF Quiet, NoFalseProvenance
  <2>5. CASE t.lb = None /\ t.pin = None
    <3>1. \/ Choose(l, "create", None, FALSE)
          \/ \E c \in LB : Choose(l, "adopt", c, TRUE)
      BY <1>4, <2>5 DEF DeployLoadBalancer
    <3>2. To("create", None) \/ \E c \in LB : To("adopt", c)
      BY <2>v, <3>1
    <3>3. LbcInv(l)'
      BY <2>q, <2>s, <2>5, <3>2, ConstantsAssumption
      DEF LbcInv, TargetKnown, AdoptionKnown, PinKnown, OursKnown, Making
    <3>4. QED
      BY <2>q, <2>1, <3>3, OthersInv DEF Quiet, NoFalseProvenance
  <2>6. QED
    BY <2>2, <2>3, <2>4, <2>5
<1>5. ASSUME NEW l \in LBC, SetAdopted(l) PROVE Good
  <2>1. /\ st'[l].adopted = task[l].target /\ st'[l].lb = st[l].lb
        /\ st'[l].created = st[l].created
        /\ \A k \in LBC : k # l => st'[k] = st[k]
        /\ UNCHANGED <<by, pin>>
    BY <1>5, <1>r, <1>s, StatusUpdates DEF SetAdopted, cloud, object
  <2>2. /\ \/ pc[l] = "adopt" /\ pc'[l] = "ensureExist"
           \/ pc[l] = "migrateAdopt" /\ pc'[l] = "park"
        /\ task'[l] = task[l]
        /\ \A k \in LBC : k # l => pc'[k] = pc[k] /\ task'[k] = task[k]
    BY <1>5, <1>r, GotoView DEF SetAdopted
  <2>3. LbcInv(l)'
    BY <2>1, <2>2, ConstantsAssumption
    DEF OneWayPins, KeepsPin, NeverMoves, LbcInv, TargetKnown, AdoptionKnown,
        PinKnown, OursKnown, Making
  <2>4. NoFalseProvenance'
    BY <2>1 DEF NoFalseProvenance
  <2>5. \A k \in LBC : k # l => UNCHANGED View(k)
    BY <2>1, <2>2 DEF View
  <2>6. QED
    BY <2>3, <2>4, <2>5, OthersInv
<1>6. ASSUME NEW l \in LBC, CreateLoadBalancer(l) PROVE Good
  <2>q. Quiet /\ UNCHANGED <<st, pin>>
    BY <1>6, <1>q DEF CreateLoadBalancer, object
  <2>1. CASE Return(l)
    BY <2>q, <2>1, <1>r, QuietReturn
  <2>2. CASE ~Return(l)
    <3>1. PICK c \in LB \ UserLB :
            /\ pc' = [pc EXCEPT ![l] = "recordCreated"]
            /\ task' = [task EXCEPT ![l].target = c]
      BY <1>6, <2>2 DEF CreateLoadBalancer
    <3>2. /\ pc'[l] = "recordCreated" /\ task'[l] = [task[l] EXCEPT !.target = c]
          /\ \A k \in LBC : k # l => pc'[k] = pc[k] /\ task'[k] = task[k]
      BY <3>1, <1>r DEF RunType
    <3>3. /\ task'[l].target = c /\ task'[l].pin = task[l].pin
          /\ task'[l].lb = task[l].lb /\ task'[l].ours = task[l].ours
      BY <3>2, <1>s, TaskUpdates
    <3>4. LbcInv(l)'
      BY <1>6, <2>q, <3>2, <3>3, ConstantsAssumption
      DEF CreateLoadBalancer, LbcInv, TargetKnown, AdoptionKnown, PinKnown,
          OursKnown, Making
    <3>5. \A k \in LBC : k # l => UNCHANGED View(k)
      BY <2>q, <3>2 DEF View
    <3>6. QED
      BY <2>q, <3>4, <3>5, OthersInv DEF Quiet, NoFalseProvenance
  <2>3. QED
    BY <2>1, <2>2
<1>7. ASSUME NEW l \in LBC, SetCreated(l) PROVE Good
  <2>1. /\ st'[l].created = task[l].target /\ st'[l].lb = st[l].lb
        /\ st'[l].adopted = st[l].adopted
        /\ \A k \in LBC : k # l => st'[k] = st[k]
        /\ UNCHANGED <<by, pin>>
    BY <1>7, <1>r, <1>s, StatusUpdates DEF SetCreated, cloud, object
  <2>2. /\ pc[l] = "recordCreated" /\ pc'[l] = "recordLb" /\ task'[l] = task[l]
        /\ \A k \in LBC : k # l => pc'[k] = pc[k] /\ task'[k] = task[k]
    BY <1>7, <1>r, GotoView DEF SetCreated
  <2>3. LbcInv(l)'
    BY <2>1, <2>2 DEF LbcInv, TargetKnown, AdoptionKnown, PinKnown, OursKnown,
        Making
  <2>4. NoFalseProvenance'
    BY <2>1, <2>2 DEF NoFalseProvenance, LbcInv, TargetKnown, Making
  <2>5. \A k \in LBC : k # l => UNCHANGED View(k)
    BY <2>1, <2>2 DEF View
  <2>6. QED
    BY <2>3, <2>4, <2>5, OthersInv
<1>8. ASSUME NEW l \in LBC, AddLoadBalancerId(l) PROVE Good
  <2>1. /\ st'[l].lb = task[l].target /\ st'[l].adopted = st[l].adopted
        /\ st'[l].created = st[l].created
        /\ \A k \in LBC : k # l => st'[k] = st[k]
        /\ UNCHANGED <<by, pin>>
    BY <1>8, <1>r, <1>s, StatusUpdates DEF AddLoadBalancerId, cloud, object
  <2>2. /\ pc[l] = "recordLb" /\ pc'[l] = "waitActive" /\ task'[l] = task[l]
        /\ \A k \in LBC : k # l => pc'[k] = pc[k] /\ task'[k] = task[k]
    BY <1>8, <1>r, GotoView DEF AddLoadBalancerId
  <2>3. LbcInv(l)'
    BY <2>1, <2>2, ConstantsAssumption
    DEF LbcInv, TargetKnown, AdoptionKnown, PinKnown, OursKnown, Making
  <2>4. NoFalseProvenance'
    BY <2>1 DEF NoFalseProvenance
  <2>5. \A k \in LBC : k # l => UNCHANGED View(k)
    BY <2>1, <2>2 DEF View
  <2>6. QED
    BY <2>3, <2>4, <2>5, OthersInv
<1>9. ASSUME NEW l \in LBC, WaitForLBActive(l) PROVE Good
  <2>q. Quiet
    BY <1>9, <1>q DEF WaitForLBActive, cloud, object
  <2>1. CASE Return(l)
    BY <2>q, <2>1, <1>r, QuietReturn
  <2>2. CASE Goto(l, "ensureExist")
    <3>1. LbcInv(l)'
      BY <1>9, <1>r, <2>q, <2>2, GotoView
      DEF WaitForLBActive, Quiet, LbcInv, TargetKnown, AdoptionKnown, PinKnown,
          OursKnown, Making
    <3>2. QED
      BY <2>q, <2>2, <3>1, <1>r, QuietGoto
  <2>3. CASE Goto(l, "forgetLb")
    <3>1. LbcInv(l)'
      BY <1>9, <1>r, <2>q, <2>3, GotoView
      DEF WaitForLBActive, Quiet, LbcInv, TargetKnown, AdoptionKnown, PinKnown,
          OursKnown, Making
    <3>2. QED
      BY <2>q, <2>3, <3>1, <1>r, QuietGoto
  <2>4. QED
    BY <1>9, <2>1, <2>2, <2>3 DEF WaitForLBActive
<1>10. ASSUME NEW l \in LBC, ForgetLb(l) PROVE Good
  <2>1. /\ st'[l].lb = None /\ st'[l].adopted = st[l].adopted
        /\ st'[l].created = st[l].created
        /\ \A k \in LBC : k # l => st'[k] = st[k]
        /\ UNCHANGED <<by, pin>>
    BY <1>10, <1>r, <1>s, StatusUpdates DEF ForgetLb, cloud, object
  <2>2. /\ pc[l] = "forgetLb" /\ pc'[l] = "discardLb" /\ task'[l] = task[l]
        /\ \A k \in LBC : k # l => pc'[k] = pc[k] /\ task'[k] = task[k]
    BY <1>10, <1>r, GotoView DEF ForgetLb
  <2>3. LbcInv(l)'
    BY <2>1, <2>2, ConstantsAssumption
    DEF LbcInv, TargetKnown, AdoptionKnown, PinKnown, OursKnown, Making
  <2>4. NoFalseProvenance'
    BY <2>1 DEF NoFalseProvenance
  <2>5. \A k \in LBC : k # l => UNCHANGED View(k)
    BY <2>1, <2>2 DEF View
  <2>6. QED
    BY <2>3, <2>4, <2>5, OthersInv
<1>11. ASSUME NEW l \in LBC, DiscardLb(l) PROVE Good
  <2>q. Quiet
    BY <1>11, <1>q DEF DiscardLb, cloud, object, Gone
  <2>1. CASE Return(l)
    BY <2>q, <2>1, <1>r, QuietReturn
  <2>2. QED
    BY <1>11, <2>1 DEF DiscardLb
<1>12. ASSUME NEW l \in LBC, Park(l) PROVE Good
  <2>q. Quiet
    BY <1>12, <1>r, <1>s, StatusUpdates DEF Park, Quiet, cloud, object
  <2>1. CASE Goto(l, "clear")
    <3>1. LbcInv(l)'
      BY <1>12, <1>r, <2>q, <2>1, GotoView
      DEF Park, Quiet, LbcInv, TargetKnown, AdoptionKnown, PinKnown, OursKnown,
          Making
    <3>2. QED
      BY <2>q, <2>1, <3>1, <1>r, QuietGoto
  <2>2. QED
    BY <1>12, <2>1 DEF Park
<1>13. ASSUME NEW l \in LBC, Clear(l) PROVE Good
  <2>q. Quiet
    BY <1>13, <1>r, <1>s, StatusUpdates DEF Clear, Quiet, cloud, object
  <2>1. CASE Goto(l, "ensureExist")
    <3>1. LbcInv(l)'
      BY <1>13, <1>r, <2>q, <2>1, GotoView
      DEF Clear, Quiet, LbcInv, TargetKnown, AdoptionKnown, PinKnown, OursKnown,
          Making
    <3>2. QED
      BY <2>q, <2>1, <3>1, <1>r, QuietGoto
  <2>2. QED
    BY <1>13, <2>1 DEF Clear
<1>14. ASSUME NEW l \in LBC, EnsureExist(l) PROVE Good
  <2>1. CASE Return(l) /\ UNCHANGED st
    <3>1. Quiet
      BY <1>14, <1>q, <2>1 DEF EnsureExist, cloud, object
    <3>2. QED
      BY <2>1, <3>1, <1>r, QuietReturn
  <2>2. CASE st' = [st EXCEPT ![l].lb = task[l].target] /\ Goto(l, "tags")
    <3>1. /\ st'[l].lb = task[l].target /\ st'[l].adopted = st[l].adopted
          /\ st'[l].created = st[l].created
          /\ \A k \in LBC : k # l => st'[k] = st[k]
          /\ UNCHANGED <<by, pin>>
      BY <1>14, <2>2, <1>r, <1>s, StatusUpdates DEF EnsureExist, cloud, object
    <3>2. /\ pc[l] = "ensureExist" /\ pc'[l] = "tags" /\ task'[l] = task[l]
          /\ \A k \in LBC : k # l => pc'[k] = pc[k] /\ task'[k] = task[k]
      BY <1>14, <2>2, <1>r, GotoView DEF EnsureExist
    <3>3. LbcInv(l)'
      BY <3>1, <3>2, ConstantsAssumption
      DEF LbcInv, TargetKnown, AdoptionKnown, PinKnown, OursKnown, Making
    <3>4. NoFalseProvenance'
      BY <3>1 DEF NoFalseProvenance
    <3>5. \A k \in LBC : k # l => UNCHANGED View(k)
      BY <3>1, <3>2 DEF View
    <3>6. QED
      BY <3>3, <3>4, <3>5, OthersInv
  <2>3. QED
    BY <1>14, <2>1, <2>2 DEF EnsureExist
<1>15. ASSUME NEW l \in LBC, DeployTags(l) PROVE Good
  <2>1. NoFalseProvenance'
    BY <1>15 DEF DeployTags, NoFalseProvenance, TypeOK, CloudType
  <2>2. UNCHANGED <<st, pin>>
    BY <1>15 DEF DeployTags, object
  <2>3. CASE Return(l)
    <3>1. LbcInv(l)'
      BY <2>2, <2>3, <1>r, IdleInv, ReturnView
    <3>2. \A k \in LBC : k # l => UNCHANGED View(k)
      BY <2>2, <2>3, <1>r, ReturnView DEF View
    <3>3. QED
      BY <2>1, <3>1, <3>2, OthersInv
  <2>4. CASE Goto(l, "put")
    <3>1. pc[l] = "tags" /\ pc'[l] = "put" /\ task'[l] = task[l]
      BY <1>15, <2>4, <1>r, GotoView DEF DeployTags
    <3>2. LbcInv(l)'
      BY <2>2, <3>1 DEF LbcInv, TargetKnown, AdoptionKnown, PinKnown, OursKnown,
          Making
    <3>3. \A k \in LBC : k # l => UNCHANGED View(k)
      BY <2>2, <2>4, <1>r, GotoView DEF View
    <3>4. QED
      BY <2>1, <3>2, <3>3, OthersInv
  <2>5. QED
    BY <1>15, <2>3, <2>4 DEF DeployTags
<1>16. ASSUME NEW l \in LBC, Put(l) PROVE Good
  <2>q. Quiet
    BY <1>16, <1>q DEF Put, cloud, object
  <2>1. CASE Return(l)
    BY <2>q, <2>1, <1>r, QuietReturn
  <2>2. CASE Goto(l, "record")
    <3>1. LbcInv(l)'
      BY <1>16, <1>r, <2>q, <2>2, GotoView
      DEF Put, Quiet, LbcInv, TargetKnown, AdoptionKnown, PinKnown, OursKnown,
          Making
    <3>2. QED
      BY <2>q, <2>2, <3>1, <1>r, QuietGoto
  <2>3. QED
    BY <1>16, <2>1, <2>2 DEF Put
<1>17. ASSUME NEW l \in LBC, Record(l) PROVE Good
  <2>q. Quiet
    BY <1>17, <1>r, <1>s, StatusUpdates DEF Record, Quiet, cloud, object
  <2>1. CASE Return(l)
    BY <2>q, <2>1, <1>r, QuietReturn
  <2>2. CASE Goto(l, "retire")
    <3>1. LbcInv(l)'
      BY <1>17, <1>r, <2>q, <2>2, GotoView
      DEF Record, Quiet, LbcInv, TargetKnown, AdoptionKnown, PinKnown, OursKnown,
          Making
    <3>2. QED
      BY <2>q, <2>2, <3>1, <1>r, QuietGoto
  <2>3. QED
    BY <1>17, <2>1, <2>2 DEF Record
<1>18. ASSUME NEW l \in LBC, TeardownRetiring(l) PROVE Good
  <2>q. Quiet
    BY <1>18, <1>q DEF TeardownRetiring, cloud, object
  <2>1. CASE Goto(l, "unpark")
    <3>1. LbcInv(l)'
      BY <1>18, <1>r, <2>q, <2>1, GotoView
      DEF TeardownRetiring, Quiet, LbcInv, TargetKnown, AdoptionKnown, PinKnown,
          OursKnown, Making
    <3>2. QED
      BY <2>q, <2>1, <3>1, <1>r, QuietGoto
  <2>2. QED
    BY <1>18, <2>1 DEF TeardownRetiring
<1>19. ASSUME NEW l \in LBC, Unpark(l) PROVE Good
  <2>q. Quiet
    BY <1>19, <1>r, <1>s, StatusUpdates DEF Unpark, Quiet, cloud, object
  <2>1. CASE task[l].target # None
    <3>1. Return(l)
      BY <1>19, <2>1 DEF Unpark
    <3>2. QED
      BY <2>q, <3>1, <1>r, QuietReturn
  <2>2. CASE task[l].target = None
    <3>1. Goto(l, "decide")
      BY <1>19, <2>2 DEF Unpark
    <3>2. pc[l] = "unpark" /\ pc'[l] = "decide" /\ task'[l] = task[l]
      BY <1>19, <1>r, <3>1, GotoView DEF Unpark
    <3>3. LbcInv(l)'
      BY <2>q, <2>2, <3>2
      DEF Quiet, LbcInv, TargetKnown, AdoptionKnown, PinKnown, OursKnown, Making
    <3>4. QED
      BY <2>q, <3>1, <3>3, <1>r, QuietGoto
  <2>3. QED
    BY <2>1, <2>2
<1>20. ASSUME NEW l \in LBC, Decide(l) PROVE Good
  <2>q. Quiet /\ UNCHANGED <<st, pin>>
    BY <1>20, <1>q DEF Decide, cloud, object
  <2>1. CASE Goto(l, "finish")
    <3>1. LbcInv(l)'
      BY <1>20, <1>r, <2>q, <2>1, GotoView
      DEF Decide, LbcInv, TargetKnown, AdoptionKnown, PinKnown, OursKnown, Making
    <3>2. QED
      BY <2>q, <2>1, <3>1, <1>r, QuietGoto
  <2>2. CASE ~Goto(l, "finish")
    <3> DEFINE c == task[l].lb
    <3> DEFINE mine == CreatedByThisCluster(l, c)
    <3>1. /\ c # None
          /\ pc' = [pc EXCEPT ![l] = IF mine /\ CanDeleteWhole(l, c)
                                     THEN "deleteLb" ELSE "strip"]
          /\ task' = [task EXCEPT ![l].ours = mine]
      BY <1>20, <2>2 DEF Decide
    <3>2. c \in LB
      BY <3>1, <1>s, MaybeLBs, TaskFields DEF MaybeLB
    <3>3. mine => c \notin UserLB
      BY <1>20, ConstantsAssumption
      DEF CreatedByThisCluster, NoFalseProvenance, Decide,
         LbcInv, TargetKnown, AdoptionKnown
    <3>4. /\ pc[l] = "decide" /\ pc'[l] \in {"deleteLb", "strip"}
          /\ pc'[l] = "deleteLb" => mine
          /\ task'[l] = [task[l] EXCEPT !.ours = mine]
          /\ \A k \in LBC : k # l => pc'[k] = pc[k] /\ task'[k] = task[k]
      BY <1>20, <1>r, <3>1 DEF RunType, Decide
    <3>5. /\ task'[l].target = task[l].target /\ task'[l].pin = task[l].pin
          /\ task'[l].lb = c /\ task'[l].ours = mine
      BY <3>4, <1>s, TaskUpdates
    <3> HIDE DEF mine
    <3>6. LbcInv(l)'
      BY <2>q, <3>2, <3>3, <3>4, <3>5
      DEF LbcInv, TargetKnown, AdoptionKnown, PinKnown, OursKnown, Making
    <3>7. \A k \in LBC : k # l => UNCHANGED View(k)
      BY <2>q, <3>4 DEF View
    <3>8. QED
      BY <2>q, <3>6, <3>7, OthersInv DEF Quiet, NoFalseProvenance
  <2>3. QED
    BY <2>1, <2>2
<1>21. ASSUME NEW l \in LBC, Strip(l) PROVE Good
  <2>q. Quiet
    BY <1>21, <1>q DEF Strip, cloud, object
  <2>1. CASE Goto(l, "checkEmpty")
    <3>1. LbcInv(l)'
      BY <1>21, <1>r, <2>q, <2>1, GotoView
      DEF Strip, Quiet, LbcInv, TargetKnown, AdoptionKnown, PinKnown, OursKnown,
          Making
    <3>2. QED
      BY <2>q, <2>1, <3>1, <1>r, QuietGoto
  <2>2. QED
    BY <1>21, <2>1 DEF Strip
<1>22. ASSUME NEW l \in LBC, CheckEmpty(l) PROVE Good
  <2>q. Quiet
    BY <1>22, <1>q DEF CheckEmpty, cloud, object
  <2>1. CASE Goto(l, "deleteLb")
    <3>1. LbcInv(l)'
      BY <1>22, <1>r, <2>q, <2>1, GotoView
      DEF CheckEmpty, Quiet, LbcInv, TargetKnown, AdoptionKnown, PinKnown,
          OursKnown, Making
    <3>2. QED
      BY <2>q, <2>1, <3>1, <1>r, QuietGoto
  <2>2. CASE Goto(l, "finish")
    <3>1. LbcInv(l)'
      BY <1>22, <1>r, <2>q, <2>2, GotoView
      DEF CheckEmpty, Quiet, LbcInv, TargetKnown, AdoptionKnown, PinKnown,
          OursKnown, Making
    <3>2. QED
      BY <2>q, <2>2, <3>1, <1>r, QuietGoto
  <2>3. QED
    BY <1>22, <2>1, <2>2 DEF CheckEmpty
<1>23. ASSUME NEW l \in LBC, DeleteLoadBalancer(l) PROVE Good
  <2>q. Quiet
    BY <1>23, <1>q DEF DeleteLoadBalancer, cloud, object, Gone
  <2>1. CASE Return(l)
    BY <2>q, <2>1, <1>r, QuietReturn
  <2>2. CASE Goto(l, "finish")
    <3>1. LbcInv(l)'
      BY <1>23, <1>r, <2>q, <2>2, GotoView
      DEF DeleteLoadBalancer, Quiet, LbcInv, TargetKnown, AdoptionKnown, PinKnown,
          OursKnown, Making
    <3>2. QED
      BY <2>q, <2>2, <3>1, <1>r, QuietGoto
  <2>3. QED
    BY <1>23, <2>1, <2>2 DEF DeleteLoadBalancer
<1>24. ASSUME NEW l \in LBC, Finish(l) PROVE Good
  <2>q. Quiet
    BY <1>24, <1>q DEF Finish, cloud, object
  <2>1. CASE Return(l)
    BY <2>q, <2>1, <1>r, QuietReturn
  <2>2. QED
    BY <1>24, <2>1 DEF Finish
<1>25. ASSUME NEW l \in LBC, Fault(l) PROVE Good
  <2>q. Quiet
    BY <1>25, <1>q DEF Fault, cloud, object
  <2>1. CASE Return(l)
    BY <2>q, <2>1, <1>r, QuietReturn
  <2>2. QED
    BY <1>25, <2>1 DEF Fault
<1>26. ASSUME NEW l \in LBC, EditPin(l) PROVE Good
  <2>1. PICK p \in MaybeLB :
          EditKind(p) \in Edits /\ pin' = [pin EXCEPT ![l] = p] /\ UNCHANGED <<cloud, st, run>>
    BY <1>26 DEF EditPin
  <2>2. (KeepsPin => p # None) /\ (NeverMoves => p = None)
    BY <2>1 DEF EditKind, KeepsPin, NeverMoves
  <2>3. pin'[l] = p /\ \A k \in LBC : k # l => pin'[k] = pin[k]
    BY <2>1, <1>r
  <2>4. UNCHANGED <<by, st, pc, task>>
    BY <2>1 DEF cloud, run
  <2>5. LbcInv(l)'
    BY <2>2, <2>3, <2>4
    DEF LbcInv, TargetKnown, AdoptionKnown, PinKnown, OursKnown, Making
  <2>6. \A k \in LBC : k # l => UNCHANGED View(k)
    BY <2>3, <2>4 DEF View
  <2>7. QED
    BY <2>4, <2>5, <2>6, OthersInv DEF NoFalseProvenance
<1>27. ASSUME NEW l \in LBC, Delete(l) PROVE Good
  <2>1. Quiet /\ \A k \in LBC : UNCHANGED View(k)
    BY <1>27 DEF Delete, Quiet, View, cloud, object, run
  <2>2. QED
    BY <2>1, ViewInv DEF Quiet, NoFalseProvenance
<1>28. ASSUME NEW b \in LB, Settle(b) PROVE Good
  <2>1. Quiet /\ \A k \in LBC : UNCHANGED View(k)
    BY <1>28 DEF Settle, Quiet, View, object, run
  <2>2. QED
    BY <2>1, ViewInv DEF Quiet, NoFalseProvenance
<1>29. QED
  BY <1>1, <1>2, <1>3, <1>4, <1>5, <1>6, <1>7, <1>8, <1>9, <1>10, <1>11, <1>12,
      <1>13, <1>14, <1>15,
     <1>16, <1>17, <1>18, <1>19, <1>20, <1>21, <1>22, <1>23, <1>24, <1>25, <1>26, <1>27, <1>28 DEF Next, Reconcile

LEMMA InitInv == Init => IInv
<1> SUFFICES ASSUME Init PROVE IInv
  OBVIOUS
<1>1. NoFalseProvenance
  BY ConstantsAssumption DEF Init, NoFalseProvenance, NoStatus
<1>2. ASSUME NEW l \in LBC PROVE LbcInv(l)
  <2>1. /\ pc[l] = "idle" /\ task[l] = NoTask /\ st[l].lb = None
        /\ NoTask.pin = None /\ NoTask.lb = None /\ NoTask.target = None
        /\ NoTask.ours = FALSE
    BY DEF Init, NoStatus, NoTask
  <2>2. QED
    BY <2>1, ConstantsAssumption
    DEF LbcInv, TargetKnown, AdoptionKnown, PinKnown, OursKnown, Making
<1>3. QED
  BY <1>1, <1>2, TypeInit DEF IInv

LEMMA IInvariant == OneWayPins /\ Spec => []IInv
<1>1. OneWayPins /\ IInv /\ [Next]_vars => IInv'
  BY TypeStep, StepInv DEF IInv
<1>2. CASE ~OneWayPins
  BY <1>2
<1>3. CASE OneWayPins
  BY <1>1, <1>3, InitInv, PTL DEF Spec
<1>4. QED
  BY <1>2, <1>3

\* deployTags and statusSetCreatedLoadBalancerId: no tag and no status ever
\* claims that this cluster created a load balancer the user brought.
THEOREM ProvenanceHolds == OneWayPins /\ Spec => []NoFalseProvenance
<1>1. IInv => NoFalseProvenance
  BY DEF IInv
<1>2. QED
  BY <1>1, IInvariant, PTL

\* createdByThisCluster, deleteLoadBalancer: while the pin is only ever removed,
\* or only ever moved, no reconcile deletes a load balancer the user brought.
THEOREM UserLbSafe == OneWayPins /\ Spec => UserLbNeverDeleted
<1> DEFINE Kept == \A u \in UserLB : lbs[u] = "active" => lbs'[u] = "active"
<1>1. ASSUME TypeOK, IInv, [Next]_vars PROVE Kept
  <2>t. lbs \in [LB -> {"absent", "building", "active", "error", "gone"}]
    BY <1>1 DEF TypeOK, CloudType
  <2>u. UserLB \subseteq LB
    BY ConstantsAssumption
  <2>g. ASSUME NEW b \in LB \ UserLB, Gone(b) PROVE Kept
    BY <2>t, <2>u, <2>g DEF Gone
  <2>1. CASE UNCHANGED lbs
    BY <2>1
  <2>2. ASSUME NEW l \in LBC, CreateLoadBalancer(l) PROVE Kept
    BY <2>2, <2>t, <2>u DEF CreateLoadBalancer
  <2>3. ASSUME NEW l \in LBC, DiscardLb(l) PROVE Kept
    <3>1. task[l].target \in LB \ UserLB
      BY <1>1, <2>3 DEF IInv, LbcInv, TargetKnown, Making, DiscardLb
    <3>2. QED
      BY <2>3, <2>g, <3>1 DEF DiscardLb
  <2>4. ASSUME NEW l \in LBC, DeleteLoadBalancer(l) PROVE Kept
    <3>1. task[l].lb \in LB \ UserLB
      BY <1>1, <2>4 DEF IInv, LbcInv, OursKnown, DeleteLoadBalancer
    <3>2. QED
      BY <2>4, <2>g, <3>1 DEF DeleteLoadBalancer, cloud
  <2>5. ASSUME NEW b \in LB, Settle(b) PROVE Kept
    BY <2>5, <2>t, <2>u DEF Settle
  <2>6. ASSUME NEW l \in LBC, Reconcile(l), ~CreateLoadBalancer(l), ~DiscardLb(l),
               ~DeleteLoadBalancer(l)
        PROVE  UNCHANGED lbs
    BY <2>6 DEF Reconcile, Begin, Lock, DeployLoadBalancer, SetAdopted, SetCreated,
       AddLoadBalancerId, WaitForLBActive, ForgetLb, Park, Clear, EnsureExist,
       DeployTags, Put, Record, TeardownRetiring, Unpark, Decide, Strip, CheckEmpty,
       Finish, cloud
  <2>7. ASSUME NEW l \in LBC, Fault(l) \/ EditPin(l) \/ Delete(l) PROVE UNCHANGED lbs
    BY <2>7 DEF Fault, EditPin, Delete, cloud
  <2>8. CASE UNCHANGED vars
    BY <2>8 DEF vars, cloud
  <2>9. QED
    BY <1>1, <2>1, <2>2, <2>3, <2>4, <2>5, <2>6, <2>7, <2>8 DEF Next
<1>2. OneWayPins /\ Spec => [](TypeOK /\ IInv)
  BY IInvariant, TypeCorrect, PTL
<1>3. TypeOK /\ IInv /\ [Next]_vars => [Kept]_vars
  BY <1>1
<1>4. QED
  BY <1>2, <1>3, PTL DEF Spec, UserLbNeverDeleted

-----------------------------------------------------------------------------
(* Mutual exclusion.  No load balancer that serves is deleted, and no two     *)
(* LBCs write one at a time, as long as no LBC is deleted while a migration   *)
(* of it is due: its reconcile would hold the mutex of the new load balancer  *)
(* and take the old one down.                                                 *)

\* The load balancer of l is the one it is pinned to, if it is pinned, and its
\* running reconcile has read that pin.
Aligned(l) ==
  pin[l] # None => /\ st[l].lb \in {None, pin[l]}
                   /\ pc[l] # "idle" => task[l].pin = pin[l]

\* No LBC is deleted while a migration of it is due.
DeletedAligned == \A l \in LBC : phase[l] = "live" /\ phase'[l] # "live" => Aligned(l)

\* What is shown of any behaviour, and of those in which DeletedAligned holds.
Regime == {"any", "aligned"}
InLine(g, l) == g = "aligned" => Aligned(l)

Deployed == {"ensureExist", "tags", "put", "record"}
Closing == {"lockDelete", "decide", "strip", "checkEmpty", "deleteLb", "finish"}
Waiting == {"idle", "lockEnsure", "lockDelete"}

\* l may come to b: the user's, its own, one whose LBC has been served, or gone.
Known(l, b) ==
  b # None => /\ b \in LB /\ lbs[b] # "absent"
              /\ b \in UserLB \/ maker[b] = l \/ served[maker[b]] \/ lbs[b] = "gone"

Acquainted(l) ==
  /\ Known(l, pin[l]) /\ Known(l, st[l].lb)
  /\ Known(l, task[l].pin) /\ Known(l, task[l].lb) /\ Known(l, task[l].target)

\* The pass works on a load balancer it has created, without a mutex.
Creating(l) ==
  \/ pc[l] \in Making
  \/ pc[l] \in Deployed /\ task[l].lb = None /\ task[l].pin = None /\ ~task[l].requeue

\* Nobody else is on a load balancer that is being created.
Alone(l) ==
  Creating(l) =>
    LET b == task[l].target
    IN /\ b \in LB \ UserLB /\ maker[b] = l /\ lbs[b] \notin {"gone", "absent"}
       /\ on[b] \subseteq {l}

\* Which load balancer a reconcile is about, and whose mutex it holds.
Shape(g, l) ==
  /\ pc[l] = "idle" => task[l] = NoTask
  /\ pc[l] \in Making \cup {"create"} =>
       task[l].lb = None /\ task[l].pin = None /\ ~task[l].requeue
  /\ pc[l] \in {"lockEnsure", "resolve"} => task[l].target = None /\ ~task[l].requeue
  /\ pc[l] \in Deployed \cup {"adopt", "migrateAdopt", "park", "clear"} => task[l].target # None
  /\ pc[l] \in {"adopt", "migrateAdopt", "park", "clear"} => task[l].requeue
  /\ pc[l] \in {"put", "record"} => ~task[l].requeue
  /\ pc[l] \in Deployed /\ ~task[l].requeue =>
       /\ task[l].lb = None \/ task[l].target = task[l].lb
       /\ task[l].pin \in {None, task[l].lb}
  /\ task[l].pin # None /\ task[l].target # None => task[l].target = task[l].pin
  /\ pc[l] \in {"tags", "put", "record"} => st[l].lb = task[l].target
  /\ pc[l] \in {"retire", "unpark"} /\ task[l].target # None => st[l].lb = task[l].target
  /\ pc[l] \in Closing => task[l].target = None
  /\ pc[l] \in Closing \/ (pc[l] \in {"retire", "unpark"} /\ task[l].target = None) =>
       /\ phase[l] = "deleting"
       /\ g = "aligned" /\ task[l].lb # None => task[l].pin \in {None, task[l].lb}
  /\ pc[l] \in {"strip", "checkEmpty", "deleteLb"} => task[l].lb # None
  /\ served[l] => st[l].lb # None /\ (pc[l] # "idle" => task[l].lb # None)
  /\ phase[l] # "live" => InLine(g, l)
  /\ pc[l] \notin Waiting /\ GetLoadBalancerID(l) # None => lock[GetLoadBalancerID(l)] = l

\* What is to be deleted carries nothing of others.
Vacated(l) ==
  pc[l] = "deleteLb" /\ task[l].pin \in {None, task[l].lb} => on[task[l].lb] \subseteq {l}

\* A load balancer that was created here bears the name of its maker's spec.
Makers ==
  \A b \in LB \ UserLB : lbs[b] # "absent" => maker[b] \in LBC /\ name[b] \subseteq {maker[b]}

MutexInv(g) ==
  Makers /\ \A l \in LBC : Acquainted(l) /\ Alone(l) /\ Shape(g, l) /\ Vacated(l)

\* What a step of l leaves of the others.
Frame(l) ==
  \A k \in LBC \ {l} :
    /\ pc'[k] = pc[k] /\ task'[k] = task[k] /\ st'[k] = st[k] /\ pin'[k] = pin[k]
    /\ phase'[k] = phase[k] /\ served'[k] = served[k] /\ booked'[k] = booked[k]
    /\ \A b \in LB : lock[b] = k => lock'[b] = k

Turn(l) == Reconcile(l) \/ Fault(l) \/ EditPin(l) \/ Delete(l)

LEMMA ReturnFrame ==
  ASSUME TypeOK, NEW l \in LBC, Return(l)
  PROVE  \A k \in LBC \ {l} : /\ pc'[k] = pc[k] /\ task'[k] = task[k]
                              /\ \A b \in LB : lock[b] = k => lock'[b] = k
BY DEF Return, TypeOK, RunType

LEMMA GotoFrame ==
  ASSUME TypeOK, NEW l \in LBC, NEW p, Goto(l, p)
  PROVE  \A k \in LBC \ {l} : /\ pc'[k] = pc[k] /\ task'[k] = task[k]
                              /\ \A b \in LB : lock[b] = k => lock'[b] = k
BY DEF Goto, TypeOK, RunType

\* A step of l changes nothing of the others, nor takes a mutex of theirs.
LEMMA Frames == ASSUME TypeOK, NEW l \in LBC, Turn(l) PROVE Frame(l)
<1> DEFINE Runs == \A k \in LBC \ {l} : /\ pc'[k] = pc[k] /\ task'[k] = task[k]
                                        /\ \A b \in LB : lock[b] = k => lock'[b] = k
           Rest == \A k \in LBC \ {l} :
                     /\ st'[k] = st[k] /\ pin'[k] = pin[k] /\ phase'[k] = phase[k]
                     /\ served'[k] = served[k] /\ booked'[k] = booked[k]
<1>g. ASSUME NEW p, Goto(l, p) PROVE Runs
  BY <1>g, GotoFrame
<1>r. ASSUME Return(l) PROVE Runs
  BY <1>r, ReturnFrame
<1> HIDE DEF Runs
<1>1. CASE Begin(l) \/ Lock(l)
  <2>1. Runs
    BY <1>1, ConstantsAssumption DEF Runs, Begin, Lock, TypeOK, RunType
  <2>2. Rest
    BY <1>1 DEF Begin, Lock, object, history
  <2> QED
    BY <2>1, <2>2 DEF Frame, Runs
<1>2. CASE DeployLoadBalancer(l)
  <2>1. \E p, b, r : Choose(l, p, b, r) /\ UNCHANGED lock
    BY <1>2 DEF DeployLoadBalancer
  <2>2. Runs
    BY <2>1 DEF Runs, Choose, TypeOK, RunType
  <2>3. Rest
    BY <1>2 DEF DeployLoadBalancer, object, history
  <2> QED
    BY <2>2, <2>3 DEF Frame, Runs
<1>3. CASE SetAdopted(l) \/ SetCreated(l) \/ AddLoadBalancerId(l) \/ ForgetLb(l) \/ Park(l)
           \/ Clear(l)
  <2>1. Runs
    BY <1>3, <1>g DEF SetAdopted, SetCreated, AddLoadBalancerId, ForgetLb, Park, Clear
  <2>2. Rest
    BY <1>3 DEF SetAdopted, SetCreated, AddLoadBalancerId, ForgetLb, Park, Clear, object, history,
       TypeOK
  <2> QED
    BY <2>1, <2>2 DEF Frame, Runs
<1>4. CASE CreateLoadBalancer(l)
  <2>1. CASE Return(l)
    BY <1>4, <2>1, <1>r DEF CreateLoadBalancer, object, history, Frame, Runs
  <2>2. CASE ~Return(l)
    <3>1. PICK b \in LB : /\ pc' = [pc EXCEPT ![l] = "recordCreated"]
                          /\ task' = [task EXCEPT ![l].target = b] /\ UNCHANGED lock
      BY <1>4, <2>2 DEF CreateLoadBalancer
    <3>2. Runs
      BY <3>1 DEF Runs, TypeOK, RunType
    <3> QED
      BY <1>4, <3>2 DEF CreateLoadBalancer, object, history, Frame, Runs
  <2> QED
    BY <2>1, <2>2
<1>5. CASE WaitForLBActive(l) \/ DiscardLb(l) \/ DeployTags(l) \/ Put(l) \/ TeardownRetiring(l)
           \/ Strip(l) \/ CheckEmpty(l) \/ DeleteLoadBalancer(l)
  <2>1. Runs
    BY <1>5, <1>g, <1>r DEF WaitForLBActive, DiscardLb, DeployTags, Put, TeardownRetiring,
       Strip, CheckEmpty, DeleteLoadBalancer
  <2>2. Rest
    BY <1>5 DEF WaitForLBActive, DiscardLb, DeployTags, Put, TeardownRetiring,
       Strip, CheckEmpty, DeleteLoadBalancer, object, history
  <2> QED
    BY <2>1, <2>2 DEF Frame, Runs
<1>6. CASE EnsureExist(l) \/ Record(l) \/ Unpark(l)
  <2>1. Runs
    BY <1>6, <1>g, <1>r DEF EnsureExist, Record, Unpark
  <2>2. Rest
    BY <1>6 DEF EnsureExist, Record, Unpark, object, history, TypeOK, HistoryType
  <2> QED
    BY <2>1, <2>2 DEF Frame, Runs
<1>7. CASE Decide(l)
  <2>1. CASE Goto(l, "finish")
    BY <1>7, <2>1, <1>g DEF Decide, object, history, Frame, Runs
  <2>2. CASE ~Goto(l, "finish")
    <3>1. PICK p, r : pc' = [pc EXCEPT ![l] = p] /\ task' = [task EXCEPT ![l].ours = r] /\ UNCHANGED lock
      BY <1>7, <2>2 DEF Decide
    <3>2. Runs
      BY <3>1 DEF Runs, TypeOK, RunType
    <3> QED
      BY <1>7, <3>2 DEF Decide, object, history, Frame, Runs
  <2> QED
    BY <2>1, <2>2
<1>8. CASE Finish(l) \/ Fault(l)
  <2>1. Runs
    BY <1>8, <1>r DEF Finish, Fault
  <2>2. Rest
    BY <1>8 DEF Finish, Fault, object, history, TypeOK, ObjectType
  <2> QED
    BY <2>1, <2>2 DEF Frame, Runs
<1>9. CASE EditPin(l) \/ Delete(l)
  BY <1>9 DEF EditPin, Delete, object, history, run, TypeOK, ObjectType, Frame
<1> QED
  BY <1>1, <1>2, <1>3, <1>4, <1>5, <1>6, <1>7, <1>8, <1>9 DEF Turn, Reconcile

\* Load balancers come and go once, keep their maker and their name, and an
\* LBC that has been served has been.
Grows ==
  /\ \A b \in LB : /\ lbs[b] # "absent" =>
                        lbs'[b] # "absent" /\ maker'[b] = maker[b] /\ name'[b] = name[b]
                   /\ lbs[b] = "gone" => lbs'[b] = "gone"
  /\ \A k \in LBC : served[k] => served'[k]

\* What a step of l does to the load balancers: only l may come to be on one,
\* by a deploy or by creating it, and one goes by two steps only.
Touches(l) ==
  \A b \in LB :
    /\ on'[b] \subseteq on[b] \cup {l}
    /\ \/ on'[b] \subseteq on[b] \/ lbs[b] = "absent"
       \/ pc[l] = "put" /\ b = task[l].target /\ Exists(b)
    /\ lbs'[b] = "gone" =>
         \/ lbs[b] = "gone"
         \/ pc[l] = "discardLb" /\ b = task[l].target
         \/ pc[l] = "deleteLb" /\ b = task[l].lb /\ Exists(b)

LEMMA CloudEffect ==
  ASSUME TypeOK, NEW l \in LBC, Turn(l),
         pc[l] = "discardLb" => lbs[task[l].target] # "absent"
  PROVE  Grows /\ Touches(l)
<1>t. /\ lbs \in [LB -> {"absent", "building", "active", "error", "gone"}]
      /\ on \in [LB -> SUBSET Tenant] /\ maker \in [LB -> LBC \cup {None}]
      /\ name \in [LB -> SUBSET LBC] /\ served \in [LBC -> BOOLEAN]
  BY DEF TypeOK, CloudType, HistoryType
<1>s. \A k \in LBC : served[k] => served'[k]
  <2>1. CASE Record(l) \/ Unpark(l)
    BY <1>t, <2>1 DEF Record, Unpark
  <2>2. CASE ~(Record(l) \/ Unpark(l))
    <3>1. UNCHANGED served
      BY <2>2 DEF Turn, Reconcile, Begin, Lock, DeployLoadBalancer, SetAdopted, CreateLoadBalancer,
         SetCreated, AddLoadBalancerId, WaitForLBActive, ForgetLb, DiscardLb, Park, Clear,
         EnsureExist, DeployTags, Put, TeardownRetiring, Decide, Strip, CheckEmpty,
         DeleteLoadBalancer, Finish, Fault, EditPin, Delete, history
    <3> QED
      BY <3>1
  <2> QED
    BY <2>1, <2>2
<1>u. ASSUME UNCHANGED <<lbs, name, on, maker>> PROVE Grows /\ Touches(l)
  BY <1>s, <1>u DEF Grows, Touches
<1>g. ASSUME NEW b, Gone(b),
             \/ pc[l] = "discardLb" /\ b = task[l].target
             \/ pc[l] = "deleteLb" /\ b = task[l].lb /\ Exists(b),
             lbs[b] # "absent"
      PROVE  Grows /\ Touches(l)
  <2>1. /\ \A c \in LB : lbs'[c] = IF c = b THEN "gone" ELSE lbs[c]
        /\ \A c \in LB : on'[c] \subseteq on[c]
        /\ name' = name /\ maker' = maker
    BY <1>t, <1>g DEF Gone
  <2> QED
    BY <1>s, <1>g, <2>1 DEF Grows, Touches
<1>1. CASE CreateLoadBalancer(l)
  <2>1. CASE UNCHANGED <<lbs, name, on, maker>>
    BY <2>1, <1>u
  <2>2. CASE ~UNCHANGED <<lbs, name, on, maker>>
    <3>1. PICK b \in LB \ UserLB, inline \in BOOLEAN :
            /\ lbs[b] = "absent" /\ lbs' = [lbs EXCEPT ![b] = "building"]
            /\ name' = [name EXCEPT ![b] = {l}]
            /\ on' = [on EXCEPT ![b] = IF inline THEN {l} ELSE {}]
            /\ maker' = [maker EXCEPT ![b] = l]
      BY <1>1, <2>2 DEF CreateLoadBalancer
    <3>2. /\ lbs'[b] = "building" /\ on'[b] \subseteq {l}
          /\ \A c \in LB \ {b} : /\ lbs'[c] = lbs[c] /\ name'[c] = name[c] /\ on'[c] = on[c]
                                 /\ maker'[c] = maker[c]
      BY <3>1, <1>t
    <3> QED
      BY <1>s, <3>1, <3>2 DEF Grows, Touches
  <2> QED
    BY <2>1, <2>2
<1>2. CASE Put(l)
  <2>1. CASE UNCHANGED on
    BY <1>2, <2>1, <1>u DEF Put
  <2>2. CASE ~UNCHANGED on
    <3>1. /\ pc[l] = "put" /\ Exists(task[l].target) /\ UNCHANGED <<lbs, name, maker>>
          /\ on' = [on EXCEPT ![task[l].target] = @ \cup {l}]
      BY <1>2, <2>2 DEF Put
    <3>2. \A c \in LB : on'[c] = IF c = task[l].target THEN on[c] \cup {l} ELSE on[c]
      BY <3>1, <1>t
    <3> QED
      BY <1>s, <3>1, <3>2 DEF Grows, Touches
  <2> QED
    BY <2>1, <2>2
<1>3. CASE TeardownRetiring(l) \/ Strip(l)
  <2>1. UNCHANGED <<lbs, name, maker>> /\ \A c \in LB : on'[c] \subseteq on[c]
    BY <1>3, <1>t DEF TeardownRetiring, Strip
  <2> QED
    BY <1>s, <2>1 DEF Grows, Touches
<1>4. CASE DiscardLb(l)
  <2>1. pc[l] = "discardLb" /\ Gone(task[l].target) /\ lbs[task[l].target] # "absent"
    BY <1>4 DEF DiscardLb
  <2> QED
    BY <2>1, <1>g
<1>5. CASE DeleteLoadBalancer(l)
  <2>1. CASE UNCHANGED cloud
    BY <2>1, <1>u DEF cloud
  <2>2. CASE ~UNCHANGED cloud
    <3>1. pc[l] = "deleteLb" /\ Exists(task[l].lb) /\ Gone(task[l].lb)
      BY <1>5, <2>2 DEF DeleteLoadBalancer
    <3> QED
      BY <3>1, <1>g DEF Exists
  <2> QED
    BY <2>1, <2>2
<1>6. CASE ~(CreateLoadBalancer(l) \/ Put(l) \/ TeardownRetiring(l) \/ Strip(l) \/ DiscardLb(l)
             \/ DeleteLoadBalancer(l))
  <2>1. UNCHANGED <<lbs, name, on, maker>>
    BY <1>6 DEF Turn, Reconcile, Begin, Lock, DeployLoadBalancer, SetAdopted, SetCreated,
       AddLoadBalancerId, WaitForLBActive, ForgetLb, Park, Clear, EnsureExist, DeployTags,
       Record, Unpark, Decide, CheckEmpty, Finish, Fault, EditPin, Delete, cloud
  <2> QED
    BY <2>1, <1>u
<1> QED
  BY <1>1, <1>2, <1>3, <1>4, <1>5, <1>6

\* Who may come to a load balancer still may.
LEMMA KnownStays ==
  ASSUME TypeOK, Makers, Grows, NEW k \in LBC, NEW b, Known(k, b)
  PROVE  Known(k, b)'
<1>1. CASE b = None
  BY <1>1 DEF Known
<1>2. CASE b # None
  <2>1. /\ b \in LB /\ lbs[b] # "absent"
        /\ b \in UserLB \/ maker[b] = k \/ served[maker[b]] \/ lbs[b] = "gone"
    BY <1>2 DEF Known
  <2>2. /\ lbs'[b] # "absent" /\ maker'[b] = maker[b] /\ (lbs[b] = "gone" => lbs'[b] = "gone")
    BY <2>1 DEF Grows
  <2>3. b \notin UserLB /\ served[maker[b]] => served'[maker[b]]
    BY <2>1 DEF Grows, Makers
  <2> QED
    BY <2>1, <2>2, <2>3 DEF Known
<1> QED
  BY <1>1, <1>2

\* The mutex of a reconcile is that of a load balancer.
LEMMA KeyKnown ==
  ASSUME NEW g \in Regime, MutexInv(g), NEW k \in LBC
  PROVE  GetLoadBalancerID(k) # None => GetLoadBalancerID(k) \in LB
BY DEF MutexInv, Acquainted, Known, GetLoadBalancerID

\* A creating LBC has not been served, so that nobody else knows what it makes.
LEMMA MakerUnserved ==
  ASSUME NEW g \in Regime, MutexInv(g), NEW k \in LBC, Creating(k), NEW l \in LBC \ {k}, NEW b, b = task[k].target,
         Known(l, b)
  PROVE  FALSE
<1>1. ~served[k]
  BY DEF MutexInv, Creating, Shape, Making, Deployed
<1>2. b \in LB \ UserLB /\ maker[b] = k /\ lbs[b] # "gone"
  BY DEF MutexInv, Alone
<1> QED
  BY <1>1, <1>2, ConstantsAssumption DEF Known

\* A deploy writes a load balancer it makes or one whose mutex it holds.
LEMMA PutHolds ==
  ASSUME NEW g \in Regime, MutexInv(g), NEW l \in LBC, pc[l] = "put"
  PROVE  Creating(l) \/ lock[task[l].target] = l
<1>1. /\ ~task[l].requeue /\ task[l].pin \in {None, task[l].lb}
      /\ task[l].lb = None \/ task[l].target = task[l].lb
  BY DEF MutexInv, Shape, Deployed
<1>2. CASE task[l].lb = None
  BY <1>1, <1>2 DEF Creating, Deployed
<1>3. CASE task[l].lb # None
  <2>1. GetLoadBalancerID(l) = task[l].target /\ task[l].target # None
    BY <1>1, <1>3 DEF GetLoadBalancerID
  <2> QED
    BY <2>1 DEF MutexInv, Shape, Waiting
<1> QED
  BY <1>2, <1>3

\* A deletion writes a load balancer whose mutex it holds, if it is not pinned
\* to another one.
LEMMA CloseHolds ==
  ASSUME NEW g \in Regime, MutexInv(g), NEW l \in LBC, pc[l] \in {"strip", "checkEmpty", "deleteLb"},
         task[l].pin \in {None, task[l].lb}
  PROVE  task[l].lb # None /\ task[l].lb \in LB /\ lock[task[l].lb] = l
<1>1. task[l].lb # None /\ task[l].pin \in {None, task[l].lb}
  BY DEF MutexInv, Shape, Closing
<1>2. GetLoadBalancerID(l) = task[l].lb
  BY <1>1 DEF GetLoadBalancerID
<1> QED
  BY <1>1, <1>2 DEF MutexInv, Shape, Waiting, Acquainted, Known

\* A step of l leaves the others what they rely on.
LEMMA OthersMutex ==
  ASSUME NEW g \in Regime, TypeOK, MutexInv(g), NEW l \in LBC, Frame(l), Grows, Touches(l), NEW k \in LBC \ {l}
  PROVE  Acquainted(k)' /\ Alone(k)' /\ Shape(g, k)' /\ Vacated(k)'
<1>f. /\ pc'[k] = pc[k] /\ task'[k] = task[k] /\ st'[k] = st[k] /\ pin'[k] = pin[k]
      /\ phase'[k] = phase[k] /\ served'[k] = served[k]
      /\ \A b \in LB : lock[b] = k => lock'[b] = k
  BY DEF Frame
<1>1. Acquainted(k)'
  <2>1. /\ Known(k, pin[k])' /\ Known(k, st[k].lb)' /\ Known(k, task[k].pin)'
        /\ Known(k, task[k].lb)' /\ Known(k, task[k].target)'
    <3> SUFFICES ASSUME NEW b, Known(k, b) PROVE Known(k, b)'
      BY <1>f DEF MutexInv, Acquainted
    <3> QED
      BY KnownStays DEF MutexInv
  <2> QED
    BY <1>f, <2>1 DEF Acquainted
<1>2. Shape(g, k)'
  <2>1. GetLoadBalancerID(k)' = GetLoadBalancerID(k)
    BY <1>f DEF GetLoadBalancerID
  <2>2. GetLoadBalancerID(k) # None /\ lock[GetLoadBalancerID(k)] = k =>
          lock'[GetLoadBalancerID(k)] = k
    BY <1>f, KeyKnown
  <2> QED
    BY <1>f, <2>1, <2>2 DEF MutexInv, Shape, InLine, Aligned
<1>3. Alone(k)'
  <2> SUFFICES ASSUME Creating(k)' PROVE Alone(k)'
    BY DEF Alone
  <2>1. Creating(k)
    BY <1>f DEF Creating
  <2>2. PICK b : b = task[k].target
    OBVIOUS
  <2>3. /\ b \in LB \ UserLB /\ maker[b] = k /\ lbs[b] \notin {"gone", "absent"} /\ on[b] \subseteq {k}
    BY <2>1, <2>2 DEF MutexInv, Alone
  <2>4. ~ Known(l, b)
    BY <2>1, <2>2, MakerUnserved
  <2>5. b # task[l].target /\ b # task[l].lb
    BY <2>4 DEF MutexInv, Acquainted
  <2>6. on'[b] \subseteq {k} /\ lbs'[b] \notin {"gone", "absent"} /\ maker'[b] = k
    BY <2>3, <2>5 DEF Grows, Touches
  <2> QED
    BY <1>f, <2>2, <2>3, <2>6 DEF Alone
<1>4. Vacated(k)'
  <2> SUFFICES ASSUME pc[k] = "deleteLb", task[k].pin \in {None, task[k].lb}
               PROVE  on'[task[k].lb] \subseteq {k}
    BY <1>f DEF Vacated
  <2>1. PICK b : b = task[k].lb
    OBVIOUS
  <2>2. b \in LB /\ lock[b] = k /\ on[b] \subseteq {k} /\ lbs[b] # "absent" /\ Known(k, b)
    BY <2>1, CloseHolds DEF MutexInv, Vacated, Acquainted, Known
  <2>3. ASSUME pc[l] = "put", b = task[l].target, Exists(b) PROVE FALSE
    <3>1. ~ Creating(l)
      BY <2>2, <2>3, MakerUnserved
    <3> QED
      BY <2>2, <2>3, <3>1, PutHolds
  <2> QED
    BY <2>1, <2>2, <2>3 DEF Touches
<1> QED
  BY <1>1, <1>2, <1>3, <1>4

Own(g, l) == Acquainted(l) /\ Alone(l) /\ Shape(g, l) /\ Vacated(l)

\* l knows what it knew, and nothing else.
LEMMA OwnKnown ==
  ASSUME NEW g \in Regime, TypeOK, MutexInv(g), Grows, NEW l \in LBC, NEW p, NEW b, NEW tp, NEW tb, NEW tt,
         pin'[l] = p, st'[l].lb = b, task'[l].pin = tp, task'[l].lb = tb, task'[l].target = tt,
         Known(l, p), Known(l, b), Known(l, tp), Known(l, tb), Known(l, tt)
  PROVE  Acquainted(l)'
<1>1. Known(l, p)' /\ Known(l, b)' /\ Known(l, tp)' /\ Known(l, tb)' /\ Known(l, tt)'
  BY KnownStays DEF MutexInv
<1> QED
  BY <1>1 DEF Acquainted

\* The load balancer that l makes is still its own.
LEMMA OwnAlone ==
  ASSUME NEW g \in Regime, MutexInv(g), Grows, NEW l \in LBC, Touches(l),
         Creating(l)' => /\ Creating(l) /\ task'[l].target = task[l].target
                         /\ pc[l] \notin {"discardLb", "deleteLb"}
  PROVE  Alone(l)'
<1> SUFFICES ASSUME Creating(l)' PROVE Alone(l)'
  BY DEF Alone
<1>1. PICK b : b = task[l].target
  OBVIOUS
<1>2. /\ b \in LB \ UserLB /\ maker[b] = l /\ lbs[b] \notin {"gone", "absent"} /\ on[b] \subseteq {l}
  BY <1>1 DEF MutexInv, Alone
<1>3. on'[b] \subseteq {l} /\ lbs'[b] \notin {"gone", "absent"} /\ maker'[b] = l
  BY <1>2 DEF Grows, Touches
<1> QED
  BY <1>1, <1>2, <1>3 DEF Alone

LEMMA NoTaskFields ==
  /\ NoTask.pin = None /\ NoTask.lb = None /\ NoTask.target = None /\ NoTask.requeue = FALSE
BY DEF NoTask

\* A reconcile that ends leaves a status that agrees with the pin.
LEMMA OwnReturn ==
  ASSUME NEW g \in Regime, TypeOK, MutexInv(g), Grows, NEW l \in LBC, Return(l), UNCHANGED pin,
         st'[l].lb = st[l].lb, served'[l] => st[l].lb # None,
         phase'[l] # "live" => phase[l] # "live"
  PROVE  Own(g, l)'
<1>1. pc'[l] = "idle" /\ task'[l] = NoTask
  BY ReturnView DEF TypeOK
<1>2. Acquainted(l)'
  <2>1. Known(l, pin[l]) /\ Known(l, st[l].lb) /\ Known(l, None)
    BY DEF MutexInv, Acquainted, Known
  <2> QED
    BY <1>1, <2>1, NoTaskFields, OwnKnown
<1>3. Alone(l)' /\ Vacated(l)'
  BY <1>1 DEF Alone, Creating, Making, Deployed, Vacated
<1>4. Shape(g, l)'
  <2>1. phase'[l] # "live" => InLine(g, l)'
    BY <1>1 DEF MutexInv, Shape, InLine, Aligned
  <2> QED
    BY <1>1, <2>1, NoTaskFields DEF Shape, Making, Deployed, Closing, Waiting
<1> QED
  BY <1>2, <1>3, <1>4 DEF Own

\* A step on the way, after which the same load balancers are known.
LEMMA OwnGoto ==
  ASSUME NEW g \in Regime, TypeOK, MutexInv(g), Grows, NEW l \in LBC, Touches(l), NEW p, Goto(l, p), UNCHANGED pin,
         st'[l].lb \in {st[l].lb, task[l].target, None}, Shape(g, l)', Vacated(l)',
         Creating(l)' => Creating(l) /\ pc[l] \notin {"discardLb", "deleteLb"}
  PROVE  Own(g, l)'
<1>1. pc'[l] = p /\ task'[l] = task[l]
  BY GotoView DEF TypeOK
<1>2. Acquainted(l)'
  <2>1. Known(l, pin[l]) /\ Known(l, st'[l].lb) /\ Known(l, task[l].pin) /\ Known(l, task[l].lb)
        /\ Known(l, task[l].target)
    BY DEF MutexInv, Acquainted, Known
  <2>2. PICK b : b = st'[l].lb
    OBVIOUS
  <2> QED
    BY <1>1, <2>1, <2>2, OwnKnown
<1>3. Alone(l)'
  BY <1>1, OwnAlone
<1> QED
  BY <1>2, <1>3 DEF Own

\* The object is read: what the pass knows is what spec and status say.
LEMMA BeginMutex ==
  ASSUME NEW g \in Regime, TypeOK, MutexInv(g), Grows, NEW l \in LBC, Begin(l) PROVE Own(g, l)'
<1>1. /\ pc[l] = "idle" /\ phase[l] # "gone" /\ UNCHANGED <<pin, phase, st, served>>
      /\ pc'[l] = IF phase[l] = "live" THEN "lockEnsure" ELSE "lockDelete"
      /\ task'[l].pin = pin[l] /\ task'[l].lb = st[l].lb /\ task'[l].target = None
      /\ task'[l].requeue = FALSE
  BY DEF Begin, TypeOK, RunType, NoTask, object, history
<1>2. Acquainted(l)'
  <2>1. Known(l, pin[l]) /\ Known(l, st[l].lb) /\ Known(l, None)
    BY DEF MutexInv, Acquainted, Known
  <2> QED
    BY <1>1, <2>1, OwnKnown
<1>3. Alone(l)' /\ Vacated(l)'
  BY <1>1 DEF Alone, Creating, Making, Deployed, Vacated
<1>4. phase[l] # "live" => phase[l] = "deleting" /\ InLine(g, l)
  BY <1>1 DEF TypeOK, ObjectType, MutexInv, Shape
<1>5. Shape(g, l)'
  <2>1. CASE phase[l] = "live"
    BY <1>1, <2>1 DEF MutexInv, Shape, Making, Deployed, Closing, Waiting
  <2>2. CASE phase[l] # "live"
    BY <1>1, <1>4, <2>2 DEF MutexInv, Shape, InLine, Aligned, Making, Deployed, Closing, Waiting
  <2> QED
    BY <2>1, <2>2
<1> QED
  BY <1>2, <1>3, <1>5 DEF Own

\* The mutex is taken.
LEMMA LockMutex ==
  ASSUME NEW g \in Regime, TypeOK, MutexInv(g), Grows, NEW l \in LBC, Lock(l) PROVE Own(g, l)'
<1>1. /\ \/ pc[l] = "lockEnsure" /\ pc'[l] = "resolve"
         \/ pc[l] = "lockDelete" /\ pc'[l] \in {"retire", "decide"}
      /\ UNCHANGED <<pin, phase, st, served, task>>
      /\ GetLoadBalancerID(l) \in LB => lock'[GetLoadBalancerID(l)] = l
  BY DEF Lock, TypeOK, RunType, object, history
<1>2. GetLoadBalancerID(l)' = GetLoadBalancerID(l)
  BY <1>1 DEF GetLoadBalancerID
<1>3. Acquainted(l)'
  <2>1. /\ Known(l, pin[l]) /\ Known(l, st[l].lb) /\ Known(l, task[l].pin) /\ Known(l, task[l].lb)
        /\ Known(l, task[l].target)
    BY DEF MutexInv, Acquainted
  <2> QED
    BY <1>1, <2>1, OwnKnown
<1>4. Alone(l)' /\ Vacated(l)'
  BY <1>1 DEF Alone, Creating, Making, Deployed, Vacated
<1>5. Shape(g, l)'
  BY <1>1, <1>2, KeyKnown DEF MutexInv, Shape, InLine, Aligned, Making, Deployed, Closing, Waiting
<1> QED
  BY <1>3, <1>4, <1>5 DEF Own

\* deployLoadBalancer has chosen a load balancer that l may come to.
LEMMA ChooseMutex ==
  ASSUME NEW g \in Regime, TypeOK, MutexInv(g), Grows, NEW l \in LBC, NEW p, NEW b, NEW r \in BOOLEAN,
         Choose(l, p, b, r), pc[l] = "resolve", UNCHANGED <<pin, phase, st, served, lock>>,
         Known(l, b),
         \/ p \in {"adopt", "migrateAdopt"} /\ b # None /\ task[l].pin \in {None, b} /\ r
         \/ p = "ensureExist" /\ b = task[l].lb /\ b # None /\ task[l].pin \in {None, b} /\ ~r
         \/ p = "create" /\ b = None /\ task[l].lb = None /\ task[l].pin = None /\ ~r
  PROVE  Own(g, l)'
<1>1. /\ pc'[l] = p /\ task'[l] = [task[l] EXCEPT !.target = b, !.requeue = r]
      /\ task[l] \in TaskType
  BY DEF Choose, TypeOK, RunType
<1>2. PICK t \in TaskType : t = task[l]
  BY <1>1
<1>3. /\ task'[l].pin = t.pin /\ task'[l].lb = t.lb /\ task'[l].target = b /\ task'[l].requeue = r
  BY <1>1, <1>2 DEF TaskType
<1>4. Acquainted(l)'
  <2>1. Known(l, pin[l]) /\ Known(l, st[l].lb) /\ Known(l, t.pin) /\ Known(l, t.lb)
    BY <1>2 DEF MutexInv, Acquainted
  <2> QED
    BY <1>3, <2>1, OwnKnown
<1>5. Alone(l)' /\ Vacated(l)'
  BY <1>1, <1>2, <1>3 DEF Alone, Creating, Making, Deployed, Vacated
<1>6. Shape(g, l)'
  <2>1. GetLoadBalancerID(l)' = GetLoadBalancerID(l)
    BY <1>2, <1>3 DEF GetLoadBalancerID
  <2>2. /\ served[l] => st[l].lb # None /\ t.lb # None
        /\ phase[l] # "live" => InLine(g, l)
        /\ GetLoadBalancerID(l) # None => lock[GetLoadBalancerID(l)] = l
    BY <1>2 DEF MutexInv, Shape, Waiting
  <2>3. phase'[l] # "live" => InLine(g, l)'
    BY <1>1, <1>2, <1>3, <2>2 DEF InLine, Aligned
  <2> QED
    BY <1>1, <1>2, <1>3, <2>1, <2>2, <2>3 DEF Shape, Making, Deployed, Closing
<1> QED
  BY <1>4, <1>5, <1>6 DEF Own

LEMMA DeployMutex ==
  ASSUME NEW g \in Regime, TypeOK, MutexInv(g), Grows, NEW l \in LBC, DeployLoadBalancer(l) PROVE Own(g, l)'
<1>1. pc[l] = "resolve" /\ UNCHANGED <<pin, phase, st, served, lock>>
  BY DEF DeployLoadBalancer, object, history
<1>2. Known(l, task[l].pin) /\ Known(l, task[l].lb) /\ Known(l, None)
  BY DEF MutexInv, Acquainted, Known
<1>3. CASE task[l].lb # None /\ task[l].pin # None /\ task[l].pin # task[l].lb
  <2>1. Choose(l, "migrateAdopt", task[l].pin, TRUE)
    BY <1>3 DEF DeployLoadBalancer
  <2> QED
    BY <1>1, <1>2, <1>3, <2>1, ChooseMutex
<1>4. CASE task[l].lb # None /\ (task[l].pin = None \/ task[l].pin = task[l].lb)
  <2>1. Choose(l, "ensureExist", task[l].lb, FALSE)
    BY <1>4 DEF DeployLoadBalancer
  <2> QED
    BY <1>1, <1>2, <1>4, <2>1, ChooseMutex
<1>5. CASE task[l].lb = None /\ task[l].pin # None
  <2>1. Choose(l, "adopt", task[l].pin, TRUE)
    BY <1>5 DEF DeployLoadBalancer
  <2> QED
    BY <1>1, <1>2, <1>5, <2>1, ChooseMutex
<1>6. CASE task[l].lb = None /\ task[l].pin = None
  <2>1. CASE Choose(l, "create", None, FALSE)
    BY <1>1, <1>2, <1>6, <2>1, ChooseMutex
  <2>2. CASE ~Choose(l, "create", None, FALSE)
    <3>1. PICK b \in LB : Exists(b) /\ l \in name[b] /\ Choose(l, "adopt", b, TRUE)
      BY <1>6, <2>2 DEF DeployLoadBalancer
    <3>2. b # None /\ Known(l, b)
      BY <3>1, ConstantsAssumption DEF Known, Exists, MutexInv, Makers
    <3> QED
      BY <1>1, <1>6, <3>1, <3>2, ChooseMutex
  <2> QED
    BY <2>1, <2>2
<1> QED
  BY <1>3, <1>4, <1>5, <1>6

\* A load balancer is created: nobody else knows it, or may.
LEMMA CreateMutex ==
  ASSUME NEW g \in Regime, TypeOK, MutexInv(g), Grows, NEW l \in LBC, Touches(l), CreateLoadBalancer(l) PROVE Own(g, l)'
<1>1. CASE Return(l)
  <2>1. UNCHANGED <<pin, phase, st, served>> /\ (served[l] => st[l].lb # None)
    BY DEF CreateLoadBalancer, object, history, MutexInv, Shape
  <2> QED
    BY <1>1, <2>1, OwnReturn
<1>2. CASE ~Return(l)
  <2>1. PICK b \in LB \ UserLB, inline \in BOOLEAN :
          /\ lbs[b] = "absent" /\ lbs' = [lbs EXCEPT ![b] = "building"]
          /\ on' = [on EXCEPT ![b] = IF inline THEN {l} ELSE {}]
          /\ maker' = [maker EXCEPT ![b] = l]
          /\ pc' = [pc EXCEPT ![l] = "recordCreated"]
          /\ task' = [task EXCEPT ![l].target = b]
    BY <1>2 DEF CreateLoadBalancer
  <2>2. /\ pc[l] = "create" /\ UNCHANGED <<pin, phase, st, served, lock>>
    BY <1>2 DEF CreateLoadBalancer, object, history
  <2>3. /\ lbs'[b] = "building" /\ maker'[b] = l /\ on'[b] \subseteq {l}
        /\ pc'[l] = "recordCreated" /\ task'[l] = [task[l] EXCEPT !.target = b]
        /\ task[l] \in TaskType
    BY <2>1 DEF TypeOK, CloudType, RunType
  <2>4. PICK t \in TaskType : t = task[l]
    BY <2>3
  <2>5. /\ task'[l].pin = t.pin /\ task'[l].lb = t.lb /\ task'[l].target = b
        /\ task'[l].requeue = t.requeue
    BY <2>3, <2>4 DEF TaskType
  <2>6. /\ t.pin = None /\ t.lb = None /\ ~t.requeue /\ (served[l] => st[l].lb # None /\ t.lb # None)
        /\ phase[l] # "live" => InLine(g, l)
    BY <2>2, <2>4 DEF MutexInv, Shape
  <2>7. Acquainted(l)'
    <3>0. PICK p, q : p = pin[l] /\ q = st[l].lb
      OBVIOUS
    <3>1. Known(l, p)' /\ Known(l, q)'
      <4>1. Known(l, p) /\ Known(l, q)
        BY <3>0 DEF MutexInv, Acquainted
      <4> QED
        BY <4>1, KnownStays DEF MutexInv
    <3>2. Known(l, b)' /\ Known(l, None)'
      BY <2>3 DEF Known
    <3> QED
      BY <2>2, <2>5, <2>6, <3>0, <3>1, <3>2 DEF Acquainted
  <2>8. Alone(l)' /\ Vacated(l)'
    BY <2>3, <2>5 DEF Alone, Vacated
  <2>9. Shape(g, l)'
    <3>1. phase'[l] # "live" => InLine(g, l)'
      BY <2>2, <2>3, <2>4, <2>5, <2>6 DEF InLine, Aligned
    <3>2. GetLoadBalancerID(l)' = None
      BY <2>5, <2>6 DEF GetLoadBalancerID
    <3> QED
      BY <2>2, <2>3, <2>5, <2>6, <3>1, <3>2 DEF Shape, Making, Deployed, Closing
  <2> QED
    BY <2>7, <2>8, <2>9 DEF Own
<1> QED
  BY <1>1, <1>2

\* The steps from one call to the next: where the pass is and where it goes,
\* and the load balancer id that status holds then.
Moves(l, p, b) ==
  \/ pc[l] \in {"adopt", "clear"} /\ p = "ensureExist" /\ b = st[l].lb
  \/ pc[l] = "migrateAdopt" /\ p = "park" /\ b = st[l].lb
  \/ pc[l] = "park" /\ p = "clear" /\ b = st[l].lb
  \/ pc[l] = "recordCreated" /\ p = "recordLb" /\ b = st[l].lb
  \/ pc[l] = "recordLb" /\ p = "waitActive" /\ b = task[l].target
  \/ pc[l] = "waitActive" /\ p \in {"ensureExist", "forgetLb"} /\ b = st[l].lb
  \/ pc[l] = "forgetLb" /\ p = "discardLb" /\ b = None
  \/ pc[l] = "ensureExist" /\ p = "tags" /\ b = task[l].target
  \/ pc[l] = "tags" /\ p = "put" /\ b = st[l].lb /\ ~task[l].requeue
  \/ pc[l] = "put" /\ p = "record" /\ b = st[l].lb
  \/ pc[l] = "record" /\ p = "retire" /\ b = st[l].lb
  \/ pc[l] = "retire" /\ p = "unpark" /\ b = st[l].lb
  \/ pc[l] = "unpark" /\ p = "decide" /\ b = st[l].lb /\ task[l].target = None
  \/ pc[l] \in {"decide", "deleteLb"} /\ p = "finish" /\ b = st[l].lb
  \/ pc[l] = "strip" /\ p = "checkEmpty" /\ b = st[l].lb
  \/ pc[l] = "checkEmpty" /\ p = "finish" /\ b = st[l].lb
  \/ pc[l] = "checkEmpty" /\ p = "deleteLb" /\ b = st[l].lb /\ on'[task[l].lb] \subseteq {l}

LEMMA MoveMutex ==
  ASSUME NEW g \in Regime, TypeOK, MutexInv(g), Grows, NEW l \in LBC, Touches(l), NEW p, Goto(l, p), NEW b,
         Moves(l, p, b), st'[l].lb = b, UNCHANGED <<pin, phase, served>>
  PROVE  Own(g, l)'
<1>1. /\ pc'[l] = p /\ task'[l] = task[l] /\ lock' = lock
      /\ GetLoadBalancerID(l)' = GetLoadBalancerID(l)
  BY GotoView DEF Goto, TypeOK, GetLoadBalancerID
<1>2. Shape(g, l)
  BY DEF MutexInv
<1>m. pc[l] \in Making => task[l].target # None
  BY ConstantsAssumption DEF MutexInv, Alone, Creating
<1>3. b \in {st[l].lb, task[l].target, None}
  BY DEF Moves
<1>4. /\ served'[l] => st'[l].lb # None /\ task'[l].lb # None
      /\ phase'[l] # "live" => InLine(g, l)'
      /\ pc'[l] \notin Waiting /\ pc[l] \notin Waiting
      /\ GetLoadBalancerID(l) # None => lock[GetLoadBalancerID(l)] = l
  <2>1. pc[l] \notin Waiting /\ p \notin Waiting
    BY DEF Moves, Waiting
  <2>2. served[l] => b # None /\ task[l].lb # None
    BY <1>2, <1>m, <2>1 DEF Shape, Moves, Waiting, Making, Deployed
  <2>3. phase[l] # "live" => InLine(g, l)'
    <3>1. g = "aligned" /\ phase[l] # "live" /\ pin[l] # None => task[l].pin = pin[l] /\ st[l].lb \in {None, pin[l]}
      BY <1>2, <2>1 DEF Shape, InLine, Aligned, Waiting
    <3>2. task[l].pin # None => task[l].target \in {None, task[l].pin}
      BY <1>2 DEF Shape
    <3> QED
      BY <1>1, <1>3, <3>1, <3>2 DEF InLine, Aligned
  <2> QED
    BY <1>1, <1>2, <2>1, <2>2, <2>3 DEF Shape
<1>5. Shape(g, l)'
  <2>1. CASE p \in Making \cup Deployed \cup {"park", "clear"}
    BY <1>1, <1>2, <1>m, <1>4, <2>1 DEF Shape, Moves, Making, Deployed, Closing, Waiting
  <2>2. CASE p \notin Making \cup Deployed \cup {"park", "clear"}
    BY <1>1, <1>2, <1>4, <2>2 DEF Shape, Moves, Making, Deployed, Closing, Waiting
  <2> QED
    BY <2>1, <2>2
<1>6. Vacated(l)'
  BY <1>1 DEF Moves, Vacated
<1>7. Creating(l)' => Creating(l) /\ pc[l] \notin {"discardLb", "deleteLb"}
  BY <1>1, <1>2 DEF Shape, Moves, Creating, Making, Deployed
<1> QED
  BY <1>3, <1>5, <1>6, <1>7, OwnGoto

\* deleteLoadBalancer decides to take the load balancer or what is on it.
LEMMA DecideMutex ==
  ASSUME NEW g \in Regime, TypeOK, MutexInv(g), Grows, NEW l \in LBC, Touches(l), Decide(l) PROVE Own(g, l)'
<1>0. pc[l] = "decide" /\ UNCHANGED <<pin, phase, st, served, on>>
  BY DEF Decide, cloud, object, history
<1>1. CASE Goto(l, "finish")
  <2>1. Moves(l, "finish", st[l].lb) /\ st'[l].lb = st[l].lb
    BY <1>0 DEF Moves
  <2> QED
    BY <1>0, <1>1, <2>1, MoveMutex
<1>2. CASE ~Goto(l, "finish")
  <2>0. PICK r, q : r = CreatedByThisCluster(l, task[l].lb) /\ q = CanDeleteWhole(l, task[l].lb)
    OBVIOUS
  <2>1. PICK p \in {"deleteLb", "strip"} :
          /\ pc' = [pc EXCEPT ![l] = p] /\ task' = [task EXCEPT ![l].ours = r] /\ UNCHANGED lock
          /\ task[l].lb # None /\ (p = "deleteLb" => CanDeleteWhole(l, task[l].lb))
    <3>1. /\ pc' = [pc EXCEPT ![l] = IF r /\ q THEN "deleteLb" ELSE "strip"]
          /\ task' = [task EXCEPT ![l].ours = r] /\ UNCHANGED lock /\ task[l].lb # None
      BY <1>2, <2>0 DEF Decide
    <3> QED
      BY <2>0, <3>1
  <2>2. pc'[l] = p /\ task'[l] = [task[l] EXCEPT !.ours = r] /\ task[l] \in TaskType
    BY <2>1 DEF TypeOK, RunType
  <2>3. PICK t \in TaskType : t = task[l]
    BY <2>2
  <2>4. /\ task'[l].pin = t.pin /\ task'[l].lb = t.lb /\ task'[l].target = t.target
        /\ task'[l].requeue = t.requeue
    BY <2>2, <2>3 DEF TaskType
  <2>5. Acquainted(l)'
    <3>1. /\ Known(l, pin[l]) /\ Known(l, st[l].lb) /\ Known(l, t.pin) /\ Known(l, t.lb)
          /\ Known(l, t.target)
      BY <2>3 DEF MutexInv, Acquainted
    <3> QED
      BY <1>0, <2>4, <3>1, OwnKnown
  <2>6. Alone(l)'
    BY <2>2 DEF Alone, Creating, Making, Deployed
  <2>7. Vacated(l)'
    BY <1>0, <2>1, <2>2, <2>3, <2>4 DEF Vacated, CanDeleteWhole
  <2>8. Shape(g, l)'
    <3>1. /\ t.target = None /\ phase[l] = "deleting" /\ t.lb # None
          /\ g = "aligned" => t.pin \in {None, t.lb}
          /\ served[l] => st[l].lb # None
          /\ phase[l] # "live" => InLine(g, l)
          /\ GetLoadBalancerID(l) # None => lock[GetLoadBalancerID(l)] = l
      BY <1>0, <2>1, <2>3 DEF MutexInv, Shape, Closing, Waiting
    <3>2. InLine(g, l)'
      BY <1>0, <2>2, <2>3, <2>4, <3>1 DEF InLine, Aligned
    <3>3. GetLoadBalancerID(l)' = GetLoadBalancerID(l)
      BY <2>3, <2>4 DEF GetLoadBalancerID
    <3> QED
      BY <1>0, <2>1, <2>2, <2>4, <3>1, <3>2, <3>3 DEF Shape, Making, Deployed, Closing, Waiting
  <2> QED
    BY <2>5, <2>6, <2>7, <2>8 DEF Own
<1> QED
  BY <1>1, <1>2

Patch(l) ==
  \/ SetAdopted(l) \/ SetCreated(l) \/ AddLoadBalancerId(l) \/ ForgetLb(l) \/ Park(l) \/ Clear(l)
Call(l) ==
  \/ WaitForLBActive(l) \/ DiscardLb(l) \/ DeployTags(l) \/ Put(l) \/ TeardownRetiring(l)
  \/ Strip(l) \/ CheckEmpty(l) \/ DeleteLoadBalancer(l)
Serve(l) == EnsureExist(l) \/ Record(l) \/ Unpark(l)

\* A status patch or a call ends the pass, or moves it on as Moves says.
LEMMA Strides ==
  ASSUME TypeOK, NEW l \in LBC, Patch(l) \/ Call(l) \/ Serve(l)
  PROVE  \/ Return(l) /\ st'[l].lb = st[l].lb /\ (Record(l) \/ Unpark(l) \/ UNCHANGED served)
         \/ /\ UNCHANGED served
            /\ \E p, b : Goto(l, p) /\ Moves(l, p, b) /\ st'[l].lb = b
<1>1. st \in [LBC -> StatusType] /\ st[l] \in StatusType
  BY DEF TypeOK
<1>2. \A b : /\ [st[l] EXCEPT !.res = b].lb = st[l].lb
             /\ [st[l] EXCEPT !.retiring = b].lb = st[l].lb
             /\ [st[l] EXCEPT !.created = b].lb = st[l].lb
             /\ [st[l] EXCEPT !.adopted = b].lb = st[l].lb
             /\ [st[l] EXCEPT !.lb = b].lb = b
  BY <1>1, StatusUpdates
<1>3. CASE Patch(l)
  <2>0. UNCHANGED served
    BY <1>3 DEF Patch, SetAdopted, SetCreated, AddLoadBalancerId, ForgetLb, Park, Clear, history
  <2>1. CASE SetAdopted(l) /\ pc[l] = "adopt"
    <3>1. Goto(l, "ensureExist") /\ st'[l].lb = st[l].lb /\ Moves(l, "ensureExist", st[l].lb)
      BY <1>1, <1>2, <2>1 DEF SetAdopted, Moves
    <3> QED
      BY <2>0, <3>1
  <2>2. CASE SetAdopted(l) /\ pc[l] = "migrateAdopt"
    <3>1. Goto(l, "park") /\ st'[l].lb = st[l].lb /\ Moves(l, "park", st[l].lb)
      BY <1>1, <1>2, <2>2 DEF SetAdopted, Moves
    <3> QED
      BY <2>0, <3>1
  <2>3. CASE SetCreated(l)
    <3>1. Goto(l, "recordLb") /\ st'[l].lb = st[l].lb /\ Moves(l, "recordLb", st[l].lb)
      BY <1>1, <1>2, <2>3 DEF SetCreated, Moves
    <3> QED
      BY <2>0, <3>1
  <2>4. CASE AddLoadBalancerId(l)
    <3>1. /\ Goto(l, "waitActive") /\ st'[l].lb = task[l].target
          /\ Moves(l, "waitActive", task[l].target)
      BY <1>1, <1>2, <2>4 DEF AddLoadBalancerId, Moves
    <3> QED
      BY <2>0, <3>1
  <2>5. CASE ForgetLb(l)
    <3>1. Goto(l, "discardLb") /\ st'[l].lb = None /\ Moves(l, "discardLb", None)
      BY <1>1, <1>2, <2>5 DEF ForgetLb, Moves
    <3> QED
      BY <2>0, <3>1
  <2>6. CASE Park(l)
    <3>1. Goto(l, "clear") /\ st'[l].lb = st[l].lb /\ Moves(l, "clear", st[l].lb)
      BY <1>1, <1>2, <2>6 DEF Park, Moves
    <3> QED
      BY <2>0, <3>1
  <2>7. CASE Clear(l)
    <3>1. Goto(l, "ensureExist") /\ st'[l].lb = st[l].lb /\ Moves(l, "ensureExist", st[l].lb)
      BY <1>1, <1>2, <2>7 DEF Clear, Moves
    <3> QED
      BY <2>0, <3>1
  <2> QED
    BY <1>3, <2>1, <2>2, <2>3, <2>4, <2>5, <2>6, <2>7 DEF Patch, SetAdopted
<1>4. CASE Call(l) /\ ~Return(l)
  <2>0. UNCHANGED <<st, served>>
    BY <1>4 DEF Call, WaitForLBActive, DiscardLb, DeployTags, Put, TeardownRetiring,
       Strip, CheckEmpty, DeleteLoadBalancer, history
  <2>1. \E p : Goto(l, p) /\ Moves(l, p, st[l].lb)
    <3>1. CASE WaitForLBActive(l)
      BY <1>4, <3>1 DEF WaitForLBActive, Moves
    <3>2. CASE DiscardLb(l)
      BY <1>4, <3>2 DEF DiscardLb
    <3>3. CASE DeployTags(l)
      BY <1>4, <3>3 DEF DeployTags, Moves
    <3>4. CASE Put(l)
      BY <1>4, <3>4 DEF Put, Moves
    <3>5. CASE TeardownRetiring(l) \/ Strip(l)
      BY <3>5 DEF TeardownRetiring, Strip, Moves
    <3>6. CASE CheckEmpty(l)
      BY <3>6 DEF CheckEmpty, Moves, cloud
    <3>7. CASE DeleteLoadBalancer(l)
      BY <1>4, <3>7 DEF DeleteLoadBalancer, Moves
    <3> QED
      BY <1>4, <3>1, <3>2, <3>3, <3>4, <3>5, <3>6, <3>7 DEF Call
  <2> QED
    BY <2>0, <2>1
<1>5. CASE Call(l) /\ Return(l)
  BY <1>5 DEF Call, WaitForLBActive, DiscardLb, DeployTags, Put, TeardownRetiring,
     Strip, CheckEmpty, DeleteLoadBalancer, history
<1>6. CASE EnsureExist(l)
  <2>1. UNCHANGED served
    BY <1>6 DEF EnsureExist, history
  <2>2. CASE Return(l) /\ UNCHANGED st
    BY <2>1, <2>2
  <2>3. CASE ~(Return(l) /\ UNCHANGED st)
    <3>1. /\ Goto(l, "tags") /\ st'[l].lb = task[l].target /\ Moves(l, "tags", task[l].target)
      BY <1>1, <1>2, <1>6, <2>3 DEF EnsureExist, Moves
    <3> QED
      BY <2>1, <3>1
  <2> QED
    BY <2>2, <2>3
<1>7. CASE Record(l)
  <2>1. st'[l].lb = st[l].lb
    BY <1>1, <1>2, <1>7 DEF Record
  <2>2. CASE Goto(l, "retire") /\ UNCHANGED served
    BY <1>7, <2>1, <2>2 DEF Record, Moves
  <2>3. CASE Return(l)
    BY <1>7, <2>1, <2>3
  <2> QED
    BY <1>7, <2>2, <2>3 DEF Record
<1>8. CASE Unpark(l)
  <2>1. st'[l].lb = st[l].lb
    BY <1>1, <1>2, <1>8 DEF Unpark
  <2>2. CASE Goto(l, "decide") /\ UNCHANGED served /\ task[l].target = None
    BY <1>8, <2>1, <2>2 DEF Unpark, Moves
  <2>3. CASE Return(l)
    BY <1>8, <2>1, <2>3
  <2> QED
    BY <1>8, <2>2, <2>3 DEF Unpark
<1> QED
  BY <1>3, <1>4, <1>5, <1>6, <1>7, <1>8 DEF Serve

\* A patch or a call; a deploy that completes has its id in status.
LEMMA StrideMutex ==
  ASSUME NEW g \in Regime, TypeOK, MutexInv(g), Grows, NEW l \in LBC, Touches(l), Patch(l) \/ Call(l) \/ Serve(l)
  PROVE  Own(g, l)'
<1>0. UNCHANGED <<pin, phase>>
  BY DEF Patch, Call, Serve, SetAdopted, SetCreated, AddLoadBalancerId, ForgetLb, Park, Clear,
     WaitForLBActive, DiscardLb, DeployTags, Put, TeardownRetiring, Strip, CheckEmpty,
     DeleteLoadBalancer, EnsureExist, Record, Unpark, object
<1>1. CASE \E p, b : Goto(l, p) /\ Moves(l, p, b) /\ st'[l].lb = b /\ UNCHANGED served
  BY <1>0, <1>1, MoveMutex
<1>2. CASE Return(l) /\ st'[l].lb = st[l].lb /\ UNCHANGED served
  BY <1>0, <1>2, OwnReturn DEF MutexInv, Shape
<1>3. CASE Return(l) /\ st'[l].lb = st[l].lb /\ (Record(l) \/ Unpark(l))
  <2>1. st[l].lb # None
    <3>1. CASE Record(l)
      BY <3>1 DEF Record, MutexInv, Shape, Deployed
    <3>2. CASE Unpark(l)
      <4>1. CASE task[l].target # None
        BY <3>2, <4>1 DEF Unpark, MutexInv, Shape
      <4>2. CASE task[l].target = None
        <5>1. Goto(l, "decide")
          BY <3>2, <4>2 DEF Unpark
        <5> QED
          BY <1>3, <5>1, GotoView, ReturnView DEF TypeOK
      <4> QED
        BY <4>1, <4>2
    <3> QED
      BY <1>3, <3>1, <3>2
  <2> QED
    BY <1>0, <1>3, <2>1, OwnReturn
<1> QED
  BY <1>1, <1>2, <1>3, Strides

\* The LBC goes, or the pass is cut short.
LEMMA EndMutex ==
  ASSUME NEW g \in Regime, TypeOK, MutexInv(g), Grows, NEW l \in LBC, Finish(l) \/ Fault(l) PROVE Own(g, l)'
<1>1. /\ Return(l) /\ UNCHANGED <<pin, st, served>>
  BY DEF Finish, Fault, object, history
<1>2. phase'[l] # "live" => phase[l] # "live"
  <2>1. CASE Fault(l)
    BY <2>1 DEF Fault, object
  <2>2. CASE Finish(l)
    BY <2>2 DEF Finish, MutexInv, Shape, Closing
  <2> QED
    BY <2>1, <2>2
<1> QED
  BY <1>1, <1>2, OwnReturn DEF MutexInv, Shape

\* The user moves the pin, or deletes the LBC.
LEMMA UserMutex ==
  ASSUME "repinEarly" \notin Edits, NEW g \in Regime, TypeOK, MutexInv(g), g = "aligned" => DeletedAligned, Grows, NEW l \in LBC,
         Touches(l), EditPin(l) \/ Delete(l)
  PROVE  Own(g, l)'
<1>0. /\ UNCHANGED <<st, pc, task, lock, served, on>> /\ phase[l] = "live"
      /\ GetLoadBalancerID(l)' = GetLoadBalancerID(l)
  BY DEF EditPin, Delete, cloud, run, history, GetLoadBalancerID
<1>1. PICK p \in MaybeLB : Known(l, p) /\ pin'[l] = p /\ (phase'[l] # "live" => p = pin[l])
  <2>1. CASE EditPin(l)
    <3>1. PICK p \in MaybeLB : /\ p # None => lbs[p] # "absent"
                               /\ EditKind(p) \in Edits /\ pin' = [pin EXCEPT ![l] = p]
                               /\ UNCHANGED phase
      BY <2>1 DEF EditPin
    <3>2. Known(l, p)
      BY <3>1 DEF Known, MaybeLB, EditKind
    <3>3. pin'[l] = p
      BY <3>1 DEF TypeOK, ObjectType
    <3> QED
      BY <1>0, <3>1, <3>2, <3>3
  <2>2. CASE Delete(l)
    <3>1. pin' = pin /\ pin[l] \in MaybeLB /\ Known(l, pin[l])
      BY <2>2 DEF Delete, TypeOK, ObjectType, MutexInv, Acquainted
    <3> QED
      BY <3>1
  <2> QED
    BY <2>1, <2>2
<1>2. Acquainted(l)'
  <2>1. /\ Known(l, st[l].lb) /\ Known(l, task[l].pin) /\ Known(l, task[l].lb)
        /\ Known(l, task[l].target)
    BY DEF MutexInv, Acquainted
  <2>2. PICK b, tp, tb, tt : b = st[l].lb /\ tp = task[l].pin /\ tb = task[l].lb /\ tt = task[l].target
    OBVIOUS
  <2> QED
    BY <1>0, <1>1, <2>1, <2>2, OwnKnown
<1>3. Alone(l)'
  <2>1. Creating(l)' <=> Creating(l)
    BY <1>0 DEF Creating
  <2>2. pc[l] # "discardLb" => Alone(l)'
    <3>1. Creating(l) => pc[l] # "deleteLb"
      BY DEF Creating, Making, Deployed
    <3> QED
      BY <1>0, <2>1, <3>1, OwnAlone
  <2>3. pc[l] = "discardLb" => Alone(l)'
    <3>1. UNCHANGED <<lbs, maker>>
      BY DEF EditPin, Delete, cloud
    <3> QED
      BY <1>0, <2>1, <3>1 DEF MutexInv, Alone
  <2> QED
    BY <2>2, <2>3
<1>4. Vacated(l)'
  BY <1>0 DEF MutexInv, Vacated
<1>5. Shape(g, l)'
  <2>1. phase'[l] # "live" => InLine(g, l)'
    <3>1. phase'[l] # "live" => InLine(g, l)
      BY <1>0 DEF DeletedAligned, InLine
    <3> QED
      BY <1>0, <1>1, <3>1 DEF InLine, Aligned
  <2>2. Shape(g, l)
    BY DEF MutexInv
  <2> QED
    BY <1>0, <2>1, <2>2 DEF Shape
<1> QED
  BY <1>2, <1>3, <1>4, <1>5 DEF Own

\* A load balancer that is made is made by the LBC whose name it bears.
LEMMA MakersStay ==
  ASSUME TypeOK, Makers, Grows, NEW l \in LBC, Turn(l), Touches(l),
         pc[l] = "discardLb" => lbs[task[l].target] # "absent"
  PROVE  Makers'
<1>1. CASE UNCHANGED lbs
  BY <1>1 DEF Makers, Grows
<1>2. CASE CreateLoadBalancer(l) /\ ~UNCHANGED lbs
  <2>1. PICK b \in LB \ UserLB : /\ lbs' = [lbs EXCEPT ![b] = "building"]
                                 /\ name' = [name EXCEPT ![b] = {l}]
                                 /\ maker' = [maker EXCEPT ![b] = l]
    BY <1>2 DEF CreateLoadBalancer
  <2>2. /\ maker'[b] = l /\ name'[b] = {l}
        /\ \A c \in LB \ {b} : /\ lbs'[c] = lbs[c] /\ maker'[c] = maker[c]
                               /\ name'[c] = name[c]
    BY <2>1 DEF TypeOK, CloudType
  <2> QED
    BY <2>2 DEF Makers
<1>3. CASE ~CreateLoadBalancer(l)
  <2>1. \A b \in LB : lbs'[b] # "absent" => lbs[b] # "absent" \/ lbs'[b] = "gone"
    BY <1>3 DEF Turn, Reconcile, Begin, Lock, DeployLoadBalancer, SetAdopted,
         SetCreated, AddLoadBalancerId, WaitForLBActive, ForgetLb, DiscardLb, Park, Clear,
         EnsureExist, DeployTags, Put, Record, TeardownRetiring, Unpark, Decide, Strip, CheckEmpty,
         DeleteLoadBalancer, Finish, Fault, EditPin, Delete, cloud, Gone, TypeOK, CloudType
  <2> QED
    BY <2>1 DEF Makers, Grows, Touches, Exists
<1> QED
  BY <1>1, <1>2, <1>3

LEMMA TurnMutex ==
  ASSUME "repinEarly" \notin Edits, NEW g \in Regime, TypeOK, MutexInv(g), g = "aligned" => DeletedAligned, NEW l \in LBC, Turn(l)
  PROVE  MutexInv(g)'
<1>1. Frame(l)
  BY Frames
<1>2. pc[l] = "discardLb" => lbs[task[l].target] # "absent"
  BY DEF MutexInv, Alone, Creating, Making
<1>3. Grows /\ Touches(l)
  BY <1>2, CloudEffect
<1>4. Own(g, l)'
  BY <1>3, BeginMutex, LockMutex, DeployMutex, CreateMutex, DecideMutex, StrideMutex, EndMutex,
     UserMutex DEF Turn, Reconcile, Patch, Call, Serve
<1>5. \A k \in LBC : Own(g, k)'
  <2> SUFFICES ASSUME NEW k \in LBC PROVE Own(g, k)'
    OBVIOUS
  <2>1. CASE k = l
    BY <1>4, <2>1
  <2>2. CASE k # l
    BY <1>1, <1>3, <2>2, OthersMutex DEF Own
  <2> QED
    BY <2>1, <2>2
<1>6. Makers'
  BY <1>2, <1>3, MakersStay DEF MutexInv
<1> QED
  BY <1>5, <1>6 DEF MutexInv, Own

\* The vLB service finishes what it builds, or nothing happens.
LEMMA SettleMutex ==
  ASSUME NEW g \in Regime, TypeOK, MutexInv(g), UNCHANGED vars \/ \E b \in LB : Settle(b)
  PROVE  MutexInv(g)'
<1>1. /\ UNCHANGED <<name, on, maker, pin, phase, st, pc, task, lock, served>>
  BY DEF vars, cloud, object, run, history, Settle
<1>2. \A b \in LB : lbs'[b] = lbs[b] \/ (lbs[b] = "building" /\ lbs'[b] \in {"active", "error"})
  BY DEF vars, cloud, Settle, TypeOK, CloudType
<1>3. Grows
  BY <1>1, <1>2 DEF Grows
<1>4. Makers'
  BY <1>1, <1>2 DEF MutexInv, Makers
<1>5. ASSUME NEW k \in LBC PROVE Own(g, k)'
  <2>1. Acquainted(k)'
    <3>1. PICK p, b, tp, tb, tt :
            /\ p = pin[k] /\ b = st[k].lb
            /\ tp = task[k].pin /\ tb = task[k].lb /\ tt = task[k].target
      OBVIOUS
    <3>2. Known(k, p) /\ Known(k, b) /\ Known(k, tp) /\ Known(k, tb) /\ Known(k, tt)
      BY <3>1 DEF MutexInv, Acquainted
    <3> QED
      BY <1>1, <1>3, <3>1, <3>2, OwnKnown
  <2>2. Alone(k)'
    BY <1>1, <1>2 DEF MutexInv, Alone, Creating
  <2>3. Shape(g, k)' /\ Vacated(k)'
    BY <1>1 DEF MutexInv, Shape, Vacated, InLine, Aligned, GetLoadBalancerID
  <2> QED
    BY <2>1, <2>2, <2>3 DEF Own
<1> QED
  BY <1>4, <1>5 DEF MutexInv, Own

LEMMA InitMutex == ASSUME NEW g \in Regime, Init PROVE MutexInv(g)
<1>1. Makers
  BY DEF Init, Makers
<1>2. ASSUME NEW l \in LBC PROVE Acquainted(l) /\ Alone(l) /\ Shape(g, l) /\ Vacated(l)
  <2>1. /\ pc[l] = "idle" /\ task[l] = NoTask /\ st[l] = NoStatus /\ phase[l] = "live"
        /\ served[l] = FALSE /\ pin[l] \in UserLB \cup {None}
    BY DEF Init
  <2>2. NoStatus.lb = None
    BY DEF NoStatus
  <2>3. \A u \in UserLB : u \in LB /\ lbs[u] # "absent"
    BY ConstantsAssumption DEF Init
  <2>4. Acquainted(l)
    BY <2>1, <2>2, <2>3, NoTaskFields DEF Acquainted, Known
  <2> QED
    BY <2>1, <2>4, NoTaskFields DEF Alone, Creating, Making, Deployed, Shape, Closing, Waiting,
       Vacated
<1> QED
  BY <1>1, <1>2 DEF MutexInv

LEMMA MutexInvariant ==
  ASSUME "repinEarly" \notin Edits
  PROVE  /\ Spec => []MutexInv("any")
         /\ Spec /\ [][DeletedAligned]_vars => []MutexInv("aligned")
<1>1. /\ TypeOK /\ MutexInv("any") /\ [Next]_vars => MutexInv("any")'
      /\ /\ TypeOK /\ MutexInv("aligned") /\ [Next]_vars /\ [DeletedAligned]_vars
         => MutexInv("aligned")'
  BY TurnMutex, SettleMutex DEF Next, Turn, Regime
<1>2. Init => MutexInv("any") /\ MutexInv("aligned")
  BY InitMutex DEF Regime
<1> QED
  BY <1>1, <1>2, TypeCorrect, PTL DEF Spec

\* Under a mutex or over a load balancer nobody else knows: how a pass writes,
\* but where it leaves a load balancer for another.
LEMMA WritesHold ==
  ASSUME MutexInv("any"), NEW l \in LBC, ~Leaving(l), NEW b \in Writing(l)
  PROVE  /\ Known(l, b) /\ b # None
         /\ lock[b] = l \/ (Creating(l) /\ b = task[l].target)
<1>r. "any" \in Regime
  BY DEF Regime
<1>1. CASE pc[l] = "put"
  <2>1. b = task[l].target
    BY <1>1 DEF Writing
  <2> QED
    BY <1>1, <1>r, <2>1, PutHolds DEF MutexInv, Acquainted, Shape, Deployed
<1>2. CASE pc[l] = "discardLb"
  <2>1. b = task[l].target /\ Creating(l)
    BY <1>2 DEF Writing, Creating, Making
  <2> QED
    BY <2>1, ConstantsAssumption DEF MutexInv, Acquainted, Alone
<1>3. CASE pc[l] \in {"strip", "deleteLb"}
  <2>1. b = task[l].lb /\ task[l].pin \in {None, task[l].lb}
    BY <1>3 DEF Writing, Leaving
  <2> QED
    BY <1>3, <1>r, <2>1, CloseHolds DEF MutexInv, Acquainted
<1> QED
  BY <1>1, <1>2, <1>3 DEF Writing, Leaving

\* getLBLock: of two LBCs that write a load balancer at the same time one has been
\* pinned to another and leaves it, for any number of LBCs and load balancers,
\* with faults anywhere, unless the user pins an LBC to a load balancer that is
\* still being set up.
THEOREM WritersExclude ==
  ASSUME "repinEarly" \notin Edits
  PROVE  Spec => []OneWriterButLeaving
<1>r. "any" \in Regime
  BY DEF Regime
<1>1. MutexInv("any") => OneWriterButLeaving
  <2> SUFFICES ASSUME MutexInv("any"), NEW k \in LBC, NEW l \in LBC, k # l,
                      NEW b \in Writing(k), b \in Writing(l), ~Leaving(k), ~Leaving(l)
               PROVE  FALSE
    BY DEF OneWriterButLeaving
  <2>1. /\ Known(k, b) /\ (lock[b] = k \/ (Creating(k) /\ b = task[k].target))
        /\ Known(l, b) /\ (lock[b] = l \/ (Creating(l) /\ b = task[l].target))
    BY WritesHold
  <2>2. CASE Creating(k) /\ b = task[k].target
    BY <1>r, <2>1, <2>2, MakerUnserved
  <2>3. CASE Creating(l) /\ b = task[l].target
    BY <1>r, <2>1, <2>3, MakerUnserved
  <2> QED
    BY <2>1, <2>2, <2>3
<1> QED
  BY <1>1, MutexInvariant, PTL

\* canDeleteWholeLoadBalancer and isLoadBalancerEmpty, under the mutex: what they
\* find is still so when the load balancer is deleted, so that nothing of the
\* user's and nothing of an LBC that stays goes with it.
THEOREM ServingLbSafe ==
  ASSUME "repinEarly" \notin Edits
  PROVE  Spec /\ [][DeletedAligned]_vars => ServingLbNeverDeleted
<1> DEFINE Safe == \A b \in LB : Exists(b) /\ lbs'[b] = "gone" =>
                     \A t \in on[b] : t \in LBC /\ (phase[t] = "deleting" \/ pc[t] = "discardLb")
<1>1. ASSUME TypeOK, MutexInv("aligned"), NEW l \in LBC, Turn(l) PROVE Safe
  <2>1. pc[l] = "discardLb" => lbs[task[l].target] # "absent"
    BY <1>1 DEF MutexInv, Alone, Creating, Making
  <2>2. Touches(l)
    BY <1>1, <2>1, CloudEffect
  <2> SUFFICES ASSUME NEW b \in LB, Exists(b), lbs'[b] = "gone"
               PROVE  on[b] \subseteq {l} /\ (phase[l] = "deleting" \/ pc[l] = "discardLb")
    OBVIOUS
  <2>3. \/ pc[l] = "discardLb" /\ b = task[l].target
        \/ pc[l] = "deleteLb" /\ b = task[l].lb
    BY <2>2 DEF Touches, Exists
  <2>4. pc[l] = "discardLb" => on[task[l].target] \subseteq {l}
    BY <1>1 DEF MutexInv, Alone, Creating, Making
  <2>5. pc[l] = "deleteLb" => on[task[l].lb] \subseteq {l} /\ phase[l] = "deleting"
    BY <1>1 DEF MutexInv, Vacated, Shape, Closing
  <2> QED
    BY <2>3, <2>4, <2>5
<1>2. ASSUME TypeOK, UNCHANGED vars \/ \E b \in LB : Settle(b) PROVE Safe
  <2>1. \A b \in LB : lbs'[b] = "gone" => lbs[b] = "gone"
    BY <1>2 DEF vars, cloud, Settle, TypeOK, CloudType
  <2> QED
    BY <2>1 DEF Exists
<1>3. TypeOK /\ MutexInv("aligned") /\ [Next]_vars => [Safe]_vars
  BY <1>1, <1>2 DEF Next, Turn
<1> QED
  BY <1>3, MutexInvariant, TypeCorrect, PTL DEF Spec, ServingLbNeverDeleted

-----------------------------------------------------------------------------
(* What a reconcile knows of its own LBC, whatever the user does meanwhile.   *)

\* A migration has parked the load balancer that is still the one in use.
Switching(l) ==
  pc[l] \in {"clear", "ensureExist"} /\ task[l].lb # None /\ task[l].target # task[l].lb

\* A pass reads its own status only, and every step finds what it has written.
Course(l) ==
  /\ pc[l] = "idle" => task[l] = NoTask
  /\ pc[l] \in {"lockEnsure", "resolve", "create", "recordCreated", "recordLb", "adopt",
                "migrateAdopt", "park", "clear"} \cup Closing => st[l].lb = task[l].lb
  /\ pc[l] = "ensureExist" =>
       st[l].lb = task[l].lb \/ (task[l].lb = None /\ st[l].lb = task[l].target)
  /\ pc[l] \in {"retire", "unpark"} =>
       st[l].lb = IF task[l].target = None THEN task[l].lb ELSE task[l].target
  /\ pc[l] \in Closing => task[l].target = None
  /\ pc[l] \in {"adopt", "migrateAdopt", "park", "clear"} \cup Deployed \cup Making =>
       task[l].target \in LB
  /\ pc[l] \in {"waitActive", "forgetLb", "tags", "put", "record"} => st[l].lb = task[l].target
  /\ pc[l] \in {"adopt", "create"} \cup Making => task[l].lb = None
  /\ pc[l] \in {"migrateAdopt", "park", "clear"} => task[l].lb # None /\ task[l].target # task[l].lb
  /\ Switching(l) => st[l].retiring.id = task[l].lb

\* Who patches which part of a status, and how.
LEMMA StatusSteps ==
  ASSUME TypeOK, NEW l \in LBC, Turn(l)
  PROVE  /\ st'[l].retiring # st[l].retiring =>
              \/ /\ Park(l) /\ st'[l].retiring.id = task[l].lb
                 /\ st'[l].retiring.res <=> st[l].res
              \/ Unpark(l) /\ st'[l].retiring = NoRetiring
         /\ (st'[l].res <=> st[l].res) \/ (Clear(l) /\ ~st'[l].res) \/ (Record(l) /\ st'[l].res)
         /\ Clear(l) => ~st'[l].res
         /\ Record(l) => st'[l].res
<1>1. st \in [LBC -> StatusType] /\ st[l] \in StatusType
  BY DEF TypeOK
<1>2. PICK s \in StatusType : s = st[l]
  BY <1>1
<1>3. \A b : /\ [s EXCEPT !.res = b].retiring = s.retiring /\ [s EXCEPT !.res = b].res = b
             /\ [s EXCEPT !.retiring = b].retiring = b /\ [s EXCEPT !.retiring = b].res = s.res
             /\ [s EXCEPT !.created = b].retiring = s.retiring /\ [s EXCEPT !.created = b].res = s.res
             /\ [s EXCEPT !.adopted = b].retiring = s.retiring /\ [s EXCEPT !.adopted = b].res = s.res
             /\ [s EXCEPT !.lb = b].retiring = s.retiring /\ [s EXCEPT !.lb = b].res = s.res
  BY DEF StatusType
<1>4. CASE st' = st
  <2>1. (~Clear(l) /\ ~Record(l)) \/ st'[l].res = (IF Record(l) THEN TRUE ELSE FALSE)
    BY <1>1, <1>2, <1>3 DEF Clear, Record
  <2>2. ~(Clear(l) /\ Record(l))
    BY DEF Clear, Record
  <2> QED
    BY <1>4, <2>1, <2>2
<1>5. CASE Park(l)
  <2>1. ~Clear(l) /\ ~Record(l)
    BY <1>5 DEF Park, Clear, Record
  <2>2. st'[l] = [s EXCEPT !.retiring = [id |-> task[l].lb, res |-> s.res]]
    BY <1>1, <1>2, <1>5 DEF Park
  <2>3. st'[l].retiring = [id |-> task[l].lb, res |-> s.res] /\ st'[l].res = s.res
    BY <1>3, <2>2
  <2> QED
    BY <1>2, <1>5, <2>1, <2>3
<1>6. CASE Unpark(l)
  <2>1. ~Clear(l) /\ ~Record(l)
    BY <1>6 DEF Unpark, Clear, Record
  <2>2. st'[l] = [s EXCEPT !.retiring = NoRetiring]
    BY <1>1, <1>2, <1>6 DEF Unpark
  <2> QED
    BY <1>2, <1>3, <1>6, <2>1, <2>2
<1>7. CASE Clear(l)
  <2>1. ~Record(l) /\ st'[l] = [s EXCEPT !.res = FALSE]
    BY <1>1, <1>2, <1>7 DEF Clear, Record
  <2> QED
    BY <1>2, <1>3, <1>7, <2>1
<1>8. CASE Record(l)
  <2>1. ~Clear(l) /\ st'[l] = [s EXCEPT !.res = TRUE]
    BY <1>1, <1>2, <1>8 DEF Clear, Record
  <2> QED
    BY <1>2, <1>3, <1>8, <2>1
<1>9. CASE SetAdopted(l) \/ SetCreated(l) \/ AddLoadBalancerId(l) \/ ForgetLb(l) \/ EnsureExist(l)
  <2>1. ~Clear(l) /\ ~Record(l)
    BY <1>9 DEF SetAdopted, SetCreated, AddLoadBalancerId, ForgetLb, EnsureExist, Clear, Record
  <2>2. PICK b : \/ st'[l] = s \/ st'[l] = [s EXCEPT !.adopted = b]
                 \/ st'[l] = [s EXCEPT !.created = b] \/ st'[l] = [s EXCEPT !.lb = b]
    <3>1. CASE EnsureExist(l)
      BY <1>1, <1>2, <3>1 DEF EnsureExist
    <3>2. CASE SetAdopted(l)
      BY <1>1, <1>2, <3>2 DEF SetAdopted
    <3>3. CASE SetCreated(l)
      BY <1>1, <1>2, <3>3 DEF SetCreated
    <3>4. CASE AddLoadBalancerId(l) \/ ForgetLb(l)
      BY <1>1, <1>2, <3>4 DEF AddLoadBalancerId, ForgetLb
    <3> QED
      BY <1>9, <3>1, <3>2, <3>3, <3>4
  <2>3. st'[l].retiring = s.retiring /\ st'[l].res = s.res
    <3>1. CASE st'[l] = s
      BY <3>1
    <3>2. CASE st'[l] = [s EXCEPT !.adopted = b]
      BY <3>2, <1>3
    <3>3. CASE st'[l] = [s EXCEPT !.created = b]
      BY <3>3, <1>3
    <3>4. CASE st'[l] = [s EXCEPT !.lb = b]
      BY <3>4, <1>3
    <3> QED
      BY <2>2, <3>1, <3>2, <3>3, <3>4
  <2> QED
    BY <1>2, <2>1, <2>3
<1>10. CASE ~(Park(l) \/ Unpark(l) \/ Clear(l) \/ Record(l) \/ SetAdopted(l) \/ SetCreated(l)
              \/ AddLoadBalancerId(l) \/ ForgetLb(l) \/ EnsureExist(l))
  <2>1. st' = st
    BY <1>10 DEF Turn, Reconcile, Begin, Lock, DeployLoadBalancer, CreateLoadBalancer,
       WaitForLBActive, DiscardLb, DeployTags, Put, TeardownRetiring, Decide, Strip, CheckEmpty,
       DeleteLoadBalancer, Finish, Fault, EditPin, Delete
  <2> QED
    BY <1>4, <2>1
<1> QED
  BY <1>5, <1>6, <1>7, <1>8, <1>9, <1>10

\* A pass that ends, or a stride of it.
LEMMA CourseStride ==
  ASSUME TypeOK, NEW l \in LBC, Course(l), Turn(l), Patch(l) \/ Call(l) \/ Serve(l)
  PROVE  Course(l)'
<1>1. CASE Return(l)
  <2>1. pc'[l] = "idle" /\ task'[l] = NoTask
    BY <1>1, ReturnView DEF TypeOK
  <2> QED
    BY <2>1 DEF Course, Closing, Deployed, Making, Switching
<1>2. CASE ~Return(l)
  <2>1. PICK p, b : Goto(l, p) /\ Moves(l, p, b) /\ st'[l].lb = b
    BY <1>2, Strides
  <2>2. pc'[l] = p /\ task'[l] = task[l]
    BY <2>1, GotoView DEF TypeOK
  <2>3. Switching(l)' => st'[l].retiring.id = task[l].lb
    <3> SUFFICES ASSUME Switching(l)' PROVE st'[l].retiring.id = task[l].lb
      OBVIOUS
    <3>1. p \in {"clear", "ensureExist"} /\ task[l].lb # None /\ task[l].target # task[l].lb
      BY <2>2 DEF Switching
    <3>2. pc[l] = "park" \/ (pc[l] = "clear" /\ Switching(l))
      BY <2>1, <3>1 DEF Moves, Course, Making, Switching
    <3>3. CASE pc[l] = "park"
      <4>1. Park(l)
        BY <3>3 DEF Patch, Call, Serve, SetAdopted, SetCreated, AddLoadBalancerId, ForgetLb, Clear,
           WaitForLBActive, DiscardLb, DeployTags, Put, TeardownRetiring, Strip, CheckEmpty,
           DeleteLoadBalancer, EnsureExist, Record, Unpark
      <4>2. st'[l].retiring = [id |-> task[l].lb, res |-> st[l].res]
        BY <4>1 DEF Park, TypeOK, StatusType
      <4> QED
        BY <4>2
    <3>4. CASE pc[l] = "clear" /\ Switching(l)
      <4>1. st'[l].retiring = st[l].retiring
        BY <3>4, StatusSteps DEF Park, Unpark
      <4> QED
        BY <3>4, <4>1 DEF Course
    <3> QED
      BY <3>2, <3>3, <3>4
  <2>4. CASE pc[l] \in {"adopt", "migrateAdopt", "park", "clear"}
    BY <2>1, <2>2, <2>3, <2>4 DEF Moves, Course, Closing, Deployed, Making
  <2>5. CASE pc[l] \in Making
    BY <2>1, <2>2, <2>3, <2>5 DEF Moves, Course, Closing, Deployed, Making
  <2>6. CASE pc[l] \in Deployed
    BY <2>1, <2>2, <2>3, <2>6, ConstantsAssumption DEF Moves, Course, Closing, Deployed, Making
  <2>7. CASE pc[l] \in Closing \cup {"retire", "unpark"}
    BY <2>1, <2>2, <2>3, <2>7 DEF Moves, Course, Closing, Deployed, Making
  <2> QED
    BY <2>1, <2>4, <2>5, <2>6, <2>7 DEF Moves, Closing, Deployed, Making
<1> QED
  BY <1>1, <1>2

LEMMA CourseTurn ==
  ASSUME TypeOK, NEW l \in LBC, Course(l), Turn(l) PROVE Course(l)'
<1>t. /\ task[l] \in TaskType /\ st[l] \in StatusType /\ st[l].lb \in MaybeLB
      /\ task[l].pin \in MaybeLB /\ task[l].lb \in MaybeLB /\ None \notin LB
  BY ConstantsAssumption DEF TypeOK, RunType, TaskType, StatusType
<1>r. ASSUME Return(l) PROVE Course(l)'
  <2>1. pc'[l] = "idle" /\ task'[l] = NoTask
    BY <1>r, ReturnView DEF TypeOK
  <2> QED
    BY <2>1 DEF Course, Closing, Deployed, Making, Switching
<1>1. CASE Begin(l)
  <2>1. /\ pc'[l] \in {"lockEnsure", "lockDelete"} /\ task'[l].lb = st[l].lb
        /\ task'[l].target = None /\ st' = st
    BY <1>1 DEF Begin, TypeOK, RunType, NoTask
  <2> QED
    BY <2>1 DEF Course, Closing, Deployed, Making, Switching
<1>2. CASE Lock(l)
  <2>1. /\ \/ pc[l] = "lockEnsure" /\ pc'[l] = "resolve"
           \/ pc[l] = "lockDelete" /\ pc'[l] \in {"retire", "decide"}
        /\ UNCHANGED <<st, task>>
    BY <1>2 DEF Lock, TypeOK, RunType
  <2> QED
    BY <2>1 DEF Course, Closing, Deployed, Making, Switching
<1>3. CASE DeployLoadBalancer(l)
  <2>1. PICK p, b, r : /\ Choose(l, p, b, r)
                       /\ \/ p = "migrateAdopt" /\ b \in LB /\ task[l].lb # None /\ b # task[l].lb
                          \/ p = "ensureExist" /\ b \in LB /\ b = task[l].lb
                          \/ p = "adopt" /\ b \in LB /\ task[l].lb = None
                          \/ p = "create" /\ task[l].lb = None
    <3>1. CASE task[l].lb # None /\ task[l].pin # None /\ task[l].pin # task[l].lb
      <4>1. Choose(l, "migrateAdopt", task[l].pin, TRUE)
        BY <1>3, <3>1 DEF DeployLoadBalancer
      <4>2. task[l].pin \in LB
        BY <1>t, <3>1 DEF MaybeLB
      <4> QED
        BY <3>1, <4>1, <4>2
    <3>2. CASE task[l].lb # None /\ (task[l].pin = None \/ task[l].pin = task[l].lb)
      <4>1. Choose(l, "ensureExist", task[l].lb, FALSE)
        BY <1>3, <3>2 DEF DeployLoadBalancer
      <4>2. task[l].lb \in LB
        BY <1>t, <3>2 DEF MaybeLB
      <4> QED
        BY <4>1, <4>2
    <3>3. CASE task[l].lb = None /\ task[l].pin # None
      <4>1. Choose(l, "adopt", task[l].pin, TRUE)
        BY <1>3, <3>3 DEF DeployLoadBalancer
      <4>2. task[l].pin \in LB
        BY <1>t, <3>3 DEF MaybeLB
      <4> QED
        BY <3>3, <4>1, <4>2
    <3>4. CASE task[l].lb = None /\ task[l].pin = None
      BY <1>3, <1>t, <3>4 DEF DeployLoadBalancer
    <3> QED
      BY <3>1, <3>2, <3>3, <3>4
  <2>2. PICK t \in TaskType : t = task[l]
    BY <1>t
  <2>3. pc'[l] = p /\ task'[l] = [t EXCEPT !.target = b, !.requeue = r]
    BY <2>1, <2>2 DEF Choose, TypeOK, RunType
  <2>4. task'[l].lb = t.lb /\ task'[l].target = b
    BY <2>3, TaskUpdates
  <2>5. pc[l] = "resolve" /\ st' = st /\ st[l].lb = t.lb
    BY <1>3, <2>2 DEF DeployLoadBalancer, Course
  <2> QED
    BY <2>1, <2>2, <2>3, <2>4, <2>5 DEF Course, Closing, Deployed, Making, Switching
<1>4. CASE CreateLoadBalancer(l) /\ ~Return(l)
  <2>1. PICK b \in LB : pc' = [pc EXCEPT ![l] = "recordCreated"] /\ task' = [task EXCEPT ![l].target = b]
    BY <1>4 DEF CreateLoadBalancer
  <2>2. PICK t \in TaskType : t = task[l]
    BY <1>t
  <2>3. pc'[l] = "recordCreated" /\ task'[l] = [t EXCEPT !.target = b]
    BY <2>1, <2>2 DEF TypeOK, RunType
  <2>4. task'[l].lb = t.lb /\ task'[l].target = b
    BY <2>3, TaskUpdates
  <2>5. t.lb = None /\ st' = st /\ st[l].lb = None
    BY <1>4, <2>2 DEF CreateLoadBalancer, Course
  <2> QED
    BY <2>3, <2>4, <2>5 DEF Course, Closing, Deployed, Making, Switching
<1>5. CASE Decide(l) /\ ~Goto(l, "finish")
  <2>0. PICK r : r = CreatedByThisCluster(l, task[l].lb)
    OBVIOUS
  <2>1. PICK p \in {"deleteLb", "strip"} :
          pc' = [pc EXCEPT ![l] = p] /\ task' = [task EXCEPT ![l].ours = r]
    BY <1>5, <2>0 DEF Decide
  <2>2. PICK t \in TaskType : t = task[l]
    BY <1>t
  <2>3. pc'[l] = p /\ task'[l] = [t EXCEPT !.ours = r]
    BY <2>1, <2>2 DEF TypeOK, RunType
  <2>4. task'[l].lb = t.lb /\ task'[l].target = t.target
    BY <2>3, TaskUpdates
  <2>5. pc[l] = "decide" /\ st' = st /\ st[l].lb = t.lb /\ t.target = None
    BY <1>5, <2>2 DEF Decide, Course, Closing
  <2> QED
    BY <2>1, <2>3, <2>4, <2>5 DEF Course, Closing, Deployed, Making, Switching
<1>6. CASE Decide(l) /\ Goto(l, "finish")
  <2>1. pc[l] = "decide" /\ st' = st /\ pc'[l] = "finish" /\ task'[l] = task[l]
    BY <1>6, GotoView DEF Decide, TypeOK
  <2> QED
    BY <2>1 DEF Course, Closing, Deployed, Making, Switching
<1>7. CASE EditPin(l) \/ Delete(l)
  <2>1. UNCHANGED <<st, pc, task>>
    BY <1>7 DEF EditPin, Delete, run
  <2> QED
    BY <2>1 DEF Course, Switching
<1>8. CASE Finish(l) \/ Fault(l)
  BY <1>r, <1>8 DEF Finish, Fault
<1>9. CASE Patch(l) \/ Call(l) \/ Serve(l)
  BY <1>9, CourseStride
<1> QED
  BY <1>r, <1>1, <1>2, <1>3, <1>4, <1>5, <1>6, <1>7, <1>8, <1>9
  DEF Turn, Reconcile, Patch, Call, Serve

Courses == \A l \in LBC : Course(l)

\* Nothing happens to the LBCs.
Still == UNCHANGED <<on, maker, name, pin, phase, st, pc, task, lock, served, booked, astray>>

LEMMA Stills ==
  ASSUME TypeOK, UNCHANGED vars \/ \E b \in LB : Settle(b)
  PROVE  /\ Still
         /\ \A b \in LB : lbs'[b] = lbs[b] \/ (lbs[b] = "building" /\ lbs'[b] \in {"active", "error"})
<1>1. Still
  BY DEF vars, cloud, object, run, history, Settle, Still
<1>2. \A b \in LB : lbs'[b] = lbs[b] \/ (lbs[b] = "building" /\ lbs'[b] \in {"active", "error"})
  BY DEF vars, cloud, Settle, TypeOK, CloudType
<1> QED
  BY <1>1, <1>2

LEMMA CoursesHold == Spec => []Courses
<1>1. Init => Courses
  BY DEF Init, Courses, Course, Closing, Deployed, Making, Switching
<1>2. TypeOK /\ Courses /\ [Next]_vars => Courses'
  <2> SUFFICES ASSUME TypeOK, Courses, [Next]_vars PROVE Courses'
    OBVIOUS
  <2>1. ASSUME NEW l \in LBC, Turn(l) PROVE Courses'
    <3> SUFFICES ASSUME NEW k \in LBC PROVE Course(k)'
      BY DEF Courses
    <3>1. CASE k = l
      BY <2>1, <3>1, CourseTurn DEF Courses
    <3>2. CASE k # l
      <4>1. pc'[k] = pc[k] /\ task'[k] = task[k] /\ st'[k] = st[k]
        BY <2>1, <3>2, Frames DEF Frame
      <4> QED
        BY <4>1 DEF Courses, Course, Switching
    <3> QED
      BY <3>1, <3>2
  <2>2. CASE UNCHANGED vars \/ \E b \in LB : Settle(b)
    BY <2>2, Stills DEF Still, Courses, Course, Switching
  <2> QED
    BY <2>1, <2>2 DEF Next, Turn
<1> QED
  BY <1>1, <1>2, TypeCorrect, PTL DEF Spec

\* What a step of l leaves on a load balancer: everything of the others unless
\* it goes; of l all but what a strip or a teardown takes off.
Leaves(l, b) ==
  /\ Exists(b) => Exists(b)' \/ lbs'[b] = "gone"
  /\ \A t \in on[b] \ {l} : t \in on'[b] \/ lbs'[b] = "gone" \/ lbs[b] = "absent"
  /\ l \in on[b] => \/ l \in on'[b] \/ lbs'[b] = "gone" \/ lbs[b] = "absent"
                    \/ TeardownRetiring(l) /\ b = st[l].retiring.id
                    \/ Strip(l) /\ b = task[l].lb
  /\ l \in on'[b] => \/ l \in on[b]
                     \/ Put(l) /\ pc'[l] = "record" /\ b = task[l].target /\ Exists(b)
                     \/ CreateLoadBalancer(l) /\ lbs[b] = "absent" /\ Exists(b)'
  /\ on'[b] \subseteq on[b] \cup {l}
  /\ lbs'[b] = "gone" => lbs[b] = "gone" \/ on'[b] = {}
  /\ lbs'[b] = "absent" => lbs[b] = "absent"
  /\ lbs[b] # "absent" /\ lbs'[b] # lbs[b] => lbs'[b] = "gone"

LEMMA Contents ==
  ASSUME TypeOK, NEW l \in LBC, Turn(l), NEW b \in LB PROVE Leaves(l, b)
<1>t. /\ lbs \in [LB -> {"absent", "building", "active", "error", "gone"}]
      /\ on \in [LB -> SUBSET Tenant]
  BY DEF TypeOK, CloudType
<1>u. ASSUME UNCHANGED <<lbs, on>> PROVE Leaves(l, b)
  BY <1>u DEF Leaves, Exists
<1>g. ASSUME NEW c, Gone(c) PROVE Leaves(l, b)
  <2>1. CASE b = c
    BY <1>t, <1>g, <2>1 DEF Gone, Leaves
  <2>2. CASE b # c
    <3>1. lbs'[b] = lbs[b] /\ on'[b] = on[b]
      BY <1>t, <1>g, <2>2 DEF Gone
    <3> QED
      BY <3>1 DEF Leaves, Exists
  <2> QED
    BY <2>1, <2>2
<1>1. CASE CreateLoadBalancer(l) /\ ~UNCHANGED <<lbs, on>>
  <2>1. PICK c \in LB \ UserLB, inline \in BOOLEAN :
          /\ lbs[c] = "absent" /\ lbs' = [lbs EXCEPT ![c] = "building"]
          /\ on' = [on EXCEPT ![c] = IF inline THEN {l} ELSE {}]
    BY <1>1 DEF CreateLoadBalancer
  <2>2. CASE b = c
    BY <1>t, <1>1, <2>1, <2>2 DEF Leaves, Exists
  <2>3. CASE b # c
    <3>1. lbs'[b] = lbs[b] /\ on'[b] = on[b]
      BY <1>t, <2>1, <2>3
    <3> QED
      BY <3>1 DEF Leaves, Exists
  <2> QED
    BY <2>2, <2>3
<1>2. CASE Put(l) /\ ~UNCHANGED <<lbs, on>>
  <2>1. /\ lbs' = lbs /\ on' = [on EXCEPT ![task[l].target] = @ \cup {l}]
        /\ Exists(task[l].target) /\ Goto(l, "record")
    BY <1>2 DEF Put
  <2>2. pc'[l] = "record"
    BY <2>1, GotoView DEF TypeOK
  <2>3. on'[b] = IF b = task[l].target THEN on[b] \cup {l} ELSE on[b]
    BY <1>t, <2>1
  <2> QED
    BY <1>2, <2>1, <2>2, <2>3 DEF Leaves, Exists
<1>3. CASE TeardownRetiring(l)
  <2>1. lbs' = lbs
    BY <1>3 DEF TeardownRetiring
  <2>2. on'[b] = on[b] \/ (b = st[l].retiring.id /\ on'[b] = on[b] \ {l})
    BY <1>t, <1>3 DEF TeardownRetiring
  <2> QED
    BY <1>3, <2>1, <2>2 DEF Leaves, Exists
<1>4. CASE Strip(l)
  <2>1. lbs' = lbs
    BY <1>4 DEF Strip
  <2>2. on'[b] = on[b] \/ (b = task[l].lb /\ on'[b] = on[b] \ {l})
    BY <1>t, <1>4 DEF Strip
  <2> QED
    BY <1>4, <2>1, <2>2 DEF Leaves, Exists
<1>5. CASE DiscardLb(l)
  BY <1>5, <1>g DEF DiscardLb
<1>6. CASE DeleteLoadBalancer(l)
  BY <1>6, <1>g, <1>u DEF DeleteLoadBalancer, cloud
<1>7. CASE ~(CreateLoadBalancer(l) \/ Put(l) \/ TeardownRetiring(l) \/ Strip(l) \/ DiscardLb(l)
             \/ DeleteLoadBalancer(l))
  <2>1. UNCHANGED <<lbs, on>>
    BY <1>7 DEF Turn, Reconcile, Begin, Lock, DeployLoadBalancer, SetAdopted, SetCreated,
       AddLoadBalancerId, WaitForLBActive, ForgetLb, Park, Clear, EnsureExist, DeployTags,
       Record, Unpark, Decide, CheckEmpty, Finish, Fault, EditPin, Delete, cloud
  <2> QED
    BY <2>1, <1>u
<1> QED
  BY <1>u, <1>1, <1>2, <1>3, <1>4, <1>5, <1>6, <1>7

-----------------------------------------------------------------------------
(* A migration without an outage.  A pass that has parked the load balancer   *)
(* in use must get as far as the move of status.loadBalancerId: cut short     *)
(* before, and with the pin moved back, the LBC is served from the parked one *)
(* and then taken off it.                                                     *)

\* No pass ends while the load balancer it leaves is still the one in use.
Switched == \A l \in LBC : st[l].lb # None /\ st[l].lb = st[l].retiring.id => pc'[l] # "idle"

\* The load balancer being left is not the one in use, but during the switch.
Apart(l) ==
  /\ st[l].retiring.id # None /\ st[l].retiring.id = st[l].lb => Switching(l)
  /\ st[l].lb = None \/ (pc[l] # "idle" /\ task[l].lb = None) => st[l].retiring.id = None

\* A deploy that is about to take down the old load balancer serves on the new.
Carries(l) ==
  pc[l] \in {"record", "retire", "unpark"} /\ task[l].target # None =>
    Exists(task[l].target) /\ l \in on[task[l].target]

Served(l) == served[l] /\ phase[l] = "live" => \E b \in LB : Exists(b) /\ l \in on[b]

OutageInv == \A l \in LBC : Apart(l) /\ Carries(l) /\ Served(l)

\* Nobody takes down what carries another LBC.
LEMMA StaysOn ==
  ASSUME TypeOK, MutexInv("aligned"), NEW k \in LBC, Turn(k), NEW l \in LBC \ {k}, NEW b \in LB,
         Exists(b), l \in on[b]
  PROVE  Exists(b)' /\ l \in on'[b]
<1>1. pc[k] = "discardLb" =>
        lbs[task[k].target] # "absent" /\ on[task[k].target] \subseteq {k}
  BY DEF MutexInv, Alone, Creating, Making
<1>2. Touches(k)
  BY <1>1, CloudEffect
<1>3. pc[k] = "deleteLb" => on[task[k].lb] \subseteq {k}
  BY DEF MutexInv, Vacated, Shape, Closing
<1>4. lbs'[b] # "gone" /\ lbs[b] # "absent"
  BY <1>1, <1>2, <1>3 DEF Touches, Exists
<1> QED
  BY <1>4, Contents DEF Leaves

LEMMA ApartTurn ==
  ASSUME TypeOK, Switched, NEW l \in LBC, Course(l), Apart(l), Turn(l) PROVE Apart(l)'
<1>n. NoRetiring.id = None
  BY DEF NoRetiring
<1>1. ASSUME Return(l), st'[l].lb = st[l].lb PROVE Apart(l)'
  <2>1. pc'[l] = "idle" /\ task'[l] = NoTask
    BY <1>1, ReturnView DEF TypeOK
  <2>2. ~Park(l)
    <3>1. Park(l) => pc'[l] = "clear"
      BY GotoView DEF Park, TypeOK
    <3> QED
      BY <2>1, <3>1
  <2>3. st'[l].retiring.id \in {st[l].retiring.id, None}
    BY <1>n, <2>2, StatusSteps
  <2> QED
    BY <1>1, <2>1, <2>3 DEF Apart, Switched
<1>2. CASE Begin(l)
  <2>1. /\ pc[l] = "idle" /\ pc'[l] # "idle" /\ task'[l].lb = st[l].lb /\ st' = st
    BY <1>2 DEF Begin, TypeOK, RunType, NoTask
  <2> QED
    BY <2>1 DEF Apart, Switching
<1>3. CASE Lock(l) \/ DeployLoadBalancer(l) \/ (CreateLoadBalancer(l) /\ ~Return(l)) \/ Decide(l)
  <2>1. pc[l] \in {"lockEnsure", "lockDelete", "resolve", "create", "decide"} /\ st' = st
    BY <1>3 DEF Lock, DeployLoadBalancer, CreateLoadBalancer, Decide
  <2>2. task'[l].lb = task[l].lb
    <3>1. task[l] \in TaskType /\ task \in [LBC -> TaskType]
      BY DEF TypeOK, RunType
    <3>2. PICK t \in TaskType : t = task[l]
      BY <3>1
    <3>3. PICK b, r : \/ task'[l] = t \/ task'[l] = [t EXCEPT !.target = b, !.requeue = r]
                      \/ task'[l] = [t EXCEPT !.target = b] \/ task'[l] = [t EXCEPT !.ours = b]
      <4>1. CASE Lock(l)
        BY <3>2, <4>1 DEF Lock
      <4>2. CASE DeployLoadBalancer(l)
        <5>1. PICK p, b, r : Choose(l, p, b, r)
          BY <4>2 DEF DeployLoadBalancer
        <5>2. task'[l] = [t EXCEPT !.target = b, !.requeue = r]
          BY <3>1, <3>2, <5>1 DEF Choose
        <5> QED
          BY <5>2
      <4>3. CASE CreateLoadBalancer(l) /\ ~Return(l)
        <5>1. PICK b : task' = [task EXCEPT ![l].target = b]
          BY <4>3 DEF CreateLoadBalancer
        <5>2. task'[l] = [t EXCEPT !.target = b]
          BY <3>1, <3>2, <5>1
        <5> QED
          BY <5>2
      <4>4. CASE Decide(l)
        BY <3>1, <3>2, <4>4 DEF Decide, Goto
      <4> QED
        BY <1>3, <4>1, <4>2, <4>3, <4>4
    <3>4. t.lb = task[l].lb
      BY <3>2
    <3>5. CASE task'[l] = [t EXCEPT !.target = b, !.requeue = r]
      <4>1. [t EXCEPT !.target = b, !.requeue = r].lb = t.lb
        BY TaskUpdates
      <4> QED
        BY <3>4, <3>5, <4>1
    <3>6. CASE task'[l] = [t EXCEPT !.target = b]
      <4>1. [t EXCEPT !.target = b].lb = t.lb
        BY TaskUpdates
      <4> QED
        BY <3>4, <3>6, <4>1
    <3>7. CASE task'[l] = [t EXCEPT !.ours = b]
      <4>1. [t EXCEPT !.ours = b].lb = t.lb
        BY TaskUpdates
      <4> QED
        BY <3>4, <3>7, <4>1
    <3> QED
      BY <3>3, <3>4, <3>5, <3>6, <3>7
  <2> QED
    BY <2>1, <2>2 DEF Apart, Switching
<1>4. CASE EditPin(l) \/ Delete(l)
  <2>1. UNCHANGED <<st, pc, task>>
    BY <1>4 DEF EditPin, Delete, run
  <2> QED
    BY <2>1 DEF Apart, Switching
<1>5. CASE Finish(l) \/ Fault(l) \/ (CreateLoadBalancer(l) /\ Return(l))
  BY <1>1, <1>5 DEF Finish, Fault, CreateLoadBalancer
<1>6. CASE (Patch(l) \/ Call(l) \/ Serve(l)) /\ ~Return(l)
  <2>1. PICK p, b : Goto(l, p) /\ Moves(l, p, b) /\ st'[l].lb = b
    BY <1>6, Strides
  <2>2. pc'[l] = p /\ task'[l] = task[l] /\ pc[l] # "idle"
    BY <2>1, GotoView DEF TypeOK, Moves
  <2>3. CASE Park(l)
    <3>1. st'[l].retiring = [id |-> task[l].lb, res |-> st[l].res] /\ pc[l] = "park" /\ p = "clear"
      BY <2>1, <2>3 DEF Park, TypeOK, StatusType, Moves
    <3>2. st'[l].retiring.id = task[l].lb
      BY <3>1
    <3> QED
      BY <2>1, <2>2, <3>1, <3>2 DEF Apart, Switching, Course, Moves
  <2>4. CASE Unpark(l)
    <3>1. st'[l].retiring = NoRetiring
      BY <2>4 DEF Unpark, TypeOK, StatusType
    <3> QED
      BY <1>n, <3>1 DEF Apart
  <2>5. CASE ~Park(l) /\ ~Unpark(l)
    <3>1. st'[l].retiring = st[l].retiring
      BY <2>5, StatusSteps
    <3>2. pc[l] \in Making => task[l].lb = None
      BY DEF Course
    <3>3. CASE b = st[l].lb
      <4>1. Switching(l) => Switching(l)' \/ b # st[l].retiring.id
        BY <2>1, <2>2, <3>3 DEF Moves, Switching, Course
      <4> QED
        BY <2>1, <2>2, <3>1, <3>3, <4>1 DEF Apart
    <3>4. CASE pc[l] \in {"recordLb", "forgetLb"}
      BY <2>1, <2>2, <3>1, <3>2, <3>4 DEF Apart, Making
    <3>5. CASE pc[l] = "ensureExist" /\ b = task[l].target
      <4>1. b # None /\ b \in LB
        BY <3>5, ConstantsAssumption DEF Course, Deployed
      <4>2. CASE task[l].lb = None
        BY <2>1, <2>2, <3>1, <4>1, <4>2 DEF Apart
      <4>3. CASE task[l].lb # None /\ b = task[l].lb
        BY <2>1, <2>2, <3>1, <3>3, <3>5, <4>3 DEF Course
      <4>4. CASE task[l].lb # None /\ b # task[l].lb
        <5>1. st[l].retiring.id = task[l].lb
          BY <3>5, <4>4 DEF Course, Switching
        <5> QED
          BY <2>1, <2>2, <3>1, <4>1, <4>4, <5>1 DEF Apart
      <4> QED
        BY <4>2, <4>3, <4>4
    <3> QED
      BY <2>1, <3>3, <3>4, <3>5 DEF Moves
  <2> QED
    BY <2>3, <2>4, <2>5
<1>7. CASE (Patch(l) \/ Call(l) \/ Serve(l)) /\ Return(l)
  <2>1. st'[l].lb = st[l].lb
    <3>1. ASSUME NEW p, NEW b, Goto(l, p), Moves(l, p, b) PROVE FALSE
      BY <1>7, <3>1, GotoView, ReturnView DEF TypeOK, Moves
    <3> QED
      BY <1>7, <3>1, Strides
  <2> QED
    BY <1>1, <1>7, <2>1
<1> QED
  BY <1>2, <1>3, <1>4, <1>5, <1>6, <1>7 DEF Turn, Reconcile, Patch, Call, Serve

LEMMA CarriesTurn ==
  ASSUME TypeOK, MutexInv("aligned"), NEW l \in LBC, Course(l), Apart(l), Carries(l), Turn(l) PROVE Carries(l)'
<1>1. CASE Put(l)
  <2>1. CASE Goto(l, "record") /\ Exists(task[l].target) /\ on' = [on EXCEPT ![task[l].target] = @ \cup {l}]
    <3>1. pc'[l] = "record" /\ task'[l] = task[l]
      BY <2>1, GotoView DEF TypeOK
    <3>2. lbs' = lbs /\ task[l].target \in LB
      BY <1>1 DEF Put, Course, Deployed
    <3>3. l \in on'[task[l].target]
      BY <2>1, <3>2 DEF TypeOK, CloudType
    <3> QED
      BY <2>1, <3>1, <3>2, <3>3 DEF Carries, Exists
  <2>2. CASE Return(l)
    BY <2>2, ReturnView DEF TypeOK, Carries
  <2> QED
    BY <1>1, <2>1, <2>2 DEF Put
<1>2. CASE TeardownRetiring(l)
  <2>1. pc[l] = "retire" /\ task'[l] = task[l] /\ lbs' = lbs
    BY <1>2, GotoView DEF TeardownRetiring, TypeOK
  <2>2. CASE task[l].target = None
    BY <2>1, <2>2 DEF Carries
  <2>3. CASE task[l].target # None
    <3>1. Exists(task[l].target) /\ l \in on[task[l].target] /\ st[l].lb = task[l].target
      BY <2>1, <2>3 DEF Carries, Course
    <3>2. task[l].target \in LB /\ st[l].retiring.id # task[l].target
      BY <2>1, <2>3, <3>1 DEF Apart, Switching, MutexInv, Acquainted, Known
    <3>3. l \in on'[task[l].target]
      BY <1>2, <3>1, <3>2 DEF TeardownRetiring, TypeOK, CloudType
    <3> QED
      BY <2>1, <3>1, <3>3 DEF Carries, Exists
  <2> QED
    BY <2>2, <2>3
<1>3. CASE Lock(l)
  <2>1. /\ \/ pc[l] = "lockEnsure" /\ pc'[l] = "resolve"
           \/ pc[l] = "lockDelete" /\ pc'[l] \in {"retire", "decide"}
        /\ UNCHANGED task
    BY <1>3 DEF Lock, TypeOK, RunType
  <2> QED
    BY <2>1 DEF Carries, Course, Closing
<1>4. CASE EditPin(l) \/ Delete(l)
  BY <1>4 DEF EditPin, Delete, run, cloud, Carries, Exists
<1>5. CASE Return(l)
  BY <1>5, ReturnView DEF TypeOK, Carries
<1>6. CASE Begin(l) \/ DeployLoadBalancer(l) \/ CreateLoadBalancer(l) \/ Decide(l)
  <2>1. pc'[l] \notin {"record", "retire", "unpark"}
    <3>0. RunType
      BY DEF TypeOK
    <3>1. CASE Begin(l)
      BY <3>0, <3>1 DEF RunType, Begin
    <3>2. CASE DeployLoadBalancer(l)
      <4>1. PICK p, b, r : /\ p \in {"migrateAdopt", "ensureExist", "adopt", "create"}
                             /\ Choose(l, p, b, r)
        <5>1. \E b, r : \/ Choose(l, "migrateAdopt", b, r) \/ Choose(l, "ensureExist", b, r)
                        \/ Choose(l, "adopt", b, r) \/ Choose(l, "create", b, r)
          BY <3>2 DEF DeployLoadBalancer
        <5> QED
          BY <5>1
      <4> QED
        BY <3>0, <4>1 DEF RunType, Choose
    <3>3. CASE CreateLoadBalancer(l)
      BY <3>0, <3>3 DEF RunType, CreateLoadBalancer, Return
    <3>4. CASE Decide(l)
      BY <3>0, <3>4 DEF RunType, Decide, Goto
    <3> QED
      BY <1>6, <3>1, <3>2, <3>3, <3>4
  <2> QED
    BY <2>1 DEF Carries
<1>7. CASE (Patch(l) \/ Call(l) \/ Serve(l)) /\ ~Put(l) /\ ~TeardownRetiring(l) /\ ~Return(l)
  <2>1. PICK p, b : Goto(l, p) /\ Moves(l, p, b) /\ st'[l].lb = b
    BY <1>7, Strides
  <2>2. pc'[l] = p /\ task'[l] = task[l]
    BY <2>1, GotoView DEF TypeOK
  <2>3. CASE Record(l)
    BY <2>2, <2>3 DEF Record, cloud, Carries, Exists
  <2>4. CASE ~Record(l)
    <3>1. p \notin {"record", "retire", "unpark"}
      BY <1>7, <2>1, <2>4 DEF Moves, Patch, Call, Serve, SetAdopted, SetCreated, AddLoadBalancerId,
         ForgetLb, Park, Clear, WaitForLBActive, DiscardLb, DeployTags, Strip, CheckEmpty,
         DeleteLoadBalancer, EnsureExist, Unpark
    <3> QED
      BY <2>2, <3>1 DEF Carries
  <2> QED
    BY <2>3, <2>4
<1> QED
  BY <1>1, <1>2, <1>3, <1>4, <1>5, <1>6, <1>7 DEF Turn, Reconcile, Patch, Call, Serve, Finish, Fault

LEMMA ServedTurn ==
  ASSUME TypeOK, MutexInv("aligned"), NEW l \in LBC, Course(l), Apart(l), Carries(l), Served(l), Turn(l),
         Carries(l)'
  PROVE  Served(l)'
<1> SUFFICES ASSUME served'[l], phase'[l] = "live" PROVE \E b \in LB : Exists(b)' /\ l \in on'[b]
  BY DEF Served
<1>p. phase[l] = "live"
  <2>1. CASE Finish(l) \/ Delete(l)
    BY <2>1 DEF Finish, Delete, TypeOK, ObjectType
  <2>2. CASE ~(Finish(l) \/ Delete(l))
    <3>1. phase' = phase
      BY <2>2 DEF Turn, Reconcile, Begin, Lock, DeployLoadBalancer, SetAdopted, CreateLoadBalancer,
         SetCreated, AddLoadBalancerId, WaitForLBActive, ForgetLb, DiscardLb, Park, Clear,
         EnsureExist, DeployTags, Put, Record, TeardownRetiring, Unpark, Decide, Strip, CheckEmpty,
         DeleteLoadBalancer, Fault, EditPin, object
    <3> QED
      BY <3>1
  <2> QED
    BY <2>1, <2>2
<1>k. ASSUME pc[l] \in {"record", "retire", "unpark"}, task[l].target # None
      PROVE  task[l].target \in LB
  <2>1. Known(l, task[l].target)
    BY DEF MutexInv, Acquainted
  <2> QED
    BY <1>k, <2>1 DEF Known
<1>1. CASE Record(l) \/ (Unpark(l) /\ task[l].target # None)
  <2>1. pc[l] \in {"record", "unpark"} /\ task[l].target # None /\ UNCHANGED <<lbs, on>>
    BY <1>1, ConstantsAssumption DEF Record, Unpark, Course, Deployed, cloud
  <2>2. Exists(task[l].target) /\ l \in on[task[l].target] /\ task[l].target \in LB
    BY <1>k, <2>1 DEF Carries
  <2> QED
    BY <2>1, <2>2 DEF Exists
<1>2. CASE TeardownRetiring(l)
  <2>1. /\ pc[l] = "retire" /\ pc'[l] = "unpark" /\ task'[l] = task[l]
    BY <1>2, GotoView DEF TeardownRetiring, TypeOK
  <2>2. task[l].target # None
    BY <1>p, <2>1 DEF MutexInv, Shape
  <2> QED
    BY <1>k, <2>1, <2>2 DEF Carries
<1>3. CASE ~Record(l) /\ ~TeardownRetiring(l) /\ ~(Unpark(l) /\ task[l].target # None)
  <2>1. served[l]
    <3>1. CASE Unpark(l)
      BY <1>3, <3>1 DEF Unpark
    <3>2. CASE ~Unpark(l)
      BY <1>3, <3>2 DEF Turn, Reconcile, Begin, Lock, DeployLoadBalancer, SetAdopted,
         CreateLoadBalancer, SetCreated, AddLoadBalancerId, WaitForLBActive, ForgetLb, DiscardLb,
         Park, Clear, EnsureExist, DeployTags, Put, Decide, Strip, CheckEmpty,
         DeleteLoadBalancer, Finish, Fault, EditPin, Delete, history
    <3> QED
      BY <3>1, <3>2
  <2>2. PICK b \in LB : Exists(b) /\ l \in on[b]
    BY <1>p, <2>1 DEF Served
  <2>3. pc[l] \notin {"discardLb", "strip", "deleteLb"}
    BY <1>p, <2>1 DEF MutexInv, Shape, Making, Closing
  <2>4. Touches(l)
    BY <2>3, CloudEffect
  <2>5. lbs'[b] # "gone" /\ ~Strip(l) /\ lbs[b] # "absent"
    BY <2>2, <2>3, <2>4 DEF Touches, Exists, Strip
  <2>6. Leaves(l, b)
    BY Contents
  <2> QED
    BY <1>3, <2>2, <2>5, <2>6 DEF Leaves
<1> QED
  BY <1>1, <1>2, <1>3

LEMMA OutageStep ==
  ASSUME TypeOK, MutexInv("aligned"), Courses, OutageInv, [Switched]_vars, [Next]_vars PROVE OutageInv'
<1>1. ASSUME NEW l \in LBC, Turn(l), Switched PROVE OutageInv'
  <2> SUFFICES ASSUME NEW k \in LBC PROVE Apart(k)' /\ Carries(k)' /\ Served(k)'
    BY DEF OutageInv
  <2>1. Course(k) /\ Apart(k) /\ Carries(k) /\ Served(k)
    BY DEF Courses, OutageInv
  <2>2. CASE k = l
    <3>1. Apart(k)'
      BY <1>1, <2>1, <2>2, ApartTurn
    <3>2. Carries(k)'
      BY <1>1, <2>1, <2>2, CarriesTurn
    <3> QED
      BY <1>1, <2>1, <2>2, <3>1, <3>2, ServedTurn
  <2>3. CASE k # l
    <3>1. /\ pc'[k] = pc[k] /\ task'[k] = task[k] /\ st'[k] = st[k] /\ phase'[k] = phase[k]
          /\ served'[k] = served[k]
      BY <1>1, <2>3, Frames DEF Frame
    <3>2. ASSUME NEW b \in LB, Exists(b), k \in on[b] PROVE Exists(b)' /\ k \in on'[b]
      BY <1>1, <2>3, <3>2, StaysOn
    <3>3. Apart(k)'
      BY <2>1, <3>1 DEF Apart, Switching
    <3>4. Carries(k)'
      <4> SUFFICES ASSUME pc[k] \in {"record", "retire", "unpark"}, task[k].target # None
                   PROVE  Exists(task[k].target)' /\ k \in on'[task[k].target]
        BY <3>1 DEF Carries, Exists
      <4>1. PICK b : b = task[k].target
        OBVIOUS
      <4>2. b \in LB
        <5>1. Known(k, b)
          BY <4>1 DEF MutexInv, Acquainted
        <5> QED
          BY <4>1, <5>1 DEF Known
      <4>3. Exists(b)' /\ k \in on'[b]
        BY <2>1, <3>2, <4>1, <4>2 DEF Carries
      <4> QED
        BY <3>1, <4>1, <4>3 DEF Exists
    <3>5. Served(k)'
      BY <2>1, <3>1, <3>2 DEF Served
    <3> QED
      BY <3>3, <3>4, <3>5
  <2> QED
    BY <2>2, <2>3
<1>2. CASE UNCHANGED vars \/ \E b \in LB : Settle(b)
  <2>1. Still /\ \A b \in LB : Exists(b) => Exists(b)'
    BY <1>2, Stills DEF Exists
  <2>2. \A k \in LBC : Apart(k)'
    BY <2>1 DEF Still, OutageInv, Apart, Switching
  <2>3. ASSUME NEW k \in LBC PROVE Carries(k)' /\ Served(k)'
    <3>1. Carries(k) /\ Served(k) /\ Known(k, task[k].target)
      BY DEF OutageInv, MutexInv, Acquainted
    <3>2. Carries(k)'
      BY <2>1, <3>1 DEF Still, Carries, Known, Exists
    <3>3. Served(k)'
      BY <2>1, <3>1 DEF Still, Served
    <3> QED
      BY <3>2, <3>3
  <2> QED
    BY <2>2, <2>3 DEF OutageInv
<1>3. CASE \E l \in LBC : Turn(l)
  <2>1. CASE Switched
    BY <1>1, <1>3, <2>1
  <2>2. CASE UNCHANGED vars
    BY <1>2, <2>2
  <2> QED
    BY <2>1, <2>2
<1> QED
  BY <1>2, <1>3 DEF Next, Turn

\* migrateLoadBalancer: an LBC that has been served keeps being served until it
\* is deleted, whatever faults and whichever re-pins, as long as a migration
\* that has begun gets as far as the move of status.loadBalancerId.
THEOREM MigratesWithoutOutage ==
  ASSUME "repinEarly" \notin Edits
  PROVE  Spec /\ [][DeletedAligned]_vars /\ [][Switched]_vars => []NoOutage
<1>1. Init => OutageInv
  BY DEF Init, OutageInv, Apart, Carries, Served, NoStatus, NoRetiring
<1>2. TypeOK /\ MutexInv("aligned") /\ Courses /\ OutageInv /\ [Switched]_vars /\ [Next]_vars => OutageInv'
  BY OutageStep
<1>3. OutageInv => NoOutage
  BY DEF OutageInv, Served, NoOutage
<1> QED
  BY <1>1, <1>2, <1>3, MutexInvariant, CoursesHold, TypeCorrect, PTL DEF Spec

-----------------------------------------------------------------------------
(* Deletion leaves nothing that is on the books.  Two things lose a record:   *)
(* a migration that begins before the previous one is over parks over it, and *)
(* a pass that comes back to a load balancer it had left and stops before the *)
(* record leaves content that only the old books knew.                        *)
Tidy ==
  \A l \in LBC :
    /\ pc[l] = "park" /\ pc'[l] = "clear" => ~st[l].retiring.res
    /\ pc[l] = "record" /\ task[l].target \in booked[l] /\ pc'[l] = "idle" => st'[l].res

\* A load balancer that carries something exists.
Carried == \A b \in LB : on[b] # {} => Exists(b)

\* Only load balancers that exist or did are on the books.
Fresh(l) ==
  /\ \A b \in booked[l] : b \in LB /\ lbs[b] # "absent"
  /\ pc[l] \in Making => task[l].target \notin booked[l] /\ lbs[task[l].target] # "absent"
  /\ pc[l] = "record" => lbs[task[l].target] # "absent"

\* What l has on a load balancer of its books is in its status, live or parked.
Books(l) ==
  \A b \in booked[l] : l \in on[b] =>
    \/ b = st[l].lb /\ st[l].res
    \/ b = st[l].retiring.id /\ st[l].retiring.res
    \/ pc[l] = "record" /\ b = task[l].target

\* How far a migration or a deletion is with taking it off.
Parting(l) ==
  /\ pc[l] = "clear" => (st[l].retiring.res <=> st[l].res)
  /\ pc[l] = "ensureExist" /\ Switching(l) => ~st[l].res
  /\ pc[l] = "unpark" /\ st[l].retiring.res /\ st[l].retiring.id \in LB => l \notin on[st[l].retiring.id]
  /\ pc[l] \in {"decide", "strip", "checkEmpty", "deleteLb", "finish"} => ~st[l].retiring.res
  /\ pc[l] = "checkEmpty" /\ st[l].res /\ task[l].lb \in LB => l \notin on[task[l].lb]
  /\ phase[l] = "gone" => pc[l] = "idle"
  /\ pc[l] = "finish" \/ phase[l] = "gone" => \A b \in booked[l] : l \notin on[b]

GoneInv == Carried /\ \A l \in LBC : Fresh(l) /\ Books(l) /\ Parting(l)

LEMMA CarriedTurn ==
  ASSUME TypeOK, Carried, NEW l \in LBC, Turn(l) PROVE Carried'
<1> SUFFICES ASSUME NEW b \in LB, on'[b] # {} PROVE Exists(b)'
  BY DEF Carried
<1>1. Leaves(l, b)
  BY Contents
<1>2. CASE on'[b] \subseteq on[b]
  <2>1. Exists(b)
    BY <1>2 DEF Carried
  <2> QED
    BY <1>1, <2>1 DEF Leaves, Exists
<1>3. CASE ~(on'[b] \subseteq on[b])
  <2>1. l \in on'[b] /\ l \notin on[b]
    BY <1>1, <1>3 DEF Leaves
  <2> QED
    BY <1>1, <2>1 DEF Leaves, Exists
<1> QED
  BY <1>2, <1>3

\* The books grow by a record only.
LEMMA BookSteps ==
  ASSUME TypeOK, NEW l \in LBC, Turn(l)
  PROVE  booked'[l] = IF Record(l) THEN booked[l] \cup {task[l].target} ELSE booked[l]
<1>1. CASE Record(l)
  BY <1>1 DEF Record, TypeOK, HistoryType
<1>2. CASE ~Record(l)
  BY <1>2 DEF Turn, Reconcile, Begin, Lock, DeployLoadBalancer, SetAdopted, CreateLoadBalancer,
     SetCreated, AddLoadBalancerId, WaitForLBActive, ForgetLb, DiscardLb, Park, Clear,
     EnsureExist, DeployTags, Put, TeardownRetiring, Unpark, Decide, Strip, CheckEmpty,
     DeleteLoadBalancer, Finish, Fault, EditPin, Delete, history
<1> QED
  BY <1>1, <1>2

LEMMA FreshTurn ==
  ASSUME TypeOK, NEW l \in LBC, Course(l), Fresh(l), Turn(l) PROVE Fresh(l)'
<1>1. \A b \in LB : lbs'[b] = "absent" => lbs[b] = "absent"
  BY Contents DEF Leaves
<1>2. \A b \in booked'[l] : b \in LB /\ lbs'[b] # "absent"
  <2>1. CASE Record(l)
    <3>1. booked'[l] = booked[l] \cup {task[l].target} /\ pc[l] = "record"
      BY <2>1, BookSteps DEF Record
    <3>2. task[l].target \in LB /\ lbs[task[l].target] # "absent"
      BY <3>1 DEF Course, Deployed, Fresh
    <3> QED
      BY <1>1, <3>1, <3>2 DEF Fresh
  <2>2. CASE ~Record(l)
    BY <1>1, <2>2, BookSteps DEF Fresh
  <2> QED
    BY <2>1, <2>2
<1>3. /\ pc'[l] \in Making => task'[l].target \notin booked'[l] /\ lbs'[task'[l].target] # "absent"
      /\ pc'[l] = "record" => lbs'[task'[l].target] # "absent"
  <2>1. CASE CreateLoadBalancer(l) /\ ~Return(l)
    <3>1. PICK b \in LB : /\ lbs[b] = "absent" /\ pc' = [pc EXCEPT ![l] = "recordCreated"]
                          /\ task' = [task EXCEPT ![l].target = b]
                          /\ lbs' = [lbs EXCEPT ![b] = "building"]
      BY <2>1 DEF CreateLoadBalancer
    <3>2. /\ pc'[l] = "recordCreated" /\ task'[l] = [task[l] EXCEPT !.target = b]
          /\ task[l] \in TaskType /\ lbs'[b] = "building"
      BY <3>1 DEF TypeOK, RunType, CloudType
    <3>3. task'[l].target = b
      BY <3>2, TaskUpdates
    <3>4. booked'[l] = booked[l]
      BY <2>1, BookSteps DEF CreateLoadBalancer, Record
    <3> QED
      BY <3>1, <3>2, <3>3, <3>4 DEF Fresh
  <2>2. CASE Put(l) /\ ~Return(l)
    <3>1. pc[l] = "put" /\ Exists(task[l].target) /\ Goto(l, "record") /\ lbs' = lbs
      BY <2>2 DEF Put
    <3>2. pc'[l] = "record" /\ task'[l] = task[l]
      BY <3>1, GotoView DEF TypeOK
    <3> QED
      BY <3>1, <3>2 DEF Exists, Making
  <2>3. CASE Return(l)
    BY <2>3, ReturnView DEF TypeOK, Making
  <2>4. CASE EditPin(l) \/ Delete(l)
    <3>1. UNCHANGED <<pc, task, lbs, booked>>
      BY <2>4 DEF EditPin, Delete, run, cloud, history
    <3> QED
      BY <3>1 DEF Fresh
  <2>5. CASE Begin(l) \/ Lock(l) \/ DeployLoadBalancer(l) \/ Decide(l)
    <3>0. RunType
      BY DEF TypeOK
    <3>1. CASE Begin(l)
      BY <3>0, <3>1 DEF RunType, Begin, Making
    <3>2. CASE DeployLoadBalancer(l)
      <4>1. PICK p, b, r : /\ p \in {"migrateAdopt", "ensureExist", "adopt", "create"}
                           /\ Choose(l, p, b, r)
        <5>1. \E b, r : \/ Choose(l, "migrateAdopt", b, r) \/ Choose(l, "ensureExist", b, r)
                        \/ Choose(l, "adopt", b, r) \/ Choose(l, "create", b, r)
          BY <3>2 DEF DeployLoadBalancer
        <5> QED
          BY <5>1
      <4> QED
        BY <3>0, <4>1 DEF RunType, Choose, Making
    <3>3. CASE Lock(l)
      BY <3>0, <3>3 DEF RunType, Lock, Making
    <3>4. CASE Decide(l)
      BY <3>0, <3>4 DEF RunType, Decide, Goto, Making
    <3> QED
      BY <2>5, <3>1, <3>2, <3>3, <3>4
  <2>6. CASE (Patch(l) \/ Call(l) \/ Serve(l)) /\ ~Put(l) /\ ~Return(l)
    <3>1. PICK p, b : Goto(l, p) /\ Moves(l, p, b) /\ st'[l].lb = b
      BY <2>6, Strides
    <3>2. pc'[l] = p /\ task'[l] = task[l]
      BY <3>1, GotoView DEF TypeOK
    <3>3. p # "record"
      BY <2>6, <3>1 DEF Moves, Patch, Call, Serve, SetAdopted, SetCreated, AddLoadBalancerId,
         ForgetLb, Park, Clear, WaitForLBActive, DiscardLb, DeployTags, Strip, CheckEmpty,
         DeleteLoadBalancer, EnsureExist, Unpark, Record, TeardownRetiring
    <3>4. p \in Making => pc[l] \in Making /\ booked'[l] = booked[l]
      BY <3>1, BookSteps DEF Moves, Making, Record
    <3>5. pc[l] \in Making => task[l].target \in LB
      BY DEF Course
    <3> QED
      BY <1>1, <3>2, <3>3, <3>4, <3>5 DEF Fresh
  <2> QED
    BY <2>1, <2>2, <2>3, <2>4, <2>5, <2>6 DEF Turn, Reconcile, Patch, Call, Serve, Finish, Fault
<1> QED
  BY <1>2, <1>3 DEF Fresh

\* The id in status moves by four steps.
LEMMA IdSteps ==
  ASSUME TypeOK, NEW l \in LBC, Turn(l), st'[l].lb # st[l].lb
  PROVE  \/ pc[l] = "recordLb" /\ st'[l].lb = task[l].target
         \/ pc[l] = "forgetLb" /\ st'[l].lb = None
         \/ pc[l] = "ensureExist" /\ st'[l].lb = task[l].target /\ EnsureExist(l)
<1>1. CASE Patch(l) \/ Call(l) \/ Serve(l)
  <2>1. PICK p, b : Goto(l, p) /\ Moves(l, p, b) /\ st'[l].lb = b
    BY <1>1, Strides
  <2>2. pc[l] = "ensureExist" => EnsureExist(l)
    BY <1>1 DEF Patch, Call, Serve, SetAdopted, SetCreated, AddLoadBalancerId,
       ForgetLb, Park, Clear, WaitForLBActive, DiscardLb, DeployTags, Put, Strip, CheckEmpty,
       DeleteLoadBalancer, Unpark, Record, TeardownRetiring
  <2> QED
    BY <2>1, <2>2 DEF Moves
<1>2. CASE ~(Patch(l) \/ Call(l) \/ Serve(l))
  <2>1. st' = st
    BY <1>2 DEF Turn, Reconcile, Patch, Call, Serve, Begin, Lock, DeployLoadBalancer,
       CreateLoadBalancer, Decide, Finish, Fault, EditPin, Delete
  <2> QED
    BY <2>1
<1> QED
  BY <1>1, <1>2

LEMMA BooksTurn ==
  ASSUME TypeOK, Tidy, NEW l \in LBC, Course(l), Fresh(l), Books(l), Parting(l), Turn(l)
  PROVE  Books(l)'
<1> SUFFICES ASSUME NEW b \in booked'[l], l \in on'[b]
             PROVE  \/ b = st'[l].lb /\ st'[l].res
                    \/ b = st'[l].retiring.id /\ st'[l].retiring.res
                    \/ pc'[l] = "record" /\ b = task'[l].target
  BY DEF Books
<1>0. b \in LB /\ b # None
  BY FreshTurn, ConstantsAssumption DEF Fresh
<1>1. CASE b \notin booked[l]
  <2>1. Record(l) /\ b = task[l].target
    BY <1>1, BookSteps
  <2>2. pc[l] = "record" /\ st[l].lb = task[l].target
    BY <2>1 DEF Record, Course
  <2>3. st'[l].lb = st[l].lb /\ st'[l].res
    BY <2>1, <2>2, StatusSteps, IdSteps
  <2> QED
    BY <2>1, <2>2, <2>3
<1>2. CASE b \in booked[l] /\ l \notin on[b]
  <2>1. Put(l) /\ pc'[l] = "record" /\ b = task[l].target
    BY <1>0, <1>2, Contents DEF Leaves, Fresh
  <2>2. task'[l] = task[l]
    BY <2>1, GotoView, ReturnView DEF Put, TypeOK
  <2> QED
    BY <2>1, <2>2
<1>3. CASE b \in booked[l] /\ l \in on[b]
  <2>1. CASE b = st[l].lb /\ st[l].res
    <3>1. CASE st'[l].lb = st[l].lb /\ st'[l].res
      BY <2>1, <3>1
    <3>2. CASE st'[l].lb = st[l].lb /\ ~st'[l].res
      <4>1. Clear(l) /\ pc[l] = "clear"
        BY <2>1, <3>2, StatusSteps DEF Clear
      <4>2. st'[l].retiring = st[l].retiring
        BY <4>1, StatusSteps DEF Park, Unpark
      <4>3. st[l].retiring.res /\ st[l].retiring.id = st[l].lb
        BY <2>1, <4>1 DEF Parting, Course, Switching
      <4> QED
        BY <2>1, <4>2, <4>3
    <3>3. CASE st'[l].lb # st[l].lb
      <4>1. CASE pc[l] = "recordLb"
        BY <1>0, <2>1, <4>1 DEF Course, Making
      <4>2. CASE pc[l] = "forgetLb"
        BY <1>3, <2>1, <4>2 DEF Course, Fresh, Making
      <4>3. CASE pc[l] = "ensureExist" /\ st'[l].lb = task[l].target
        <5>1. st[l].lb = task[l].lb /\ task[l].lb # None
          BY <1>0, <2>1, <3>3, <4>3 DEF Course
        <5> QED
          BY <2>1, <3>3, <4>3, <5>1 DEF Parting, Switching
      <4> QED
        BY <3>3, <4>1, <4>2, <4>3, IdSteps
    <3> QED
      BY <3>1, <3>2, <3>3
  <2>2. CASE b = st[l].retiring.id /\ st[l].retiring.res
    <3>1. CASE st'[l].retiring = st[l].retiring
      BY <2>2, <3>1
    <3>2. CASE st'[l].retiring # st[l].retiring
      <4>1. CASE Park(l)
        <5>1. pc[l] = "park" /\ pc'[l] = "clear"
          BY <4>1, GotoView DEF Park, TypeOK
        <5> QED
          BY <2>2, <5>1 DEF Tidy
      <4>2. CASE Unpark(l)
        BY <1>0, <1>3, <2>2, <4>2 DEF Unpark, Parting
      <4> QED
        BY <3>2, <4>1, <4>2, StatusSteps
    <3> QED
      BY <3>1, <3>2
  <2>3. CASE pc[l] = "record" /\ b = task[l].target
    <3>1. st[l].lb = b /\ st'[l].lb = st[l].lb
      BY <2>3, IdSteps DEF Course
    <3>2. CASE pc'[l] = "idle"
      BY <1>3, <2>3, <3>1, <3>2 DEF Tidy
    <3>3. CASE EditPin(l) \/ Delete(l)
      BY <2>3, <3>3 DEF EditPin, Delete, run
    <3>4. CASE Record(l)
      BY <3>1, <3>4, StatusSteps
    <3>5. Record(l) \/ EditPin(l) \/ Delete(l) \/ Return(l)
      BY <2>3 DEF Turn, Reconcile, Begin, Lock, DeployLoadBalancer, SetAdopted, CreateLoadBalancer,
         SetCreated, AddLoadBalancerId, WaitForLBActive, ForgetLb, DiscardLb, Park, Clear,
         EnsureExist, DeployTags, Put, TeardownRetiring, Unpark, Decide, Strip, CheckEmpty,
         DeleteLoadBalancer, Finish, Fault
    <3> QED
      BY <3>2, <3>3, <3>4, <3>5, ReturnView DEF TypeOK
  <2> QED
    BY <1>3, <2>1, <2>2, <2>3 DEF Books
<1> QED
  BY <1>1, <1>2, <1>3

\* Where a step of a deletion or of a migration leads.
LEMMA PartingTurn ==
  ASSUME TypeOK, Carried, NEW l \in LBC, Course(l), Fresh(l), Parting(l), Turn(l), Books(l)',
         Course(l)', Carried'
  PROVE  Parting(l)'
<1>r. RunType
  BY DEF TypeOK
<1>n. NoRetiring.id = None /\ NoRetiring.res = FALSE
  BY DEF NoRetiring
<1>0. phase[l] # "gone"
  <2>1. phase[l] = "gone" => pc[l] = "idle"
    BY DEF Parting
  <2> QED
    BY <2>1 DEF Turn, Reconcile, Begin, Lock, DeployLoadBalancer, SetAdopted, CreateLoadBalancer,
       SetCreated, AddLoadBalancerId, WaitForLBActive, ForgetLb, DiscardLb, Park, Clear,
       EnsureExist, DeployTags, Put, Record, TeardownRetiring, Unpark, Decide, Strip, CheckEmpty,
       DeleteLoadBalancer, Finish, Fault, EditPin, Delete
<1>1. CASE Finish(l)
  <2>1. pc'[l] = "idle" /\ pc[l] = "finish" /\ UNCHANGED <<on, booked>>
    BY <1>1, <1>r, ReturnView DEF Finish, cloud, history
  <2> QED
    BY <2>1 DEF Parting
<1>p. CASE ~Finish(l)
  <2>p. phase'[l] # "gone"
    BY <1>0, <1>p DEF Turn, Reconcile, Begin, Lock, DeployLoadBalancer, SetAdopted,
       CreateLoadBalancer, SetCreated, AddLoadBalancerId, WaitForLBActive, ForgetLb, DiscardLb,
       Park, Clear, EnsureExist, DeployTags, Put, Record, TeardownRetiring, Unpark, Decide, Strip,
       CheckEmpty, DeleteLoadBalancer, Fault, EditPin, Delete, object, TypeOK, ObjectType
  <2>1. CASE Return(l)
    BY <1>r, <2>p, <2>1, ReturnView DEF Parting
  <2>2. CASE EditPin(l) \/ Delete(l)
    <3>1. UNCHANGED <<st, pc, task, on, booked>>
      BY <2>2 DEF EditPin, Delete, run, cloud, history
    <3> QED
      BY <2>p, <3>1 DEF Parting, Switching
  <2>3. CASE Begin(l) \/ DeployLoadBalancer(l) \/ (CreateLoadBalancer(l) /\ ~Return(l))
    <3>1. CASE Begin(l)
      BY <1>r, <2>p, <3>1 DEF RunType, Begin, Parting
    <3>2. CASE DeployLoadBalancer(l)
      <4>1. PICK p, b, r : /\ Choose(l, p, b, r) /\ p \in {"migrateAdopt", "ensureExist", "adopt", "create"}
                           /\ p = "ensureExist" => b = task[l].lb
        <5>1. \E b, r : \/ Choose(l, "migrateAdopt", b, r)
                        \/ Choose(l, "ensureExist", b, r) /\ b = task[l].lb
                        \/ Choose(l, "adopt", b, r) \/ Choose(l, "create", b, r)
          BY <3>2 DEF DeployLoadBalancer
        <5> QED
          BY <5>1
      <4>2. PICK t \in TaskType : t = task[l]
        BY <1>r DEF RunType
      <4>3. pc'[l] = p /\ task'[l] = [t EXCEPT !.target = b, !.requeue = r]
        BY <1>r, <4>1, <4>2 DEF Choose, RunType
      <4>4. task'[l].lb = t.lb /\ task'[l].target = b
        BY <4>3, TaskUpdates
      <4> QED
        BY <2>p, <4>1, <4>2, <4>3, <4>4 DEF Parting, Switching
    <3>3. CASE CreateLoadBalancer(l) /\ ~Return(l)
      BY <1>r, <2>p, <3>3 DEF RunType, CreateLoadBalancer, Parting
    <3> QED
      BY <2>3, <3>1, <3>2, <3>3
  <2>4. CASE Lock(l)
    <3>1. /\ st' = st /\ pc'[l] \in {"resolve", "retire", "decide"}
          /\ pc'[l] = "decide" => st[l].retiring = NoRetiring
      BY <1>r, <2>4 DEF RunType, Lock
    <3> QED
      BY <1>n, <2>p, <3>1 DEF Parting
  <2>5. CASE Decide(l)
    <3>1. /\ pc[l] = "decide" /\ UNCHANGED <<st, on, lbs, booked>>
          /\ pc'[l] \in {"finish", "deleteLb", "strip"}
          /\ pc'[l] = "finish" => task[l].lb = None \/ ~Exists(task[l].lb)
      BY <1>r, <2>5 DEF RunType, Decide, Goto, cloud, history
    <3>2. ~st'[l].retiring.res
      BY <3>1 DEF Parting
    <3>3. pc'[l] = "finish" => \A b \in booked'[l] : l \notin on'[b]
      <4> SUFFICES ASSUME pc'[l] = "finish", NEW b \in booked[l], l \in on[b] PROVE FALSE
        BY <3>1
      <4>1. b = st[l].lb /\ st[l].lb = task[l].lb /\ b \in LB /\ b # None
        BY <3>1, <3>2, ConstantsAssumption DEF Books, Course, Closing, Fresh
      <4> QED
        BY <3>1, <4>1 DEF Carried
    <3> QED
      BY <2>p, <3>1, <3>2, <3>3 DEF Parting
  <2>6. CASE (Patch(l) \/ Call(l) \/ Serve(l)) /\ ~Return(l)
    <3>1. PICK p, b : Goto(l, p) /\ Moves(l, p, b) /\ st'[l].lb = b
      BY <2>6, Strides
    <3>2. pc'[l] = p /\ task'[l] = task[l]
      BY <1>r, <3>1, GotoView
    <3>a. Turn(l) /\ (Patch(l) \/ Call(l) \/ Serve(l))
      BY <2>6
    <3>3. /\ pc[l] = "park" => Park(l)
          /\ pc[l] = "clear" => Clear(l)
          /\ pc[l] = "retire" => TeardownRetiring(l)
          /\ pc[l] = "unpark" => Unpark(l)
          /\ pc[l] = "strip" => Strip(l)
          /\ pc[l] = "checkEmpty" => CheckEmpty(l)
          /\ pc[l] = "deleteLb" => DeleteLoadBalancer(l)
      BY <3>a DEF Patch, Call, Serve, SetAdopted, SetCreated, AddLoadBalancerId,
         ForgetLb, Park, Clear, WaitForLBActive, DiscardLb, DeployTags, Put, Strip, CheckEmpty,
         DeleteLoadBalancer, EnsureExist, Unpark, Record, TeardownRetiring
    <3>4. p = "clear" => (st'[l].retiring.res <=> st'[l].res)
      <4> SUFFICES ASSUME p = "clear" PROVE st'[l].retiring.res <=> st'[l].res
        OBVIOUS
      <4>1. Park(l)
        BY <3>1, <3>3 DEF Moves
      <4>2. PICK s \in StatusType : s = st[l]
        BY DEF TypeOK
      <4>3. st'[l] = [s EXCEPT !.retiring = [id |-> task[l].lb, res |-> s.res]]
        BY <4>1, <4>2 DEF Park, TypeOK
      <4>4. st'[l].retiring = [id |-> task[l].lb, res |-> s.res] /\ st'[l].res = s.res
        BY <4>3 DEF StatusType
      <4> QED
        BY <4>4
    <3>5. p = "ensureExist" /\ Switching(l)' => ~st'[l].res
      <4> SUFFICES ASSUME p = "ensureExist", Switching(l)' PROVE ~st'[l].res
        OBVIOUS
      <4>1. pc[l] = "clear"
        BY <3>1, <3>2 DEF Moves, Switching, Course, Making
      <4> QED
        BY <3>3, <4>1, StatusSteps
    <3>6. p = "unpark" /\ st'[l].retiring.res /\ st'[l].retiring.id \in LB => l \notin on'[st'[l].retiring.id]
      <4> SUFFICES ASSUME p = "unpark", st'[l].retiring.res, st'[l].retiring.id \in LB
                   PROVE  l \notin on'[st'[l].retiring.id]
        OBVIOUS
      <4>1. TeardownRetiring(l) /\ st' = st
        BY <3>1, <3>3 DEF Moves, TeardownRetiring
      <4>2. PICK c \in LB : c = st[l].retiring.id
        BY <4>1
      <4>3. on' = IF Exists(c) THEN [on EXCEPT ![c] = @ \ {l}] ELSE on
        BY <4>1, <4>2 DEF TeardownRetiring
      <4>4. l \notin on'[c]
        <5>1. CASE Exists(c)
          BY <4>3, <5>1 DEF TypeOK, CloudType
        <5>2. CASE ~Exists(c)
          BY <4>3, <5>2 DEF Carried
        <5> QED
          BY <5>1, <5>2
      <4> QED
        BY <4>1, <4>2, <4>4
    <3>7. p \in {"decide", "strip", "checkEmpty", "deleteLb", "finish"} => ~st'[l].retiring.res
      <4> SUFFICES ASSUME p \in {"decide", "strip", "checkEmpty", "deleteLb", "finish"}
                   PROVE  ~st'[l].retiring.res
        OBVIOUS
      <4>1. CASE p = "decide"
        <5>1. Unpark(l)
          BY <3>1, <3>3, <4>1 DEF Moves
        <5>2. st'[l].retiring = NoRetiring
          BY <5>1 DEF Unpark, TypeOK, StatusType
        <5> QED
          BY <1>n, <5>2
      <4>2. CASE p # "decide"
        <5>1. pc[l] \in {"decide", "strip", "checkEmpty", "deleteLb"}
          BY <3>1, <4>2 DEF Moves
        <5>2. st'[l].retiring = st[l].retiring
          BY <5>1, StatusSteps DEF Park, Unpark
        <5> QED
          BY <5>1, <5>2 DEF Parting
      <4> QED
        BY <4>1, <4>2
    <3>8. p = "checkEmpty" /\ st'[l].res /\ task'[l].lb \in LB => l \notin on'[task'[l].lb]
      <4> SUFFICES ASSUME p = "checkEmpty", st'[l].res, task'[l].lb \in LB
                   PROVE  l \notin on'[task'[l].lb]
        OBVIOUS
      <4>1. Strip(l) /\ st' = st
        BY <3>1, <3>3 DEF Moves, Strip
      <4>2. on' = [on EXCEPT ![task[l].lb] = @ \ {l}]
        BY <4>1 DEF Strip
      <4> QED
        BY <3>2, <4>2 DEF TypeOK, CloudType
    <3>9. p = "finish" => \A c \in booked'[l] : l \notin on'[c]
      <4> SUFFICES ASSUME p = "finish", NEW c \in booked'[l], l \in on'[c] PROVE FALSE
        OBVIOUS
      <4>1. c = st'[l].lb /\ st'[l].res /\ c = task[l].lb /\ c \in LB
        BY <3>2, <3>7, FreshTurn DEF Books, Course, Closing, Fresh
      <4>2. CASE pc[l] = "checkEmpty"
        <5>1. st' = st /\ on' = on
          BY <3>3, <4>2 DEF CheckEmpty, cloud
        <5> QED
          BY <4>1, <4>2, <5>1 DEF Parting
      <4>3. CASE pc[l] = "deleteLb"
        <5>1. Gone(task[l].lb)
          BY <2>6, <3>3, <4>3 DEF DeleteLoadBalancer
        <5> QED
          BY <4>1, <5>1 DEF Gone, TypeOK, CloudType
      <4>4. pc[l] # "decide"
        BY <3>a DEF Patch, Call, Serve, SetAdopted, SetCreated, AddLoadBalancerId,
           ForgetLb, Park, Clear, WaitForLBActive, DiscardLb, DeployTags, Put, Strip, CheckEmpty,
           DeleteLoadBalancer, EnsureExist, Unpark, Record, TeardownRetiring
      <4> QED
        BY <3>1, <4>2, <4>3, <4>4 DEF Moves
    <3> QED
      BY <2>p, <3>2, <3>4, <3>5, <3>6, <3>7, <3>8, <3>9 DEF Parting
  <2> QED
    BY <1>p, <2>1, <2>2, <2>3, <2>4, <2>5, <2>6 DEF Turn, Reconcile, Patch, Call, Serve, Fault
<1> QED
  BY <1>1, <1>p

LEMMA GoneStep ==
  ASSUME TypeOK, Courses, Courses', GoneInv, [Tidy]_vars, [Next]_vars PROVE GoneInv'
<1>1. ASSUME NEW l \in LBC, Turn(l), Tidy PROVE GoneInv'
  <2>1. Carried'
    BY <1>1, CarriedTurn DEF GoneInv
  <2>2. ASSUME NEW k \in LBC PROVE Fresh(k)' /\ Books(k)' /\ Parting(k)'
    <3>1. Course(k) /\ Fresh(k) /\ Books(k) /\ Parting(k) /\ Course(k)'
      BY DEF Courses, GoneInv
    <3>2. CASE k = l
      <4>1. Fresh(k)' /\ Books(k)'
        BY <1>1, <3>1, <3>2, FreshTurn, BooksTurn
      <4> QED
        BY <1>1, <2>1, <3>1, <3>2, <4>1, PartingTurn DEF GoneInv
    <3>3. CASE k # l
      <4>1. /\ pc'[k] = pc[k] /\ task'[k] = task[k] /\ st'[k] = st[k] /\ phase'[k] = phase[k]
            /\ booked'[k] = booked[k]
        BY <1>1, <3>3, Frames DEF Frame
      <4>2. \A b \in LB : /\ k \in on'[b] => k \in on[b]
                          /\ lbs'[b] = "absent" => lbs[b] = "absent"
        BY <1>1, <3>3, Contents DEF Leaves
      <4>3. Fresh(k)'
        BY <3>1, <4>1, <4>2 DEF Fresh, Course, Deployed
      <4>4. Books(k)'
        BY <3>1, <4>1, <4>2 DEF Books, Fresh
      <4>5. Parting(k)'
        BY <3>1, <4>1, <4>2 DEF Parting, Switching, Fresh
      <4> QED
        BY <4>3, <4>4, <4>5
    <3> QED
      BY <3>2, <3>3
  <2> QED
    BY <2>1, <2>2 DEF GoneInv
<1>2. CASE UNCHANGED vars \/ \E b \in LB : Settle(b)
  <2>1. Still /\ \A b \in LB : (Exists(b) => Exists(b)') /\ (lbs'[b] = "absent" => lbs[b] = "absent")
    BY <1>2, Stills DEF Exists
  <2>2. Carried'
    BY <2>1 DEF Still, GoneInv, Carried
  <2>3. ASSUME NEW k \in LBC PROVE Fresh(k)' /\ Books(k)' /\ Parting(k)'
    <3>1. Course(k) /\ Fresh(k) /\ Books(k) /\ Parting(k)
      BY DEF Courses, GoneInv
    <3>2. Fresh(k)'
      BY <2>1, <3>1 DEF Still, Fresh, Course, Deployed
    <3>3. Books(k)' /\ Parting(k)'
      BY <2>1, <3>1 DEF Still, Books, Parting, Switching
    <3> QED
      BY <3>2, <3>3
  <2> QED
    BY <2>2, <2>3 DEF GoneInv
<1>3. CASE \E l \in LBC : Turn(l)
  <2>1. CASE Tidy
    BY <1>1, <1>3, <2>1
  <2>2. CASE UNCHANGED vars
    BY <1>2, <2>2
  <2> QED
    BY <2>1, <2>2
<1> QED
  BY <1>2, <1>3 DEF Next, Turn

\* delete(): the LBC that is gone has left nothing that was ever on its books, on
\* any load balancer, whatever the pins and with faults anywhere, as long as no
\* migration parks over a teardown that is due and a pass that comes back to a
\* load balancer records what it puts there.
THEOREM DeletionLeavesNothing == Spec /\ [][Tidy]_vars => []GoneLeavesNothing
<1>1. Init => GoneInv
  <2> SUFFICES ASSUME Init PROVE GoneInv
    OBVIOUS
  <2>1. Carried
    BY ConstantsAssumption DEF Init, Carried, Exists
  <2>2. ASSUME NEW l \in LBC PROVE Fresh(l) /\ Books(l) /\ Parting(l)
    BY DEF Init, Fresh, Books, Parting, Making
  <2> QED
    BY <2>1, <2>2 DEF GoneInv
<1>2. TypeOK /\ Courses /\ Courses' /\ GoneInv /\ [Tidy]_vars /\ [Next]_vars => GoneInv'
  BY GoneStep
<1>3. GoneInv => GoneLeavesNothing
  BY DEF GoneInv, Parting, GoneLeavesNothing
<1> QED
  BY <1>1, <1>2, <1>3, CoursesHold, TypeCorrect, PTL DEF Spec

-----------------------------------------------------------------------------
(* A load balancer made here does not outlive its LBC, whatever the pins and  *)
(* with faults anywhere, unless it has gone astray.                           *)

\* What l made is being made, or is active and on record, and carries l alone.
OnRecord(l) ==
  \A b \in LB \ astray : maker[b] = l /\ Exists(b) =>
    /\ on[b] \subseteq {l}
    /\ \/ pc[l] \in Making /\ b = task[l].target
       \/ lbs[b] = "active" /\ b = st[l].lb /\ b = st[l].created

Recorded(l) ==
  /\ pc[l] \in {"recordLb", "waitActive"} => st[l].created = task[l].target
  /\ Switching(l) => task[l].lb \in astray
  /\ \A b \in LB \ astray : maker[b] = l /\ Exists(b) /\ b \in booked[l] => st[l].res

\* A deletion takes the load balancer with it.
Ending(l) ==
  /\ pc[l] \in {"strip", "checkEmpty"} =>
       \A b \in LB \ astray : b = task[l].lb /\ maker[b] = l /\ Exists(b) => b \notin booked[l]
  /\ pc[l] = "finish" \/ phase[l] = "gone" =>
       \A b \in LB \ astray : maker[b] = l /\ Exists(b) => b \notin booked[l] /\ lbs[b] = "active"
  /\ phase[l] = "gone" => pc[l] = "idle"

OwnInv == \A l \in LBC : Fresh(l) /\ OnRecord(l) /\ Recorded(l) /\ Ending(l)

\* Who goes astray stays so, and three steps send one there.
LEMMA AstraySteps ==
  ASSUME TypeOK, NEW l \in LBC, Turn(l)
  PROVE  /\ astray \subseteq astray'
         /\ Park(l) => task[l].lb \in astray'
         /\ Fault(l) /\ pc[l] \in Making => task[l].target \in astray'
         /\ Put(l) /\ pc'[l] = "record" /\ maker[task[l].target] # l => task[l].target \in astray'
<1>1. CASE Park(l)
  BY <1>1 DEF Park, Fault, Making, Put
<1>2. CASE Put(l)
  <2>1. /\ pc \in [LBC -> PC]
        /\ pc[l] = "put"
        /\ \/ astray' = astray \cup (IF maker[task[l].target] = l THEN {} ELSE {task[l].target})
           \/ Return(l) /\ astray' = astray
    BY <1>2 DEF Put, TypeOK, RunType
  <2>2. Return(l) => pc'[l] = "idle"
    BY ReturnView DEF TypeOK
  <2> QED
    BY <2>1, <2>2 DEF Park, Fault, Making
<1>3. CASE Fault(l)
  <2>1. astray' = astray \cup (IF pc[l] \in Making THEN {task[l].target} ELSE {})
    BY <1>3 DEF Fault
  <2>2. pc'[l] = "idle"
    BY <1>3, ReturnView DEF Fault, TypeOK
  <2>3. Park(l) => task[l].lb \in astray'
    BY DEF Park
  <2> QED
    BY <2>1, <2>2, <2>3
<1>4. CASE ~Park(l) /\ ~Put(l) /\ ~Fault(l)
  <2>1. astray' = astray
    BY <1>4 DEF Turn, Reconcile, Begin, Lock, DeployLoadBalancer, SetAdopted, CreateLoadBalancer,
       SetCreated, AddLoadBalancerId, WaitForLBActive, ForgetLb, DiscardLb, Clear,
       EnsureExist, DeployTags, Record, TeardownRetiring, Unpark, Decide, Strip, CheckEmpty,
       DeleteLoadBalancer, Finish, EditPin, Delete, history
  <2> QED
    BY <1>4, <2>1
<1> QED
  BY <1>1, <1>2, <1>3, <1>4

\* statusSetCreatedLoadBalancerId is the only patch of that field.
LEMMA CreatedSteps ==
  ASSUME TypeOK, NEW l \in LBC, Turn(l)
  PROVE  /\ ~SetCreated(l) => st'[l].created = st[l].created
         /\ SetCreated(l) => st'[l].created = task[l].target
<1>1. st \in [LBC -> StatusType] /\ st[l] \in StatusType
  BY DEF TypeOK
<1>2. PICK s \in StatusType : s = st[l]
  BY <1>1
<1>3. CASE SetCreated(l)
  <2>1. st'[l] = [s EXCEPT !.created = task[l].target]
    BY <1>1, <1>2, <1>3 DEF SetCreated
  <2> QED
    BY <1>3, <2>1, StatusUpdates
<1>4. CASE ~SetCreated(l)
  <2>1. PICK b : \/ st'[l] = s \/ st'[l] = [s EXCEPT !.adopted = b] \/ st'[l] = [s EXCEPT !.lb = b]
                 \/ st'[l] = [s EXCEPT !.res = b] \/ st'[l] = [s EXCEPT !.retiring = b]
    <3>1. CASE SetAdopted(l)
      BY <1>1, <1>2, <3>1 DEF SetAdopted
    <3>2. CASE AddLoadBalancerId(l) \/ ForgetLb(l)
      BY <1>1, <1>2, <3>2 DEF AddLoadBalancerId, ForgetLb
    <3>3. CASE EnsureExist(l)
      BY <1>1, <1>2, <3>3 DEF EnsureExist
    <3>4. CASE Park(l)
      BY <1>1, <1>2, <3>4 DEF Park
    <3>5. CASE Unpark(l)
      BY <1>1, <1>2, <3>5 DEF Unpark
    <3>6. CASE Clear(l) \/ Record(l)
      BY <1>1, <1>2, <3>6 DEF Clear, Record
    <3>7. CASE st' = st
      BY <1>2, <3>7
    <3> QED
      BY <1>4, <3>1, <3>2, <3>3, <3>4, <3>5, <3>6, <3>7 DEF Turn, Reconcile, Begin, Lock,
         DeployLoadBalancer, CreateLoadBalancer, WaitForLBActive, DiscardLb, DeployTags, Put,
         TeardownRetiring, Decide, Strip, CheckEmpty, DeleteLoadBalancer, Finish, Fault, EditPin,
         Delete
  <2>2. CASE st'[l] = s
    BY <1>2, <1>4, <2>2
  <2>3. CASE st'[l] = [s EXCEPT !.adopted = b]
    <3>1. [s EXCEPT !.adopted = b].created = s.created
      BY StatusUpdates
    <3> QED
      BY <1>2, <1>4, <2>3, <3>1
  <2>4. CASE st'[l] = [s EXCEPT !.lb = b]
    <3>1. [s EXCEPT !.lb = b].created = s.created
      BY StatusUpdates
    <3> QED
      BY <1>2, <1>4, <2>4, <3>1
  <2>5. CASE st'[l] = [s EXCEPT !.res = b]
    <3>1. [s EXCEPT !.res = b].created = s.created
      BY StatusUpdates
    <3> QED
      BY <1>2, <1>4, <2>5, <3>1
  <2>6. CASE st'[l] = [s EXCEPT !.retiring = b]
    <3>1. [s EXCEPT !.retiring = b].created = s.created
      BY StatusUpdates
    <3> QED
      BY <1>2, <1>4, <2>6, <3>1
  <2> QED
    BY <2>1, <2>2, <2>3, <2>4, <2>5, <2>6
<1> QED
  BY <1>3, <1>4

\* Only createLoadBalancer brings a load balancer about.
LEMMA Births ==
  ASSUME TypeOK, NEW l \in LBC, Turn(l), pc[l] = "discardLb" => lbs[task[l].target] # "absent",
         NEW b \in LB, lbs[b] = "absent", lbs'[b] # "absent"
  PROVE  maker'[b] = l /\ on'[b] \subseteq {l} /\ pc'[l] = "recordCreated" /\ task'[l].target = b
<1>t. /\ lbs \in [LB -> {"absent", "building", "active", "error", "gone"}]
      /\ on \in [LB -> SUBSET Tenant] /\ maker \in [LB -> LBC \cup {None}]
      /\ pc \in [LBC -> PC] /\ task \in [LBC -> TaskType] /\ task[l] \in TaskType
  BY DEF TypeOK, CloudType, RunType
<1>1. CASE CreateLoadBalancer(l)
  <2>1. PICK c \in LB \ UserLB, inline \in BOOLEAN :
          /\ lbs' = [lbs EXCEPT ![c] = "building"]
          /\ on' = [on EXCEPT ![c] = IF inline THEN {l} ELSE {}]
          /\ maker' = [maker EXCEPT ![c] = l]
          /\ pc' = [pc EXCEPT ![l] = "recordCreated"]
          /\ task' = [task EXCEPT ![l].target = c]
    BY <1>1 DEF CreateLoadBalancer
  <2>2. b = c
    BY <1>t, <2>1
  <2>3. PICK t \in TaskType : t = task[l]
    BY <1>t
  <2>4. task'[l] = [t EXCEPT !.target = c]
    BY <1>t, <2>1, <2>3
  <2> QED
    BY <1>t, <2>1, <2>2, <2>4, TaskUpdates
<1>2. CASE DiscardLb(l) \/ DeleteLoadBalancer(l)
  <2>1. PICK c : (Gone(c) \/ UNCHANGED lbs) /\ lbs[c] # "absent"
    <3>1. CASE DiscardLb(l)
      BY <3>1 DEF DiscardLb
    <3>2. CASE DeleteLoadBalancer(l) /\ Exists(task[l].lb)
      BY <3>2 DEF DeleteLoadBalancer, Exists
    <3>3. CASE DeleteLoadBalancer(l) /\ ~Exists(task[l].lb)
      BY <3>3 DEF DeleteLoadBalancer, cloud
    <3> QED
      BY <1>2, <3>1, <3>2, <3>3
  <2> QED
    BY <1>t, <2>1 DEF Gone
<1>3. CASE ~CreateLoadBalancer(l) /\ ~DiscardLb(l) /\ ~DeleteLoadBalancer(l)
  <2>1. UNCHANGED lbs
    BY <1>3 DEF Turn, Reconcile, Begin, Lock, DeployLoadBalancer, SetAdopted,
       SetCreated, AddLoadBalancerId, WaitForLBActive, ForgetLb, Park, Clear,
       EnsureExist, DeployTags, Put, Record, TeardownRetiring, Unpark, Decide, Strip, CheckEmpty,
       Finish, Fault, EditPin, Delete, cloud
  <2> QED
    BY <2>1
<1> QED
  BY <1>1, <1>2, <1>3

\* A creation seen through ends with what is active or gone.
LEMMA MakingSteps ==
  ASSUME TypeOK, NEW l \in LBC, Turn(l), pc[l] \in Making
  PROVE  \/ task[l].target \in astray'
         \/ pc'[l] \in Making /\ task'[l].target = task[l].target
         \/ pc[l] = "waitActive" /\ lbs[task[l].target] = "gone"
         \/ pc[l] = "discardLb" /\ Gone(task[l].target)
         \/ pc[l] = "waitActive" /\ lbs[task[l].target] = "active" /\ pc'[l] = "ensureExist"
            /\ st' = st
<1>r. RunType
  BY DEF TypeOK
<1>1. CASE SetCreated(l) \/ AddLoadBalancerId(l) \/ ForgetLb(l)
  <2>1. \E p \in Making : Goto(l, p)
    BY <1>1 DEF SetCreated, AddLoadBalancerId, ForgetLb, Making
  <2> QED
    BY <1>r, <2>1, GotoView
<1>2. CASE WaitForLBActive(l)
  <2>1. CASE Goto(l, "forgetLb")
    BY <1>r, <2>1, GotoView DEF Making
  <2> QED
    BY <1>2, <1>r, <2>1, GotoView DEF WaitForLBActive
<1>3. CASE DiscardLb(l)
  BY <1>3 DEF DiscardLb
<1>4. CASE EditPin(l) \/ Delete(l)
  BY <1>4 DEF EditPin, Delete, run
<1>5. CASE Fault(l)
  BY <1>5, AstraySteps
<1> QED
  BY <1>1, <1>2, <1>3, <1>4, <1>5 DEF Making, Turn, Reconcile, Begin, Lock, DeployLoadBalancer,
     SetAdopted, CreateLoadBalancer, Park, Clear, EnsureExist, DeployTags, Put, Record,
     TeardownRetiring, Unpark, Decide, Strip, CheckEmpty, DeleteLoadBalancer, Finish

LEMMA OnRecordTurn ==
  ASSUME TypeOK, NEW l \in LBC, Turn(l), Course(l), Fresh(l), OnRecord(l), Recorded(l)
  PROVE  OnRecord(l)'
<1>d. pc[l] = "discardLb" => lbs[task[l].target] # "absent"
  BY DEF Fresh, Making
<1>a. astray \subseteq astray'
  BY AstraySteps
<1>g. Grows
  BY <1>d, CloudEffect
<1> SUFFICES ASSUME NEW b \in LB, b \notin astray', maker'[b] = l, Exists(b)'
             PROVE  /\ on'[b] \subseteq {l}
                    /\ \/ pc'[l] \in Making /\ b = task'[l].target
                       \/ lbs'[b] = "active" /\ b = st'[l].lb /\ b = st'[l].created
  BY DEF OnRecord, Exists
<1>1. CASE lbs[b] = "absent"
  BY <1>1, <1>d, Births DEF Exists, Making
<1>2. CASE lbs[b] # "absent"
  <2>1. maker[b] = l /\ lbs'[b] = lbs[b] /\ Exists(b) /\ on'[b] \subseteq on[b] \cup {l}
    BY <1>2, <1>g, Contents DEF Grows, Leaves, Exists
  <2>2. on[b] \subseteq {l}
    BY <1>a, <2>1 DEF OnRecord
  <2>3. CASE pc[l] \in Making /\ b = task[l].target
    <3>1. CASE pc'[l] \in Making /\ task'[l].target = task[l].target
      BY <2>1, <2>2, <2>3, <3>1
    <3>2. CASE pc[l] = "waitActive" /\ lbs[task[l].target] = "gone"
      BY <2>1, <2>3, <3>2 DEF Exists
    <3>3. CASE pc[l] = "discardLb" /\ Gone(task[l].target)
      <4>1. lbs'[b] = "gone"
        BY <2>3, <3>3 DEF Gone, TypeOK, CloudType
      <4> QED
        BY <2>1, <4>1 DEF Exists
    <3>4. CASE pc[l] = "waitActive" /\ lbs[task[l].target] = "active" /\ st' = st
      <4>1. st[l].lb = b /\ st[l].created = b
        BY <2>3, <3>4 DEF Course, Recorded
      <4> QED
        BY <2>1, <2>2, <2>3, <3>4, <4>1
    <3> QED
      BY <2>3, <3>1, <3>2, <3>3, <3>4, MakingSteps
  <2>4. CASE lbs[b] = "active" /\ b = st[l].lb /\ b = st[l].created
    <3>0. b # None
      BY ConstantsAssumption
    <3>1. st'[l].created = b
      <4>1. ~SetCreated(l)
        BY <2>4, <3>0 DEF SetCreated, Course, Making
      <4> QED
        BY <2>4, <4>1, CreatedSteps
    <3>2. CASE st'[l].lb = st[l].lb
      BY <2>1, <2>2, <2>4, <3>1, <3>2
    <3>3. CASE st'[l].lb # st[l].lb
      <4>1. pc[l] # "recordLb"
        BY <2>4, <3>0 DEF Course, Making
      <4>2. CASE pc[l] = "forgetLb"
        <5>1. b = task[l].target
          BY <2>4, <4>2 DEF Course
        <5>2. pc'[l] \in Making /\ task'[l].target = task[l].target
          BY <4>2, <5>1, MakingSteps DEF Making
        <5> QED
          BY <2>1, <2>2, <5>1, <5>2
      <4>3. CASE pc[l] = "ensureExist" /\ st'[l].lb = task[l].target
        <5>1. st[l].lb = task[l].lb => task[l].target = task[l].lb
          BY <1>a, <2>4, <3>0, <4>3 DEF Recorded, Switching
        <5> QED
          BY <2>4, <3>0, <3>3, <4>3, <5>1 DEF Course
      <4> QED
        BY <3>3, <4>1, <4>2, <4>3, IdSteps
    <3> QED
      BY <3>2, <3>3
  <2> QED
    BY <1>a, <2>1, <2>3, <2>4 DEF OnRecord
<1> QED
  BY <1>1, <1>2

LEMMA RecordedTurn ==
  ASSUME TypeOK, NEW l \in LBC, Turn(l), Course(l), Fresh(l), OnRecord(l), Recorded(l), Course(l)'
  PROVE  Recorded(l)'
<1>r. RunType
  BY DEF TypeOK
\* What is on the books has been made.
<1>f. \A b \in booked[l] \cap LB : lbs[b] # "absent"
  BY DEF Fresh
<1>1. pc'[l] \in {"recordLb", "waitActive"} => st'[l].created = task'[l].target
  <2> SUFFICES ASSUME pc'[l] \in {"recordLb", "waitActive"}
               PROVE  st'[l].created = task'[l].target
    OBVIOUS
  <2>1. CASE EditPin(l) \/ Delete(l)
    <3>1. UNCHANGED <<st, pc, task>>
      BY <2>1 DEF EditPin, Delete, run
    <3> QED
      BY <3>1 DEF Recorded
  <2>2. CASE Return(l)
    BY <1>r, <2>2, ReturnView
  <2>3. CASE Begin(l) \/ DeployLoadBalancer(l) \/ Lock(l) \/ Decide(l)
             \/ (CreateLoadBalancer(l) /\ ~Return(l))
    <3>1. CASE DeployLoadBalancer(l)
      <4>1. \E b, r : \/ Choose(l, "migrateAdopt", b, r) \/ Choose(l, "ensureExist", b, r)
                      \/ Choose(l, "adopt", b, r) \/ Choose(l, "create", b, r)
        BY <3>1 DEF DeployLoadBalancer
      <4> QED
        BY <1>r, <4>1 DEF Choose, RunType
    <3> QED
      BY <1>r, <2>3, <3>1 DEF RunType, Begin, Lock, Decide, Goto, CreateLoadBalancer
  <2>4. CASE (Patch(l) \/ Call(l) \/ Serve(l)) /\ ~Return(l)
    <3>1. PICK p, b : Goto(l, p) /\ Moves(l, p, b)
      BY <2>4, Strides
    <3>2. pc'[l] = p /\ task'[l] = task[l]
      BY <1>r, <3>1, GotoView
    <3>3. CASE pc[l] = "recordCreated"
      <4>1. SetCreated(l)
        BY <2>4, <3>3 DEF Patch, Call, Serve, SetAdopted, SetCreated, AddLoadBalancerId,
           ForgetLb, Park, Clear, WaitForLBActive, DiscardLb, DeployTags, Put, Strip, CheckEmpty,
           DeleteLoadBalancer, EnsureExist, Unpark, Record, TeardownRetiring
      <4> QED
        BY <3>2, <4>1, CreatedSteps
    <3>4. CASE pc[l] = "recordLb"
      <4>1. ~SetCreated(l)
        BY <3>4 DEF SetCreated
      <4> QED
        BY <3>2, <3>4, <4>1, CreatedSteps DEF Recorded
    <3> QED
      BY <3>1, <3>2, <3>3, <3>4 DEF Moves
  <2> QED
    BY <2>1, <2>2, <2>3, <2>4 DEF Turn, Reconcile, Patch, Call, Serve, Fault, Finish
<1>a. astray \subseteq astray'
  BY AstraySteps
<1>2. Switching(l)' => task'[l].lb \in astray'
  <2> SUFFICES ASSUME pc'[l] \in {"clear", "ensureExist"}, task'[l].lb # None,
                      task'[l].target # task'[l].lb
               PROVE  task'[l].lb \in astray'
    BY DEF Switching
  <2>1. CASE EditPin(l) \/ Delete(l)
    <3>1. UNCHANGED <<pc, task>>
      BY <2>1 DEF EditPin, Delete, run
    <3> QED
      BY <1>a, <3>1 DEF Recorded, Switching
  <2>2. CASE Return(l)
    BY <1>r, <2>2, ReturnView
  <2>3. CASE Begin(l) \/ Lock(l) \/ Decide(l) \/ (CreateLoadBalancer(l) /\ ~Return(l))
    BY <1>r, <2>3 DEF RunType, Begin, Lock, Decide, Goto, CreateLoadBalancer
  <2>4. CASE DeployLoadBalancer(l)
    <3>1. PICK p, b, r : /\ Choose(l, p, b, r) /\ p # "clear"
                         /\ p = "ensureExist" => b = task[l].lb
      <4>1. \E b, r : \/ Choose(l, "migrateAdopt", b, r)
                      \/ Choose(l, "ensureExist", b, r) /\ b = task[l].lb
                      \/ Choose(l, "adopt", b, r) \/ Choose(l, "create", b, r)
        BY <2>4 DEF DeployLoadBalancer
      <4> QED
        BY <4>1
    <3>2. PICK t \in TaskType : t = task[l]
      BY <1>r DEF RunType
    <3>3. pc'[l] = p /\ task'[l] = [t EXCEPT !.target = b, !.requeue = r]
      BY <1>r, <3>1, <3>2 DEF Choose, RunType
    <3>4. task'[l].lb = t.lb /\ task'[l].target = b
      BY <3>3, TaskUpdates
    <3> QED
      BY <3>1, <3>2, <3>3, <3>4
  <2>5. CASE (Patch(l) \/ Call(l) \/ Serve(l)) /\ ~Return(l)
    <3>1. PICK p, b : Goto(l, p) /\ Moves(l, p, b)
      BY <2>5, Strides
    <3>2. pc'[l] = p /\ task'[l] = task[l]
      BY <1>r, <3>1, GotoView
    <3>3. pc[l] \in {"adopt", "waitActive", "park", "clear"}
      BY <3>1, <3>2 DEF Moves
    <3>4. CASE pc[l] = "park"
      <4>1. Park(l)
        BY <2>5, <3>4 DEF Patch, Call, Serve, SetAdopted, SetCreated, AddLoadBalancerId,
           ForgetLb, Clear, WaitForLBActive, DiscardLb, DeployTags, Put, Strip, CheckEmpty,
           DeleteLoadBalancer, EnsureExist, Unpark, Record, TeardownRetiring
      <4> QED
        BY <3>2, <4>1, AstraySteps
    <3>5. CASE pc[l] = "clear"
      BY <1>a, <3>2, <3>5 DEF Recorded, Switching
    <3> QED
      BY <3>2, <3>3, <3>4, <3>5 DEF Course, Making
  <2> QED
    BY <2>1, <2>2, <2>3, <2>4, <2>5 DEF Turn, Reconcile, Patch, Call, Serve, Fault, Finish
<1>d. pc[l] = "discardLb" => lbs[task[l].target] # "absent"
  BY DEF Fresh, Making
<1>3. ASSUME NEW b \in LB, b \notin astray', maker'[b] = l, Exists(b)', b \in booked'[l]
      PROVE  st'[l].res
  <2>1. CASE Record(l)
    BY <2>1, StatusSteps
  <2>2. CASE ~Record(l)
    <3>1. b \in booked[l]
      BY <1>3, <2>2, BookSteps
    <3>2. CASE lbs[b] = "absent"
      <4>1. pc'[l] = "recordCreated"
        BY <1>3, <1>d, <3>2, Births DEF Exists
      <4> QED
        BY <1>f, <3>1, <3>2
    <3>3. CASE lbs[b] # "absent"
      <4>1. maker[b] = l /\ Exists(b)
        BY <1>3, <1>d, <3>3, CloudEffect, Contents DEF Grows, Leaves, Exists
      <4>2. st[l].res
        BY <1>a, <1>3, <3>1, <4>1 DEF Recorded
      <4>3. ~Clear(l)
        <5> SUFFICES ASSUME Clear(l) PROVE FALSE
          OBVIOUS
        <5>1. pc[l] = "clear" /\ task[l].lb = st[l].lb /\ task[l].lb \in astray
          BY DEF Clear, Course, Recorded, Switching
        <5>2. b = st[l].lb
          BY <1>a, <1>3, <4>1, <5>1 DEF OnRecord, Making
        <5> QED
          BY <1>a, <1>3, <5>1, <5>2
      <4> QED
        BY <2>2, <4>2, <4>3, StatusSteps
    <3> QED
      BY <3>2, <3>3
  <2> QED
    BY <2>1, <2>2
<1> QED
  BY <1>1, <1>2, <1>3 DEF Recorded, Exists

LEMMA EndingTurn ==
  ASSUME TypeOK, NEW l \in LBC, Turn(l), Course(l), Course(l)', Fresh(l), OnRecord(l), Recorded(l),
         Ending(l)
  PROVE  Ending(l)'
<1>r. RunType
  BY DEF TypeOK
<1>d. pc[l] = "discardLb" => lbs[task[l].target] # "absent"
  BY DEF Fresh, Making
<1>a. astray \subseteq astray'
  BY AstraySteps
<1>g. Grows
  BY <1>d, CloudEffect
<1>0. phase[l] # "gone"
  <2>1. phase[l] = "gone" => pc[l] = "idle"
    BY DEF Ending
  <2> QED
    BY <2>1 DEF Turn, Reconcile, Begin, Lock, DeployLoadBalancer, SetAdopted, CreateLoadBalancer,
       SetCreated, AddLoadBalancerId, WaitForLBActive, ForgetLb, DiscardLb, Park, Clear,
       EnsureExist, DeployTags, Put, Record, TeardownRetiring, Unpark, Decide, Strip, CheckEmpty,
       DeleteLoadBalancer, Finish, Fault, EditPin, Delete
\* At the end of a deletion what l made is the load balancer the pass is about.
<1>o. ASSUME NEW b \in LB, b \notin astray', maker[b] = l, Exists(b), pc[l] \in Closing
      PROVE  /\ b = task[l].lb /\ on[b] \subseteq {l} /\ lbs[b] = "active"
             /\ st[l].created = b /\ (b \in booked[l] => st[l].res)
  BY <1>a, <1>o DEF OnRecord, Closing, Making, Course, Recorded
<1>1. CASE Finish(l)
  <2>1. /\ pc'[l] = "idle" /\ pc[l] = "finish" /\ UNCHANGED <<lbs, maker, booked>>
    BY <1>1, <1>r, ReturnView DEF Finish, cloud, history
  <2> QED
    BY <1>a, <2>1 DEF Ending, Exists
<1>p. CASE ~Finish(l)
  <2>p. phase'[l] # "gone"
    BY <1>0, <1>p DEF Turn, Reconcile, Begin, Lock, DeployLoadBalancer, SetAdopted,
       CreateLoadBalancer, SetCreated, AddLoadBalancerId, WaitForLBActive, ForgetLb, DiscardLb,
       Park, Clear, EnsureExist, DeployTags, Put, Record, TeardownRetiring, Unpark, Decide, Strip,
       CheckEmpty, DeleteLoadBalancer, Fault, EditPin, Delete, object, TypeOK, ObjectType
  <2>1. CASE Return(l)
    BY <1>r, <2>p, <2>1, ReturnView DEF Ending
  <2>2. CASE EditPin(l) \/ Delete(l)
    <3>1. UNCHANGED <<pc, task, lbs, maker, booked>>
      BY <2>2 DEF EditPin, Delete, run, cloud, history
    <3> QED
      BY <1>a, <2>p, <3>1 DEF Ending, Exists
  <2>3. CASE Begin(l) \/ Lock(l) \/ DeployLoadBalancer(l) \/ (CreateLoadBalancer(l) /\ ~Return(l))
    <3>1. pc'[l] \notin {"strip", "checkEmpty", "finish"}
      <4>1. CASE DeployLoadBalancer(l)
        <5>1. \E b, r : \/ Choose(l, "migrateAdopt", b, r) \/ Choose(l, "ensureExist", b, r)
                        \/ Choose(l, "adopt", b, r) \/ Choose(l, "create", b, r)
          BY <4>1 DEF DeployLoadBalancer
        <5> QED
          BY <1>r, <5>1 DEF Choose, RunType
      <4> QED
        BY <1>r, <2>3, <4>1 DEF RunType, Begin, Lock, CreateLoadBalancer
    <3> QED
      BY <2>p, <3>1 DEF Ending
  <2>4. CASE Decide(l)
    <3>1. /\ pc[l] = "decide" /\ UNCHANGED <<lbs, maker, booked>>
          /\ pc'[l] \in {"finish", "deleteLb", "strip"}
          /\ pc'[l] = "finish" => task[l].lb = None \/ ~Exists(task[l].lb)
          /\ pc'[l] = "strip" => /\ ~(CreatedByThisCluster(l, task[l].lb) /\ CanDeleteWhole(l, task[l].lb))
                                 /\ Exists(task[l].lb)
      BY <1>r, <2>4 DEF RunType, Decide, Goto, cloud, history
    <3>2. task'[l].lb = task[l].lb
      <4>1. st'[l] = st[l]
        BY <2>4 DEF Decide
      <4> QED
        BY <3>1, <4>1 DEF Course, Closing
    <3>3. ASSUME NEW b \in LB, b \notin astray', b = task[l].lb, maker[b] = l, Exists(b), pc'[l] = "strip"
          PROVE  b \notin booked[l]
      <4>1. pc[l] \in Closing
        BY <3>1 DEF Closing
      <4> QED
        BY <1>o, <3>1, <3>3, <4>1 DEF CreatedByThisCluster, CanDeleteWhole
    <3>4. ASSUME NEW b \in LB, b \notin astray', maker[b] = l, Exists(b), pc'[l] = "finish" PROVE FALSE
      <4>1. pc[l] \in Closing /\ b # None
        BY <3>1, ConstantsAssumption DEF Closing
      <4> QED
        BY <1>o, <3>1, <3>4, <4>1
    <3> QED
      BY <2>p, <3>1, <3>2, <3>3, <3>4 DEF Ending, Exists
  <2>5. CASE (Patch(l) \/ Call(l) \/ Serve(l)) /\ ~Return(l)
    <3>1. PICK p, b : Goto(l, p) /\ Moves(l, p, b)
      BY <2>5, Strides
    <3>2. pc'[l] = p /\ task'[l] = task[l]
      BY <1>r, <3>1, GotoView
    <3>3. /\ pc[l] = "strip" => Strip(l)
          /\ pc[l] = "checkEmpty" => CheckEmpty(l)
          /\ pc[l] = "deleteLb" => DeleteLoadBalancer(l)
          /\ pc[l] # "decide"
      BY <2>5 DEF Patch, Call, Serve, SetAdopted, SetCreated, AddLoadBalancerId,
         ForgetLb, Park, Clear, WaitForLBActive, DiscardLb, DeployTags, Put, Strip, CheckEmpty,
         DeleteLoadBalancer, EnsureExist, Unpark, Record, TeardownRetiring
    <3>4. CASE p = "checkEmpty"
      <4>1. pc[l] = "strip" /\ UNCHANGED <<lbs, maker, booked>>
        BY <3>1, <3>3, <3>4 DEF Moves, Strip, history
      <4> QED
        BY <1>a, <2>p, <3>2, <3>4, <4>1 DEF Ending, Exists
    <3>5. CASE p = "finish"
      <4> SUFFICES ASSUME NEW c \in LB, c \notin astray', maker'[c] = l, Exists(c)'
                   PROVE  c \notin booked'[l] /\ lbs'[c] = "active"
        BY <2>p, <3>2, <3>5 DEF Ending, Exists
      <4>1. CASE pc[l] = "checkEmpty"
        <5>1. UNCHANGED <<lbs, maker, booked>>
          BY <3>3, <4>1 DEF CheckEmpty, cloud, history
        <5>2. pc[l] \in Closing /\ Exists(c) /\ maker[c] = l
          BY <4>1, <5>1 DEF Closing, Exists
        <5> QED
          BY <1>a, <1>o, <4>1, <5>1, <5>2 DEF Ending
      <4>2. CASE pc[l] = "deleteLb"
        <5>1. Gone(task[l].lb)
          BY <2>5, <3>3, <4>2 DEF DeleteLoadBalancer
        <5>2. lbs'[c] = lbs[c] /\ maker'[c] = maker[c] /\ c # task[l].lb
          BY <5>1 DEF Gone, Exists, TypeOK, CloudType
        <5>3. pc[l] \in Closing /\ Exists(c)
          BY <4>2, <5>2 DEF Closing, Exists
        <5> QED
          BY <1>o, <5>2, <5>3
      <4> QED
        BY <3>1, <3>3, <3>5, <4>1, <4>2 DEF Moves
    <3>6. CASE p \notin {"checkEmpty", "finish"}
      <4>1. p # "strip"
        BY <3>1 DEF Moves
      <4> QED
        BY <2>p, <3>2, <3>6, <4>1 DEF Ending
    <3> QED
      BY <3>4, <3>5, <3>6
  <2> QED
    BY <1>p, <2>1, <2>2, <2>3, <2>4, <2>5 DEF Turn, Reconcile, Patch, Call, Serve, Fault
<1> QED
  BY <1>1, <1>p

\* What a step of l leaves of another LBC's own load balancers.
LEMMA OthersOwn ==
  ASSUME TypeOK, OwnInv, Grows, NEW l \in LBC, Turn(l), NEW k \in LBC, k # l, Course(k),
         pc[l] = "discardLb" => lbs[task[l].target] # "absent"
  PROVE  Fresh(k)' /\ OnRecord(k)' /\ Recorded(k)' /\ Ending(k)'
<1>0. Fresh(k) /\ OnRecord(k) /\ Recorded(k) /\ Ending(k)
  BY DEF OwnInv
<1>1. /\ pc'[k] = pc[k] /\ task'[k] = task[k] /\ st'[k] = st[k]
      /\ phase'[k] = phase[k] /\ booked'[k] = booked[k]
  BY Frames DEF Frame
<1>a. astray \subseteq astray'
  BY AstraySteps
<1>2. ASSUME NEW b \in LB, b \notin astray', maker'[b] = k, Exists(b)'
      PROVE  maker[b] = k /\ Exists(b) /\ lbs'[b] = lbs[b] /\ on'[b] \subseteq on[b]
  <2>1. lbs[b] # "absent"
    <3>1. lbs'[b] # "absent"
      BY <1>2 DEF Exists
    <3> QED
      BY <1>2, <3>1, Births
  <2>2. maker[b] = k /\ lbs'[b] = lbs[b] /\ Exists(b)
    BY <1>2, <2>1, Contents DEF Grows, Leaves, Exists
  <2>3. ~(Put(l) /\ pc'[l] = "record" /\ b = task[l].target)
    BY <1>2, <2>2, AstraySteps
  <2>4. \A t \in on'[b] : t \in on[b]
    <3>1. l \in on'[b] => l \in on[b]
      BY <2>1, <2>3, Contents DEF Leaves
    <3>2. on'[b] \subseteq on[b] \cup {l}
      BY Contents DEF Leaves
    <3> QED
      BY <3>1, <3>2
  <2> QED
    BY <2>2, <2>4
<1>3. Fresh(k)'
  <2>1. \A b \in LB : lbs[b] # "absent" => lbs'[b] # "absent"
    BY DEF Grows
  <2> QED
    BY <1>0, <1>1, <2>1 DEF Fresh, Course, Deployed
<1>4. OnRecord(k)'
  <2> SUFFICES ASSUME NEW b \in LB, b \notin astray', maker'[b] = k, Exists(b)'
               PROVE  /\ on'[b] \subseteq {k}
                      /\ \/ pc'[k] \in Making /\ b = task'[k].target
                         \/ lbs'[b] = "active" /\ b = st'[k].lb /\ b = st'[k].created
    BY DEF OnRecord, Exists
  <2>1. maker[b] = k /\ Exists(b) /\ lbs'[b] = lbs[b] /\ on'[b] \subseteq on[b]
    BY <1>2
  <2> QED
    BY <1>0, <1>1, <1>a, <2>1 DEF OnRecord
<1>5. Recorded(k)'
  <2>1. ASSUME NEW b \in LB, b \notin astray', maker'[b] = k, Exists(b)', b \in booked[k] PROVE st[k].res
    BY <1>0, <1>2, <1>a, <2>1 DEF Recorded
  <2> QED
    BY <1>0, <1>1, <1>a, <2>1 DEF Recorded, Switching, Exists
<1>6. Ending(k)'
  <2>1. ASSUME pc[k] \in {"strip", "checkEmpty"}, NEW b \in LB, b \notin astray', b = task[k].lb,
               maker'[b] = k, Exists(b)'
        PROVE  b \notin booked[k]
    BY <1>0, <1>2, <1>a, <2>1 DEF Ending
  <2>2. ASSUME pc[k] = "finish" \/ phase[k] = "gone", NEW b \in LB, b \notin astray', maker'[b] = k,
               Exists(b)'
        PROVE  b \notin booked[k] /\ lbs'[b] = "active"
    BY <1>0, <1>2, <1>a, <2>2 DEF Ending
  <2> QED
    BY <1>0, <1>1, <2>1, <2>2 DEF Ending, Exists
<1> QED
  BY <1>3, <1>4, <1>5, <1>6

LEMMA OwnStep ==
  ASSUME TypeOK, Courses, Courses', OwnInv, [Next]_vars
  PROVE  OwnInv'
<1>1. ASSUME NEW l \in LBC, Turn(l) PROVE OwnInv'
  <2>0. Fresh(l) /\ OnRecord(l) /\ Recorded(l) /\ Ending(l) /\ Course(l) /\ Course(l)'
    BY DEF OwnInv, Courses
  <2>d. pc[l] = "discardLb" => lbs[task[l].target] # "absent"
    BY <2>0 DEF Fresh, Making
  <2>g. Grows
    BY <1>1, <2>d, CloudEffect
  <2>1. Fresh(l)'
    BY <1>1, <2>0, FreshTurn
  <2>2. OnRecord(l)'
    BY <1>1, <2>0, OnRecordTurn
  <2>3. Recorded(l)'
    BY <1>1, <2>0, RecordedTurn
  <2>4. Ending(l)'
    BY <1>1, <2>0, EndingTurn
  <2>5. ASSUME NEW k \in LBC, k # l PROVE Fresh(k)' /\ OnRecord(k)' /\ Recorded(k)' /\ Ending(k)'
    BY <1>1, <2>5, <2>d, <2>g, OthersOwn DEF Courses
  <2> QED
    BY <2>1, <2>2, <2>3, <2>4, <2>5 DEF OwnInv
<1>2. CASE UNCHANGED vars \/ \E b \in LB : Settle(b)
  <2>1. Still
    BY <1>2, Stills
  <2>2. \A b \in LB : /\ Exists(b)' => Exists(b)
                      /\ lbs[b] = "active" => lbs'[b] = "active"
                      /\ lbs[b] = "absent" <=> lbs'[b] = "absent"
    BY <1>2, Stills DEF Exists
  <2>3. ASSUME NEW k \in LBC PROVE Fresh(k)' /\ OnRecord(k)' /\ Recorded(k)' /\ Ending(k)'
    <3>1. Fresh(k) /\ OnRecord(k) /\ Recorded(k) /\ Ending(k) /\ Course(k)
      BY DEF OwnInv, Courses
    <3>2. Fresh(k)'
      BY <2>1, <2>2, <3>1 DEF Still, Fresh, Course, Deployed
    <3>3. OnRecord(k)'
      BY <2>1, <2>2, <3>1 DEF Still, OnRecord
    <3>4. Recorded(k)'
      BY <2>1, <2>2, <3>1 DEF Still, Recorded, Switching
    <3>5. Ending(k)'
      BY <2>1, <2>2, <3>1 DEF Still, Ending
    <3> QED
      BY <3>2, <3>3, <3>4, <3>5
  <2> QED
    BY <2>3 DEF OwnInv
<1> QED
  BY <1>1, <1>2 DEF Next, Turn

\* createLoadBalancer, deleteLoadBalancer: a load balancer made here goes with the
\* LBC that made it once its content has been on the books, for any number of LBCs,
\* whatever their pins, and with faults at every step.
THEOREM OwnLbsReclaimed == Spec => []OwnLbReclaimed
<1>1. Init => OwnInv
  <2> SUFFICES ASSUME Init PROVE OwnInv
    OBVIOUS
  <2>1. ASSUME NEW l \in LBC PROVE Fresh(l) /\ OnRecord(l) /\ Recorded(l) /\ Ending(l)
    <3>1. /\ pc[l] = "idle" /\ phase[l] = "live" /\ booked[l] = {}
          /\ \A b \in LB : maker[b] # l
      BY ConstantsAssumption DEF Init
    <3> QED
      BY <3>1 DEF Fresh, OnRecord, Recorded, Ending, Switching, Making
  <2> QED
    BY <2>1 DEF OwnInv
<1>2. TypeOK /\ Courses /\ Courses' /\ OwnInv /\ [Next]_vars => OwnInv'
  BY OwnStep
<1>3. OwnInv => OwnLbReclaimed
  BY DEF OwnInv, Ending, OwnLbReclaimed
<1> QED
  BY <1>1, <1>2, <1>3, CoursesHold, TypeCorrect, PTL DEF Spec
=============================================================================
