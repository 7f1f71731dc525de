------------------------------- MODULE Global -------------------------------
(***************************************************************************)
(* GlobalLoadBalancerConfigs (GLBCs) and the global load balancers they    *)
(* ask for: internal/usecase/glbc_uc and its controller.                   *)
(*                                                                         *)
(* A GLBC asks for one listener, one pool and one group of members in it;  *)
(* groups are found by name, and each GLBC has its own.  Unlike an LBC it  *)
(* keeps no record of who made the load balancer, and a migration tears    *)
(* the old one down first, under the mutex of the new one.                 *)
(*                                                                         *)
(* A pool is known by its name and a listener by its port: one is made     *)
(* again under the same name only when nothing was left of it.             *)
(***************************************************************************)
EXTENDS Naturals, FiniteSets

CONSTANTS
  GLBC, LB, Port, Pool, Member,
  Name,       \* spec.name of each GLBC
  Wanted,     \* the specs a GLBC may be given
  Brought,    \* what each load balancer is at first; None: not there yet
  User, None,
  Hand,       \* the members the user may add by hand
  MaxEdits,   \* bound on the user's edits
  MaxFaults   \* bound on failing calls and crashes

Group == GLBC \cup {User}           \* whose name a group of members has
Groups == [Group -> SUBSET Member]  \* no members: no such group
Balancer ==
  [name : {Name[g] : g \in GLBC} \cup {User}, state : {"BUILD", "ACTIVE", "ERROR"},
   lis : [Port -> Pool \cup {None}], pools : [Pool -> Groups \cup {None}]]
Want == [pin : LB \cup {None}, port : Port, pool : Pool, members : (SUBSET Member) \ {{}}]
\* createdPools: the members of the GLBC's group in each; {}: none known yet
Status == [lb : LB \cup {None}, lis : SUBSET Port, pools : [Pool -> (SUBSET Member) \cup {None}]]
NoPools == [p \in Pool |-> None]
NoStatus == [lb |-> None, lis |-> {}, pools |-> NoPools]

ASSUME GlobalAssumption ==
  /\ Wanted \in [GLBC -> SUBSET Want] /\ \A g \in GLBC : Wanted[g] # {}
  /\ Brought \in [LB -> Balancer \cup {None}] /\ Hand \subseteq Member
  /\ \A g \in GLBC : \A w \in Wanted[g] : w.members \cap Hand = {}
  /\ User \notin GLBC /\ None \notin LB \cup Pool \cup Port \cup GLBC
  /\ None \notin Balancer \cup Groups /\ \A ms \in SUBSET Member : ms # None
  /\ MaxEdits \in Nat /\ MaxFaults \in Nat

\* What the theorems about several GLBCs ask of their specs, and of what the user
\* has brought.  Two GLBCs that ask for one port ask for one pool.
PortsApart ==
  \A g, k \in GLBC : g # k => \A w \in Wanted[g], v \in Wanted[k] : w.port = v.port => w.pool = v.pool

\* GLBCs that ask for one pool ask for it behind one port.
OnePort ==
  \A g, k \in GLBC : \A w \in Wanted[g], v \in Wanted[k] : w.pool = v.pool => w.port = v.port

\* What the user has on a load balancer, and where he and the GLBCs meet: in a
\* pool that has members of his and a listener on the very port they ask for.
UsersOwn ==
  \A x \in LB : Brought[x] # None =>
    /\ Brought[x].state # "BUILD"
    /\ \A p \in Pool, g \in GLBC : Brought[x].pools[p] # None => Brought[x].pools[p][g] = {}
    /\ \A q \in Port : Brought[x].lis[q] # None => Brought[x].pools[Brought[x].lis[q]] # None
    /\ \A g \in GLBC : \A w \in Wanted[g] :
         IF Brought[x].pools[w.pool] = None THEN Brought[x].lis[w.port] = None
         ELSE Brought[x].lis[w.port] = w.pool /\ Brought[x].pools[w.pool][User] # {}

VARIABLES
  cloud,      \* the GLB service: the load balancers
  fresh,      \* ... the identifiers it has not given out
  spec, st,   \* each GLBC's spec and status
  phase,      \* live, deleting, gone
  pc, mode,   \* the running reconcile: its next step; deploy, migrate, delete
  task,       \* ... spec and status as it read them
  on,         \* ... the load balancer it works on
  seen,       \* ... the members of its group as it last listed them
  victim,     \* ... the listener or pool it has decided to delete
  lock,       \* lbLocks: who holds each load balancer's mutex
  left,       \* history: the load balancers a migration has left
  loose,      \* history: something was created and could not be recorded, a
              \* teardown without the mutex met another pass, or the user put
              \* a member into a group
  edits, faults

status == <<spec, st, phase>>
run == <<pc, mode, task, on, seen, victim, lock>>
work == <<mode, task, on, lock>>
history == <<left, loose>>
vars == <<cloud, fresh, status, run, history, edits, faults>>

Each(x) == [g \in GLBC |-> x]
NoTask == [spec |-> None, st |-> NoStatus]

Init ==
  /\ cloud = Brought /\ fresh = {x \in LB : Brought[x] = None}
  /\ spec \in {s \in [GLBC -> Want] : \A g \in GLBC : s[g] \in Wanted[g]}
  /\ st = Each(NoStatus) /\ phase = Each("live")
  /\ pc = Each("idle") /\ mode = Each("deploy") /\ task = Each(NoTask)
  /\ on = Each(None) /\ seen = Each({}) /\ victim = Each(None)
  /\ lock = [x \in LB |-> None]
  /\ left = {} /\ loose = FALSE /\ edits = 0 /\ faults = 0

-----------------------------------------------------------------------------
(* What the service does on each call. *)

GroupOf(g, members) == [k \in Group |-> IF k = g THEN members ELSE {}]
WithPool(b, p, groups) == [b EXCEPT !.pools[p] = groups]
WithoutPool(b, p) ==
  [b EXCEPT !.pools[p] = None, !.lis = [q \in Port |-> IF b.lis[q] = p THEN None ELSE b.lis[q]]]
WithGroup(b, p, g, members) == [b EXCEPT !.pools[p][g] = members]
WithListener(b, port, p) == [b EXCEPT !.lis[port] = p]
WithoutListener(b, port) == [b EXCEPT !.lis[port] = None]

\* A load balancer comes with the first pool and the first listener.
NewBalancer(g, want) ==
  [name |-> Name[g], state |-> "BUILD",
   lis |-> [q \in Port |-> IF q = want.port THEN want.pool ELSE None],
   pools |-> [p \in Pool |-> IF p = want.pool THEN GroupOf(g, want.members) ELSE None]]

Call(x, b) == cloud' = [cloud EXCEPT ![x] = b]

\* It comes up, or ends in ERROR.
Provision(x) ==
  /\ cloud[x] # None /\ cloud[x].state = "BUILD"
  /\ \/ Call(x, [cloud[x] EXCEPT !.state = "ACTIVE"]) /\ UNCHANGED faults
     \/ /\ faults < MaxFaults /\ faults' = faults + 1
        /\ Call(x, [cloud[x] EXCEPT !.state = "ERROR"])
  /\ UNCHANGED <<fresh, status, run, history, edits>>

\* WaitGlobalLoadBalancerActive: the wait is over, and well.
Waited(x) == cloud[x] # None => cloud[x].state # "BUILD"
Active(x) == cloud[x] # None /\ cloud[x].state = "ACTIVE"

-----------------------------------------------------------------------------
(* deployLoadBalancer. *)

There(g) == on[g] # None /\ cloud[on[g]] # None

Goto(g, step) == pc' = [pc EXCEPT ![g] = step]

Return(g) ==
  /\ Goto(g, "idle")
  /\ mode' = [mode EXCEPT ![g] = "deploy"] /\ task' = [task EXCEPT ![g] = NoTask]
  /\ on' = [on EXCEPT ![g] = None] /\ seen' = [seen EXCEPT ![g] = {}]
  /\ victim' = [victim EXCEPT ![g] = None]
  /\ lock' = [x \in LB |-> IF lock[x] = g THEN None ELSE lock[x]]

\* getLoadBalancerID: the load balancer whose mutex is taken; none at first.
LockOf(g) == IF spec[g].pin # None THEN spec[g].pin ELSE st[g].lb

\* getLoadBalancerID names the spec's load balancer: the teardown of another
\* one, by a migration or a deletion in the middle of one, is not covered.
Uncovered(x) == \E g \in GLBC : on[g] = x /\ mode[g] # "deploy" /\ lock[x] # g

\* The controller reads the GLBC, and the mutex is taken.
Begin(g) ==
  LET x == LockOf(g)
      s == st[g]
      leaving == phase[g] = "deleting"
      moving == s.lb # None /\ spec[g].pin \notin {None, s.lb}
  IN /\ pc[g] = "idle" /\ phase[g] # "gone"
     /\ IF x = None THEN UNCHANGED lock
        ELSE lock[x] = None /\ lock' = [lock EXCEPT ![x] = g]
     /\ task' = [task EXCEPT ![g] = [spec |-> spec[g], st |-> s]]
     /\ mode' = [mode EXCEPT ![g] = IF leaving THEN "delete"
                                    ELSE IF moving THEN "migrate" ELSE "deploy"]
     /\ on' = [on EXCEPT ![g] = s.lb]
     /\ Goto(g, IF leaving THEN "delete"
                ELSE IF moving THEN IF cloud[s.lb] # None THEN "redundantListeners" ELSE "attach"
                ELSE IF s.lb # None THEN "ensure"
                ELSE IF spec[g].pin # None THEN "attach" ELSE "find")
     /\ loose' = (loose \/ (/\ s.lb # None /\ (moving \/ Uncovered(s.lb))
                           /\ \E k \in GLBC \ {g} : on[k] = s.lb))
     /\ UNCHANGED <<cloud, fresh, status, seen, victim, left, edits, faults>>

\* ensureExistLoadBalancer with the one in status: where that is gone or in
\* ERROR the pass fails, and so does the next.
Ensure(g) ==
  /\ pc[g] = "ensure" /\ Waited(on[g])
  /\ IF Active(on[g]) THEN Goto(g, "pools") /\ UNCHANGED <<work, seen, victim>>
     ELSE Return(g)
  /\ UNCHANGED <<cloud, fresh, status, history, edits, faults>>

SetLb(g, x) == st' = [st EXCEPT ![g].lb = x]

\* Mutant of Attach: the load balancer is not recorded.
AttachBlind(g) ==
  /\ pc[g] = "attach" /\ Waited(task[g].spec.pin)
  /\ Return(g)
  /\ UNCHANGED <<cloud, fresh, status, history, edits, faults>>

\* ensureExistLoadBalancer with the identifier pinned: another pass takes the
\* right mutex and goes on.  A pin to nothing fails.
Attach(g) ==
  LET x == task[g].spec.pin
  IN /\ pc[g] = "attach" /\ Waited(x)
     /\ IF Active(x) THEN SetLb(g, x) ELSE UNCHANGED st
     /\ Return(g)
     /\ UNCHANGED <<cloud, fresh, spec, phase, history, edits, faults>>

Named(g) == {x \in LB : cloud[x] # None /\ cloud[x].name = Name[g]}

\* GetGlobalLoadBalancerByName
FindByName(g) ==
  /\ pc[g] = "find"
  /\ \E x \in Named(g) : Waited(x) /\ IF Active(x) THEN SetLb(g, x) ELSE UNCHANGED st
  /\ Return(g)
  /\ UNCHANGED <<cloud, fresh, spec, phase, history, edits, faults>>

\* createLoadBalancer: this pass goes on, without a mutex.
CreateLb(g) ==
  /\ pc[g] = "find" /\ Named(g) = {}
  /\ \E x \in fresh : /\ Call(x, NewBalancer(g, task[g].spec))
                      /\ fresh' = fresh \ {x} /\ on' = [on EXCEPT ![g] = x]
  /\ Goto(g, "recordLb")
  /\ UNCHANGED <<status, mode, task, seen, victim, lock, history, edits, faults>>

StatusAddLb(g) ==
  /\ pc[g] = "recordLb"
  /\ SetLb(g, on[g])
  /\ Goto(g, "wait")
  /\ UNCHANGED <<cloud, fresh, spec, phase, work, seen, victim, history, edits, faults>>

\* One in ERROR is taken out of status and deleted, for the next pass to make
\* another.
WaitLb(g) ==
  /\ pc[g] = "wait" /\ There(g) /\ Waited(on[g])
  /\ IF Active(on[g]) THEN Goto(g, "pools") /\ UNCHANGED st
     ELSE Goto(g, "deleteLb") /\ SetLb(g, None)
  /\ UNCHANGED <<cloud, fresh, spec, phase, work, seen, victim, history, edits, faults>>

\* statusClearCreatedResources, after the teardown of a migration.
ClearStatus(g) ==
  /\ pc[g] = "clear"
  /\ st' = [st EXCEPT ![g].lis = {}, ![g].pools = NoPools]
  /\ left' = left \cup {on[g]}
  /\ Goto(g, "attach")
  /\ UNCHANGED <<cloud, fresh, spec, phase, work, seen, victim, loose, edits, faults>>

-----------------------------------------------------------------------------
(* deployPools and deployListeners. *)

Lb(g) == cloud[on[g]]
PoolNow(g) == Lb(g).pools[task[g].spec.pool]

\* CreateGlobalPool, with its members.
CreatePool(g) ==
  /\ pc[g] = "pools" /\ There(g)
  /\ IF PoolNow(g) # None THEN Goto(g, "members") /\ UNCHANGED cloud
     ELSE /\ Call(on[g], WithPool(Lb(g), task[g].spec.pool, GroupOf(g, task[g].spec.members)))
          /\ Goto(g, "recordPool")
  /\ UNCHANGED <<fresh, status, work, seen, victim, history, edits, faults>>

StatusPool(g, members) == st' = [st EXCEPT ![g].pools[task[g].spec.pool] = members]

\* The pool is recorded, its members not yet.
StatusAddPool(g) ==
  /\ pc[g] = "recordPool"
  /\ StatusPool(g, {})
  /\ Goto(g, "members")
  /\ UNCHANGED <<cloud, fresh, spec, phase, work, seen, victim, history, edits, faults>>

\* ListGlobalPoolMembers, before the patch and after one, when the group must be
\* there: DeployPoolMember fails without it.
ListMembers(g) ==
  /\ pc[g] \in {"members", "relist"} /\ There(g) /\ PoolNow(g) # None
  /\ pc[g] = "relist" => PoolNow(g)[g] # {}
  /\ seen' = [seen EXCEPT ![g] = PoolNow(g)[g]]
  /\ Goto(g, IF pc[g] = "members" THEN "patch" ELSE "recordMembers")
  /\ UNCHANGED <<cloud, fresh, status, work, victim, history, edits, faults>>

\* mergePoolMembers: those in the spec, and those not recorded as created here.
Merge(g, now) ==
  LET w == task[g].spec
      own == task[g].st.pools[w.pool]
      created == IF own = None THEN {} ELSE own
  IN {m \in now : m \in w.members \/ m \notin created} \cup w.members

\* PatchGlobalPoolMembers: the group is made, or its list replaced.
PatchMembers(g) ==
  LET merged == Merge(g, seen[g])
  IN /\ pc[g] = "patch" /\ There(g) /\ PoolNow(g) # None
     /\ IF merged = seen[g] THEN UNCHANGED cloud /\ Goto(g, "recordMembers")
        ELSE /\ Call(on[g], WithGroup(Lb(g), task[g].spec.pool, g, merged))
             /\ Goto(g, "relist")
     /\ UNCHANGED <<fresh, status, work, seen, victim, history, edits, faults>>

\* Every member of the group is recorded, whoever put it there.
StatusAddMembers(g) ==
  /\ pc[g] = "recordMembers"
  /\ StatusPool(g, seen[g])
  /\ Goto(g, "listeners")
  /\ UNCHANGED <<cloud, fresh, spec, phase, work, seen, victim, history, edits, faults>>

\* The listener is found by its port; a change of its pool is recorded too.
DeployListener(g) ==
  LET w == task[g].spec
  IN /\ pc[g] = "listeners" /\ There(g)
     /\ IF Lb(g).lis[w.port] = w.pool THEN UNCHANGED cloud /\ Goto(g, "redundantListeners")
        ELSE Call(on[g], WithListener(Lb(g), w.port, w.pool)) /\ Goto(g, "recordListener")
     /\ UNCHANGED <<fresh, status, work, seen, victim, history, edits, faults>>

StatusAddListener(g) ==
  /\ pc[g] = "recordListener"
  /\ st' = [st EXCEPT ![g].lis = @ \cup {task[g].spec.port}]
  /\ Goto(g, "redundantListeners")
  /\ UNCHANGED <<cloud, fresh, spec, phase, work, seen, victim, history, edits, faults>>

-----------------------------------------------------------------------------
(* What is redundant, and the teardown. *)

KeptPorts(g) == IF mode[g] = "deploy" THEN {task[g].spec.port} ELSE {}
KeptPools(g) == IF mode[g] = "deploy" THEN {task[g].spec.pool} ELSE {}
Recorded(g, p) == task[g].st.pools[p]

\* Every group of the pool, and every member in it, is in the record.
Owned(g, b, p) ==
  /\ Recorded(g, p) # None
  /\ b.pools[p] # None =>
       /\ b.pools[p][g] \subseteq Recorded(g, p)
       /\ \A k \in Group \ {g} : b.pools[p][k] = {}

\* Mutant of CanDeleteListener: the groups of others are not looked at.
CanDeleteOwn(g, b, port) ==
  LET p == b.lis[port]
  IN p \notin KeptPools(g) /\ Recorded(g, p) # None

\* canDeleteWholeListener
CanDeleteListener(g, b, port) ==
  LET p == b.lis[port]
  IN p \notin KeptPools(g) /\ Owned(g, b, p)

\* deleteRedundantListeners: one recorded listener after the other.
ReadListeners(g) ==
  LET gone == {q \in task[g].st.lis \ KeptPorts(g) :
                 Lb(g).lis[q] # None /\ CanDeleteListener(g, Lb(g), q)}
  IN /\ pc[g] = "redundantListeners" /\ There(g)
     /\ \/ /\ gone = {} /\ Goto(g, "redundantPools") /\ UNCHANGED victim
        \/ /\ \E q \in gone : victim' = [victim EXCEPT ![g] = q]
           /\ Goto(g, "deleteListener")
     /\ UNCHANGED <<cloud, fresh, status, work, seen, history, edits, faults>>

DeleteListener(g) ==
  /\ pc[g] = "deleteListener" /\ There(g)
  /\ Call(on[g], WithoutListener(Lb(g), victim[g]))
  /\ victim' = [victim EXCEPT ![g] = None]
  /\ Goto(g, "redundantListeners")
  /\ UNCHANGED <<fresh, status, work, seen, history, edits, faults>>

\* canDeleteWholePool: no group but the recorded one is in it, and no listener
\* points to it; otherwise only that group goes.
Alone(g, b, p) == \A k \in Group \ {g} : b.pools[p][k] = {}
OwnGroup(g, b, p) == b.pools[p][g] # {} /\ Recorded(g, p) # {}
Stale(g, b, p) == OwnGroup(g, b, p) \/ b.pools[p][g] = {}
InUse(b, p) == \E q \in Port : b.lis[q] = p

\* Mutant of Trimmable: a pool that others use is left alone altogether.
TrimmableNone(g, b) == {}

Deletable(g, b) ==
  {p \in Pool \ KeptPools(g) :
     /\ Recorded(g, p) # None /\ b.pools[p] # None
     /\ Alone(g, b, p) /\ Stale(g, b, p) /\ ~InUse(b, p)}

Trimmable(g, b) ==
  {p \in Pool \ KeptPools(g) :
     /\ Recorded(g, p) # None /\ b.pools[p] # None
     /\ ~Alone(g, b, p) /\ OwnGroup(g, b, p)}

AfterPools(g) ==
  CASE mode[g] = "deploy" -> "finish" [] mode[g] = "migrate" -> "clear"
    [] mode[g] = "delete" -> "isEmpty"

\* deleteRedundantPools
ReadPools(g) ==
  LET del == Deletable(g, Lb(g))
      trim == Trimmable(g, Lb(g))
  IN /\ pc[g] = "redundantPools" /\ There(g)
     /\ \/ /\ del \cup trim = {} /\ Goto(g, AfterPools(g)) /\ UNCHANGED victim
        \/ /\ \E p \in del : victim' = [victim EXCEPT ![g] = p]
           /\ Goto(g, "deletePool")
        \/ /\ \E p \in trim : victim' = [victim EXCEPT ![g] = p]
           /\ Goto(g, "trimPool")
     /\ UNCHANGED <<cloud, fresh, status, work, seen, history, edits, faults>>

DeletePool(g) ==
  /\ pc[g] = "deletePool" /\ There(g)
  /\ Call(on[g], WithoutPool(Lb(g), victim[g]))
  /\ victim' = [victim EXCEPT ![g] = None]
  /\ Goto(g, "redundantPools")
  /\ UNCHANGED <<fresh, status, work, seen, history, edits, faults>>

TrimPool(g) ==
  /\ pc[g] = "trimPool" /\ There(g) /\ Lb(g).pools[victim[g]] # None
  /\ Call(on[g], WithGroup(Lb(g), victim[g], g, {}))
  /\ victim' = [victim EXCEPT ![g] = None]
  /\ Goto(g, "redundantPools")
  /\ UNCHANGED <<fresh, status, work, seen, history, edits, faults>>

\* deploy ends: status is what this pass has put up.
Finish(g) ==
  LET w == task[g].spec
  IN /\ pc[g] = "finish"
     /\ st' = [st EXCEPT ![g].lis = {w.port},
                         ![g].pools = [p \in Pool |-> IF p = w.pool THEN seen[g] ELSE None]]
     /\ Return(g)
     /\ UNCHANGED <<cloud, fresh, spec, phase, history, edits, faults>>

\* Mutant of WholeLb: the listeners alone are compared with the record.
WholeLbListeners(g, b) == \A q \in Port : b.lis[q] # None => q \in task[g].st.lis

\* canDeleteWholeLoadBalancer
WholeLb(g, b) ==
  /\ \A q \in Port : b.lis[q] # None => q \in task[g].st.lis
  /\ \A p \in Pool : b.pools[p] # None => Owned(g, b, p)

Gone(g) == phase' = [phase EXCEPT ![g] = "gone"] /\ Return(g)

\* delete: nothing to take down.
NothingToDelete(g) ==
  /\ pc[g] = "delete" /\ ~There(g)
  /\ Gone(g)
  /\ UNCHANGED <<cloud, fresh, spec, st, history, edits, faults>>

\* deleteLoadBalancer: all of it, or what is ours on it ...
ReadWhole(g) ==
  /\ pc[g] = "delete" /\ There(g)
  /\ Goto(g, IF WholeLb(g, Lb(g)) THEN "deleteLb" ELSE "redundantListeners")
  /\ UNCHANGED <<cloud, fresh, status, work, seen, victim, history, edits, faults>>

\* ... and the rest if it is empty then.
IsEmpty(g) ==
  LET empty == Lb(g).lis = [q \in Port |-> None] /\ Lb(g).pools = NoPools
  IN /\ pc[g] = "isEmpty" /\ There(g)
     /\ \/ empty /\ Goto(g, "deleteLb") /\ UNCHANGED <<phase, mode, task, on, seen, victim, lock>>
        \/ ~empty /\ Gone(g)
     /\ UNCHANGED <<cloud, fresh, spec, st, history, edits, faults>>

\* DeleteGlobalLoadBalancer, at the end of a deletion or of a failed creation.
DeleteLb(g) ==
  /\ pc[g] = "deleteLb" /\ There(g)
  /\ Call(on[g], None)
  /\ IF mode[g] = "delete" THEN Gone(g) ELSE Return(g) /\ UNCHANGED phase
  /\ UNCHANGED <<fresh, spec, st, history, edits, faults>>

-----------------------------------------------------------------------------
(* Failures and the user. *)

\* What is to be read or written is not there any more: the pass fails.
NotFound(g) ==
  /\ pc[g] \in {"wait", "pools", "members", "patch", "relist", "listeners", "redundantListeners",
                "deleteListener", "redundantPools", "deletePool", "trimPool", "isEmpty", "deleteLb"}
  /\ \/ ~There(g)
     \/ pc[g] \in {"members", "patch", "relist"} /\ There(g) /\ PoolNow(g) = None
     \/ pc[g] = "relist" /\ There(g) /\ PoolNow(g) # None /\ PoolNow(g)[g] = {}
     \/ pc[g] = "trimPool" /\ There(g) /\ Lb(g).pools[victim[g]] = None
  /\ Return(g)
  /\ UNCHANGED <<cloud, fresh, status, history, edits, faults>>

\* The pass has created something that only its end is sure to record.
Recording(g) == mode[g] = "deploy" /\ pc[g] \notin {"idle", "ensure", "attach", "find"}

\* A call fails or the controller stops.
Crash(g) ==
  /\ pc[g] # "idle" /\ faults < MaxFaults
  /\ faults' = faults + 1
  /\ loose' = (loose \/ Recording(g))
  /\ Return(g)
  /\ UNCHANGED <<cloud, fresh, status, left, edits>>

\* The user edits the GLBC, deletes it ...
Edit(g) ==
  /\ phase[g] = "live" /\ edits < MaxEdits
  /\ edits' = edits + 1
  /\ \E w \in Wanted[g] \ {spec[g]} : spec' = [spec EXCEPT ![g] = w]
  /\ UNCHANGED <<cloud, fresh, st, phase, run, history, faults>>

Delete(g) ==
  /\ phase[g] = "live"
  /\ phase' = [phase EXCEPT ![g] = "deleting"]
  /\ UNCHANGED <<cloud, fresh, spec, st, run, history, edits, faults>>

\* ... or adds a member to a group on the portal, which the GLBC then leaves there.
AddByHand(x, p, g, m) ==
  /\ edits < MaxEdits /\ edits' = edits + 1 /\ loose' = TRUE
  /\ cloud[x] # None /\ cloud[x].pools[p] # None
  /\ cloud[x].pools[p][g] # {} /\ m \notin cloud[x].pools[p][g]
  /\ Call(x, WithGroup(cloud[x], p, g, cloud[x].pools[p][g] \cup {m}))
  /\ UNCHANGED <<fresh, status, run, left, faults>>

-----------------------------------------------------------------------------
Reconcile(g) ==
  \/ Begin(g) \/ Ensure(g) \/ Attach(g) \/ FindByName(g) \/ CreateLb(g) \/ StatusAddLb(g)
  \/ WaitLb(g) \/ ClearStatus(g) \/ CreatePool(g) \/ StatusAddPool(g) \/ ListMembers(g)
  \/ PatchMembers(g) \/ StatusAddMembers(g) \/ DeployListener(g) \/ StatusAddListener(g)
  \/ ReadListeners(g) \/ DeleteListener(g) \/ ReadPools(g) \/ DeletePool(g) \/ TrimPool(g)
  \/ Finish(g) \/ NothingToDelete(g) \/ ReadWhole(g) \/ IsEmpty(g) \/ DeleteLb(g) \/ NotFound(g)

\* The controller runs one worker and the mutexes are of one load balancer each:
\* the interleaving of two GLBCs' passes is more than the program does today.
Next ==
  \/ \E g \in GLBC : Reconcile(g) \/ Crash(g) \/ Edit(g) \/ Delete(g)
  \/ \E x \in LB : Provision(x)
  \/ \E x \in LB, p \in Pool, g \in GLBC, m \in Hand : AddByHand(x, p, g, m)

Spec == Init /\ [][Next]_vars

\* The work queue brings every GLBC back after an error, a requeue or a resync,
\* a mutex is starvation free, and the service comes to a decision.
FairSpec ==
  /\ Spec /\ \A x \in LB : WF_vars(Provision(x))
  /\ \A g \in GLBC : WF_vars(Reconcile(g)) /\ SF_vars(Begin(g))

-----------------------------------------------------------------------------
PC == {"idle", "ensure", "attach", "find", "recordLb", "wait", "clear", "pools",
       "recordPool", "members", "patch", "relist", "recordMembers", "listeners",
       "recordListener", "redundantListeners", "deleteListener", "redundantPools",
       "deletePool", "trimPool", "finish", "delete", "isEmpty", "deleteLb"}

\* The load balancers, the statuses and the running reconciles are well formed.
TypeOK ==
  /\ cloud \in [LB -> Balancer \cup {None}] /\ fresh \in SUBSET LB
  /\ spec \in [GLBC -> Want] /\ st \in [GLBC -> Status]
  /\ phase \in [GLBC -> {"live", "deleting", "gone"}]
  /\ pc \in [GLBC -> PC] /\ mode \in [GLBC -> {"deploy", "migrate", "delete"}]
  /\ task \in [GLBC -> [spec : Want, st : Status] \cup {NoTask}]
  /\ on \in [GLBC -> LB \cup {None}] /\ seen \in [GLBC -> SUBSET Member]
  /\ victim \in [GLBC -> Port \cup Pool \cup {None}]
  /\ lock \in [LB -> GLBC \cup {None}]
  /\ left \in SUBSET LB /\ loose \in BOOLEAN /\ edits \in Nat /\ faults \in Nat

\* canDeleteWholeLoadBalancer, canDeleteWholePool: the groups of members the
\* user has on a load balancer are never taken away, nor is the load balancer.
UserGroupKept ==
  \A x \in LB, p \in Pool :
    Brought[x] # None /\ Brought[x].pools[p] # None /\ Brought[x].pools[p][User] # {} =>
      /\ cloud[x] # None /\ cloud[x].pools[p] # None
      /\ cloud[x].pools[p][User] = Brought[x].pools[p][User]

Settled(g, x) ==
  /\ phase[g] = "live" /\ pc[g] = "idle" /\ st[g].lb = x
  /\ cloud[x] # None /\ cloud[x].lis[spec[g].port] = spec[g].pool
  /\ cloud[x].pools[spec[g].pool] # None
  /\ spec[g].members \subseteq cloud[x].pools[spec[g].pool][g]

\* deleteRedundantListeners, deleteRedundantPools, deleteLoadBalancer: what one
\* GLBC has settled on a load balancer is not taken away by another that leaves
\* it under the mutex.
SiblingKept ==
  [][\A g \in GLBC, x \in LB :
       /\ Settled(g, x) /\ ~Uncovered(x)
       /\ phase'[g] = "live" /\ spec'[g] = spec[g] /\ pc'[g] = "idle"
       => Settled(g, x)']_vars

\* deleteLoadBalancerWhenNotEmpty: once every GLBC is gone nothing of theirs is
\* left, but for a load balancer that was made here and then migrated away from.
Reclaimed ==
  (\A g \in GLBC : phase[g] = "gone") /\ ~loose =>
    \A x \in LB :
      \/ cloud[x] = Brought[x] \/ cloud[x] = None
      \/ /\ x \in left /\ cloud[x].pools = NoPools
         /\ \A q \in Port : cloud[x].lis[q] = None

\* deploy: whoever stays gets its listener, pool and members, unless the load
\* balancer it is to use was lost or is in ERROR: then every pass fails.  (Or no
\* identifier is left, which is a bound of the model.)
GlobalServed ==
  <>[](\A g \in GLBC : phase[g] = "live" =>
         \/ fresh = {} /\ Named(g) = {}
         \/ \E x \in LB : ~Active(x) /\ (x \in {st[g].lb, spec[g].pin} \/ x \in Named(g))
         \/ /\ st[g].lb # None /\ cloud[st[g].lb].lis[spec[g].port] = spec[g].pool
            /\ cloud[st[g].lb].pools[spec[g].pool] # None
            /\ spec[g].members \subseteq cloud[st[g].lb].pools[spec[g].pool][g])
=============================================================================
