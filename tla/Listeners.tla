----------------------------- MODULE Listeners ------------------------------
(***************************************************************************)
(* One listener, on one port of a load balancer, as the LBCs of a cluster  *)
(* share it: deploy_listener.go, delete_listener.go, listener_acl.go, the  *)
(* policies, the listener records of status.go and the cross-validation    *)
(* of validate.go in internal/usecase/lbc_uc.                              *)
(*                                                                         *)
(* A listener is found by its port.  One that an LBC did not create is     *)
(* adopted: the default pool it had and every ACL field the LBC displaces  *)
(* are recorded first, and put back when the LBC leaves.  Policies belong  *)
(* to the LBC that made them; the default pool may be shared by name.      *)
(*                                                                         *)
(* The policies of an LBC are one thing here, whether it has any; whose    *)
(* members a pool holds (tenants) is all that is kept of pools.            *)
(***************************************************************************)
EXTENDS Naturals, FiniteSets

CONSTANTS
  LBC, Pool, Value,
  Field,      \* the ACL fields: allowed and blocked CIDRs, default action
  Allowed,    \* the one in which LBCs may differ and which every PUT carries
  Neutral,    \* what a listener the controller creates has in them
  Wanted,     \* the listeners an LBC may be asked for
  Brought,    \* the listeners the load balancer may come with; None: without
  Ours,       \* the LBCs whose records say this cluster made the load balancer
  Layer4,     \* the load balancer is a layer 4 one
  User, None,
  Repins,     \* the LBCs the user may re-pin to another load balancer
  MaxEdits,   \* bound on the user's edits
  MaxFaults   \* bound on failing calls and crashes

Acl == [Field -> Value \cup {None}]
NoAcl == [f \in Field |-> None]
Listener ==
  [pool : Pool \cup {None}, acl : [Field -> Value], rules : SUBSET (LBC \cup {User})]
Want == [on : BOOLEAN, pool : Pool \cup {None}, acl : Acl, rules : BOOLEAN]
NoWant == [on |-> FALSE, pool |-> None, acl |-> NoAcl, rules |-> FALSE]
Record ==
  [listed : BOOLEAN, adopted : BOOLEAN, pool : Pool \cup {None}, acl : Acl, rules : BOOLEAN]
NoRecord ==
  [listed |-> FALSE, adopted |-> FALSE, pool |-> None, acl |-> NoAcl, rules |-> FALSE]

ASSUME ListenersAssumption ==
  /\ Allowed \in Field /\ Neutral \in [Field -> Value]
  /\ LBC # {} /\ IsFiniteSet(LBC)
  /\ Wanted \in [LBC -> SUBSET Want] /\ \A l \in LBC : Wanted[l] # {}
  /\ \A l \in LBC : \A w \in Wanted[l] : w.on \/ w = NoWant
  \* What is there at first is the user's; a load balancer made here comes without.
  /\ Brought \subseteq Listener \cup {None} /\ (Ours # {} => Brought \subseteq {None})
  /\ \A b \in Brought : b # None => b.rules \subseteq {User}
  /\ Ours \subseteq LBC /\ Repins \subseteq LBC /\ Layer4 \in BOOLEAN
  /\ User \notin LBC /\ None \notin LBC \cup Pool \cup Value \cup Listener
  /\ MaxEdits \in Nat /\ MaxFaults \in Nat

VARIABLES
  listener,   \* the vLB service: the listener on the port, or None
  tenants,    \* ... whose members each pool holds
  spec,       \* the listener each LBC asks for
  rec,        \* its entry in status.createdListeners
  books,      \* the pools in status.createdPools
  phase,      \* live, deleting, retiring (re-pinned elsewhere), gone
  pc, task,   \* the running reconcile: its next step, the LBC as it read it
  seen,       \* ... the listener as it last read it
  peers,      \* ... aclPeers: the fields that other LBCs declare
  lock,       \* lbLocks: who holds the load balancer's mutex
  own,        \* history: the listener as the user left it
  users,      \* history: the LBCs that ever asked for the listener
  loose,      \* history: a creation was not recorded, an edit raced a pass, or
              \* the listener was left to the teardown of a migration
  applied,    \* history: the ACL each LBC has deployed and still asks for
  edits, faults

cloud == <<listener, tenants>>
object == <<spec, rec, books, phase>>
run == <<pc, task, seen, peers, lock>>
history == <<own, users, loose, applied>>
vars == <<cloud, object, run, history, edits, faults>>

NoTask == [spec |-> NoWant, rec |-> NoRecord, books |-> {}, leaving |-> FALSE]

Init ==
  /\ listener \in Brought
  /\ tenants = [p \in Pool |-> IF listener # None /\ listener.pool = p THEN {User} ELSE {}]
  /\ spec \in {s \in [LBC -> Want] : \A l \in LBC : s[l] \in Wanted[l]}
  /\ rec = [l \in LBC |-> NoRecord] /\ books = [l \in LBC |-> {}]
  /\ phase = [l \in LBC |-> "live"]
  /\ pc = [l \in LBC |-> "idle"] /\ task = [l \in LBC |-> NoTask]
  /\ seen = [l \in LBC |-> None] /\ peers = [l \in LBC |-> {}]
  /\ lock = None
  /\ own = listener /\ users = {l \in LBC : spec[l].on} /\ loose = FALSE
  /\ applied = [l \in LBC |-> NoAcl]
  /\ edits = 0 /\ faults = 0

-----------------------------------------------------------------------------
(* The ACL. *)

\* planListenerAcl: a field taken over is recorded with the value displaced, or
\* the neutral one; a record is kept until its field has been released.
RecordBefore(want, have, kept, neutral) ==
  [f \in Field |->
     IF want[f] # None /\ want[f] # have[f] /\ kept[f] = None
     THEN IF neutral[f] # None THEN neutral[f] ELSE have[f]
     ELSE kept[f]]

RecordAfter(want, kept) ==
  [f \in Field |-> IF want[f] = None THEN None ELSE kept[f]]

\* Mutant of Desired: what other LBCs declare is not looked at.
DesiredAlone(want, have, kept, declared) ==
  [f \in Field |-> IF want[f] # None THEN want[f] ELSE kept[f]]

\* What the PUT sets: the wanted value, or the recorded one where the field is
\* released and no other LBC declares it, if that is not what was read; None
\* leaves the field alone.
Desired(want, have, kept, declared) ==
  LET v == [f \in Field |-> IF want[f] # None THEN want[f]
                            ELSE IF f \in declared THEN None ELSE kept[f]]
  IN [f \in Field |-> IF v[f] = have[f] THEN None ELSE v[f]]

\* neutralFallback: for a listener created here, on a load balancer made here.
Fallback(l) ==
  IF l \in Ours /\ task[l].rec.listed /\ ~task[l].rec.adopted THEN Neutral ELSE NoAcl

\* neutralAcl: the record that goes in with a listener created here.
NeutralOf(want) == [f \in Field |-> IF want[f] = None THEN None ELSE Neutral[f]]

\* UpdateListener: the allowed CIDRs are always sent, as read unless changed.
Updated(lst, read, pool, desired) ==
  [lst EXCEPT !.pool = pool,
              !.acl = [f \in Field |-> IF desired[f] # None THEN desired[f]
                                       ELSE IF f = Allowed THEN read.acl[f] ELSE lst.acl[f]]]

\* Nothing is sent where nothing would change.
Differs(read, pool, desired) ==
  read.pool # pool \/ \E f \in Field : desired[f] \notin {None, read.acl[f]}

-----------------------------------------------------------------------------
(* Validation. *)

\* The LBCs whose spec or status names the load balancer.
Sharing == {l \in LBC : phase[l] \in {"live", "deleting"}}

\* collectAclPeers
Declared(l) ==
  {f \in Field : \E k \in Sharing \ {l} : spec[k].on /\ spec[k].acl[f] # None}

\* validateCrossListenerDefaultPools and validateCrossListenerAcl: any two
\* LBCs that differ stop every LBC of the load balancer.
Conflict ==
  \E k, l \in Sharing :
    /\ spec[k].on /\ spec[l].on
    /\ \/ spec[k].pool # spec[l].pool
       \/ \E f \in Field \ {Allowed} :
            spec[k].acl[f] # spec[l].acl[f] /\ None \notin {spec[k].acl[f], spec[l].acl[f]}

-----------------------------------------------------------------------------
(* deployListener. *)

Goto(l, step) == pc' = [pc EXCEPT ![l] = step]

Return(l) ==
  /\ Goto(l, "idle")
  /\ task' = [task EXCEPT ![l] = NoTask]
  /\ seen' = [seen EXCEPT ![l] = None]
  /\ peers' = [peers EXCEPT ![l] = {}]
  /\ lock' = IF lock = l THEN None ELSE lock

\* The LBC is read, the mutex taken, the LBC validated.  One that is deleted
\* takes its things off; one re-pinned does so too, without the mutex, from a
\* snapshot, while its status already speaks of another load balancer.
Begin(l) ==
  LET leaving == phase[l] # "live"
  IN /\ pc[l] = "idle" /\ phase[l] # "gone"
     /\ leaving \/ ~Conflict
     /\ IF phase[l] = "retiring" THEN UNCHANGED lock
        ELSE lock = None /\ lock' = l
     /\ task' = [task EXCEPT ![l] =
          [spec |-> IF leaving THEN NoWant ELSE spec[l], rec |-> rec[l],
           books |-> IF phase[l] = "retiring" THEN {} ELSE books[l],
           leaving |-> leaving]]
     /\ peers' = [peers EXCEPT ![l] = IF leaving THEN {} ELSE Declared(l)]
     /\ Goto(l, IF leaving THEN "redundant" ELSE "pools")
     /\ UNCHANGED <<cloud, object, seen, history, edits, faults>>

PoolsOf(want) == IF want.on /\ want.pool # None THEN {want.pool} ELSE {}

\* deployPools: the members are on the pool, the pool on the books.
DeployPools(l) ==
  LET ps == PoolsOf(task[l].spec)
  IN /\ pc[l] = "pools"
     /\ tenants' = [p \in Pool |-> IF p \in ps THEN tenants[p] \cup {l} ELSE tenants[p]]
     /\ books' = [books EXCEPT ![l] = @ \cup ps]
     /\ Goto(l, IF task[l].spec.on THEN "find" ELSE "redundant")
     /\ UNCHANGED <<listener, spec, rec, phase, task, seen, peers, lock, history,
                    edits, faults>>

\* No listener on the port: CreateListener.
CreateListener(l) ==
  LET want == task[l].spec
  IN /\ pc[l] = "find" /\ listener = None
     /\ listener' = [pool |-> want.pool, rules |-> {},
                     acl |-> [f \in Field |-> IF want.acl[f] # None THEN want.acl[f]
                                              ELSE Neutral[f]]]
     /\ Goto(l, "record")
     /\ UNCHANGED <<tenants, object, task, seen, peers, lock, history, edits, faults>>

\* The record of l, in status and in the copy the reconcile works on.
SetRecord(l, r) ==
  /\ rec' = [rec EXCEPT ![l] = [r EXCEPT !.rules = rec[l].rules]]
  /\ task' = [task EXCEPT ![l].rec = [r EXCEPT !.rules = task[l].rec.rules]]

\* statusAddListener, then the new listener is read.
StatusAddListener(l) ==
  /\ pc[l] = "record" /\ listener # None
  /\ SetRecord(l, [NoRecord EXCEPT !.listed = TRUE, !.acl = NeutralOf(task[l].spec.acl)])
  /\ seen' = [seen EXCEPT ![l] = listener]
  /\ Goto(l, "plan")
  /\ UNCHANGED <<cloud, spec, books, phase, peers, lock, history, edits, faults>>

\* Mutant of Adopted: the original is recorded anew in every pass.
AdoptedAnew(l, lst) ==
  [rec[l] EXCEPT !.listed = TRUE, !.adopted = TRUE, !.pool = lst.pool]

\* statusAdoptListener: decided on first sight, never revisited.
Adopted(l, lst) ==
  IF rec[l].listed THEN rec[l]
  ELSE IF l \in Ours
       THEN [NoRecord EXCEPT !.listed = TRUE, !.acl = NeutralOf(task[l].spec.acl)]
       ELSE [NoRecord EXCEPT !.listed = TRUE, !.adopted = TRUE, !.pool = lst.pool]

AdoptListener(l) ==
  /\ pc[l] = "find" /\ listener # None
  /\ SetRecord(l, Adopted(l, listener))
  /\ seen' = [seen EXCEPT ![l] = listener]
  /\ Goto(l, "plan")
  /\ UNCHANGED <<cloud, spec, books, phase, peers, lock, history, edits, faults>>

\* statusSetOriginalAcl before the update ...
RecordDisplaced(l) ==
  LET r == task[l].rec
  IN /\ pc[l] = "plan"
     /\ SetRecord(l, [r EXCEPT !.acl =
                        RecordBefore(task[l].spec.acl, seen[l].acl, r.acl, Fallback(l))])
     /\ Goto(l, "put")
     /\ UNCHANGED <<cloud, spec, books, phase, seen, peers, lock, history, edits,
                    faults>>

\* Mutant of UpdateListener: an adopted listener keeps its default pool.
UpdateAclOnly(l) ==
  LET want == task[l].spec
      desired == Desired(want.acl, seen[l].acl, task[l].rec.acl, peers[l])
      pool == IF task[l].rec.adopted THEN seen[l].pool ELSE want.pool
  IN /\ pc[l] = "put" /\ listener # None
     /\ listener' = IF Differs(seen[l], pool, desired)
                    THEN Updated(listener, seen[l], pool, desired) ELSE listener
     /\ Goto(l, "release")
     /\ UNCHANGED <<tenants, object, task, seen, peers, lock, history, edits, faults>>

\* ... the update ...
UpdateListener(l) ==
  LET want == task[l].spec
      desired == Desired(want.acl, seen[l].acl, task[l].rec.acl, peers[l])
  IN /\ pc[l] = "put" /\ listener # None
     /\ listener' = IF Differs(seen[l], want.pool, desired)
                    THEN Updated(listener, seen[l], want.pool, desired) ELSE listener
     /\ Goto(l, "release")
     /\ UNCHANGED <<tenants, object, task, seen, peers, lock, history, edits, faults>>

\* ... and after it: released fields are dropped from the record.
RecordReleased(l) ==
  LET r == task[l].rec
  IN /\ pc[l] = "release"
     /\ SetRecord(l, [r EXCEPT !.acl = RecordAfter(task[l].spec.acl, r.acl)])
     /\ Goto(l, IF Layer4 THEN "redundant" ELSE "policies")
     /\ UNCHANGED <<cloud, spec, books, phase, seen, peers, lock, history, edits,
                    faults>>

\* deployPolicies: those that are missing are created and recorded one by one.
DeployPolicies(l) ==
  /\ pc[l] = "policies" /\ listener # None
  /\ IF task[l].spec.rules /\ l \notin listener.rules
     THEN /\ listener' = [listener EXCEPT !.rules = @ \cup {l}]
          /\ Goto(l, "recordPolicy")
     ELSE UNCHANGED listener /\ Goto(l, "redundant")
  /\ UNCHANGED <<tenants, object, task, seen, peers, lock, history, edits, faults>>

StatusAddPolicy(l) ==
  /\ pc[l] = "recordPolicy"
  /\ rec' = [rec EXCEPT ![l].rules = TRUE]
  /\ Goto(l, "redundant")
  /\ UNCHANGED <<cloud, spec, books, phase, task, seen, peers, lock, history, edits, faults>>

-----------------------------------------------------------------------------
(* deleteRedundantListeners. *)

\* Mutant of CanDeleteWhole: every listener is treated as a layer 4 one.
CanDeleteAny(l, lst) == TRUE

\* canDeleteWholeListener: its policies, its default pool and the members in
\* it are all on the books of this LBC.
CanDeleteWhole(l, lst) ==
  \/ Layer4
  \/ /\ lst.rules \subseteq (IF task[l].rec.rules THEN {l} ELSE {})
     /\ lst.pool # None =>
          /\ lst.pool \notin PoolsOf(task[l].spec)
          /\ lst.pool \in task[l].books
          /\ tenants[lst.pool] \subseteq {l}

\* A listener still in the spec loses the policies no longer wanted; one that
\* is not goes, unless it was adopted or others are on it.
ListRedundant(l) ==
  LET r == task[l].rec
      kept == task[l].spec.on
  IN /\ pc[l] = "redundant"
     /\ seen' = [seen EXCEPT ![l] = listener]
     /\ Goto(l, IF ~r.listed \/ listener = None THEN "finish"
                ELSE IF ~kept /\ ~r.adopted /\ CanDeleteWhole(l, listener) THEN "delete"
                ELSE "strip")
     /\ UNCHANGED <<cloud, object, task, peers, lock, history, edits, faults>>

DeleteListener(l) ==
  /\ pc[l] = "delete" /\ listener # None
  /\ listener' = None
  /\ Goto(l, "finish")
  /\ UNCHANGED <<tenants, object, task, seen, peers, lock, history, edits, faults>>

\* deployDeleteRedundantPolicies; then an adopted listener is handed back, the
\* LBCs that declare an ACL field listed first.
Strip(l) ==
  LET handBack == task[l].rec.adopted /\ ~task[l].spec.on
  IN /\ pc[l] = "strip" /\ listener # None
     /\ listener' = IF task[l].rec.rules /\ ~task[l].spec.rules /\ ~Layer4
                    THEN [listener EXCEPT !.rules = @ \ {l}] ELSE listener
     /\ peers' = [peers EXCEPT ![l] = IF handBack THEN Declared(l) ELSE @]
     /\ Goto(l, IF handBack THEN "restore" ELSE "finish")
     /\ UNCHANGED <<tenants, object, task, seen, lock, history, edits, faults>>

\* restoreAdoptedListener: the default pool as recorded, and the ACL fields
\* recorded that no other LBC declares.
Restore(l) ==
  LET r == task[l].rec
      desired == Desired(NoAcl, seen[l].acl, r.acl, peers[l])
  IN /\ pc[l] = "restore" /\ listener # None
     /\ listener' = IF Differs(seen[l], r.pool, desired)
                    THEN Updated(listener, seen[l], r.pool, desired) ELSE listener
     /\ Goto(l, "finish")
     /\ UNCHANGED <<tenants, object, task, seen, peers, lock, history, edits, faults>>

\* Mutant of Carried: the adoption is not carried over.
CarriedBare(l) ==
  [NoRecord EXCEPT !.listed = TRUE, !.acl = task[l].rec.acl, !.rules = task[l].spec.rules]

\* carryAdoption: what deployListener returns, and status is overwritten with.
Carried(l) == [task[l].rec EXCEPT !.rules = task[l].spec.rules]

\* deleteRedundantPools takes our members off the other pools, and off those
\* whose last members they are unless the listener points there.  Then status
\* is rewritten, or the finalizer, or the retiring record, comes off.
Finish(l) ==
  LET ps == PoolsOf(task[l].spec)
      stuck(p) == listener # None /\ listener.pool = p /\ tenants[p] = {l}
  IN /\ pc[l] = "finish"
     /\ tenants' = [p \in Pool |-> IF p \in books[l] \ ps /\ ~stuck(p)
                                   THEN tenants[p] \ {l} ELSE tenants[p]]
     /\ rec' = [rec EXCEPT ![l] = IF task[l].spec.on THEN Carried(l) ELSE NoRecord]
     /\ books' = [books EXCEPT ![l] = ps]
     /\ phase' = [phase EXCEPT ![l] = IF task[l].leaving THEN "gone" ELSE @]
     /\ applied' = [applied EXCEPT ![l] =
          IF phase[l] = "live" /\ spec[l] = task[l].spec THEN spec[l].acl ELSE NoAcl]
     /\ Return(l)
     /\ UNCHANGED <<listener, spec, own, users, loose, edits, faults>>

-----------------------------------------------------------------------------
(* Failures and the user. *)

\* The listener is gone when it is to be read or written: the pass fails.
NotFound(l) ==
  /\ listener = None
  /\ pc[l] \in {"record", "put", "policies", "delete", "strip", "restore"}
  /\ Return(l)
  /\ UNCHANGED <<cloud, object, history, edits, faults>>

\* A call fails or the controller stops: the pass is over.
Crash(l) ==
  /\ pc[l] # "idle" /\ faults < MaxFaults
  /\ faults' = faults + 1
  /\ loose' = (loose \/ pc[l] \in {"record", "recordPolicy"})
  /\ Return(l)
  /\ UNCHANGED <<cloud, object, own, users, applied, edits>>

\* The owner of the LBC edits its annotations.
Edit(l) ==
  /\ phase[l] = "live" /\ edits < MaxEdits
  /\ edits' = edits + 1
  /\ \E s \in Wanted[l] \ {spec[l]} : spec' = [spec EXCEPT ![l] = s]
  /\ users' = {k \in LBC : k \in users \/ spec'[k].on}
  /\ applied' = [applied EXCEPT ![l] = NoAcl]
  /\ UNCHANGED <<cloud, rec, books, phase, run, own, loose, faults>>

\* It is deleted, or re-pinned: a migration, whose teardown comes reconciles
\* later.
Leave(l) ==
  /\ phase[l] = "live"
  /\ \/ phase' = [phase EXCEPT ![l] = "deleting"] /\ UNCHANGED loose
     \/ /\ l \in Repins /\ pc[l] = "idle"
        /\ phase' = [phase EXCEPT ![l] = "retiring"] /\ loose' = TRUE
  /\ applied' = [applied EXCEPT ![l] = NoAcl]
  /\ UNCHANGED <<cloud, spec, rec, books, run, own, users, edits, faults>>

\* The user sets an ACL field on the portal.  Where no annotation manages it the
\* value is the user's to keep; one set under a running pass may be overwritten
\* by what the pass had read.
PortalEdit(f, v) ==
  /\ listener # None /\ own # None /\ listener.acl[f] # v /\ edits < MaxEdits
  /\ edits' = edits + 1
  /\ listener' = [listener EXCEPT !.acl[f] = v]
  /\ own' = IF \A l \in LBC : rec[l].acl[f] = None
            THEN [own EXCEPT !.acl[f] = v] ELSE own
  /\ loose' = (loose \/ \E l \in LBC : pc[l] # "idle")
  /\ UNCHANGED <<tenants, object, run, users, applied, faults>>

\* The user deletes the listener there; one made under a running pass is nobody's.
PortalDelete ==
  /\ listener # None /\ edits < MaxEdits
  /\ edits' = edits + 1
  /\ listener' = None /\ own' = None
  /\ loose' = (loose \/ \E l \in LBC : pc[l] # "idle")
  /\ UNCHANGED <<tenants, object, run, users, applied, faults>>

-----------------------------------------------------------------------------
Reconcile(l) ==
  \/ Begin(l) \/ DeployPools(l) \/ CreateListener(l) \/ StatusAddListener(l)
  \/ AdoptListener(l) \/ RecordDisplaced(l) \/ UpdateListener(l) \/ RecordReleased(l)
  \/ DeployPolicies(l) \/ StatusAddPolicy(l) \/ ListRedundant(l) \/ DeleteListener(l)
  \/ Strip(l) \/ Restore(l) \/ Finish(l) \/ NotFound(l)

Next ==
  \/ \E l \in LBC : Reconcile(l) \/ Crash(l) \/ Edit(l) \/ Leave(l)
  \/ \E f \in Field, v \in Value : PortalEdit(f, v)
  \/ PortalDelete

Spec == Init /\ [][Next]_vars

\* The work queue and the resync bring every LBC back, and a mutex is
\* starvation free.  Users and faults owe nothing.
FairSpec ==
  Spec /\ \A l \in LBC : WF_vars(Reconcile(l)) /\ SF_vars(Begin(l))

-----------------------------------------------------------------------------
PC == {"idle", "pools", "find", "record", "plan", "put", "release", "policies",
       "recordPolicy", "redundant", "delete", "strip", "restore", "finish"}

\* The listener, the records and the running reconciles are well formed.
TypeOK ==
  /\ listener \in Listener \cup {None}
  /\ tenants \in [Pool -> SUBSET (LBC \cup {User})]
  /\ spec \in [LBC -> Want] /\ rec \in [LBC -> Record]
  /\ books \in [LBC -> SUBSET Pool]
  /\ phase \in [LBC -> {"live", "deleting", "retiring", "gone"}]
  /\ pc \in [LBC -> PC]
  /\ task \in [LBC -> [spec : Want, rec : Record, books : SUBSET Pool, leaving : BOOLEAN]]
  /\ seen \in [LBC -> Listener \cup {None}] /\ peers \in [LBC -> SUBSET Field]
  /\ lock \in LBC \cup {None}
  /\ own \in Listener \cup {None} /\ users \in SUBSET LBC /\ loose \in BOOLEAN
  /\ applied \in [LBC -> Acl]
  /\ edits \in Nat /\ faults \in Nat

\* statusAdoptListener, carryAdoption: a listener that was there before the
\* LBCs is never deleted, whatever they were interrupted at.
UserListenerKept == own # None => listener # None

\* restoreAdoptedListener, canDeleteWholeListener: when the one LBC that asked
\* for the port is gone, the listener is as its owner left it, or gone if the LBC
\* had made it.
LeftAsFound ==
  (\A l \in LBC : phase[l] = "gone") /\ Cardinality(users) <= 1 /\ ~loose => listener = own

\* deployListener, of a listener it finds: "Record it as adopted, along with the
\* default pool we are about to displace, so the teardown can leave it as it found
\* it", however many LBCs have adopted it.
HandedBack ==
  (\A l \in LBC : phase[l] = "gone") /\ ~loose /\ own # None =>
    listener # None /\ listener.pool = own.pool

\* planListenerAcl, collectAclPeers: an ACL field that an LBC has deployed and
\* still declares is not changed by another one that releases it or leaves; but
\* the teardown of a migration holds no mutex and may write over it.
AclStable ==
  [][\A l \in LBC, f \in Field \ {Allowed} :
       /\ \A k \in LBC : phase[k] = "retiring" => pc[k] = "idle"
       /\ applied[l][f] # None /\ listener # None /\ listener' # None
       /\ listener.acl[f] = applied[l][f] /\ edits' = edits
       => listener'.acl[f] = listener.acl[f]]_vars

\* canDeleteWholeListener: a listener with the policies, or in its default
\* pool the members, of an LBC that stays is not deleted.
ServingListenerKept ==
  [][listener # None /\ listener' = None /\ edits' = edits =>
       \A l \in LBC : phase[l] = "live" /\ spec[l].on /\ pc[l] = "idle" =>
         /\ l \notin listener.rules
         /\ listener.pool # None => l \notin tenants[listener.pool]]_vars

\* deployListeners: an LBC that hands back a listener others still use takes
\* their default pool away; they, and whoever stays, get what they ask for
\* again, unless their specs contradict one another.
ListenerServed ==
  <>[](~Conflict => \A l \in LBC : phase[l] = "live" /\ spec[l].on =>
         /\ listener # None
         /\ listener.pool = spec[l].pool
         /\ spec[l].rules /\ ~Layer4 => l \in listener.rules
         /\ \A f \in Field \ {Allowed} :
              spec[l].acl[f] # None => listener.acl[f] = spec[l].acl[f])
=============================================================================
