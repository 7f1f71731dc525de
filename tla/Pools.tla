------------------------------- MODULE Pools --------------------------------
(***************************************************************************)
(* The pools of one load balancer and their members, as the LBCs of one    *)
(* cluster keep them: deploy_pool.go, delete_pool.go and the pool records  *)
(* of status.go in internal/usecase/lbc_uc.                                *)
(*                                                                         *)
(* A pool is found by its name, so LBCs, and the user on the portal, may   *)
(* put members into one pool.  UpdatePoolMembers replaces the whole list:  *)
(* an LBC reads it, keeps what is not its own, adds what its spec names,   *)
(* and writes it.  What is its own is what status.createdPools lists.      *)
(* Reconciles on one load balancer exclude one another by a mutex, except  *)
(* the teardown of an LBC that was re-pinned elsewhere.                    *)
(*                                                                         *)
(* Names stand for ids; algorithm and health monitor of a pool are left    *)
(* to the module Build.  The load balancer itself stays.                   *)
(***************************************************************************)
EXTENDS Naturals

CONSTANTS
  LBC, Pool, Member,
  HandMember,  \* the members only the user ever adds, on the portal
  Specs,       \* the pools, with their members, an LBC may be asked for
  Brought,     \* the pools the load balancer may carry at first
  User, None,
  Repins,      \* the LBCs the user may re-pin to another load balancer
  MaxEdits,    \* bound on the user's edits
  MaxFaults    \* bound on failing calls and crashes

\* Pools with their members: of the load balancer, of a spec or a status.
PoolSets == UNION {[D -> SUBSET Member] : D \in SUBSET Pool}

ASSUME PoolsAssumption ==
  /\ HandMember \subseteq Member /\ Repins \subseteq LBC
  /\ Specs \in [LBC -> SUBSET PoolSets] /\ Brought \subseteq PoolSets
  /\ \A l \in LBC : Specs[l] # {}
  /\ \A l \in LBC : \A s \in Specs[l] : \A p \in DOMAIN s : s[p] \cap HandMember = {}
  /\ \A s \in Brought : \A p \in DOMAIN s : s[p] \subseteq HandMember
  /\ User \notin LBC /\ None \notin LBC /\ None \notin Pool
  /\ MaxEdits \in Nat /\ MaxFaults \in Nat

VARIABLES
  pools,      \* the vLB service: the pools and their members
  refs,       \* ... and the pools that listeners and policies point at
  spec, st,   \* spec.pools and status.createdPools of each LBC
  phase,      \* live, deleting, retiring (re-pinned elsewhere), gone
  pc, task,   \* the running reconcile: its next step, the LBC as it read it
  listed,     \* ... the pools ListPool returned
  used,       \* ... those in use, when the redundant ones were looked for
  todo, now,  \* ... the pools left to treat, the one being treated
  seen,       \* ... the members it read of that one
  failed,     \* ... whether a pool has failed in this pass
  lock,       \* lbLocks: who holds the load balancer's mutex
  hand,       \* history: members added by hand while nobody was writing
  stray,      \* history: members that left everybody's books, see below
  edits, faults

cloud == <<pools, refs>>
object == <<spec, st, phase>>
round == <<listed, used, todo, now, seen, failed>>
history == <<hand, stray>>
vars == <<cloud, object, pc, task, round, lock, history, edits, faults>>

NoPools == [p \in {} |-> {}]
With(f, p, ms) == [q \in DOMAIN f \cup {p} |-> IF q = p THEN ms ELSE f[q]]
Without(f, p) == [q \in DOMAIN f \ {p} |-> f[q]]

Of(f, p) == IF p \in DOMAIN f THEN f[p] ELSE {}

NoTask == [spec |-> NoPools, st |-> NoPools, leaving |-> FALSE]

\* Pools the load balancer carries at first are the user's, in use or not.
Init ==
  /\ pools \in Brought
  /\ refs \in {r \in [LBC \cup {User} -> SUBSET Pool] :
                 /\ r[User] \subseteq DOMAIN pools
                 /\ \A l \in LBC : r[l] = {}}
  /\ spec \in {s \in [LBC -> PoolSets] : \A l \in LBC : s[l] \in Specs[l]}
  /\ st = [l \in LBC |-> NoPools]
  /\ phase = [l \in LBC |-> "live"]
  /\ pc = [l \in LBC |-> "idle"]
  /\ task = [l \in LBC |-> NoTask]
  /\ listed = [l \in LBC |-> {}] /\ used = [l \in LBC |-> {}]
  /\ todo = [l \in LBC |-> {}] /\ now = [l \in LBC |-> None]
  /\ seen = [l \in LBC |-> {}] /\ failed = [l \in LBC |-> FALSE]
  /\ lock = None
  /\ hand = [p \in Pool |-> Of(pools, p)]
  /\ stray = [p \in Pool |-> {}]
  /\ edits = 0 /\ faults = 0

-----------------------------------------------------------------------------
\* Mutants of Merge: what is not in the spec goes, whoever put it there; what
\* the spec adds is left out.
MergeSpecOnly(created, current, wanted) == wanted

MergeTrimOnly(created, current, wanted) == current \ (created \ wanted)

\* mergePoolMembers: a current member is kept if it is in the spec or was not
\* created by us, and those of the spec are added.
Merge(created, current, wanted) == (current \ (created \ wanted)) \cup wanted

Goto(l, step) == pc' = [pc EXCEPT ![l] = step]

\* The next pool, after this one succeeded (bad = FALSE) or failed.
NextPool(l, bad) ==
  /\ todo' = [todo EXCEPT ![l] = @ \ {now[l]}]
  /\ now' = [now EXCEPT ![l] = None]
  /\ seen' = [seen EXCEPT ![l] = {}]
  /\ failed' = [failed EXCEPT ![l] = @ \/ bad]
  /\ UNCHANGED <<listed, used>>

\* The reconcile returns, with an error or without one.
Return(l) ==
  /\ Goto(l, "idle")
  /\ task' = [task EXCEPT ![l] = NoTask]
  /\ listed' = [listed EXCEPT ![l] = {}] /\ used' = [used EXCEPT ![l] = {}]
  /\ todo' = [todo EXCEPT ![l] = {}] /\ now' = [now EXCEPT ![l] = None]
  /\ seen' = [seen EXCEPT ![l] = {}] /\ failed' = [failed EXCEPT ![l] = FALSE]
  /\ lock' = IF lock = l THEN None ELSE lock

\* UpdatePoolMembers: the list is replaced.  A member the list brings back,
\* because it was read before somebody took it off, is on nobody's books.
UpdatePoolMembers(l, ms) ==
  LET p == now[l]
  IN /\ pools' = [pools EXCEPT ![p] = ms]
     /\ stray' = [stray EXCEPT ![p] = @ \cup (ms \ (pools[p] \cup Of(task[l].spec, p)))]

-----------------------------------------------------------------------------
(* deployPools. *)

\* The LBC is read, the mutex taken.  A live one deploys its pools; one that
\* leaves takes off what is on its books, re-pinned without the mutex.
Begin(l) ==
  LET leaving == phase[l] \in {"deleting", "retiring"}
  IN /\ pc[l] = "idle" /\ phase[l] # "gone"
     /\ IF phase[l] = "retiring" THEN UNCHANGED lock
        ELSE lock = None /\ lock' = l
     /\ task' = [task EXCEPT ![l] = [spec |-> IF leaving THEN NoPools ELSE spec[l],
                                     st |-> st[l], leaving |-> leaving]]
     /\ listed' = [listed EXCEPT ![l] = DOMAIN pools]
     /\ todo' = [todo EXCEPT ![l] = IF leaving THEN {} ELSE DOMAIN spec[l]]
     /\ Goto(l, IF leaving THEN "listeners" ELSE "pool")
     /\ UNCHANGED <<cloud, object, used, now, seen, failed, history, edits, faults>>

\* deployPool, no pool of that name: it is created with its members.
CreatePool(l) ==
  \E p \in todo[l] \ listed[l] :
    /\ pc[l] = "pool"
    /\ pools' = With(pools, p, task[l].spec[p])
    /\ now' = [now EXCEPT ![l] = p]
    /\ Goto(l, "record")
    /\ UNCHANGED <<refs, object, task, listed, used, todo, seen, failed, lock,
                   history, edits, faults>>

\* Mutant of Adopt: the members are recorded before the load balancer has them.
AdoptWithMembers(l) ==
  \E p \in todo[l] \cap listed[l] :
    /\ pc[l] = "pool"
    /\ st' = [st EXCEPT ![l] = With(@, p, task[l].spec[p])]
    /\ now' = [now EXCEPT ![l] = p]
    /\ Goto(l, "read")
    /\ UNCHANGED <<cloud, spec, phase, task, listed, used, todo, seen, failed,
                   lock, history, edits, faults>>

\* ... a pool of that name is there: statusAddPool, its identity only.
Adopt(l) ==
  \E p \in todo[l] \cap listed[l] :
    /\ pc[l] = "pool"
    /\ st' = [st EXCEPT ![l] = IF p \in DOMAIN @ THEN @ ELSE With(@, p, {})]
    /\ now' = [now EXCEPT ![l] = p]
    /\ Goto(l, "read")
    /\ UNCHANGED <<cloud, spec, phase, task, listed, used, todo, seen, failed,
                   lock, history, edits, faults>>

\* GetPoolMembers.
GetPoolMembers(l) ==
  /\ pc[l] = "read"
  /\ now[l] \in DOMAIN pools
  /\ seen' = [seen EXCEPT ![l] = pools[now[l]]]
  /\ Goto(l, "push")
  /\ UNCHANGED <<cloud, object, task, listed, used, todo, now, failed, lock,
                 history, edits, faults>>

\* The merged list is written unless it is the current one.
Push(l) ==
  LET p == now[l]
      ms == Merge(Of(task[l].st, p), seen[l], task[l].spec[p])
  IN /\ pc[l] = "push"
     /\ IF ms = seen[l] THEN UNCHANGED <<pools, stray>>
        ELSE p \in DOMAIN pools /\ UpdatePoolMembers(l, ms)
     /\ Goto(l, "record")
     /\ UNCHANGED <<refs, object, task, round, lock, hand, edits, faults>>

\* statusAddPoolMember, once the load balancer holds the members.
StatusAddPoolMember(l) ==
  LET p == now[l]
  IN /\ pc[l] = "record"
     /\ st' = [st EXCEPT ![l] = With(@, p, task[l].spec[p])]
     /\ stray' = [stray EXCEPT ![p] = @ \ task[l].spec[p]]
     /\ NextPool(l, FALSE)
     /\ Goto(l, "pool")
     /\ UNCHANGED <<cloud, spec, phase, task, lock, hand, edits, faults>>

\* errPartialDeploy ends the pass before anything is deleted.
PoolsDone(l) ==
  /\ pc[l] = "pool" /\ todo[l] = {}
  /\ IF failed[l] THEN Return(l)
     ELSE Goto(l, "listeners") /\ UNCHANGED <<task, round, lock>>
  /\ UNCHANGED <<cloud, object, history, edits, faults>>

-----------------------------------------------------------------------------
(* deployListeners and deleteRedundantListeners, then deleteRedundantPools.  *)

\* Its listeners and policies now point at the pools of its spec, and only
\* there; how they get there is the module Listeners.
Listeners(l) ==
  /\ pc[l] = "listeners"
  /\ refs' = [refs EXCEPT ![l] = DOMAIN task[l].spec]
  /\ Goto(l, "list")
  /\ UNCHANGED <<pools, object, task, round, lock, history, edits, faults>>

\* mapPoolInUse: the pools some listener or policy points at.
InUse(l) == UNION {refs[x] : x \in LBC \cup {User}}

\* The candidates are the pools on the books as the reconcile read them.
ListRedundant(l) ==
  /\ pc[l] = "list"
  /\ listed' = [listed EXCEPT ![l] = DOMAIN pools]
  /\ used' = [used EXCEPT ![l] = InUse(l)]
  /\ todo' = [todo EXCEPT ![l] = DOMAIN task[l].st \cap DOMAIN pools]
  /\ Goto(l, "trim")
  /\ UNCHANGED <<cloud, object, task, now, seen, failed, lock, history, edits, faults>>

ReadRedundant(l) ==
  \E p \in todo[l] \cap DOMAIN pools :
    /\ pc[l] = "trim"
    /\ now' = [now EXCEPT ![l] = p]
    /\ seen' = [seen EXCEPT ![l] = pools[p]]
    /\ Goto(l, "trimWrite")
    /\ UNCHANGED <<cloud, object, task, listed, used, todo, failed, lock,
                   history, edits, faults>>

\* canDeleteWholePool: a pool with nothing but our redundant members goes, or
\* is left as it is where something points at it; from another they come off.
TrimPool(l) ==
  LET p == now[l]
      ms == Merge(Of(task[l].st, p), seen[l], Of(task[l].spec, p))
  IN /\ pc[l] = "trimWrite"
     /\ \/ /\ ms = {} /\ p \notin used[l] /\ p \in DOMAIN pools
           /\ pools' = Without(pools, p)
           /\ UNCHANGED stray
        \/ /\ ms = {} /\ p \in used[l]
           /\ stray' = [stray EXCEPT ![p] = @ \cup seen[l]]
           /\ UNCHANGED pools
        \/ /\ ms \notin {{}, seen[l]} /\ p \in DOMAIN pools
           /\ UpdatePoolMembers(l, ms)
        \/ ms # {} /\ ms = seen[l] /\ UNCHANGED <<pools, stray>>
     /\ NextPool(l, FALSE)
     /\ Goto(l, "trim")
     /\ UNCHANGED <<refs, object, task, lock, hand, edits, faults>>

\* The end of deploy(): status is rewritten; of delete(): the finalizer comes
\* off; of a retiring load balancer: the record of it does.  errPartialDelete
\* keeps all of them as they are.
Finish(l) ==
  /\ pc[l] = "trim" /\ todo[l] = {}
  /\ IF failed[l] THEN UNCHANGED <<st, phase>>
     ELSE /\ st' = [st EXCEPT ![l] = task[l].spec]
          /\ phase' = [phase EXCEPT ![l] = IF task[l].leaving THEN "gone" ELSE @]
  /\ Return(l)
  /\ UNCHANGED <<cloud, spec, history, edits, faults>>

-----------------------------------------------------------------------------
(* Failures. *)

\* A pool fails because somebody else has deleted it since it was listed; the
\* loops go on to the next.
PoolRefused(l) ==
  /\ \/ /\ pc[l] \in {"read", "push"} /\ now[l] \notin DOMAIN pools
        /\ todo' = [todo EXCEPT ![l] = @ \ {now[l]}] /\ Goto(l, "pool")
     \/ \E p \in todo[l] \ DOMAIN pools :
          /\ pc[l] = "trim"
          /\ todo' = [todo EXCEPT ![l] = @ \ {p}] /\ Goto(l, "trim")
     \/ /\ pc[l] = "trimWrite" /\ now[l] \notin DOMAIN pools
        /\ todo' = [todo EXCEPT ![l] = @ \ {now[l]}] /\ Goto(l, "trim")
  /\ now' = [now EXCEPT ![l] = None]
  /\ seen' = [seen EXCEPT ![l] = {}]
  /\ failed' = [failed EXCEPT ![l] = TRUE]
  /\ UNCHANGED <<cloud, object, task, listed, used, lock, history, edits, faults>>

\* What the load balancer holds and the books do not, if l stops here.
Unrecorded(l, p) ==
  IF pc[l] = "record" /\ now[l] = p THEN task[l].spec[p] \ Of(st[l], p) ELSE {}

\* A call on a pool is rejected, three times busy or for good: the others
\* still get their turn.  Not applied, or applied and the answer lost.
Reject(l) ==
  /\ pc[l] \in {"read", "push", "record", "trimWrite"} /\ faults < MaxFaults
  /\ faults' = faults + 1
  /\ stray' = [p \in Pool |-> stray[p] \cup Unrecorded(l, p)]
  /\ NextPool(l, TRUE)
  /\ Goto(l, IF pc[l] = "trimWrite" THEN "trim" ELSE "pool")
  /\ UNCHANGED <<cloud, object, task, lock, hand, edits>>

\* The controller stops and another takes over, or another call fails.
Crash(l) ==
  /\ pc[l] # "idle" /\ faults < MaxFaults
  /\ faults' = faults + 1
  /\ stray' = [p \in Pool |-> stray[p] \cup Unrecorded(l, p)]
  /\ Return(l)
  /\ UNCHANGED <<cloud, object, hand, edits>>

-----------------------------------------------------------------------------
(* The user. *)

\* The owner of the LBC asks for other pools or members: nodes come and go.
Edit(l) ==
  /\ phase[l] = "live" /\ edits < MaxEdits
  /\ edits' = edits + 1
  /\ \E s \in Specs[l] \ {spec[l]} : spec' = [spec EXCEPT ![l] = s]
  /\ UNCHANGED <<cloud, st, phase, pc, task, round, lock, history, faults>>

\* It is deleted, or re-pinned: a migration, whose teardown comes reconciles
\* later.
Leave(l) ==
  /\ phase[l] = "live"
  /\ \/ phase' = [phase EXCEPT ![l] = "deleting"]
     \/ l \in Repins /\ pc[l] = "idle" /\ phase' = [phase EXCEPT ![l] = "retiring"]
  /\ UNCHANGED <<cloud, spec, st, pc, task, round, lock, history, edits, faults>>

Writing(p) ==
  \E l \in LBC : now[l] = p /\ pc[l] \in {"push", "trimWrite"}

\* A member is added on the portal.  The service has no compare-and-swap: one
\* added while an LBC is about to write the pool may be lost.
AddByHand(p, m) ==
  /\ p \in DOMAIN pools /\ m \notin pools[p] /\ edits < MaxEdits
  /\ edits' = edits + 1
  /\ pools' = [pools EXCEPT ![p] = @ \cup {m}]
  /\ hand' = IF Writing(p) THEN hand ELSE [hand EXCEPT ![p] = @ \cup {m}]
  /\ UNCHANGED <<refs, object, pc, task, round, lock, stray, faults>>

-----------------------------------------------------------------------------
Reconcile(l) ==
  \/ Begin(l) \/ CreatePool(l) \/ Adopt(l) \/ GetPoolMembers(l) \/ Push(l)
  \/ StatusAddPoolMember(l) \/ PoolsDone(l) \/ Listeners(l) \/ ListRedundant(l)
  \/ ReadRedundant(l) \/ TrimPool(l) \/ Finish(l) \/ PoolRefused(l)

Next ==
  \/ \E l \in LBC : Reconcile(l) \/ Reject(l) \/ Crash(l) \/ Edit(l) \/ Leave(l)
  \/ \E p \in Pool, m \in HandMember : AddByHand(p, m)

Spec == Init /\ [][Next]_vars

\* The work queue and the resync bring every LBC back, and a mutex is
\* starvation free.  Users and faults owe nothing.
FairSpec ==
  Spec /\ \A l \in LBC : WF_vars(Reconcile(l)) /\ SF_vars(Begin(l))

-----------------------------------------------------------------------------
PC == {"idle", "pool", "read", "push", "record", "listeners", "list", "trim", "trimWrite"}

\* The pools of the load balancer, the status and the running reconciles are
\* well formed.
TypeOK ==
  /\ pools \in PoolSets
  /\ refs \in [LBC \cup {User} -> SUBSET Pool]
  /\ spec \in [LBC -> PoolSets] /\ st \in [LBC -> PoolSets]
  /\ phase \in [LBC -> {"live", "deleting", "retiring", "gone"}]
  /\ pc \in [LBC -> PC]
  /\ task \in [LBC -> [spec : PoolSets, st : PoolSets, leaving : BOOLEAN]]
  /\ listed \in [LBC -> SUBSET Pool] /\ used \in [LBC -> SUBSET Pool]
  /\ todo \in [LBC -> SUBSET Pool] /\ now \in [LBC -> Pool \cup {None}]
  /\ seen \in [LBC -> SUBSET Member] /\ failed \in [LBC -> BOOLEAN]
  /\ lock \in LBC \cup {None}
  /\ hand \in [Pool -> SUBSET Member] /\ stray \in [Pool -> SUBSET Member]
  /\ edits \in Nat /\ faults \in Nat

\* mergePoolMembers: "a member this cluster did not create is somebody else's"
\* and outlives every merge, trim and teardown of the pool it is in.  A pool
\* that the user's listeners point at (deleteRedundantPools) is never deleted,
\* although all its members may have been ours.
HandKept ==
  /\ \A p \in Pool : hand[p] \subseteq Of(pools, p)
  /\ refs[User] \subseteq DOMAIN pools

\* deployPool records members only once the pool has them, and the teardown
\* works from that record: a member on a pool is on the books of an LBC that
\* will take it off.  It leaves them in three ways only: the call that would
\* have recorded it failed, a list read before its removal was written after
\* it, or the pool was still in use when the last member was due.
NoStray ==
  \A p \in DOMAIN pools : \A m \in (pools[p] \ HandMember) \ stray[p] :
    \E l \in LBC :
      /\ phase[l] # "gone"
      /\ m \in Of(st[l], p) \cup Unrecorded(l, p)

\* deployPools: although LBCs and a teardown without the mutex overwrite one
\* another's lists, and share members, every LBC that stays gets the members
\* it asks for and keeps them.
MembersServed ==
  <>[](\A l \in LBC : phase[l] = "live" =>
         \A p \in DOMAIN spec[l] : spec[l][p] \subseteq Of(pools, p))
=============================================================================
