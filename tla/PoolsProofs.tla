---------------------------- MODULE PoolsProofs -----------------------------
(***************************************************************************)
(* For any number of LBCs, pools and members, however the LBCs, a teardown *)
(* without the mutex and the user interleave, and with calls that fail     *)
(* anywhere: a member that was added by hand stays in its pool, a pool the *)
(* user's listeners point at is not deleted, and every other member is on  *)
(* the books of an LBC that will take it off.                              *)
(*                                                                         *)
(* The argument for the first two: what an LBC takes out of a pool is on   *)
(* its books, and the books hold members of specs only (Clean); the list   *)
(* it writes back is built from one that had the members added by hand     *)
(* (Sound); and a pool is created under a name only when no pool has it,   *)
(* because whoever creates one holds the mutex.  For the third: somebody   *)
(* has the member on the books and is not about to drop it (Firm), where   *)
(* "about to" begins when a reconcile reads the pool without it, long      *)
(* before the books are rewritten (Dropping); and the books a reconcile    *)
(* works from are the ones it read, but for the pools it has done          *)
(* (Ledger).                                                               *)
(***************************************************************************)
EXTENDS Pools, TLAPS

\* Pools none of whose members only the user adds.
Clean(f) == \A p \in DOMAIN f : f[p] \cap HandMember = {}

\* The steps of deployPools, which are taken under the mutex.
Deploying == {"pool", "read", "push", "record"}

\* What the reconcile of an LBC relies on.
Sound(l) ==
  /\ Clean(spec[l]) /\ Clean(st[l]) /\ Clean(task[l].spec) /\ Clean(task[l].st)
  /\ pc[l] \in Deploying =>
       /\ lock = l /\ todo[l] \subseteq DOMAIN task[l].spec
       /\ (todo[l] \ {now[l]}) \cap DOMAIN pools \subseteq listed[l]
  /\ pc[l] \in {"idle", "pool"} => now[l] = None
  /\ pc[l] \in {"read", "push", "record"} => now[l] \in todo[l]
  /\ pc[l] = "trimWrite" => now[l] \in Pool
  /\ pc[l] \in {"push", "trimWrite"} => hand[now[l]] \subseteq seen[l]
  /\ pc[l] \in {"trim", "trimWrite"} => refs[User] \subseteq used[l]

IInv ==
  /\ TypeOK /\ HandKept
  /\ \A p \in Pool : hand[p] \subseteq HandMember
  /\ \A l \in LBC : Sound(l)

-----------------------------------------------------------------------------
(* Sets of pools. *)

\* A set of pools maps some pools to sets of members.
LEMMA PoolSetsDef ==
  ASSUME NEW f
  PROVE  f \in PoolSets <=> DOMAIN f \subseteq Pool /\ f \in [DOMAIN f -> SUBSET Member]
BY DEF PoolSets

\* The empty one, and the task of an idle reconcile.
LEMMA Empties ==
  /\ NoPools \in PoolSets /\ Clean(NoPools) /\ DOMAIN NoPools = {}
  /\ NoTask \in [spec : PoolSets, st : PoolSets, leaving : BOOLEAN]
  /\ NoTask.spec = NoPools /\ NoTask.st = NoPools
<1>1. NoPools \in PoolSets /\ Clean(NoPools) /\ DOMAIN NoPools = {}
  BY PoolSetsDef DEF NoPools, Clean
<1> QED
  BY <1>1 DEF NoTask

\* A pool set or added with its members.
LEMMA WithPool ==
  ASSUME NEW f \in PoolSets, NEW p \in Pool, NEW ms \in SUBSET Member
  PROVE  /\ With(f, p, ms) \in PoolSets
         /\ DOMAIN With(f, p, ms) = DOMAIN f \cup {p}
         /\ \A q \in DOMAIN f \cup {p} : With(f, p, ms)[q] = IF q = p THEN ms ELSE f[q]
         /\ Clean(f) /\ ms \cap HandMember = {} => Clean(With(f, p, ms))
<1>1. /\ DOMAIN With(f, p, ms) = DOMAIN f \cup {p}
      /\ \A q \in DOMAIN f \cup {p} : With(f, p, ms)[q] = IF q = p THEN ms ELSE f[q]
  BY DEF With
<1>2. With(f, p, ms) \in [DOMAIN f \cup {p} -> SUBSET Member]
  BY PoolSetsDef DEF With
<1> QED
  BY <1>1, <1>2, PoolSetsDef DEF Clean

\* A pool taken away.
LEMMA WithoutPool ==
  ASSUME NEW f \in PoolSets, NEW p \in Pool
  PROVE  /\ Without(f, p) \in PoolSets
         /\ DOMAIN Without(f, p) = DOMAIN f \ {p}
         /\ \A q \in DOMAIN f \ {p} : Without(f, p)[q] = f[q]
<1>1. /\ DOMAIN Without(f, p) = DOMAIN f \ {p}
      /\ \A q \in DOMAIN f \ {p} : Without(f, p)[q] = f[q]
  BY DEF Without
<1>2. Without(f, p) \in [DOMAIN f \ {p} -> SUBSET Member]
  BY PoolSetsDef DEF Without
<1> QED
  BY <1>1, <1>2, PoolSetsDef

\* The members of one pool of a set.
LEMMA OfPool ==
  ASSUME NEW f \in PoolSets, NEW p \in Pool
  PROVE  /\ Of(f, p) \subseteq Member
         /\ Clean(f) => Of(f, p) \cap HandMember = {}
BY PoolSetsDef DEF Of, Clean

-----------------------------------------------------------------------------
(* The initial states. *)

\* The books are empty and the pools are the user's.
LEMMA InitIInv == Init => IInv
<1> SUFFICES ASSUME Init PROVE IInv
  OBVIOUS
<1>1. pools \in PoolSets /\ \A p \in DOMAIN pools : pools[p] \subseteq HandMember
  BY PoolsAssumption DEF Init
<1>2. /\ refs \in [LBC \cup {User} -> SUBSET Pool] /\ refs[User] \subseteq DOMAIN pools
  BY DEF Init
<1>3. spec \in [LBC -> PoolSets] /\ \A l \in LBC : Clean(spec[l])
  BY PoolsAssumption DEF Init, Clean
<1>4. hand \in [Pool -> SUBSET Member] /\ \A p \in Pool : hand[p] \subseteq HandMember
  BY <1>1, OfPool, PoolsAssumption DEF Init, Of
<1>5. TypeOK
  BY <1>1, <1>2, <1>3, <1>4, Empties DEF Init, TypeOK, PC
<1>6. HandKept
  BY <1>2 DEF Init, HandKept
<1>7. \A l \in LBC : Sound(l)
  BY <1>3, Empties DEF Init, Sound, Deploying
<1> QED
  BY <1>4, <1>5, <1>6, <1>7 DEF IInv

-----------------------------------------------------------------------------
(* The steps of a reconcile. *)

\* What a step of l leaves of k's reconcile and books.
Same(k) ==
  /\ spec'[k] = spec[k] /\ st'[k] = st[k] /\ task'[k] = task[k] /\ pc'[k] = pc[k]
  /\ todo'[k] = todo[k] /\ now'[k] = now[k] /\ listed'[k] = listed[k]
  /\ used'[k] = used[k] /\ seen'[k] = seen[k]

\* A step of l that leaves k alone, and makes no pool unless it holds the
\* mutex, leaves k what it relies on.
LEMMA OthersSound ==
  ASSUME IInv, NEW l \in LBC, NEW k \in LBC, k # l, Same(k),
         lock = k => lock' = k, lock = l \/ DOMAIN pools' \subseteq DOMAIN pools,
         UNCHANGED hand, refs'[User] = refs[User]
  PROVE  Sound(k)'
BY DEF IInv, Same, Sound, Deploying, Clean

\* A reconcile reads its LBC, under the mutex if it is to deploy.
LEMMA BeginStep == ASSUME IInv, NEW l \in LBC, Begin(l) PROVE IInv'
<1> DEFINE leaving == phase[l] \in {"deleting", "retiring"}
           t == [spec |-> IF leaving THEN NoPools ELSE spec[l], st |-> st[l], leaving |-> leaving]
<1>1. /\ t \in [spec : PoolSets, st : PoolSets, leaving : BOOLEAN]
      /\ Clean(t.spec) /\ Clean(t.st) /\ task' = [task EXCEPT ![l] = t]
  BY Empties DEF Begin, IInv, TypeOK, Sound
<1> HIDE DEF t
<1>2. TypeOK'
  <2>1. DOMAIN pools \subseteq Pool /\ DOMAIN spec[l] \subseteq Pool
    BY PoolSetsDef DEF IInv, TypeOK
  <2> QED
    BY <1>1, <2>1 DEF Begin, IInv, TypeOK, PC, Goto, cloud, object, history
<1>3. HandKept' /\ \A p \in Pool : hand'[p] \subseteq HandMember
  BY DEF Begin, IInv, HandKept, Of, cloud, history
<1>4. Sound(l)'
  <2>1. task'[l] = t /\ (~leaving => t.spec = spec[l])
    BY <1>1 DEF IInv, TypeOK, t
  <2>2. CASE leaving
    BY <1>1, <2>1, <2>2 DEF Begin, IInv, TypeOK, Sound, Deploying, Goto, object, Clean
  <2>3. CASE ~leaving
    BY <1>1, <2>1, <2>3 DEF Begin, IInv, TypeOK, Sound, Deploying, Goto, object, Clean, cloud
  <2> QED
    BY <2>2, <2>3
<1>5. ASSUME NEW k \in LBC, k # l PROVE Sound(k)'
  BY <1>5, OthersSound, PoolsAssumption DEF Begin, IInv, TypeOK, Same, Goto, cloud, object, history
<1> QED
  BY <1>2, <1>3, <1>4, <1>5 DEF IInv

\* The holder of the mutex makes a pool whose name nobody has.
LEMMA CreatePoolStep == ASSUME IInv, NEW l \in LBC, CreatePool(l) PROVE IInv'
<1>1. PICK p \in todo[l] \ listed[l] :
        /\ pc[l] = "pool" /\ pools' = With(pools, p, task[l].spec[p])
        /\ now' = [now EXCEPT ![l] = p] /\ pc' = [pc EXCEPT ![l] = "record"]
        /\ UNCHANGED <<refs, object, task, listed, used, todo, seen, failed, lock,
                       history, edits, faults>>
  BY DEF CreatePool, Goto
<1>2. /\ p \in Pool /\ p \in DOMAIN task[l].spec
      /\ task[l].spec[p] \in SUBSET Member /\ pools \in PoolSets
  BY <1>1, PoolSetsDef DEF IInv, TypeOK, Sound, Deploying
<1>3. lock = l /\ p \notin DOMAIN pools
  BY <1>1, <1>2, PoolsAssumption DEF IInv, Sound, Deploying
<1>4. /\ pools' \in PoolSets /\ DOMAIN pools' = DOMAIN pools \cup {p}
      /\ \A q \in DOMAIN pools : pools'[q] = pools[q]
  <2> DEFINE ms == task[l].spec[p]
  <2>1. pools' = With(pools, p, ms) /\ ms \in SUBSET Member
    BY <1>1, <1>2
  <2> HIDE DEF ms
  <2>2. With(pools, p, ms) \in PoolSets
    BY <1>2, <2>1, WithPool
  <2>3. /\ DOMAIN With(pools, p, ms) = DOMAIN pools \cup {p}
        /\ \A q \in DOMAIN pools : q # p => With(pools, p, ms)[q] = pools[q]
    BY DEF With
  <2> QED
    BY <1>3, <2>1, <2>2, <2>3
<1>5. TypeOK'
  BY <1>1, <1>2, <1>4 DEF IInv, TypeOK, PC, object, history
<1>6. HandKept' /\ \A q \in Pool : hand'[q] \subseteq HandMember
  BY <1>1, <1>3, <1>4 DEF IInv, HandKept, Of, history
<1>7. Sound(l)'
  BY <1>1, <1>2, <1>3, <1>4, PoolsAssumption DEF IInv, TypeOK, Sound, Deploying, object, Clean
<1>8. ASSUME NEW k \in LBC, k # l PROVE Sound(k)'
  BY <1>1, <1>3, <1>8, OthersSound DEF IInv, TypeOK, Same, object, history
<1> QED
  BY <1>5, <1>6, <1>7, <1>8 DEF IInv

\* A pool goes on the books without members.
LEMMA AdoptStep == ASSUME IInv, NEW l \in LBC, Adopt(l) PROVE IInv'
<1>1. PICK p \in todo[l] \cap listed[l] :
        /\ pc[l] = "pool"
        /\ st' = [st EXCEPT ![l] = IF p \in DOMAIN @ THEN @ ELSE With(@, p, {})]
        /\ now' = [now EXCEPT ![l] = p] /\ pc' = [pc EXCEPT ![l] = "read"]
        /\ UNCHANGED <<cloud, spec, phase, task, listed, used, todo, seen, failed,
                       lock, history, edits, faults>>
  BY DEF Adopt, Goto
<1>2. p \in Pool
  BY <1>1 DEF IInv, TypeOK
<1>3. st' \in [LBC -> PoolSets] /\ Clean(st'[l])
  <2>1. st[l] \in PoolSets /\ Clean(st[l]) /\ {} \in SUBSET Member /\ {} \cap HandMember = {}
    BY DEF IInv, TypeOK, Sound
  <2>2. With(st[l], p, {}) \in PoolSets /\ Clean(With(st[l], p, {}))
    BY <1>2, <2>1, WithPool
  <2> QED
    BY <1>1, <2>1, <2>2 DEF IInv, TypeOK
<1>4. TypeOK'
  BY <1>1, <1>2, <1>3 DEF IInv, TypeOK, PC, cloud, history
<1>5. HandKept' /\ \A q \in Pool : hand'[q] \subseteq HandMember
  BY <1>1 DEF IInv, HandKept, Of, cloud, history
<1>6. Sound(l)'
  BY <1>1, <1>2, <1>3, PoolsAssumption DEF IInv, TypeOK, Sound, Deploying, cloud, Clean
<1>7. ASSUME NEW k \in LBC, k # l PROVE Sound(k)'
  BY <1>1, <1>7, OthersSound DEF IInv, TypeOK, Same, cloud, history
<1> QED
  BY <1>4, <1>5, <1>6, <1>7 DEF IInv

\* What is read of a pool has the members added by hand.
LEMMA GetPoolMembersStep == ASSUME IInv, NEW l \in LBC, GetPoolMembers(l) PROVE IInv'
<1>1. now[l] \in Pool /\ pools[now[l]] \subseteq Member /\ hand[now[l]] \subseteq pools[now[l]]
  BY PoolSetsDef DEF GetPoolMembers, IInv, TypeOK, HandKept, Of
<1>2. TypeOK'
  BY <1>1 DEF GetPoolMembers, Goto, IInv, TypeOK, PC, cloud, object, history
<1>3. HandKept' /\ \A q \in Pool : hand'[q] \subseteq HandMember
  BY DEF GetPoolMembers, IInv, HandKept, Of, cloud, history
<1>4. Sound(l)'
  BY <1>1 DEF GetPoolMembers, Goto, IInv, TypeOK, Sound, Deploying, cloud, object, history, Clean
<1>5. ASSUME NEW k \in LBC, k # l PROVE Sound(k)'
  BY <1>5, OthersSound DEF GetPoolMembers, Goto, IInv, TypeOK, Same, cloud, object, history
<1> QED
  BY <1>2, <1>3, <1>4, <1>5 DEF IInv

\* A list with the members added by hand replaces the members of a pool.
LEMMA UpdateKeeps ==
  ASSUME IInv, NEW l \in LBC, NEW ms \in SUBSET Member, now[l] \in DOMAIN pools,
         hand[now[l]] \subseteq ms, UpdatePoolMembers(l, ms), UNCHANGED <<refs, hand>>
  PROVE  /\ pools' \in PoolSets /\ DOMAIN pools' = DOMAIN pools
         /\ stray' \in [Pool -> SUBSET Member] /\ HandKept'
<1>1. /\ pools' = [pools EXCEPT ![now[l]] = ms] /\ DOMAIN pools \subseteq Pool
      /\ pools \in [DOMAIN pools -> SUBSET Member]
  BY PoolSetsDef DEF UpdatePoolMembers, IInv, TypeOK
<1>2. pools' \in PoolSets /\ DOMAIN pools' = DOMAIN pools
  BY <1>1, PoolSetsDef
<1>3. Of(task[l].spec, now[l]) \subseteq Member
  BY <1>1, OfPool DEF IInv, TypeOK
<1>4. stray' \in [Pool -> SUBSET Member]
  BY <1>1, <1>3 DEF UpdatePoolMembers, IInv, TypeOK
<1>5. HandKept'
  BY <1>1, <1>2 DEF IInv, HandKept, Of
<1> QED
  BY <1>2, <1>4, <1>5

\* A merge keeps what is not on the books.
LEMMA MergeKeeps ==
  ASSUME NEW created \in SUBSET Member, NEW current \in SUBSET Member,
         NEW wanted \in SUBSET Member, created \cap HandMember = {}
  PROVE  /\ Merge(created, current, wanted) \subseteq Member
         /\ current \cap HandMember \subseteq Merge(created, current, wanted)
BY DEF Merge

\* What is written back has them too.
LEMMA PushStep == ASSUME IInv, NEW l \in LBC, Push(l) PROVE IInv'
<1> DEFINE p == now[l]
           ms == Merge(Of(task[l].st, p), seen[l], task[l].spec[p])
<1>1. p \in Pool /\ ms \in SUBSET Member /\ hand[p] \subseteq ms /\ lock = l
  <2>1. p \in Pool /\ p \in DOMAIN task[l].spec /\ hand[p] \subseteq seen[l] /\ lock = l
    BY DEF Push, IInv, TypeOK, Sound, Deploying
  <2>2. task[l].spec[p] \in SUBSET Member
    BY <2>1, PoolSetsDef DEF IInv, TypeOK
  <2>3. Of(task[l].st, p) \in SUBSET Member /\ Of(task[l].st, p) \cap HandMember = {}
    BY <2>1, OfPool DEF IInv, TypeOK, Sound
  <2>4. seen[l] \in SUBSET Member /\ hand[p] \subseteq HandMember
    BY <2>1 DEF IInv, TypeOK
  <2> QED
    BY <2>1, <2>2, <2>3, <2>4, MergeKeeps
<1>2. /\ pc[l] = "push" /\ pc' = [pc EXCEPT ![l] = "record"]
      /\ \/ UNCHANGED <<pools, stray>>
         \/ p \in DOMAIN pools /\ UpdatePoolMembers(l, ms)
      /\ UNCHANGED <<refs, object, task, round, lock, hand, edits, faults>>
  BY DEF Push, Goto
<1> HIDE DEF ms
<1>3. /\ pools' \in PoolSets /\ DOMAIN pools' = DOMAIN pools
      /\ stray' \in [Pool -> SUBSET Member] /\ HandKept'
  <2>1. CASE UNCHANGED <<pools, stray>>
    BY <1>2, <2>1 DEF IInv, TypeOK, HandKept, Of
  <2>2. CASE p \in DOMAIN pools /\ UpdatePoolMembers(l, ms)
    BY <1>1, <1>2, <2>2, UpdateKeeps
  <2> QED
    BY <1>2, <2>1, <2>2
<1>4. TypeOK'
  BY <1>2, <1>3 DEF IInv, TypeOK, PC, object, round
<1>5. Sound(l)'
  BY <1>2, <1>3 DEF IInv, TypeOK, Sound, Deploying, object, round, Clean
<1>6. ASSUME NEW k \in LBC, k # l PROVE Sound(k)'
  BY <1>1, <1>2, <1>6, OthersSound DEF IInv, TypeOK, Same, object, round
<1> QED
  BY <1>2, <1>3, <1>4, <1>5, <1>6 DEF IInv

\* Members of the spec go on the books.
LEMMA StatusAddPoolMemberStep ==
  ASSUME IInv, NEW l \in LBC, StatusAddPoolMember(l) PROVE IInv'
<1> DEFINE p == now[l]
           ms == task[l].spec[p]
<1>1. /\ p \in Pool /\ p \in DOMAIN task[l].spec /\ lock = l /\ p \in todo[l]
      /\ (todo[l] \ {p}) \cap DOMAIN pools \subseteq listed[l]
  BY DEF StatusAddPoolMember, IInv, TypeOK, Sound, Deploying
<1>2. ms \in SUBSET Member /\ ms \cap HandMember = {} /\ st[l] \in PoolSets /\ Clean(st[l])
  BY <1>1, PoolSetsDef DEF IInv, TypeOK, Sound, Clean
<1>3. /\ st' = [st EXCEPT ![l] = With(st[l], p, ms)]
      /\ stray' = [stray EXCEPT ![p] = @ \ ms]
      /\ NextPool(l, FALSE) /\ pc' = [pc EXCEPT ![l] = "pool"]
      /\ UNCHANGED <<cloud, spec, phase, task, lock, hand, edits, faults>>
  BY DEF StatusAddPoolMember, Goto, IInv, TypeOK
<1> HIDE DEF ms
<1>4. st' \in [LBC -> PoolSets] /\ Clean(st'[l])
  <2>1. With(st[l], p, ms) \in PoolSets /\ Clean(With(st[l], p, ms))
    BY <1>1, <1>2, WithPool
  <2> QED
    BY <1>3, <2>1 DEF IInv, TypeOK
<1>5. TypeOK'
  BY <1>3, <1>4 DEF NextPool, IInv, TypeOK, PC, cloud
<1>6. HandKept'
  BY <1>3 DEF IInv, HandKept, Of, cloud
<1>7. Sound(l)'
  <2>1. /\ pc'[l] = "pool" /\ now'[l] = None /\ todo'[l] = todo[l] \ {p}
        /\ listed' = listed /\ pools' = pools /\ lock' = l /\ task' = task /\ spec' = spec
    BY <1>1, <1>3 DEF NextPool, IInv, TypeOK, cloud
  <2>2. Clean(spec[l]) /\ Clean(task[l].spec) /\ Clean(task[l].st)
        /\ todo[l] \subseteq DOMAIN task[l].spec
    BY DEF StatusAddPoolMember, IInv, Sound, Deploying
  <2> QED
    BY <1>1, <1>4, <2>1, <2>2 DEF Sound, Deploying, Clean
<1>8. ASSUME NEW k \in LBC, k # l PROVE Sound(k)'
  BY <1>3, <1>8, OthersSound DEF NextPool, IInv, TypeOK, Same, cloud
<1> QED
  BY <1>3, <1>5, <1>6, <1>7, <1>8 DEF IInv

\* The reconcile returns: what the others rely on, and the idle one.
LEMMA ReturnStep ==
  ASSUME IInv, NEW l \in LBC, Return(l), UNCHANGED <<cloud, spec, hand>>,
         stray' \in [Pool -> SUBSET Member], faults' \in Nat, edits' \in Nat,
         st' \in [LBC -> PoolSets], Clean(st'[l]), \A k \in LBC \ {l} : st'[k] = st[k],
         phase' \in [LBC -> {"live", "deleting", "retiring", "gone"}]
  PROVE  IInv'
<1>1. TypeOK'
  BY Empties, PoolsAssumption DEF Return, Goto, IInv, TypeOK, PC, cloud
<1>2. HandKept'
  BY DEF IInv, HandKept, Of, cloud
<1>3. Sound(l)'
  BY Empties DEF Return, Goto, IInv, TypeOK, Sound, Deploying, Clean
<1>4. ASSUME NEW k \in LBC, k # l PROVE Sound(k)'
  BY <1>4, OthersSound DEF Return, Goto, IInv, TypeOK, Same, cloud
<1> QED
  BY <1>1, <1>2, <1>3, <1>4 DEF IInv

\* The pools are done, or one failed and the pass ends.
LEMMA PoolsDoneStep == ASSUME IInv, NEW l \in LBC, PoolsDone(l) PROVE IInv'
<1>1. CASE failed[l]
  <2>1. Return(l) /\ UNCHANGED <<cloud, object, history, edits, faults>>
    BY <1>1 DEF PoolsDone
  <2> QED
    BY <2>1, ReturnStep DEF object, history, IInv, TypeOK, Sound
<1>2. CASE ~failed[l]
  <2>1. TypeOK' /\ HandKept'
    BY <1>2 DEF PoolsDone, Goto, IInv, TypeOK, PC, HandKept, Of, cloud, object, round, history
  <2>2. Sound(l)'
    BY <1>2 DEF PoolsDone, Goto, IInv, TypeOK, Sound, Deploying, cloud, object, round, history, Clean
  <2>3. ASSUME NEW k \in LBC, k # l PROVE Sound(k)'
    BY <1>2, <2>3, OthersSound
       DEF PoolsDone, Goto, IInv, TypeOK, Same, cloud, object, round, history
  <2> QED
    BY <1>2, <2>1, <2>2, <2>3 DEF IInv, PoolsDone, history
<1> QED
  BY <1>1, <1>2 DEF IInv, TypeOK

\* The listeners of l move, those of the user do not.
LEMMA ListenersStep == ASSUME IInv, NEW l \in LBC, Listeners(l) PROVE IInv'
<1>1. refs' \in [LBC \cup {User} -> SUBSET Pool] /\ refs'[User] = refs[User]
  <2>1. DOMAIN task[l].spec \subseteq Pool
    BY PoolSetsDef DEF IInv, TypeOK
  <2> QED
    BY <2>1, PoolsAssumption DEF Listeners, IInv, TypeOK
<1>2. TypeOK' /\ HandKept'
  BY <1>1 DEF Listeners, Goto, IInv, TypeOK, PC, HandKept, Of, object, round, history
<1>3. Sound(l)'
  BY DEF Listeners, Goto, IInv, TypeOK, Sound, Deploying, object, round, history, Clean
<1>4. ASSUME NEW k \in LBC, k # l PROVE Sound(k)'
  BY <1>1, <1>4, OthersSound DEF Listeners, Goto, IInv, TypeOK, Same, object, round, history
<1> QED
  BY <1>2, <1>3, <1>4 DEF IInv, Listeners, history

\* The pools in use are noted, the user's among them.
LEMMA ListRedundantStep == ASSUME IInv, NEW l \in LBC, ListRedundant(l) PROVE IInv'
<1>1. InUse(l) \subseteq Pool /\ refs[User] \subseteq InUse(l) /\ DOMAIN pools \subseteq Pool
  BY PoolSetsDef DEF IInv, TypeOK, InUse
<1> DEFINE u == InUse(l)
<1>2. used' = [used EXCEPT ![l] = u]
  BY DEF ListRedundant
<1> HIDE DEF u
<1>3. u \subseteq Pool /\ refs[User] \subseteq u
  BY <1>1 DEF u
<1>4. TypeOK' /\ HandKept'
  BY <1>1, <1>2, <1>3 DEF ListRedundant, Goto, IInv, TypeOK, PC, HandKept, Of, cloud, object, history
<1>5. Sound(l)'
  BY <1>2, <1>3 DEF ListRedundant, Goto, IInv, TypeOK, Sound, Deploying, cloud, object, history, Clean
<1>6. ASSUME NEW k \in LBC, k # l PROVE Sound(k)'
  BY <1>6, OthersSound DEF ListRedundant, Goto, IInv, TypeOK, Same, cloud, object, history
<1> QED
  BY <1>4, <1>5, <1>6 DEF IInv, ListRedundant, history

\* A redundant pool is read.
LEMMA ReadRedundantStep == ASSUME IInv, NEW l \in LBC, ReadRedundant(l) PROVE IInv'
<1>1. PICK p \in todo[l] \cap DOMAIN pools :
        /\ pc[l] = "trim" /\ now' = [now EXCEPT ![l] = p]
        /\ seen' = [seen EXCEPT ![l] = pools[p]] /\ pc' = [pc EXCEPT ![l] = "trimWrite"]
        /\ UNCHANGED <<cloud, object, task, listed, used, todo, failed, lock,
                       history, edits, faults>>
  BY DEF ReadRedundant, Goto
<1>2. p \in Pool /\ pools[p] \subseteq Member /\ hand[p] \subseteq pools[p]
  BY PoolSetsDef DEF IInv, TypeOK, HandKept, Of
<1>3. TypeOK' /\ HandKept'
  BY <1>1, <1>2 DEF IInv, TypeOK, PC, HandKept, Of, cloud, object, history
<1>4. Sound(l)'
  BY <1>1, <1>2 DEF IInv, TypeOK, Sound, Deploying, cloud, object, history, Clean
<1>5. ASSUME NEW k \in LBC, k # l PROVE Sound(k)'
  BY <1>1, <1>5, OthersSound DEF IInv, TypeOK, Same, cloud, object, history
<1> QED
  BY <1>1, <1>3, <1>4, <1>5 DEF IInv, history

\* A pool that goes had no member added by hand and was not the user's.
LEMMA TrimPoolStep == ASSUME IInv, NEW l \in LBC, TrimPool(l) PROVE IInv'
<1> DEFINE p == now[l]
           ms == Merge(Of(task[l].st, p), seen[l], Of(task[l].spec, p))
<1>1. /\ p \in Pool /\ ms \in SUBSET Member /\ hand[p] \subseteq ms
      /\ refs[User] \subseteq used[l] /\ seen[l] \subseteq Member
  <2>1. p \in Pool /\ hand[p] \subseteq seen[l] /\ refs[User] \subseteq used[l]
    BY DEF TrimPool, IInv, Sound
  <2>2. /\ Of(task[l].st, p) \in SUBSET Member /\ Of(task[l].st, p) \cap HandMember = {}
        /\ Of(task[l].spec, p) \in SUBSET Member
    BY <2>1, OfPool DEF IInv, TypeOK, Sound
  <2>3. seen[l] \in SUBSET Member /\ hand[p] \subseteq HandMember
    BY <2>1 DEF IInv, TypeOK
  <2> QED
    BY <2>1, <2>2, <2>3, MergeKeeps
<1>2. /\ pc[l] = "trimWrite" /\ NextPool(l, FALSE) /\ pc' = [pc EXCEPT ![l] = "trim"]
      /\ \/ /\ ms = {} /\ p \notin used[l] /\ p \in DOMAIN pools
            /\ pools' = Without(pools, p) /\ UNCHANGED stray
         \/ stray' = [stray EXCEPT ![p] = @ \cup seen[l]] /\ UNCHANGED pools
         \/ p \in DOMAIN pools /\ UpdatePoolMembers(l, ms)
         \/ UNCHANGED <<pools, stray>>
      /\ UNCHANGED <<refs, object, task, lock, hand, edits, faults>>
  BY DEF TrimPool, Goto
<1> HIDE DEF ms
<1>3. /\ pools' \in PoolSets /\ DOMAIN pools' \subseteq DOMAIN pools
      /\ stray' \in [Pool -> SUBSET Member] /\ HandKept'
  <2>1. CASE /\ ms = {} /\ p \notin used[l] /\ p \in DOMAIN pools
             /\ pools' = Without(pools, p) /\ UNCHANGED stray
    <3>1. pools \in PoolSets /\ stray \in [Pool -> SUBSET Member] /\ HandKept
      BY DEF IInv, TypeOK
    <3>2. /\ pools' \in PoolSets /\ DOMAIN pools' = DOMAIN pools \ {p}
          /\ \A q \in DOMAIN pools \ {p} : pools'[q] = pools[q]
      BY <1>1, <2>1, <3>1, WithoutPool
    <3>3. hand[p] = {} /\ p \notin refs[User]
      BY <1>1, <2>1
    <3> QED
      BY <1>2, <2>1, <3>1, <3>2, <3>3 DEF HandKept, Of
  <2>2. CASE stray' = [stray EXCEPT ![p] = @ \cup seen[l]] /\ UNCHANGED pools
    BY <1>1, <1>2, <2>2 DEF IInv, TypeOK, HandKept, Of
  <2>3. CASE p \in DOMAIN pools /\ UpdatePoolMembers(l, ms)
    BY <1>1, <1>2, <2>3, UpdateKeeps
  <2>4. CASE UNCHANGED <<pools, stray>>
    BY <1>2, <2>4 DEF IInv, TypeOK, HandKept, Of
  <2> QED
    BY <1>2, <2>1, <2>2, <2>3, <2>4
<1>4. TypeOK'
  BY <1>2, <1>3 DEF NextPool, IInv, TypeOK, PC, object
<1>5. Sound(l)'
  BY <1>1, <1>2 DEF NextPool, IInv, TypeOK, Sound, Deploying, object, Clean
<1>6. ASSUME NEW k \in LBC, k # l PROVE Sound(k)'
  BY <1>2, <1>3, <1>6, OthersSound DEF NextPool, IInv, TypeOK, Same, object
<1> QED
  BY <1>2, <1>3, <1>4, <1>5, <1>6 DEF IInv

\* The books become what the spec says.
LEMMA FinishStep == ASSUME IInv, NEW l \in LBC, Finish(l) PROVE IInv'
<1>1. Return(l) /\ UNCHANGED <<cloud, spec, history, edits, faults>>
  BY DEF Finish
<1>2. /\ st' \in [LBC -> PoolSets] /\ Clean(st'[l]) /\ \A k \in LBC \ {l} : st'[k] = st[k]
      /\ phase' \in [LBC -> {"live", "deleting", "retiring", "gone"}]
  <2>1. CASE failed[l]
    BY <2>1 DEF Finish, IInv, TypeOK, Sound
  <2>2. CASE ~failed[l]
    <3>1. st' = [st EXCEPT ![l] = task[l].spec] /\ task[l].spec \in PoolSets
      BY <2>2 DEF Finish, IInv, TypeOK
    <3>2. phase' \in [LBC -> {"live", "deleting", "retiring", "gone"}]
      BY <2>2 DEF Finish, IInv, TypeOK
    <3>3. Clean(task[l].spec)
      BY DEF IInv, Sound
    <3> QED
      BY <3>1, <3>2, <3>3 DEF IInv, TypeOK
  <2> QED
    BY <2>1, <2>2 DEF IInv, TypeOK
<1> QED
  BY <1>1, <1>2, ReturnStep DEF history, IInv, TypeOK

-----------------------------------------------------------------------------
(* Failures, and the users. *)

\* A pool is given up, and the loop goes on with the next.
LEMMA SkipStep ==
  ASSUME IInv, NEW l \in LBC, NEW q \in {"pool", "trim"},
         q = "pool" => pc[l] \in Deploying, q = "trim" => pc[l] \in {"trim", "trimWrite"},
         pc' = [pc EXCEPT ![l] = q], now' = [now EXCEPT ![l] = None],
         seen' = [seen EXCEPT ![l] = {}], failed' = [failed EXCEPT ![l] = TRUE],
         todo' \in [LBC -> SUBSET Pool], todo'[l] \subseteq todo[l],
         q = "pool" => todo'[l] = todo[l] \ {now[l]},
         \A k \in LBC \ {l} : todo'[k] = todo[k],
         stray' \in [Pool -> SUBSET Member], faults' \in Nat,
         UNCHANGED <<cloud, object, task, listed, used, lock, hand, edits>>
  PROVE  IInv'
<1>1. TypeOK' /\ HandKept'
  BY DEF IInv, TypeOK, PC, HandKept, Of, cloud, object
<1>2. Sound(l)'
  <2>1. /\ pc'[l] = q /\ now'[l] = None /\ task' = task /\ spec' = spec /\ st' = st
        /\ pools' = pools /\ listed' = listed /\ used' = used /\ refs' = refs /\ lock' = lock
    BY DEF IInv, TypeOK, cloud, object
  <2>2. CASE q = "pool"
    BY <2>1, <2>2 DEF IInv, Sound, Deploying, Clean
  <2>3. CASE q = "trim"
    BY <2>1, <2>3 DEF IInv, Sound, Deploying, Clean
  <2> QED
    BY <2>2, <2>3
<1>3. ASSUME NEW k \in LBC, k # l PROVE Sound(k)'
  BY <1>3, OthersSound DEF IInv, TypeOK, Same, cloud, object
<1> QED
  BY <1>1, <1>2, <1>3 DEF IInv

\* A pool is gone when its turn comes.
LEMMA PoolRefusedStep == ASSUME IInv, NEW l \in LBC, PoolRefused(l) PROVE IInv'
<1>1. /\ now' = [now EXCEPT ![l] = None] /\ seen' = [seen EXCEPT ![l] = {}]
      /\ failed' = [failed EXCEPT ![l] = TRUE]
      /\ UNCHANGED <<cloud, object, task, listed, used, lock, history, edits, faults>>
  BY DEF PoolRefused
<1>2. /\ stray' \in [Pool -> SUBSET Member] /\ faults' \in Nat
      /\ UNCHANGED <<cloud, object, task, listed, used, lock, hand, edits>>
  BY <1>1 DEF history, IInv, TypeOK
<1>3. CASE /\ pc[l] \in {"read", "push"}
           /\ todo' = [todo EXCEPT ![l] = @ \ {now[l]}] /\ pc' = [pc EXCEPT ![l] = "pool"]
  <2>1. /\ todo' \in [LBC -> SUBSET Pool] /\ todo'[l] = todo[l] \ {now[l]}
        /\ \A k \in LBC \ {l} : todo'[k] = todo[k]
    BY <1>3 DEF IInv, TypeOK
  <2> QED
    BY <1>1, <1>2, <1>3, <2>1, SkipStep DEF Deploying
<1>4. CASE /\ pc[l] \in {"trim", "trimWrite"} /\ pc' = [pc EXCEPT ![l] = "trim"]
           /\ \E p : todo' = [todo EXCEPT ![l] = @ \ {p}]
  <2>1. /\ todo' \in [LBC -> SUBSET Pool] /\ todo'[l] \subseteq todo[l]
        /\ \A k \in LBC \ {l} : todo'[k] = todo[k]
    BY <1>4 DEF IInv, TypeOK
  <2> QED
    BY <1>1, <1>2, <1>4, <2>1, SkipStep
<1> QED
  BY <1>3, <1>4 DEF PoolRefused, Goto

\* What may be missing on the books are members of the spec.
LEMMA UnrecordedMembers ==
  ASSUME IInv, NEW l \in LBC
  PROVE  [p \in Pool |-> stray[p] \cup Unrecorded(l, p)] \in [Pool -> SUBSET Member]
<1> SUFFICES ASSUME NEW p \in Pool PROVE Unrecorded(l, p) \subseteq Member
  BY DEF IInv, TypeOK
<1>1. CASE pc[l] = "record" /\ now[l] = p
  <2>1. p \in DOMAIN task[l].spec
    BY <1>1 DEF IInv, Sound, Deploying
  <2>2. task[l].spec[p] \subseteq Member
    BY <2>1, PoolSetsDef DEF IInv, TypeOK
  <2> QED
    BY <2>2 DEF Unrecorded
<1> QED
  BY <1>1 DEF Unrecorded

\* A call on a pool is rejected.
LEMMA RejectStep == ASSUME IInv, NEW l \in LBC, Reject(l) PROVE IInv'
<1> DEFINE q == IF pc[l] = "trimWrite" THEN "trim" ELSE "pool"
<1>1. stray' \in [Pool -> SUBSET Member] /\ faults' \in Nat
  BY UnrecordedMembers DEF Reject, IInv, TypeOK
<1>2. /\ pc' = [pc EXCEPT ![l] = q] /\ now' = [now EXCEPT ![l] = None]
      /\ seen' = [seen EXCEPT ![l] = {}] /\ failed' = [failed EXCEPT ![l] = TRUE]
      /\ todo' = [todo EXCEPT ![l] = @ \ {now[l]}]
      /\ UNCHANGED <<cloud, object, task, listed, used, lock, hand, edits>>
  BY DEF Reject, NextPool, Goto, IInv, TypeOK
<1>3. /\ todo' \in [LBC -> SUBSET Pool] /\ todo'[l] = todo[l] \ {now[l]}
      /\ \A k \in LBC \ {l} : todo'[k] = todo[k]
  BY <1>2 DEF IInv, TypeOK
<1>4. /\ q \in {"pool", "trim"} /\ (q = "pool" => pc[l] \in Deploying)
      /\ (q = "trim" => pc[l] \in {"trim", "trimWrite"})
  BY DEF Reject, Deploying
<1> HIDE DEF q
<1> QED
  BY <1>1, <1>2, <1>3, <1>4, SkipStep

\* A reconcile ends anywhere.
LEMMA CrashStep == ASSUME IInv, NEW l \in LBC, Crash(l) PROVE IInv'
<1>1. stray' \in [Pool -> SUBSET Member] /\ faults' \in Nat /\ edits' \in Nat
  BY UnrecordedMembers DEF Crash, IInv, TypeOK
<1>2. /\ Return(l) /\ UNCHANGED <<cloud, spec, hand>> /\ st' = st /\ phase' = phase
  BY DEF Crash, object
<1> QED
  BY <1>1, <1>2, ReturnStep DEF IInv, TypeOK, Sound

\* An owner asks for something else.
LEMMA EditStep == ASSUME IInv, NEW l \in LBC, Edit(l) PROVE IInv'
<1>1. PICK s \in Specs[l] : spec' = [spec EXCEPT ![l] = s]
  BY DEF Edit
<1>2. s \in PoolSets /\ Clean(s)
  BY PoolsAssumption DEF Clean
<1>3. TypeOK' /\ HandKept'
  BY <1>1, <1>2 DEF Edit, IInv, TypeOK, HandKept, Of, cloud, round, history
<1>4. \A k \in LBC : Clean(spec'[k])
  BY <1>1, <1>2 DEF IInv, TypeOK, Sound
<1>5. ASSUME NEW k \in LBC PROVE Sound(k)'
  BY <1>4 DEF Edit, IInv, Sound, Deploying, cloud, round, history, Clean
<1> QED
  BY <1>3, <1>5 DEF Edit, IInv, history

\* An LBC is deleted or re-pinned.
LEMMA LeaveStep == ASSUME IInv, NEW l \in LBC, Leave(l) PROVE IInv'
<1>1. TypeOK' /\ HandKept'
  BY DEF Leave, IInv, TypeOK, HandKept, Of, cloud, round, history
<1>2. ASSUME NEW k \in LBC PROVE Sound(k)'
  BY DEF Leave, IInv, Sound, Deploying, cloud, round, history, Clean
<1> QED
  BY <1>1, <1>2 DEF Leave, IInv, history

\* A member is added by hand; it counts unless somebody is about to write.
LEMMA AddByHandStep ==
  ASSUME IInv, NEW p \in Pool, NEW m \in HandMember, AddByHand(p, m) PROVE IInv'
<1>1. /\ p \in DOMAIN pools /\ pools' = [pools EXCEPT ![p] = @ \cup {m}]
      /\ DOMAIN pools \subseteq Pool /\ pools \in [DOMAIN pools -> SUBSET Member]
      /\ hand \in [Pool -> SUBSET Member] /\ m \in Member
  BY PoolSetsDef, PoolsAssumption DEF AddByHand, IInv, TypeOK
<1>2. pools' \in PoolSets /\ DOMAIN pools' = DOMAIN pools
  BY <1>1, PoolSetsDef
<1>3. /\ hand' \in [Pool -> SUBSET Member]
      /\ \A q \in Pool : hand'[q] \subseteq hand[q] \cup {m} /\ (q # p => hand'[q] = hand[q])
      /\ Writing(p) => hand' = hand
  BY <1>1 DEF AddByHand
<1>4. TypeOK'
  BY <1>2, <1>3 DEF AddByHand, IInv, TypeOK, object, round
<1>5. HandKept' /\ \A q \in Pool : hand'[q] \subseteq HandMember
  BY <1>1, <1>2, <1>3 DEF AddByHand, IInv, HandKept, Of
<1>6. ASSUME NEW k \in LBC PROVE Sound(k)'
  <2>1. pc[k] \in {"push", "trimWrite"} => hand'[now[k]] \subseteq seen[k]
    <3> SUFFICES ASSUME pc[k] \in {"push", "trimWrite"} PROVE hand'[now[k]] \subseteq seen[k]
      OBVIOUS
    <3>1. now[k] \in Pool /\ hand[now[k]] \subseteq seen[k]
      BY DEF IInv, TypeOK, Sound
    <3> QED
      BY <1>3, <3>1 DEF Writing
  <2> QED
    BY <1>2, <2>1 DEF AddByHand, IInv, Sound, Deploying, object, round, Clean
<1> QED
  BY <1>4, <1>5, <1>6 DEF IInv

\* Every step preserves the invariant.
LEMMA NextIInv == IInv /\ [Next]_vars => IInv'
<1> SUFFICES ASSUME IInv, [Next]_vars PROVE IInv'
  OBVIOUS
<1>1. CASE UNCHANGED vars
  BY <1>1 DEF vars, cloud, object, round, history, IInv, TypeOK, HandKept, Of, Sound,
     Deploying, Clean
<1>2. ASSUME NEW l \in LBC, Reconcile(l) PROVE IInv'
  BY <1>2, BeginStep, CreatePoolStep, AdoptStep, GetPoolMembersStep, PushStep,
     StatusAddPoolMemberStep, PoolsDoneStep, ListenersStep, ListRedundantStep,
     ReadRedundantStep, TrimPoolStep, FinishStep, PoolRefusedStep DEF Reconcile
<1> QED
  BY <1>1, <1>2, RejectStep, CrashStep, EditStep, LeaveStep, AddByHandStep DEF Next

-----------------------------------------------------------------------------
\* Every reachable state of any number of LBCs on any pools is well formed.
THEOREM PoolsTypeCorrect == Spec => []TypeOK
<1>1. IInv => TypeOK
  BY DEF IInv
<1> QED
  BY InitIInv, NextIInv, <1>1, PTL DEF Spec

\* mergePoolMembers and deleteRedundantPools never lose a member added by hand,
\* nor a pool the user's listeners point at, whoever shares it, whichever
\* reconcile holds no mutex and wherever calls fail.
THEOREM HandMembersSafe == Spec => []HandKept
<1>1. IInv => HandKept
  BY DEF IInv
<1> QED
  BY InitIInv, NextIInv, <1>1, PTL DEF Spec

-----------------------------------------------------------------------------
(* Whose books a member is on. *)

\* The members of p that are on the books of l and about to leave them: the
\* reconcile of l took them off the pool, or is not to look at it any more.
Dropping(l, p, m) ==
  \/ pc[l] = "record" /\ now[l] = p /\ m \notin task[l].spec[p]
  \/ pc[l] = "push" /\ now[l] = p /\ m \notin task[l].spec[p] \cup seen[l]
  \/ /\ pc[l] \in {"trim", "trimWrite"} /\ ~failed[l] /\ m \notin Of(task[l].spec, p)
     /\ \/ p \notin todo[l]
        \/ pc[l] = "trimWrite" /\ now[l] = p /\ m \notin seen[l]

\* l answers for m in p: it is about to record it, or has it on the books to stay.
Firm(l, p, m) ==
  /\ phase[l] # "gone"
  /\ \/ pc[l] = "record" /\ now[l] = p /\ m \in task[l].spec[p]
     \/ m \in Of(st[l], p) /\ ~Dropping(l, p, m)

Tracked ==
  \A p \in DOMAIN pools : \A m \in (pools[p] \ HandMember) \ stray[p] :
    \E l \in LBC : Firm(l, p, m)

\* The books of a running reconcile against those it read.
Ledger(l) ==
  /\ pc[l] # "idle" => phase[l] # "gone"
  /\ pc[l] # "idle" /\ task[l].leaving => DOMAIN task[l].spec = {}
  /\ pc[l] # "idle" => \A p \in Pool \ DOMAIN task[l].spec : Of(st[l], p) = Of(task[l].st, p)
  /\ pc[l] \in Deploying =>
       /\ \A p \in todo[l] : Of(st[l], p) = Of(task[l].st, p)
       /\ ~failed[l] => \A p \in DOMAIN task[l].spec \ todo[l] : Of(st[l], p) = task[l].spec[p]
  /\ pc[l] \notin {"idle"} \cup Deploying =>
       \A p \in DOMAIN task[l].spec : Of(st[l], p) = task[l].spec[p]

TrackInv == Tracked /\ \A l \in LBC : Ledger(l)

\* What a step of l leaves of k, all of it.
Own(k) == Same(k) /\ phase'[k] = phase[k] /\ failed'[k] = failed[k]

\* Who answers for what, among the others, does not change.
LEMMA OthersFirm ==
  ASSUME NEW k \in LBC, Own(k), Ledger(k)
  PROVE  /\ Ledger(k)'
         /\ \A p, m : Firm(k, p, m) => Firm(k, p, m)'
<1>1. Ledger(k)'
  BY DEF Own, Same, Ledger, Deploying, Of
<1>2. ASSUME NEW p, NEW m, Firm(k, p, m) PROVE Firm(k, p, m)'
  BY <1>2 DEF Own, Same, Firm, Dropping, Of
<1> QED
  BY <1>1, <1>2

\* The acting LBC answers for what its step brings, or for what it did before.
LEMMA TrackStep ==
  ASSUME TrackInv, NEW l \in LBC, \A k \in LBC \ {l} : Own(k), Ledger(l)',
         \A p \in DOMAIN pools' : \A m \in (pools'[p] \ HandMember) \ stray'[p] :
           \/ Firm(l, p, m)'
           \/ /\ p \in DOMAIN pools /\ m \in pools[p] /\ m \notin stray[p]
              /\ Firm(l, p, m) => Firm(l, p, m)'
  PROVE  TrackInv'
<1>1. \A k \in LBC : Ledger(k)'
  BY OthersFirm DEF TrackInv
<1>2. ASSUME NEW p \in DOMAIN pools', NEW m \in (pools'[p] \ HandMember) \ stray'[p]
      PROVE  \E k \in LBC : Firm(k, p, m)'
  <2>1. CASE Firm(l, p, m)'
    BY <2>1
  <2>2. CASE ~ Firm(l, p, m)'
    <3>1. PICK k \in LBC : Firm(k, p, m)
      BY <1>2, <2>2 DEF TrackInv, Tracked
    <3> QED
      BY <2>2, <3>1, OthersFirm, <1>2 DEF TrackInv
  <2> QED
    BY <2>1, <2>2
<1> QED
  BY <1>1, <1>2 DEF TrackInv, Tracked

\* ... when the step changes no pool and records no member as lost or found.
LEMMA QuietStep ==
  ASSUME TrackInv, NEW l \in LBC, \A k \in LBC \ {l} : Own(k), Ledger(l)',
         UNCHANGED <<pools, stray>>,
         \A p \in DOMAIN pools : \A m \in pools[p] : Firm(l, p, m) => Firm(l, p, m)'
  PROVE  TrackInv'
BY TrackStep

\* An idle LBC.
LEMMA IdleFirm ==
  ASSUME NEW l \in LBC, pc'[l] = "idle"
  PROVE  /\ Ledger(l)'
         /\ \A p, m : phase'[l] # "gone" /\ m \in Of(st'[l], p) => Firm(l, p, m)'
BY DEF Ledger, Firm, Dropping, Deploying

\* What Return leaves.
LEMMA ReturnOwn ==
  ASSUME IInv, NEW l \in LBC, Return(l), UNCHANGED spec,
         \A k \in LBC \ {l} : st'[k] = st[k] /\ phase'[k] = phase[k]
  PROVE  pc'[l] = "idle" /\ \A k \in LBC \ {l} : Own(k)
BY DEF Return, Goto, IInv, TypeOK, Own, Same

LEMMA InitTrack == Init => TrackInv
<1> SUFFICES ASSUME Init PROVE TrackInv
  OBVIOUS
<1>1. \A p \in DOMAIN pools : pools[p] \subseteq HandMember
  BY PoolsAssumption DEF Init
<1>2. \A l \in LBC : Ledger(l)
  BY DEF Init, Ledger, Deploying
<1> QED
  BY <1>1, <1>2 DEF TrackInv, Tracked

\* An LBC is read as it is.
LEMMA BeginTrack == ASSUME IInv, TrackInv, NEW l \in LBC, Begin(l) PROVE TrackInv'
<1> DEFINE leaving == phase[l] \in {"deleting", "retiring"}
<1>1. /\ pc[l] = "idle" /\ phase[l] # "gone" /\ phase' = phase /\ st' = st
      /\ task'[l].spec = IF leaving THEN NoPools ELSE spec[l]
      /\ task'[l].st = st[l]
      /\ task'[l].leaving <=> leaving
      /\ todo'[l] = IF leaving THEN {} ELSE DOMAIN spec[l]
      /\ pc'[l] = IF leaving THEN "listeners" ELSE "pool"
      /\ UNCHANGED <<pools, stray>>
  BY DEF Begin, Goto, IInv, TypeOK, cloud, object, history
<1>2. \A k \in LBC \ {l} : Own(k)
  BY DEF Begin, Goto, IInv, TypeOK, cloud, object, history, Own, Same
<1>3. Ledger(l)'
  <2>1. CASE leaving
    BY <1>1, <2>1, Empties DEF Ledger, Deploying
  <2>2. CASE ~leaving
    BY <1>1, <2>2 DEF Ledger, Deploying
  <2> QED
    BY <2>1, <2>2
<1>4. ASSUME NEW p, NEW m, Firm(l, p, m) PROVE Firm(l, p, m)'
  BY <1>1, <1>4 DEF Firm, Dropping
<1> QED
  BY <1>1, <1>2, <1>3, <1>4, QuietStep

\* A pool is created with members its LBC is about to record.
LEMMA CreatePoolTrack == ASSUME IInv, TrackInv, NEW l \in LBC, CreatePool(l) PROVE TrackInv'
<1>1. PICK p \in todo[l] \ listed[l] :
        /\ pc[l] = "pool" /\ pools' = With(pools, p, task[l].spec[p])
        /\ now' = [now EXCEPT ![l] = p] /\ pc' = [pc EXCEPT ![l] = "record"]
        /\ UNCHANGED <<refs, object, task, listed, used, todo, seen, failed, lock,
                       history, edits, faults>>
  BY DEF CreatePool, Goto
<1>2. /\ pc'[l] = "record" /\ now'[l] = p /\ phase' = phase /\ st' = st /\ task' = task
      /\ todo' = todo /\ failed' = failed /\ seen' = seen /\ stray' = stray
      /\ \A k \in LBC \ {l} : Own(k)
  BY <1>1 DEF IInv, TypeOK, object, history, Own, Same
<1>3. phase[l] # "gone" /\ Ledger(l)'
  BY <1>1, <1>2 DEF TrackInv, Ledger, Deploying
<1>4. \A q \in DOMAIN pools' : q # p => q \in DOMAIN pools /\ pools'[q] = pools[q]
  BY <1>1 DEF With
<1>5. p \in DOMAIN pools' => pools'[p] = task[l].spec[p]
  BY <1>1 DEF With
<1>6. \A m : m \in task[l].spec[p] => Firm(l, p, m)'
  BY <1>2, <1>3 DEF Firm
<1>7. ASSUME NEW q, q # p, NEW m, Firm(l, q, m) PROVE Firm(l, q, m)'
  BY <1>1, <1>2, <1>3, <1>7 DEF Firm, Dropping
<1> QED
  BY <1>2, <1>3, <1>4, <1>5, <1>6, <1>7, TrackStep

\* A pool on the books without members changes nothing.
LEMMA AdoptTrack == ASSUME IInv, TrackInv, NEW l \in LBC, Adopt(l) PROVE TrackInv'
<1>1. PICK p \in todo[l] \cap listed[l] :
        /\ pc[l] = "pool"
        /\ st' = [st EXCEPT ![l] = IF p \in DOMAIN @ THEN @ ELSE With(@, p, {})]
        /\ now' = [now EXCEPT ![l] = p] /\ pc' = [pc EXCEPT ![l] = "read"]
        /\ UNCHANGED <<cloud, spec, phase, task, listed, used, todo, seen, failed,
                       lock, history, edits, faults>>
  BY DEF Adopt, Goto
<1>2. /\ pc'[l] = "read" /\ now'[l] = p /\ phase' = phase /\ task' = task
      /\ todo' = todo /\ failed' = failed /\ seen' = seen /\ UNCHANGED <<pools, stray>>
      /\ \A k \in LBC \ {l} : Own(k)
  BY <1>1 DEF IInv, TypeOK, cloud, history, Own, Same
<1>3. \A q : Of(st'[l], q) = Of(st[l], q)
  <2>1. st'[l] = IF p \in DOMAIN st[l] THEN st[l] ELSE With(st[l], p, {})
    BY <1>1 DEF IInv, TypeOK
  <2>2. p \notin DOMAIN st[l] => \A q : Of(With(st[l], p, {}), q) = Of(st[l], q)
    BY DEF Of, With
  <2> QED
    BY <2>1, <2>2
<1>4. phase[l] # "gone" /\ Ledger(l)'
  BY <1>1, <1>2, <1>3 DEF TrackInv, Ledger, Deploying
<1>5. ASSUME NEW q, NEW m, Firm(l, q, m) PROVE Firm(l, q, m)'
  BY <1>1, <1>2, <1>3, <1>4, <1>5 DEF Firm, Dropping
<1> QED
  BY <1>2, <1>4, <1>5, QuietStep

\* A member that is there is read.
LEMMA GetPoolMembersTrack ==
  ASSUME IInv, TrackInv, NEW l \in LBC, GetPoolMembers(l) PROVE TrackInv'
<1>1. /\ pc[l] = "read" /\ pc'[l] = "push" /\ seen'[l] = pools[now[l]]
      /\ now' = now /\ phase' = phase /\ st' = st /\ task' = task /\ todo' = todo
      /\ failed' = failed /\ UNCHANGED <<pools, stray>> /\ \A k \in LBC \ {l} : Own(k)
  BY DEF GetPoolMembers, Goto, IInv, TypeOK, cloud, object, history, Own, Same
<1>2. phase[l] # "gone" /\ Ledger(l)'
  BY <1>1 DEF TrackInv, Ledger, Deploying
<1>3. ASSUME NEW q \in DOMAIN pools, NEW m \in pools[q], Firm(l, q, m) PROVE Firm(l, q, m)'
  BY <1>1, <1>2, <1>3 DEF Firm, Dropping
<1> QED
  BY <1>1, <1>2, <1>3, QuietStep

\* What the list that is written has: members of the spec, members that were
\* there, and members that stray.
LEMMA UpdateTrack ==
  ASSUME IInv, NEW l \in LBC, NEW ms, UpdatePoolMembers(l, ms), now[l] \in DOMAIN pools
  PROVE  /\ DOMAIN pools' = DOMAIN pools /\ pools'[now[l]] = ms
         /\ \A q \in DOMAIN pools \ {now[l]} : pools'[q] = pools[q] /\ stray'[q] = stray[q]
         /\ \A m \in ms \ stray'[now[l]] :
              \/ m \in Of(task[l].spec, now[l])
              \/ m \in pools[now[l]] /\ m \notin stray[now[l]]
<1>1. /\ pools \in [DOMAIN pools -> SUBSET Member] /\ DOMAIN pools \subseteq Pool
      /\ stray \in [Pool -> SUBSET Member]
  BY PoolSetsDef DEF IInv, TypeOK
<1> QED
  BY <1>1 DEF UpdatePoolMembers

\* What l is to take off is not in the list it writes.
LEMMA PushTrack == ASSUME IInv, TrackInv, NEW l \in LBC, Push(l) PROVE TrackInv'
<1>0. PICK p, want, ms :
        p = now[l] /\ want = task[l].spec[p] /\ ms = Merge(Of(task[l].st, p), seen[l], want)
  OBVIOUS
<1>1. /\ pc[l] = "push" /\ pc'[l] = "record"
      /\ now' = now /\ phase' = phase /\ st' = st /\ task' = task /\ todo' = todo
      /\ failed' = failed /\ seen' = seen
      /\ \A k \in LBC \ {l} : Own(k)
  BY DEF Push, Goto, IInv, TypeOK, object, round, Own, Same
<1>2. /\ phase[l] # "gone" /\ Ledger(l)' /\ p \in todo[l] /\ Of(st[l], p) = Of(task[l].st, p)
      /\ Of(task[l].spec, p) = want
  BY <1>0, <1>1 DEF IInv, TrackInv, Ledger, Sound, Deploying, Of
<1>3. \A m : m \in want => Firm(l, p, m)'
  BY <1>0, <1>1, <1>2 DEF Firm
<1>4. \A m : m \in ms /\ m \notin want => m \in seen[l] /\ ~ Firm(l, p, m)
  BY <1>0, <1>1, <1>2 DEF Merge, Firm
<1>5. ASSUME NEW q, q # p, NEW m, Firm(l, q, m) PROVE Firm(l, q, m)'
  BY <1>0, <1>1, <1>5 DEF Firm, Dropping
<1>6. CASE ms = seen[l] /\ UNCHANGED <<pools, stray>>
  <2>1. ASSUME NEW m, Firm(l, p, m) PROVE Firm(l, p, m)'
    <3>1. m \notin want => m \in seen[l]
      BY <1>0, <1>1, <2>1 DEF Firm, Dropping
    <3> QED
      BY <1>3, <1>4, <1>6, <2>1, <3>1
  <2> QED
    BY <1>1, <1>2, <1>5, <1>6, <2>1, QuietStep
<1>7. CASE p \in DOMAIN pools /\ UpdatePoolMembers(l, ms)
  <2>1. /\ DOMAIN pools' = DOMAIN pools /\ pools'[p] = ms
        /\ \A q \in DOMAIN pools \ {p} : pools'[q] = pools[q] /\ stray'[q] = stray[q]
        /\ \A m \in ms \ stray'[p] :
             m \in want \/ (m \in pools[p] /\ m \notin stray[p])
    BY <1>0, <1>2, <1>7, UpdateTrack
  <2>2. ASSUME NEW q \in DOMAIN pools', NEW m \in (pools'[q] \ HandMember) \ stray'[q]
        PROVE  \/ Firm(l, q, m)'
               \/ /\ q \in DOMAIN pools /\ m \in pools[q] /\ m \notin stray[q]
                  /\ Firm(l, q, m) => Firm(l, q, m)'
    <3>1. CASE q = p
      BY <1>3, <1>4, <2>1, <3>1
    <3>2. CASE q # p
      BY <1>5, <2>1, <3>2
    <3> QED
      BY <3>1, <3>2
  <2> QED
    BY <1>1, <1>2, <2>2, TrackStep
<1> QED
  BY <1>0, <1>6, <1>7 DEF Push

\* What NextPool leaves.
LEMMA NextPoolOwn ==
  ASSUME IInv, NEW l \in LBC, NEW bad \in BOOLEAN, NextPool(l, bad)
  PROVE  /\ todo'[l] = todo[l] \ {now[l]} /\ now'[l] = None /\ seen'[l] = {}
         /\ bad => failed'[l]
         /\ ~bad => failed'[l] = failed[l]
         /\ \A k \in LBC \ {l} :
              /\ todo'[k] = todo[k] /\ now'[k] = now[k] /\ listed'[k] = listed[k]
              /\ used'[k] = used[k] /\ seen'[k] = seen[k] /\ failed'[k] = failed[k]
BY DEF NextPool, IInv, TypeOK

\* The members of the spec are on the books, the others nobody's of l.
LEMMA StatusAddPoolMemberTrack ==
  ASSUME IInv, TrackInv, NEW l \in LBC, StatusAddPoolMember(l) PROVE TrackInv'
<1>0. PICK p, ms : p = now[l] /\ ms = task[l].spec[p]
  OBVIOUS
<1>1. NextPool(l, FALSE) /\ FALSE \in BOOLEAN
  BY DEF StatusAddPoolMember
<1>2. /\ pc[l] = "record" /\ pc'[l] = "pool" /\ phase' = phase /\ task' = task
      /\ st'[l] = With(st[l], p, ms) /\ pools' = pools
      /\ \A k \in LBC \ {l} : pc'[k] = pc[k] /\ st'[k] = st[k] /\ spec'[k] = spec[k]
  BY <1>0 DEF StatusAddPoolMember, Goto, IInv, TypeOK, cloud
<1>3. todo'[l] = todo[l] \ {p} /\ failed'[l] = failed[l] /\ \A k \in LBC \ {l} : Own(k)
  BY ZenonT(30), <1>0, <1>1, <1>2, NextPoolOwn DEF Own, Same
<1>4. /\ p \in Pool /\ p \in todo[l] /\ p \in DOMAIN task[l].spec /\ phase[l] # "gone"
  BY <1>0, <1>2 DEF IInv, TypeOK, Sound, Deploying, TrackInv, Ledger
<1>5. \A q : Of(st'[l], q) = IF q = p THEN ms ELSE Of(st[l], q)
  BY <1>0, <1>2 DEF Of, With
<1>6. Ledger(l)'
  BY <1>0, <1>2, <1>3, <1>4, <1>5 DEF TrackInv, Ledger, Deploying
<1>7. \A q \in Pool : stray'[q] = IF q = p THEN stray[q] \ ms ELSE stray[q]
  BY <1>0, <1>4 DEF StatusAddPoolMember, IInv, TypeOK
<1>8. \A m : m \in ms => Firm(l, p, m)'
  BY <1>0, <1>2, <1>4, <1>5 DEF Firm, Dropping
<1>9. \A m : m \notin ms => ~ Firm(l, p, m)
  BY <1>0, <1>2 DEF Firm, Dropping
<1>10. ASSUME NEW q, q # p, NEW m, Firm(l, q, m) PROVE Firm(l, q, m)'
  BY <1>0, <1>2, <1>4, <1>5, <1>10 DEF Firm, Dropping
<1>11. DOMAIN pools \subseteq Pool
  BY PoolSetsDef DEF IInv, TypeOK
<1>12. ASSUME NEW q \in DOMAIN pools', NEW m \in (pools'[q] \ HandMember) \ stray'[q]
       PROVE  \/ Firm(l, q, m)'
              \/ /\ q \in DOMAIN pools /\ m \in pools[q] /\ m \notin stray[q]
                 /\ Firm(l, q, m) => Firm(l, q, m)'
  <2>1. CASE q = p
    BY <1>2, <1>7, <1>8, <1>9, <1>11, <2>1
  <2>2. CASE q # p
    BY <1>2, <1>7, <1>10, <1>11, <2>2
  <2> QED
    BY <2>1, <2>2
<1> QED
  BY <1>3, <1>6, <1>12, TrackStep

\* The pass ends, or all members of the spec are on the books.
LEMMA PoolsDoneTrack == ASSUME IInv, TrackInv, NEW l \in LBC, PoolsDone(l) PROVE TrackInv'
<1>1. /\ pc[l] = "pool" /\ todo[l] = {} /\ phase' = phase /\ st' = st /\ UNCHANGED spec
      /\ UNCHANGED <<pools, stray>>
  BY DEF PoolsDone, cloud, object, history
<1>2. CASE failed[l] /\ Return(l)
  <2>1. pc'[l] = "idle" /\ \A k \in LBC \ {l} : Own(k)
    BY <1>1, <1>2, ReturnOwn
  <2> QED
    BY <1>1, <2>1, IdleFirm, QuietStep DEF Firm
<1>3. CASE ~failed[l] /\ Goto(l, "listeners") /\ UNCHANGED <<task, round, lock>>
  <2>1. pc'[l] = "listeners" /\ \A k \in LBC \ {l} : Own(k)
    BY <1>1, <1>3 DEF Goto, IInv, TypeOK, round, Own, Same
  <2>2. Ledger(l)'
    BY <1>1, <1>3, <2>1 DEF TrackInv, Ledger, Deploying
  <2>3. ASSUME NEW p, NEW m, Firm(l, p, m) PROVE Firm(l, p, m)'
    BY <1>1, <2>1, <2>3 DEF Firm, Dropping
  <2> QED
    BY <1>1, <2>1, <2>2, <2>3, QuietStep
<1> QED
  BY <1>2, <1>3 DEF PoolsDone

LEMMA ListenersTrack == ASSUME IInv, TrackInv, NEW l \in LBC, Listeners(l) PROVE TrackInv'
<1>1. /\ pc[l] = "listeners" /\ pc'[l] = "list" /\ phase' = phase /\ st' = st /\ task' = task
      /\ UNCHANGED <<pools, stray>> /\ \A k \in LBC \ {l} : Own(k)
  BY DEF Listeners, Goto, IInv, TypeOK, object, round, history, Own, Same
<1>2. Ledger(l)'
  BY <1>1 DEF TrackInv, Ledger, Deploying
<1>3. ASSUME NEW p, NEW m, Firm(l, p, m) PROVE Firm(l, p, m)'
  BY <1>1, <1>3 DEF Firm, Dropping
<1> QED
  BY <1>1, <1>2, <1>3, QuietStep

\* A pool that is there and on the books is a candidate.
LEMMA ListRedundantTrack ==
  ASSUME IInv, TrackInv, NEW l \in LBC, ListRedundant(l) PROVE TrackInv'
<1>1. /\ pc[l] = "list" /\ pc'[l] = "trim" /\ phase' = phase /\ st' = st /\ task' = task
      /\ todo'[l] = DOMAIN task[l].st \cap DOMAIN pools
      /\ UNCHANGED <<pools, stray>> /\ \A k \in LBC \ {l} : Own(k)
  BY DEF ListRedundant, Goto, IInv, TypeOK, cloud, object, history, Own, Same
<1>2. Ledger(l)'
  BY <1>1 DEF TrackInv, Ledger, Deploying
<1>3. ASSUME NEW p \in DOMAIN pools, NEW m, Firm(l, p, m) PROVE Firm(l, p, m)'
  <2>1. p \in Pool
    BY PoolSetsDef DEF IInv, TypeOK
  <2>2. m \in Of(st[l], p) /\ phase[l] # "gone"
    BY <1>1, <1>3 DEF Firm
  <2>3. p \in todo'[l] \/ m \in Of(task[l].spec, p)
    BY <1>1, <2>1, <2>2 DEF TrackInv, Ledger, Deploying, Of
  <2> QED
    BY <1>1, <2>2, <2>3 DEF Firm, Dropping
<1> QED
  BY <1>1, <1>2, <1>3, QuietStep

\* A member that is there is read.
LEMMA ReadRedundantTrack ==
  ASSUME IInv, TrackInv, NEW l \in LBC, ReadRedundant(l) PROVE TrackInv'
<1>1. PICK p \in todo[l] \cap DOMAIN pools :
        /\ pc[l] = "trim" /\ pc'[l] = "trimWrite" /\ now'[l] = p /\ seen'[l] = pools[p]
        /\ phase' = phase /\ st' = st /\ task' = task /\ todo' = todo /\ failed' = failed
        /\ UNCHANGED <<pools, stray>> /\ \A k \in LBC \ {l} : Own(k)
  BY DEF ReadRedundant, Goto, IInv, TypeOK, cloud, object, history, Own, Same
<1>2. Ledger(l)'
  BY <1>1 DEF TrackInv, Ledger, Deploying
<1>3. ASSUME NEW q \in DOMAIN pools, NEW m \in pools[q], Firm(l, q, m) PROVE Firm(l, q, m)'
  BY <1>1, <1>3 DEF Firm, Dropping
<1> QED
  BY <1>1, <1>2, <1>3, QuietStep

\* What l takes off a pool is gone from it, or strays with the pool.
LEMMA TrimPoolTrack == ASSUME IInv, TrackInv, NEW l \in LBC, TrimPool(l) PROVE TrackInv'
<1>0. PICK p, want, ms :
        /\ p = now[l] /\ want = Of(task[l].spec, p)
        /\ ms = Merge(Of(task[l].st, p), seen[l], want)
  OBVIOUS
<1>1. NextPool(l, FALSE) /\ FALSE \in BOOLEAN
  BY DEF TrimPool
<1>2. /\ pc[l] = "trimWrite" /\ pc'[l] = "trim" /\ phase' = phase /\ st' = st /\ task' = task
      /\ \A k \in LBC \ {l} : pc'[k] = pc[k]
      /\ UNCHANGED spec
  BY DEF TrimPool, Goto, IInv, TypeOK, object
<1>3. todo'[l] = todo[l] \ {p} /\ failed'[l] = failed[l] /\ \A k \in LBC \ {l} : Own(k)
  BY ZenonT(30), <1>0, <1>1, <1>2, NextPoolOwn DEF Own, Same
<1>4. p \in Pool /\ phase[l] # "gone" /\ Ledger(l)'
  BY <1>0, <1>2 DEF IInv, Sound, TrackInv, Ledger, Deploying
<1>5. ASSUME NEW m, Firm(l, p, m) PROVE Firm(l, p, m)' \/ (m \in seen[l] /\ m \notin ms)
  <2>1. m \in Of(st[l], p) /\ ~Dropping(l, p, m)
    BY <1>2, <1>5 DEF Firm
  <2>2. CASE failed[l]
    BY <1>2, <1>3, <1>4, <2>1, <2>2 DEF Firm, Dropping
  <2>3. CASE ~failed[l] /\ m \in want
    BY <1>0, <1>2, <1>3, <1>4, <2>1, <2>3 DEF Firm, Dropping
  <2>4. CASE ~failed[l] /\ m \notin want
    <3>1. m \in seen[l]
      BY <1>0, <1>2, <2>1, <2>4 DEF Dropping
    <3>2. m \in Of(task[l].st, p)
      BY <1>0, <1>2, <1>4, <2>1, <2>4 DEF TrackInv, Ledger, Deploying, Of
    <3> QED
      BY <1>0, <2>4, <3>1, <3>2 DEF Merge
  <2> QED
    BY <2>2, <2>3, <2>4
<1>6. ASSUME NEW q, q # p, NEW m, Firm(l, q, m) PROVE Firm(l, q, m)'
  BY <1>0, <1>2, <1>3, <1>4, <1>6 DEF Firm, Dropping
<1>7. ASSUME NEW m, m \in want PROVE Firm(l, p, m)'
  <2>1. m \in Of(st[l], p)
    BY <1>0, <1>2, <1>4, <1>7 DEF TrackInv, Ledger, Deploying, Of
  <2> QED
    BY <1>0, <1>2, <1>4, <1>7, <2>1 DEF Firm, Dropping
<1>8. /\ \A q \in DOMAIN pools' : q \in DOMAIN pools
      /\ \A q \in DOMAIN pools' \ {p} : pools'[q] = pools[q] /\ stray'[q] = stray[q]
      /\ p \in DOMAIN pools' => \A m \in pools'[p] \ stray'[p] :
           \/ m \in want
           \/ m \in pools[p] /\ m \notin stray[p] /\ ~(m \in seen[l] /\ m \notin ms)
  <2>0. pools \in PoolSets /\ DOMAIN pools \subseteq Pool /\ stray \in [Pool -> SUBSET Member]
    BY PoolSetsDef DEF IInv, TypeOK
  <2>1. CASE pools' = Without(pools, p) /\ UNCHANGED stray
    BY ZenonT(30), <1>4, <2>0, <2>1, WithoutPool
  <2>2. CASE stray' = [stray EXCEPT ![p] = @ \cup seen[l]] /\ UNCHANGED pools
    BY <1>4, <2>0, <2>2
  <2>3. CASE p \in DOMAIN pools /\ UpdatePoolMembers(l, ms)
    <3>1. /\ DOMAIN pools' = DOMAIN pools /\ pools'[p] = ms
          /\ \A q \in DOMAIN pools \ {p} : pools'[q] = pools[q] /\ stray'[q] = stray[q]
          /\ \A m \in ms \ stray'[p] : m \in want \/ (m \in pools[p] /\ m \notin stray[p])
      BY <1>0, <2>3, UpdateTrack
    <3> QED
      BY <3>1
  <2>4. CASE ms = seen[l] /\ UNCHANGED <<pools, stray>>
    BY <2>4
  <2> QED
    BY <1>0, <2>1, <2>2, <2>3, <2>4 DEF TrimPool
<1>9. ASSUME NEW q \in DOMAIN pools', NEW m \in (pools'[q] \ HandMember) \ stray'[q]
      PROVE  \/ Firm(l, q, m)'
             \/ /\ q \in DOMAIN pools /\ m \in pools[q] /\ m \notin stray[q]
                /\ Firm(l, q, m) => Firm(l, q, m)'
  <2>1. CASE q = p
    BY <1>5, <1>7, <1>8, <2>1
  <2>2. CASE q # p
    BY <1>6, <1>8, <2>2
  <2> QED
    BY <2>1, <2>2
<1> QED
  BY <1>3, <1>4, <1>9, TrackStep

\* What leaves the books then has left the pools, or is on other books.
LEMMA FinishTrack == ASSUME IInv, TrackInv, NEW l \in LBC, Finish(l) PROVE TrackInv'
<1>1. /\ pc[l] = "trim" /\ todo[l] = {} /\ Return(l) /\ UNCHANGED spec
      /\ UNCHANGED <<pools, stray>>
      /\ \A k \in LBC \ {l} : st'[k] = st[k] /\ phase'[k] = phase[k]
  BY DEF Finish, IInv, TypeOK, cloud, history
<1>2. pc'[l] = "idle" /\ \A k \in LBC \ {l} : Own(k)
  BY <1>1, ReturnOwn
<1>3. CASE failed[l]
  BY <1>1, <1>2, <1>3, IdleFirm, QuietStep DEF Finish, Firm
<1>4. CASE ~failed[l]
  <2>1. ASSUME NEW p \in DOMAIN pools, NEW m, Firm(l, p, m) PROVE Firm(l, p, m)'
    <3>1. m \in Of(task[l].spec, p) /\ phase[l] # "gone"
      BY <1>1, <1>4, <2>1 DEF Firm, Dropping
    <3>2. ~task[l].leaving
      BY <1>1, <3>1 DEF TrackInv, Ledger, Of
    <3>3. st'[l] = task[l].spec /\ phase'[l] = phase[l]
      BY <1>4, <3>2 DEF Finish, IInv, TypeOK
    <3> QED
      BY <1>2, <3>1, <3>3, IdleFirm
  <2> QED
    BY <1>1, <1>2, <2>1, IdleFirm, QuietStep
<1> QED
  BY <1>3, <1>4

\* A pool that failed keeps its books: they are not rewritten.
LEMMA SkipTrack ==
  ASSUME IInv, TrackInv, NEW l \in LBC, NEW q \in {"pool", "trim"}, NEW gone,
         q = "pool" => pc[l] \in Deploying \ {"pool"} /\ gone = now[l],
         q = "trim" => pc[l] \in {"trim", "trimWrite"},
         pc' = [pc EXCEPT ![l] = q], failed'[l],
         todo'[l] = todo[l] \ {gone}, \A k \in LBC \ {l} : Own(k),
         UNCHANGED <<cloud, object, task>>,
         \A p \in Pool : stray'[p] = stray[p] \cup Unrecorded(l, p)
  PROVE  TrackInv'
<1>1. /\ pc'[l] = q /\ phase' = phase /\ st' = st /\ task' = task /\ pools' = pools
  BY DEF IInv, TypeOK, cloud, object
<1>2. phase[l] # "gone" /\ pc[l] # "idle"
  BY DEF TrackInv, Ledger, Deploying
<1>3. Ledger(l)'
  <2>1. CASE q = "pool"
    BY <1>1, <1>2, <2>1 DEF TrackInv, Ledger, Deploying
  <2>2. CASE q = "trim"
    BY <1>1, <1>2, <2>2 DEF TrackInv, Ledger, Deploying
  <2> QED
    BY <2>1, <2>2
<1>4. \A p, m : m \in Of(st[l], p) => Firm(l, p, m)'
  BY <1>1, <1>2 DEF Firm, Dropping
<1>5. ASSUME NEW p \in DOMAIN pools', NEW m \in (pools'[p] \ HandMember) \ stray'[p]
      PROVE  \/ Firm(l, p, m)'
             \/ /\ p \in DOMAIN pools /\ m \in pools[p] /\ m \notin stray[p]
                /\ Firm(l, p, m) => Firm(l, p, m)'
  <2>1. p \in Pool
    BY <1>1, PoolSetsDef DEF IInv, TypeOK
  <2>2. m \notin Unrecorded(l, p) /\ m \notin stray[p]
    BY <2>1
  <2>3. Firm(l, p, m) => m \in Of(st[l], p)
    BY <2>2 DEF Firm, Unrecorded
  <2> QED
    BY <1>1, <1>4, <2>2, <2>3
<1> QED
  BY <1>3, <1>5, TrackStep

LEMMA PoolRefusedTrack == ASSUME IInv, TrackInv, NEW l \in LBC, PoolRefused(l) PROVE TrackInv'
<1>1. /\ now' = [now EXCEPT ![l] = None] /\ seen' = [seen EXCEPT ![l] = {}]
      /\ failed' = [failed EXCEPT ![l] = TRUE]
      /\ UNCHANGED <<cloud, object, task, listed, used, lock, history, edits, faults>>
  BY DEF PoolRefused
<1>2. PICK q \in {"pool", "trim"}, gone \in Pool \cup {None} :
        /\ q = "pool" => pc[l] \in {"read", "push"} /\ gone = now[l]
        /\ q = "trim" => pc[l] \in {"trim", "trimWrite"}
        /\ todo' = [todo EXCEPT ![l] = @ \ {gone}] /\ pc' = [pc EXCEPT ![l] = q]
  BY DEF PoolRefused, Goto, IInv, TypeOK
<1>3. /\ failed'[l] /\ todo'[l] = todo[l] \ {gone} /\ \A k \in LBC \ {l} : Own(k)
  BY <1>1, <1>2 DEF IInv, TypeOK, cloud, object, Own, Same
<1>4. \A p \in Pool : stray'[p] = stray[p] \cup Unrecorded(l, p)
  BY <1>1, <1>2 DEF Unrecorded, history
<1>5. UNCHANGED <<cloud, object, task>> /\ (q = "pool" => pc[l] \in Deploying \ {"pool"})
  BY <1>1, <1>2 DEF Deploying
<1> QED
  BY <1>2, <1>3, <1>4, <1>5, SkipTrack

LEMMA RejectTrack == ASSUME IInv, TrackInv, NEW l \in LBC, Reject(l) PROVE TrackInv'
<1>1. PICK q \in {"pool", "trim"} :
        /\ q = "pool" => pc[l] \in Deploying \ {"pool"}
        /\ q = "trim" => pc[l] \in {"trim", "trimWrite"}
        /\ pc' = [pc EXCEPT ![l] = q]
  BY DEF Reject, Goto, Deploying
<1>2. /\ NextPool(l, TRUE) /\ TRUE \in BOOLEAN /\ UNCHANGED <<cloud, object, task>>
      /\ stray' = [p \in Pool |-> stray[p] \cup Unrecorded(l, p)]
  BY DEF Reject
<1>3. \A p \in Pool : stray'[p] = stray[p] \cup Unrecorded(l, p)
  BY <1>2
<1>4. failed'[l] /\ todo'[l] = todo[l] \ {now[l]}
  BY <1>2, NextPoolOwn
<1>5. ASSUME NEW k \in LBC \ {l} PROVE Own(k)
  <2>1. pc'[k] = pc[k] /\ phase' = phase /\ spec' = spec /\ st' = st /\ task' = task
    BY <1>1, <1>2 DEF IInv, TypeOK, object
  <2> QED
    BY <1>2, <2>1, NextPoolOwn DEF Own, Same
<1>6. PICK gone : gone = now[l]
  OBVIOUS
<1> QED
  BY <1>1, <1>2, <1>3, <1>4, <1>5, <1>6, SkipTrack

\* What was not recorded strays.
LEMMA CrashTrack == ASSUME IInv, TrackInv, NEW l \in LBC, Crash(l) PROVE TrackInv'
<1>1. /\ pc[l] # "idle" /\ Return(l) /\ UNCHANGED spec /\ st' = st /\ phase' = phase
      /\ pools' = pools
      /\ stray' = [p \in Pool |-> stray[p] \cup Unrecorded(l, p)]
  BY DEF Crash, cloud, object
<1>2. pc'[l] = "idle" /\ \A k \in LBC \ {l} : Own(k)
  BY <1>1, ReturnOwn
<1>3. ASSUME NEW p \in DOMAIN pools', NEW m \in (pools'[p] \ HandMember) \ stray'[p]
      PROVE  \/ Firm(l, p, m)'
             \/ /\ p \in DOMAIN pools /\ m \in pools[p] /\ m \notin stray[p]
                /\ Firm(l, p, m) => Firm(l, p, m)'
  <2>1. p \in Pool
    BY <1>1, PoolSetsDef DEF IInv, TypeOK
  <2>2. m \notin Unrecorded(l, p) /\ m \notin stray[p]
    BY <1>1, <2>1
  <2>3. Firm(l, p, m) => m \in Of(st[l], p) /\ phase[l] # "gone"
    BY <2>2 DEF Firm, Unrecorded
  <2> QED
    BY <1>1, <1>2, <2>2, <2>3, IdleFirm
<1> QED
  BY <1>2, <1>3, IdleFirm, TrackStep

\* A step that leaves every LBC what it has, but for its spec and the way it
\* leaves.
LEMMA UserTrack ==
  ASSUME TrackInv,
         \A l \in LBC : phase[l] # "gone" => phase'[l] # "gone",
         UNCHANGED <<st, pc, task, todo, now, seen, failed, stray>>,
         DOMAIN pools' = DOMAIN pools,
         \A p \in DOMAIN pools : pools'[p] \subseteq pools[p] \cup HandMember
  PROVE  TrackInv'
<1>1. \A l \in LBC : Ledger(l)'
  BY DEF TrackInv, Ledger, Deploying, Of
<1>2. ASSUME NEW l \in LBC, NEW p, NEW m, Firm(l, p, m) PROVE Firm(l, p, m)'
  BY <1>2 DEF Firm, Dropping, Of
<1>3. Tracked'
  BY <1>2 DEF TrackInv, Tracked
<1> QED
  BY <1>1, <1>3 DEF TrackInv

\* Every step preserves it.
LEMMA NextTrack == IInv /\ TrackInv /\ [Next]_vars => TrackInv'
<1> SUFFICES ASSUME IInv, TrackInv, [Next]_vars PROVE TrackInv'
  OBVIOUS
<1>1. CASE UNCHANGED vars
  BY <1>1, UserTrack DEF vars, cloud, object, round, history
<1>2. ASSUME NEW l \in LBC, Reconcile(l) PROVE TrackInv'
  BY <1>2, BeginTrack, CreatePoolTrack, AdoptTrack, GetPoolMembersTrack, PushTrack,
     StatusAddPoolMemberTrack, PoolsDoneTrack, ListenersTrack, ListRedundantTrack,
     ReadRedundantTrack, TrimPoolTrack, FinishTrack, PoolRefusedTrack DEF Reconcile
<1>3. ASSUME NEW l \in LBC, Edit(l) PROVE TrackInv'
  BY <1>3, UserTrack DEF Edit, cloud, round, history
<1>4. ASSUME NEW l \in LBC, Leave(l) PROVE TrackInv'
  <2>1. \A k \in LBC : phase[k] # "gone" => phase'[k] # "gone"
    BY <1>4 DEF Leave, IInv, TypeOK
  <2> QED
    BY <1>4, <2>1, UserTrack DEF Leave, cloud, round, history
<1>5. ASSUME NEW p \in Pool, NEW m \in HandMember, AddByHand(p, m) PROVE TrackInv'
  <2>1. pools \in [DOMAIN pools -> SUBSET Member]
    BY PoolSetsDef DEF IInv, TypeOK
  <2>2. DOMAIN pools' = DOMAIN pools
    BY <1>5, <2>1 DEF AddByHand
  <2>3. \A q \in DOMAIN pools : pools'[q] \subseteq pools[q] \cup HandMember
    BY <1>5, <2>1 DEF AddByHand
  <2> QED
    BY <1>5, <2>2, <2>3, UserTrack DEF AddByHand, object, round
<1> QED
  BY <1>1, <1>2, <1>3, <1>4, <1>5, RejectTrack, CrashTrack DEF Next

\* deployPool and the teardown keep the books: a member on a pool that nobody
\* added by hand is on the books of an LBC that will take it off, or about to
\* be, unless it left them in one of the three ways that NoStray names.  That
\* holds although a reconcile works from books it read at its start, and one
\* of them, the teardown of a migration, works without the mutex.
THEOREM MembersOnBooks == Spec => []NoStray
<1>1. TrackInv => NoStray
  <2> SUFFICES ASSUME TrackInv, NEW p \in DOMAIN pools,
                      NEW m \in (pools[p] \ HandMember) \ stray[p]
               PROVE  \E l \in LBC : phase[l] # "gone" /\ m \in Of(st[l], p) \cup Unrecorded(l, p)
    BY DEF NoStray
  <2>1. PICK l \in LBC : Firm(l, p, m)
    BY DEF TrackInv, Tracked
  <2> QED
    BY <2>1 DEF Firm, Unrecorded
<1> QED
  BY InitIInv, NextIInv, InitTrack, NextTrack, <1>1, PTL DEF Spec
=============================================================================
