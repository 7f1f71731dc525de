------------------------------ MODULE SharedLb ------------------------------
(***************************************************************************)
(* One load balancer shared by several clusters: its tags as the only      *)
(* thing the clusters' controllers know of one another.  deploy_tag.go,    *)
(* delete_tag.go and delete_lb.go of internal/usecase/lbc_uc, over the     *)
(* cached reads of internal/repository/vngcloud_repo.                      *)
(*                                                                         *)
(* vng.vks.cluster.ids (users) lists the clusters on the load balancer,    *)
(* the created-by tag (by) names the one that made it.  CreateTags         *)
(* overwrites the whole set and the API has no compare-and-swap, so every  *)
(* change is a read, a merge and a write, and controllers interleave.      *)
(* Each controller process keeps the tags it last read (cache), which      *)
(* any of its reconciles may use until they expire or are invalidated.     *)
(*                                                                         *)
(* An LBC pins the load balancer, claims it in the tags, fills it in a     *)
(* later reconcile, and leaves: deleted, or re-pinned elsewhere.  The      *)
(* latter tears down without the load balancer's mutex.                    *)
(***************************************************************************)
EXTENDS Naturals, FiniteSets

CONSTANTS
  Cluster,    \* the clusters, one controller process each
  LBC,        \* the LoadBalancerConfigs that may use the load balancer
  ClusterOf,  \* the cluster an LBC lives in
  Maker,      \* the LBC that created the load balancer; None: the user did
  None, User,
  Rosters,    \* the sets of LBCs that may come to use it, beside the maker
  Repins,     \* the LBCs the user may re-pin to another load balancer
  Early,      \* the LBCs that may be deleted before their first reconcile
  MaxBusy,    \* bound on the clusters whose controllers work at the same time
  Failing,    \* the clusters whose calls may fail and processes may crash
  MaxFaults   \* bound on how often that happens

ASSUME SharedAssumption ==
  /\ ClusterOf \in [LBC -> Cluster]
  /\ Maker \in LBC \cup {None} /\ Rosters \subseteq SUBSET LBC
  /\ Repins \subseteq LBC /\ Early \subseteq LBC
  /\ Failing \subseteq Cluster
  /\ None \notin Cluster /\ None \notin LBC /\ User \notin LBC
  /\ MaxBusy \in Nat /\ MaxFaults \in Nat

VARIABLES
  alive,      \* the vLB service: the load balancer exists
  tags,       \* its tags
  on,         \* whose listeners and pools it carries
  cache,      \* tagCache of each controller: tags, or none remembered
  phase,      \* new, live, retiring (re-pinned elsewhere), deleting, gone
  known,      \* status.loadBalancerId is set
  booked,     \* status.createdListeners and createdPools: what to take off
  pc, seen,   \* the running reconcile: its next step, the tags it last read
  fetched,    \* ... straight from the API, not yet put into the cache
  first,      \* it is the one that adopted the load balancer
  lock,       \* lbLocks of each controller, the load balancer's mutex
  late,       \* history: who put something on it between the check of an LBC's
              \* teardown that it may go and the call that deletes it
  faults

cloud == <<alive, tags, on>>
object == <<phase, known, booked>>
run == <<pc, seen, fetched, first, lock, late>>
vars == <<cloud, cache, object, run, faults>>

Tags == [users : SUBSET Cluster, by : Cluster \cup {None}]
NoTags == [users |-> {}, by |-> None]

\* The steps that call ListTags.  "look" and "dropLook" may use what the cache
\* holds from before; the others have invalidated it.
Listing == {"look", "read", "ask", "askAgain", "dropLook", "dropRead"}
PC == Listing \cup
  {"idle", "write", "flush", "fill", "strip", "checkEmpty", "deleteLb",
   "dropWrite", "dropFlush", "finish"}

\* The maker is in the reconcile that created the load balancer, which holds no
\* mutex; the request may have carried its first listener and pool.
Init ==
  /\ alive = TRUE
  /\ tags = NoTags
  /\ on \in {{}, {IF Maker = None THEN User ELSE Maker}}
  /\ cache = [c \in Cluster |-> None]
  /\ \E r \in Rosters :
       phase = [l \in LBC |-> IF l = Maker THEN "live" ELSE IF l \in r THEN "new" ELSE "gone"]
  /\ known = [l \in LBC |-> l = Maker]
  /\ booked = [l \in LBC |-> FALSE]
  /\ pc = [l \in LBC |-> IF l = Maker THEN "look" ELSE "idle"]
  /\ seen = [l \in LBC |-> NoTags]
  /\ fetched = [l \in LBC |-> FALSE]
  /\ first = [l \in LBC |-> FALSE]
  /\ lock = [c \in Cluster |-> None]
  /\ late = [l \in LBC |-> {}]
  /\ faults = 0

-----------------------------------------------------------------------------
Goto(l, p) == pc' = [pc EXCEPT ![l] = p]

\* The reconcile is over, and with it what it had read.
Return(l) ==
  /\ Goto(l, "idle")
  /\ seen' = [seen EXCEPT ![l] = NoTags]
  /\ fetched' = [fetched EXCEPT ![l] = FALSE]
  /\ first' = [first EXCEPT ![l] = FALSE]
  /\ lock' = [c \in Cluster |-> IF lock[c] = l THEN None ELSE lock[c]]

\* InvalidateTagsCache: the next ListTags of this controller reads through.
Invalidate(l) == cache' = [cache EXCEPT ![ClusterOf[l]] = None]

\* Mutant of HasOtherLBC: siblings are not looked for.
HasNoOther(l) == FALSE

\* loadBalancerHasOtherLBC: by status or by pin, unless it is being deleted.
HasOtherLBC(l) ==
  \E k \in LBC \ {l} : ClusterOf[k] = ClusterOf[l] /\ phase[k] = "live"

\* Mutant of Claim: our id is written only where nobody else's is.
ClaimUnlisted(l, t) ==
  [users |-> IF t.users = {} THEN {ClusterOf[l]} ELSE t.users,
   by |-> IF l = Maker THEN ClusterOf[l] ELSE t.by]

\* deployTags: our id joins the list; only the maker asserts provenance.
Claim(l, t) ==
  [users |-> t.users \cup {ClusterOf[l]},
   by |-> IF l = Maker THEN ClusterOf[l] ELSE t.by]

\* deleteRedundantTags: our id comes off, provenance stays.
Release(l, t) == [t EXCEPT !.users = @ \ {ClusterOf[l]}]

\* createdByThisCluster: the tag decides where there is one; without it only
\* the maker has a record, every other LBC has adopted the load balancer.
CreatedByThisCluster(l, t) ==
  IF t.by # None THEN t.by = ClusterOf[l] ELSE l = Maker

\* Mutants of LastClusterOutOf: whoever made it; only its maker may delete it.
LastOutOfAnything(l, t) == t.users = {ClusterOf[l]} /\ ~HasOtherLBC(l)

NeverLastOut(l, t) == FALSE

\* lastClusterOutOf: some cluster made it and ours is the last one listed.
LastClusterOutOf(l, t) ==
  t.by # None /\ t.users = {ClusterOf[l]} /\ ~HasOtherLBC(l)

\* Mutant of CanDeleteWhole: ownership is enough.
CoversAnything(l) == TRUE

\* canDeleteWholeLoadBalancer: all that is on it is on our books.
CanDeleteWhole(l) == on \subseteq (IF booked[l] THEN {l} ELSE {})

-----------------------------------------------------------------------------
(* A reconcile: Ensure, Delete, or the teardown of a retiring load balancer. *)

BusyElsewhere(l) ==
  {ClusterOf[k] : k \in {k \in LBC : pc[k] # "idle"}} \ {ClusterOf[l]}

\* The tag work of the reconcile is next; what precedes it for a live LBC is
\* the status patch of ensureExistLoadBalancer.
Begin(l) ==
  LET c == ClusterOf[l]
  IN /\ pc[l] = "idle"
     /\ Cardinality(BusyElsewhere(l)) < MaxBusy
     /\ \/ /\ phase[l] = "live" /\ alive
           /\ Goto(l, "look")
           /\ first' = [first EXCEPT ![l] = ~known[l]]
           /\ known' = [known EXCEPT ![l] = TRUE]
           /\ UNCHANGED cache
        \/ /\ phase[l] = "deleting" /\ alive /\ known[l]
           /\ Goto(l, "ask")
           /\ Invalidate(l)
           /\ UNCHANGED <<first, known>>
        \/ /\ phase[l] = "retiring" /\ alive
           /\ Goto(l, "strip")
           /\ UNCHANGED <<first, known, cache>>
        \/ /\ phase[l] \in {"deleting", "retiring"} /\ ~(alive /\ known[l])
           /\ Goto(l, "finish")
           /\ UNCHANGED <<first, known, cache>>
     /\ IF phase[l] = "retiring" THEN UNCHANGED lock
        ELSE lock[c] = None /\ lock' = [lock EXCEPT ![c] = l]
     /\ late' = [late EXCEPT ![l] = {}]
     /\ UNCHANGED <<cloud, phase, booked, seen, fetched, faults>>

\* ListTags, a miss: the API answers; the answer is put into the cache only
\* when the call returns, whatever happened to the tags meanwhile.
Fetch(l) ==
  /\ pc[l] \in Listing /\ ~fetched[l]
  /\ cache[ClusterOf[l]] = None
  /\ alive
  /\ seen' = [seen EXCEPT ![l] = tags]
  /\ fetched' = [fetched EXCEPT ![l] = TRUE]
  /\ UNCHANGED <<cloud, cache, object, pc, first, lock, late, faults>>

\* The tags ListTags returns: fetched, or remembered.
Listed(l, t) ==
  \/ fetched[l] /\ t = seen[l]
  \/ ~fetched[l] /\ cache[ClusterOf[l]] # None /\ t = cache[ClusterOf[l]]

\* ListTags returns t and the reconcile goes on to p, remembering t (a hit
\* leaves the cache as it is), or forgetting it first when forget is TRUE.
After(l, t, p, forget) ==
  /\ Goto(l, p)
  /\ seen' = [seen EXCEPT ![l] = t]
  /\ fetched' = [fetched EXCEPT ![l] = FALSE]
  /\ cache' = [cache EXCEPT ![ClusterOf[l]] = IF forget THEN None ELSE t]
  /\ UNCHANGED <<cloud, object, first, lock, late, faults>>

\* ensureTags of deployTags: a read that may be cached decides whether there
\* is anything to write, a second one, after an invalidation, what to write.
DiffClaim(l) ==
  \E t \in Tags :
    /\ Listed(l, t)
    /\ \/ /\ pc[l] = "look"
          /\ IF Claim(l, t) = t THEN After(l, t, "fill", FALSE)
             ELSE After(l, t, "read", TRUE)
       \/ /\ pc[l] = "read"
          /\ After(l, t, IF Claim(l, t) = t THEN "fill" ELSE "write", FALSE)

\* deleteLoadBalancer: whose it is, by tags just read, and what it carries.
Ask(l) ==
  \E t \in Tags :
    /\ pc[l] = "ask" /\ Listed(l, t)
    /\ LET ours == CreatedByThisCluster(l, t) \/ LastClusterOutOf(l, t)
       IN After(l, t, IF ours /\ CanDeleteWhole(l) THEN "deleteLb" ELSE "strip", FALSE)

\* ... and once more after the clearing, where somebody else had made it.
AskAgain(l) ==
  \E t \in Tags :
    /\ pc[l] = "askAgain" /\ Listed(l, t)
    /\ After(l, t, IF LastClusterOutOf(l, t) THEN "deleteLb" ELSE "dropLook", FALSE)

\* ensureTags of deleteRedundantTags.  Whether a sibling is left is looked up
\* with the first read and remembered for the second.
DiffRelease(l) ==
  \E t \in Tags :
    /\ Listed(l, t)
    /\ \/ /\ pc[l] = "dropLook"
          /\ IF Release(l, t) = t \/ HasOtherLBC(l)
             THEN After(l, t, "finish", FALSE) ELSE After(l, t, "dropRead", TRUE)
       \/ /\ pc[l] = "dropRead"
          /\ After(l, t, IF Release(l, t) = t THEN "finish" ELSE "dropWrite", FALSE)

\* CreateTags: the whole set is overwritten by what was computed from seen.
CreateTags(l) ==
  /\ alive
  /\ \/ /\ pc[l] = "write" /\ Goto(l, "flush")
        /\ tags' = Claim(l, seen[l])
     \/ /\ pc[l] = "dropWrite" /\ Goto(l, "dropFlush")
        /\ tags' = Release(l, seen[l])
  /\ UNCHANGED <<alive, on, cache, object, seen, fetched, first, lock, late, faults>>

\* ... and `defer m.tagCache.invalidate(resourceID)`.
Flush(l) ==
  /\ \/ pc[l] = "flush" /\ Goto(l, "fill")
     \/ pc[l] = "dropFlush" /\ Goto(l, "finish")
  /\ Invalidate(l)
  /\ UNCHANGED <<cloud, object, seen, fetched, first, lock, late, faults>>

\* The LBCs whose teardown has seen that it may delete the load balancer and
\* has not done so yet.  The mutex of one controller keeps the others out, but
\* for the maker's first pass, which does not hold it.
Overtaken(l) ==
  {k \in LBC \ {l} :
     /\ pc[k] \in {"askAgain", "deleteLb"}
     /\ ClusterOf[k] # ClusterOf[l] \/ (l = Maker /\ ~booked[l])}

\* The rest of deploy(): the pass that adopted the load balancer ends before
\* anything is put on it ("new load balancer ID obtained, requeue needed").
Fill(l) ==
  /\ pc[l] = "fill"
  /\ IF ~first[l] /\ alive
     THEN /\ on' = on \cup {l}
          /\ booked' = [booked EXCEPT ![l] = TRUE]
          /\ late' = [k \in LBC |-> late[k] \cup (IF k \in Overtaken(l) THEN {l} ELSE {})]
     ELSE UNCHANGED <<on, booked, late>>
  /\ Return(l)
  /\ UNCHANGED <<alive, tags, cache, phase, known, faults>>

-----------------------------------------------------------------------------
(* Leaving. *)

Strip(l) ==
  /\ pc[l] = "strip"
  /\ on' = IF booked[l] THEN on \ {l} ELSE on
  /\ Goto(l, IF phase[l] = "retiring" THEN "dropLook" ELSE "checkEmpty")
  /\ UNCHANGED <<alive, tags, cache, object, seen, fetched, first, lock, late, faults>>

\* isLoadBalancerEmpty: one that this cluster made goes at once, for another
\* the tags are read again.
CheckEmpty(l) ==
  /\ pc[l] = "checkEmpty"
  /\ \/ /\ on # {} /\ Goto(l, "dropLook")
        /\ UNCHANGED cache
     \/ /\ on = {} /\ CreatedByThisCluster(l, seen[l]) /\ Goto(l, "deleteLb")
        /\ UNCHANGED cache
     \/ /\ on = {} /\ ~CreatedByThisCluster(l, seen[l]) /\ Goto(l, "askAgain")
        /\ Invalidate(l)
  /\ UNCHANGED <<cloud, object, seen, fetched, first, lock, late, faults>>

DeleteLoadBalancer(l) ==
  /\ pc[l] = "deleteLb"
  /\ alive
  /\ alive' = FALSE
  /\ on' = {}
  /\ Goto(l, "finish")
  /\ UNCHANGED <<tags, cache, object, seen, fetched, first, lock, late, faults>>

\* The finalizer comes off, or the retiring record does.
Finish(l) ==
  /\ pc[l] = "finish"
  /\ phase' = [phase EXCEPT ![l] = "gone"]
  /\ Return(l)
  /\ UNCHANGED <<cloud, cache, known, booked, late, faults>>

\* A call to a load balancer deleted meanwhile fails, and so does the reconcile.
NotFound(l) ==
  /\ ~alive
  /\ \/ pc[l] \in Listing /\ ~fetched[l] /\ cache[ClusterOf[l]] = None
     \/ pc[l] \in {"write", "dropWrite", "deleteLb"}
  /\ Return(l)
  /\ UNCHANGED <<cloud, cache, object, late, faults>>

-----------------------------------------------------------------------------
(* The environment. *)

\* An LBC is created with the load balancer pinned, in some cluster, perhaps
\* while the maker is still in the pass that made it.
Join(l) ==
  /\ phase[l] = "new" /\ alive
  /\ phase' = [phase EXCEPT ![l] = "live"]
  /\ UNCHANGED <<cloud, cache, known, booked, run, faults>>

\* It is deleted, or re-pinned: a migration, which has reached its teardown
\* only after earlier reconciles had been over.
Leave(l) ==
  /\ phase[l] = "live"
  /\ \/ (known[l] \/ l \in Early) /\ phase' = [phase EXCEPT ![l] = "deleting"]
     \/ l \in Repins /\ known[l] /\ pc[l] = "idle" /\ phase' = [phase EXCEPT ![l] = "retiring"]
  /\ UNCHANGED <<cloud, cache, known, booked, run, faults>>

\* An entry of the ttlCache expires or is evicted.
Expire(c) ==
  /\ cache[c] # None
  /\ cache' = [cache EXCEPT ![c] = None]
  /\ UNCHANGED <<cloud, object, run, faults>>

\* A call returns an error.  CreateTags invalidates the cache all the same,
\* and it may have failed after it was applied.
Fault(l) ==
  /\ pc[l] # "idle" /\ ClusterOf[l] \in Failing /\ faults < MaxFaults
  /\ faults' = faults + 1
  /\ Return(l)
  /\ IF pc[l] \in {"write", "flush", "dropWrite", "dropFlush"}
     THEN Invalidate(l) ELSE UNCHANGED cache
  /\ UNCHANGED <<cloud, object, late>>

\* A controller process stops and another takes over: cache and mutex are lost.
Crash(c) ==
  LET ended(f, v) == [l \in LBC |-> IF ClusterOf[l] = c THEN v ELSE f[l]]
  IN /\ c \in Failing /\ faults < MaxFaults
     /\ faults' = faults + 1
     /\ pc' = ended(pc, "idle") /\ seen' = ended(seen, NoTags)
     /\ fetched' = ended(fetched, FALSE) /\ first' = ended(first, FALSE)
     /\ lock' = [lock EXCEPT ![c] = None]
     /\ cache' = [cache EXCEPT ![c] = None]
     /\ UNCHANGED <<cloud, object, late>>

-----------------------------------------------------------------------------
Reconcile(l) ==
  \/ Begin(l) \/ Fetch(l) \/ DiffClaim(l) \/ Ask(l) \/ AskAgain(l)
  \/ DiffRelease(l) \/ CreateTags(l) \/ Flush(l) \/ Fill(l) \/ Strip(l)
  \/ CheckEmpty(l) \/ DeleteLoadBalancer(l) \/ Finish(l) \/ NotFound(l)

Next ==
  \/ \E l \in LBC : Reconcile(l) \/ Join(l) \/ Leave(l) \/ Fault(l)
  \/ \E c \in Cluster : Expire(c) \/ Crash(c)

Spec == Init /\ [][Next]_vars

\* The work queue and the resync bring every LBC back, mutexes are starvation
\* free, entries of the cache expire.  Users and faults owe nothing.
Fairness ==
  /\ \A l \in LBC : WF_vars(Reconcile(l)) /\ SF_vars(Begin(l))
  /\ \A c \in Cluster : WF_vars(Expire(c))

FairSpec == Spec /\ Fairness

-----------------------------------------------------------------------------
\* The state, status and the running reconciles included, is well formed.
TypeOK ==
  /\ alive \in BOOLEAN
  /\ tags \in Tags
  /\ on \in SUBSET (LBC \cup {User})
  /\ cache \in [Cluster -> Tags \cup {None}]
  /\ phase \in [LBC -> {"new", "live", "retiring", "deleting", "gone"}]
  /\ known \in [LBC -> BOOLEAN]
  /\ booked \in [LBC -> BOOLEAN]
  /\ pc \in [LBC -> PC]
  /\ seen \in [LBC -> Tags]
  /\ fetched \in [LBC -> BOOLEAN]
  /\ first \in [LBC -> BOOLEAN]
  /\ lock \in [Cluster -> LBC \cup {None}]
  /\ late \in [LBC -> SUBSET LBC]
  /\ faults \in Nat

\* lastClusterOutOf: being the last to leave a load balancer the user brought
\* confers nothing, it is never deleted.
UserLbKept == Maker = None => alive

\* lastClusterOutOf: when everybody has left, a load balancer that a cluster
\* made does not go on being billed, whoever leaves last; but for one that is
\* re-pinned, whose teardown keeps the load balancer.
LbReclaimed ==
  /\ Maker # None /\ \A l \in LBC : phase[l] \in {"new", "gone"}
  /\ \A l \in Repins : ~known[l]
  => ~alive

\* deleteRedundantTags, loadBalancerHasOtherLBC: a cluster with nothing left on
\* the load balancer is no longer listed on it, and an LBC that leaves does not
\* take the id with it while a sibling has its resources there.
IdsInStep ==
  alive =>
    /\ \A c \in tags.users :
         \E l \in LBC : ClusterOf[l] = c /\ phase[l] \notin {"new", "gone"}
    /\ \A l \in on \cap LBC :
         phase[l] = "live" /\ booked[l] => ClusterOf[l] \in tags.users

\* canDeleteWholeLoadBalancer, isLoadBalancerEmpty: only an LBC that is being
\* deleted deletes the load balancer, and what goes with it is its own, or was
\* put there after the check by one that no mutex keeps out.
ServingLbNeverDeleted ==
  [][alive /\ ~alive' =>
       \E k \in LBC : /\ phase[k] = "deleting" /\ pc[k] = "deleteLb" /\ pc'[k] = "finish"
                      /\ on \subseteq {k} \cup late[k]]_vars

\* lastClusterOutOf: the creator "cannot delete it, because the second cluster
\* is still serving from it", and neither can anybody else.
ServedNotDeleted ==
  [][alive /\ ~alive' => \A l \in on : l \in LBC /\ phase[l] = "deleting"]_vars

\* ensureTags: a claim that a concurrent write dropped is written again.
ClaimHeals ==
  \A l \in LBC :
    phase[l] = "live" ~> \/ ClusterOf[l] \in tags.users
                        \/ phase[l] # "live" \/ ~alive

=============================================================================
