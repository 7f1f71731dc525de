--------------------------- MODULE SharedLbProofs ---------------------------
(***************************************************************************)
(* For any number of clusters and LBCs, any interleaving of their          *)
(* controllers and any number of faults, a load balancer the user brought  *)
(* is never deleted by the clusters that share it: nobody made it, so no   *)
(* LBC ever asserts provenance; the created-by tag stays absent on the     *)
(* load balancer, in every cache and in every answer a reconcile holds     *)
(* (Unmade), and without it neither createdByThisCluster nor               *)
(* lastClusterOutOf lets a teardown go on to the deletion.                 *)
(*                                                                         *)
(* Nor does a deletion take anything from a load balancer but what its own *)
(* LBC has there: from the check that it may go to the call that deletes   *)
(* it the mutex keeps the LBCs of the same cluster out (HeldInv), but for  *)
(* the pass that makes the load balancer, which has none; what those and   *)
(* other clusters put there in between is named in late.                   *)
(* The list of clusters in the tags cannot be relied upon while two        *)
(* reconciles read, merge and write it at once.  For behaviours in which   *)
(* they take turns (OneAtATime) the module proves that it is right         *)
(* (TurnInv, Accounted), however old the caches are.                       *)
(***************************************************************************)
EXTENDS SharedLb, FiniteSetTheorems, TLAPS

\* What keeps a user's load balancer alive, as an inductive invariant.
Unmade ==
  /\ alive
  /\ tags.by = None
  /\ \A c \in Cluster : cache[c] # None => cache[c].by = None
  /\ \A l \in LBC : seen[l].by = None
  /\ \A l \in LBC : pc[l] # "deleteLb"

IInv == TypeOK /\ (Maker = None => Unmade)

-----------------------------------------------------------------------------
\* Claim and Release map tags to tags and, where nobody is the maker, leave the
\* created-by tag as it is.
LEMMA TagEdits ==
  ASSUME NEW l \in LBC, NEW t \in Tags
  PROVE  /\ Claim(l, t) \in Tags /\ Release(l, t) \in Tags
         /\ Release(l, t).by = t.by
         /\ Maker = None => Claim(l, t).by = t.by
  BY SharedAssumption DEF Claim, Release, Tags

\* Without the tag, a load balancer that no LBC made is nobody's to delete.
LEMMA NobodysToDelete ==
  ASSUME NEW l \in LBC, NEW t \in Tags, Maker = None, t.by = None
  PROVE  ~CreatedByThisCluster(l, t) /\ ~LastClusterOutOf(l, t)
  BY SharedAssumption DEF CreatedByThisCluster, LastClusterOutOf

\* What ListTags returns has a type and, where nobody made the load balancer,
\* no created-by tag.
LEMMA ListedTags ==
  ASSUME IInv, NEW l \in LBC, NEW t \in Tags, Listed(l, t), Maker = None
  PROVE  t.by = None
  BY SharedAssumption DEF IInv, Unmade, Listed, TypeOK

\* The tags of a reconcile that holds none.
LEMMA NoTagsType == NoTags \in Tags /\ NoTags.by = None
  BY DEF NoTags, Tags

-----------------------------------------------------------------------------
\* The initial states satisfy the invariant.
LEMMA InitIInv == Init => IInv
<1> SUFFICES ASSUME Init PROVE IInv
  OBVIOUS
<1>2. TypeOK
  <2>1. on \in SUBSET (LBC \cup {User})
    BY SharedAssumption DEF Init
  <2> QED
    BY NoTagsType, <2>1, SharedAssumption DEF Init, TypeOK, PC, Listing
<1>3. Maker = None => Unmade
  BY NoTagsType, SharedAssumption DEF Init, Unmade
<1> QED
  BY <1>2, <1>3 DEF IInv

\* Begin preserves the invariant.
LEMMA BeginStep ==
  ASSUME IInv, NEW l \in LBC, Begin(l)
  PROVE  IInv'
<1>1. \E p \in PC \ {"deleteLb"} : Goto(l, p)
  BY DEF Begin, PC, Listing
<1>2. pc' \in [LBC -> PC]
  BY <1>1 DEF IInv, TypeOK, Goto
<1>3. cache' = cache \/ Invalidate(l)
  BY DEF Begin
<1>4. cache' \in [Cluster -> Tags \cup {None}]
  BY <1>3, SharedAssumption DEF IInv, TypeOK, Invalidate
<1>5. known' \in [LBC -> BOOLEAN] /\ first' \in [LBC -> BOOLEAN]
  BY DEF IInv, TypeOK, Begin
<1>6. lock' \in [Cluster -> LBC \cup {None}]
  BY SharedAssumption DEF IInv, TypeOK, Begin
<1>7. /\ UNCHANGED <<alive, tags, on, phase, booked, seen, fetched, faults>>
      /\ late' \in [LBC -> SUBSET LBC]
  BY DEF IInv, TypeOK, Begin, cloud
<1>8. TypeOK'
  BY <1>2, <1>4, <1>5, <1>6, <1>7 DEF IInv, TypeOK
<1>9. Maker = None => Unmade'
  BY <1>1, <1>3, <1>7, SharedAssumption DEF IInv, TypeOK, Unmade, Goto, Invalidate
<1> QED
  BY <1>8, <1>9 DEF IInv

\* Fetch preserves the invariant.
LEMMA FetchStep ==
  ASSUME IInv, NEW l \in LBC, Fetch(l)
  PROVE  IInv'
<1>1. TypeOK'
  BY SharedAssumption DEF IInv, TypeOK, Fetch, PC, Listing, cloud, object, run, vars
<1>2. Maker = None => Unmade'
  BY SharedAssumption DEF IInv, TypeOK, Unmade, Fetch, PC, Listing, cloud, object, run, vars
<1> QED
  BY <1>1, <1>2 DEF IInv

\* The steps that follow a ListTags.
LEMMA AfterStep ==
  ASSUME IInv, NEW l \in LBC, NEW t \in Tags, NEW p \in PC,
         NEW forget \in BOOLEAN, After(l, t, p, forget),
         Maker = None => t.by = None /\ p # "deleteLb"
  PROVE  IInv'
<1> DEFINE kept == IF forget THEN None ELSE t
<1>1. kept \in Tags \cup {None} /\ (Maker = None /\ kept # None => kept.by = None)
  OBVIOUS
<1>2. cache' = [cache EXCEPT ![ClusterOf[l]] = kept]
  BY DEF After
<1> HIDE DEF kept
<1>3. cache' \in [Cluster -> Tags \cup {None}]
  BY <1>1, <1>2, SharedAssumption DEF IInv, TypeOK
<1>4. TypeOK'
  BY <1>3 DEF IInv, TypeOK, After, Goto, cloud, object
<1>5. Maker = None => Unmade'
  BY <1>1, <1>2, SharedAssumption DEF IInv, TypeOK, Unmade, After, Goto, cloud
<1> QED
  BY <1>4, <1>5 DEF IInv

\* DiffClaim preserves the invariant.
LEMMA DiffClaimStep ==
  ASSUME IInv, NEW l \in LBC, DiffClaim(l)
  PROVE  IInv'
<1>1. PICK t \in Tags : Listed(l, t) /\ DiffClaim(l)!(t)
  BY DEF DiffClaim
<1>2. Maker = None => t.by = None
  BY <1>1, ListedTags
<1>3. \/ After(l, t, "fill", FALSE)
      \/ After(l, t, "read", TRUE)
      \/ After(l, t, "write", FALSE)
  BY <1>1
<1>4. {"fill", "read", "write"} \subseteq PC \ {"deleteLb"}
  BY DEF PC, Listing
<1> QED
  BY <1>2, <1>3, <1>4, AfterStep

\* Ask preserves the invariant.
LEMMA AskStep ==
  ASSUME IInv, NEW l \in LBC, Ask(l)
  PROVE  IInv'
<1>1. PICK t \in Tags : Listed(l, t) /\ Ask(l)!(t)
  BY DEF Ask
<1>2. Maker = None => t.by = None
  BY <1>1, ListedTags
<1>3. \/ After(l, t, "strip", FALSE)
      \/ After(l, t, "deleteLb", FALSE) /\ Maker # None
  BY <1>1, <1>2, NobodysToDelete
<1>4. {"strip", "deleteLb"} \subseteq PC
  BY DEF PC, Listing
<1> QED
  BY <1>2, <1>3, <1>4, AfterStep

\* AskAgain preserves the invariant.
LEMMA AskAgainStep ==
  ASSUME IInv, NEW l \in LBC, AskAgain(l)
  PROVE  IInv'
<1>1. PICK t \in Tags : Listed(l, t) /\ AskAgain(l)!(t)
  BY DEF AskAgain
<1>2. Maker = None => t.by = None
  BY <1>1, ListedTags
<1>3. \/ After(l, t, "dropLook", FALSE)
      \/ After(l, t, "deleteLb", FALSE) /\ Maker # None
  BY <1>1, <1>2, NobodysToDelete
<1>4. {"dropLook", "deleteLb"} \subseteq PC
  BY DEF PC, Listing
<1> QED
  BY <1>2, <1>3, <1>4, AfterStep

\* DiffRelease preserves the invariant.
LEMMA DiffReleaseStep ==
  ASSUME IInv, NEW l \in LBC, DiffRelease(l)
  PROVE  IInv'
<1>1. PICK t \in Tags : Listed(l, t) /\ DiffRelease(l)!(t)
  BY DEF DiffRelease
<1>2. Maker = None => t.by = None
  BY <1>1, ListedTags
<1>3. \/ After(l, t, "finish", FALSE)
      \/ After(l, t, "dropRead", TRUE)
      \/ After(l, t, "dropWrite", FALSE)
  BY <1>1
<1>4. {"finish", "dropRead", "dropWrite"} \subseteq PC \ {"deleteLb"}
  BY DEF PC, Listing
<1> QED
  BY <1>2, <1>3, <1>4, AfterStep

\* CreateTags preserves the invariant.
LEMMA CreateTagsStep ==
  ASSUME IInv, NEW l \in LBC, CreateTags(l)
  PROVE  IInv'
<1>1. seen[l] \in Tags
  BY DEF IInv, TypeOK
<1>2. tags' \in Tags /\ (Maker = None => tags'.by = seen[l].by)
  BY <1>1, TagEdits DEF CreateTags
<1>3. \E p \in PC \ {"deleteLb"} : Goto(l, p)
  BY DEF CreateTags, PC, Listing
<1>4. UNCHANGED <<alive, on, cache, object, seen, fetched, first, lock, late, faults>>
  BY DEF CreateTags
<1>5. TypeOK'
  BY <1>2, <1>3, <1>4 DEF IInv, TypeOK, Goto, object
<1>6. Maker = None => Unmade'
  BY <1>2, <1>3, <1>4 DEF IInv, TypeOK, Unmade, Goto
<1> QED
  BY <1>5, <1>6 DEF IInv

\* Flush preserves the invariant.
LEMMA FlushStep ==
  ASSUME IInv, NEW l \in LBC, Flush(l)
  PROVE  IInv'
<1>1. TypeOK'
  BY SharedAssumption DEF IInv, TypeOK, Flush, Goto, Invalidate, PC, Listing, cloud, object, run, vars
<1>2. Maker = None => Unmade'
  BY SharedAssumption DEF IInv, TypeOK, Unmade, Flush, Goto, Invalidate, PC, Listing, cloud, object, run, vars
<1> QED
  BY <1>1, <1>2 DEF IInv

\* Fill preserves the invariant.
LEMMA FillStep ==
  ASSUME IInv, NEW l \in LBC, Fill(l)
  PROVE  IInv'
<1>1. on' \in SUBSET (LBC \cup {User}) /\ booked' \in [LBC -> BOOLEAN]
  <2>1. CASE ~first[l] /\ alive
    <3>1. on' = on \cup {l} /\ booked' = [booked EXCEPT ![l] = TRUE]
      BY <2>1 DEF Fill
    <3> QED
      BY <3>1 DEF IInv, TypeOK
  <2>2. CASE ~(~first[l] /\ alive)
    BY <2>2 DEF IInv, TypeOK, Fill
  <2> QED
    BY <2>1, <2>2
<1>2. Return(l) /\ UNCHANGED <<alive, tags, cache, phase, known, faults>>
  BY DEF Fill
<1>3. late' \in [LBC -> SUBSET LBC]
  BY DEF IInv, TypeOK, Fill
<1>4. TypeOK'
  BY <1>1, <1>2, <1>3, NoTagsType DEF IInv, TypeOK, Return, Goto, PC
<1>5. Maker = None => Unmade'
  BY <1>2, NoTagsType DEF IInv, TypeOK, Unmade, Return, Goto
<1> QED
  BY <1>4, <1>5 DEF IInv

\* Strip preserves the invariant.
LEMMA StripStep ==
  ASSUME IInv, NEW l \in LBC, Strip(l)
  PROVE  IInv'
<1>1. TypeOK'
  BY SharedAssumption DEF IInv, TypeOK, Strip, Goto, PC, Listing, cloud, object, run, vars
<1>2. Maker = None => Unmade'
  BY SharedAssumption DEF IInv, TypeOK, Unmade, Strip, Goto, PC, Listing, cloud, object, run, vars
<1> QED
  BY <1>1, <1>2 DEF IInv

\* CheckEmpty preserves the invariant.
LEMMA CheckEmptyStep ==
  ASSUME IInv, NEW l \in LBC, CheckEmpty(l)
  PROVE  IInv'
<1>1. Maker = None => ~CreatedByThisCluster(l, seen[l])
  BY NobodysToDelete DEF IInv, TypeOK, Unmade
<1>2. PICK p \in PC : Goto(l, p) /\ (Maker = None => p # "deleteLb")
  BY <1>1 DEF CheckEmpty, PC, Listing
<1>3. cache' = cache \/ Invalidate(l)
  BY DEF CheckEmpty
<1>4. UNCHANGED <<cloud, object, seen, fetched, first, lock, late, faults>>
  BY DEF CheckEmpty
<1>5. TypeOK'
  BY <1>2, <1>3, <1>4, SharedAssumption
     DEF IInv, TypeOK, Goto, Invalidate, cloud, object
<1>6. Maker = None => Unmade'
  BY <1>2, <1>3, <1>4, SharedAssumption
     DEF IInv, TypeOK, Unmade, Goto, Invalidate, cloud
<1> QED
  BY <1>5, <1>6 DEF IInv

\* DeleteLoadBalancer preserves the invariant.
LEMMA DeleteLoadBalancerStep ==
  ASSUME IInv, NEW l \in LBC, DeleteLoadBalancer(l)
  PROVE  IInv'
<1>1. TypeOK'
  BY SharedAssumption DEF IInv, TypeOK, DeleteLoadBalancer, Goto, PC, Listing, cloud, object, run, vars
<1>2. Maker = None => Unmade'
  BY SharedAssumption DEF IInv, TypeOK, Unmade, DeleteLoadBalancer, Goto, PC, Listing, cloud, object, run, vars
<1> QED
  BY <1>1, <1>2 DEF IInv

\* Finish preserves the invariant.
LEMMA FinishStep ==
  ASSUME IInv, NEW l \in LBC, Finish(l)
  PROVE  IInv'
<1>1. TypeOK'
  BY SharedAssumption, NoTagsType DEF IInv, TypeOK, Finish, Return, Goto, PC, Listing, cloud, object, run, vars
<1>2. Maker = None => Unmade'
  BY SharedAssumption, NoTagsType DEF IInv, TypeOK, Unmade, Finish, Return, Goto, PC, Listing, cloud, object, run, vars
<1> QED
  BY <1>1, <1>2 DEF IInv

\* NotFound preserves the invariant.
LEMMA NotFoundStep ==
  ASSUME IInv, NEW l \in LBC, NotFound(l)
  PROVE  IInv'
<1>1. TypeOK'
  BY SharedAssumption, NoTagsType DEF IInv, TypeOK, NotFound, Return, Goto, PC, Listing, cloud, object, run, vars
<1>2. Maker = None => Unmade'
  BY SharedAssumption, NoTagsType DEF IInv, TypeOK, Unmade, NotFound, Return, Goto, PC, Listing, cloud, object, run, vars
<1> QED
  BY <1>1, <1>2 DEF IInv

\* Join preserves the invariant.
LEMMA JoinStep ==
  ASSUME IInv, NEW l \in LBC, Join(l)
  PROVE  IInv'
<1>1. TypeOK'
  BY SharedAssumption DEF IInv, TypeOK, Join, PC, Listing, cloud, object, run, vars
<1>2. Maker = None => Unmade'
  BY SharedAssumption DEF IInv, TypeOK, Unmade, Join, PC, Listing, cloud, object, run, vars
<1> QED
  BY <1>1, <1>2 DEF IInv

\* Leave preserves the invariant.
LEMMA LeaveStep ==
  ASSUME IInv, NEW l \in LBC, Leave(l)
  PROVE  IInv'
<1>1. TypeOK'
  BY SharedAssumption DEF IInv, TypeOK, Leave, PC, Listing, cloud, object, run, vars
<1>2. Maker = None => Unmade'
  BY SharedAssumption DEF IInv, TypeOK, Unmade, Leave, PC, Listing, cloud, object, run, vars
<1> QED
  BY <1>1, <1>2 DEF IInv

\* Fault preserves the invariant.
LEMMA FaultStep ==
  ASSUME IInv, NEW l \in LBC, Fault(l)
  PROVE  IInv'
<1>1. TypeOK'
  BY SharedAssumption, NoTagsType DEF IInv, TypeOK, Fault, Return, Goto, Invalidate, PC, Listing, cloud, object, run, vars
<1>2. Maker = None => Unmade'
  BY SharedAssumption, NoTagsType DEF IInv, TypeOK, Unmade, Fault, Return, Goto, Invalidate, PC, Listing, cloud, object, run, vars
<1> QED
  BY <1>1, <1>2 DEF IInv

\* Expire and Crash preserve the invariant.
LEMMA ExpireStep ==
  ASSUME IInv, NEW c \in Cluster, Expire(c)
  PROVE  IInv'
  BY SharedAssumption DEF IInv, TypeOK, Unmade, Expire, cloud, object, run, vars

\* A controller stops: what its reconciles held is lost.
LEMMA CrashStep ==
  ASSUME IInv, NEW c \in Cluster, Crash(c)
  PROVE  IInv'
<1>1. /\ pc' \in [LBC -> PC] /\ seen' \in [LBC -> Tags]
      /\ fetched' \in [LBC -> BOOLEAN] /\ first' \in [LBC -> BOOLEAN]
      /\ lock' \in [Cluster -> LBC \cup {None}]
  BY NoTagsType DEF IInv, TypeOK, Crash, PC
<1>2. cache' \in [Cluster -> Tags \cup {None}]
  BY DEF IInv, TypeOK, Crash
<1>3. UNCHANGED <<cloud, object, late>> /\ faults' \in Nat
  BY DEF IInv, TypeOK, Crash
<1>4. TypeOK'
  BY <1>1, <1>2, <1>3 DEF IInv, TypeOK, cloud, object
<1>5. Maker = None => Unmade'
  BY <1>3, NoTagsType DEF IInv, TypeOK, Unmade, Crash, cloud
<1> QED
  BY <1>4, <1>5 DEF IInv

\* Every step preserves the invariant.
LEMMA NextIInv == IInv /\ [Next]_vars => IInv'
<1> SUFFICES ASSUME IInv, [Next]_vars PROVE IInv'
  OBVIOUS
<1>1. CASE UNCHANGED vars
  BY <1>1 DEF IInv, TypeOK, Unmade, cloud, object, run, vars
<1>2. ASSUME NEW l \in LBC, Reconcile(l) PROVE IInv'
  BY <1>2, BeginStep, FetchStep, DiffClaimStep, AskStep, AskAgainStep,
     DiffReleaseStep, CreateTagsStep, FlushStep, FillStep, StripStep,
     CheckEmptyStep, DeleteLoadBalancerStep, FinishStep, NotFoundStep
     DEF Reconcile
<1>3. ASSUME NEW l \in LBC, Join(l) \/ Leave(l) \/ Fault(l) PROVE IInv'
  BY <1>3, JoinStep, LeaveStep, FaultStep
<1>4. ASSUME NEW c \in Cluster, Expire(c) \/ Crash(c) PROVE IInv'
  BY <1>4, ExpireStep, CrashStep
<1> QED
  BY <1>1, <1>2, <1>3, <1>4 DEF Next

-----------------------------------------------------------------------------
\* Type correctness of every run of the shared load balancer.
THEOREM SharedTypeCorrect == Spec => []TypeOK
<1>1. IInv => TypeOK
  BY DEF IInv
<1> QED
  BY InitIInv, NextIInv, <1>1, PTL DEF Spec

\* lastClusterOutOf, createdByThisCluster: however many clusters share a load
\* balancer the user brought, and whatever their stale caches hold, none of
\* them deletes it.
THEOREM SharedUserLbSafe == Spec => []UserLbKept
<1>1. IInv => UserLbKept
  BY DEF IInv, Unmade, UserLbKept
<1> QED
  BY InitIInv, NextIInv, <1>1, PTL DEF Spec

-----------------------------------------------------------------------------
(* The tags of clusters that take turns.  The API has no compare-and-swap:     *)
(* this is about behaviours in which one reconcile at a time works on the load *)
(* balancer (OneAtATime), with caches that may be as old as they like.         *)

OneAtATime == \A k, l \in LBC : pc[k] # "idle" /\ pc[l] # "idle" => k = l

Work == {"look", "read", "write", "flush", "fill"}
Drop == {"dropLook", "dropRead", "dropWrite", "dropFlush"}

Siblings(l) == {k \in LBC \ {l} : ClusterOf[k] = ClusterOf[l]}

\* What a reconcile of l says about the phase of l, and what is known of it.
Phases(l) ==
  /\ phase[l] \in {"new", "gone"} => pc[l] = "idle"
  /\ phase[l] = "new" => ~known[l] /\ ~booked[l]
  /\ phase[l] \in {"deleting", "retiring"} /\ ~known[l] => l \in Early
  /\ phase[l] = "retiring" => known[l] /\ l \in Repins
  /\ pc[l] \notin {"idle", "finish"} => known[l]
  /\ booked[l] => known[l]
  /\ pc[l] \in Work => phase[l] \in {"live", "deleting"}
  /\ pc[l] \in {"ask", "checkEmpty", "askAgain", "deleteLb"} => phase[l] = "deleting"
  /\ pc[l] \in Drop \cup {"strip", "finish"} => phase[l] \in {"deleting", "retiring"}

\* What is to be written is computed from the tags as they are.
Reads(l) ==
  /\ fetched[l] => pc[l] \in Listing /\ seen[l] = tags
  /\ pc[l] \in {"read", "ask", "askAgain", "dropRead"} => cache[ClusterOf[l]] = None
  /\ pc[l] \in {"write", "dropWrite"} => seen[l] = tags

\* Whose id is in the tags.
Claims(l) ==
  /\ pc[l] \in {"flush", "fill"} => ClusterOf[l] \in tags.users
  /\ pc[l] = "dropFlush" => ClusterOf[l] \notin tags.users
  /\ pc[l] \in {"dropRead", "dropWrite"} => \A k \in Siblings(l) : phase[k] = "live" => ~booked[k]
  /\ phase[l] = "live" /\ booked[l] => ClusterOf[l] \in tags.users

\* What a load balancer still carries that is about to be deleted.
Covered(l) ==
  /\ pc[l] = "deleteLb" => on \subseteq {l}
  /\ pc[l] = "askAgain" => on = {}

\* A cache may be old, but not about the cluster's own id: only the cluster
\* changes it, and forgets the tags when it has.
Remembered(c) ==
  cache[c] # None /\ ~(\E l \in LBC : ClusterOf[l] = c /\ pc[l] \in {"flush", "dropFlush"}) =>
    (c \in cache[c].users <=> c \in tags.users)

Own(l) == Phases(l) /\ Reads(l) /\ Claims(l) /\ Covered(l)
TurnInv == (\A l \in LBC : Own(l)) /\ \A c \in Cluster : Remembered(c)

\* A step of one reconcile.
Turn(l) == Reconcile(l) \/ Fault(l)

\* The types a step relies on.
LEMMA Facts ==
  ASSUME TypeOK
  PROVE  /\ tags \in Tags /\ cache \in [Cluster -> Tags \cup {None}]
         /\ phase \in [LBC -> {"new", "live", "retiring", "deleting", "gone"}]
         /\ known \in [LBC -> BOOLEAN] /\ booked \in [LBC -> BOOLEAN] /\ pc \in [LBC -> PC]
         /\ seen \in [LBC -> Tags] /\ fetched \in [LBC -> BOOLEAN] /\ first \in [LBC -> BOOLEAN]
         /\ ClusterOf \in [LBC -> Cluster] /\ None \notin Cluster /\ None \notin LBC
  BY SharedAssumption DEF TypeOK

\* What Claim and Release do to the list of clusters.
LEMMA TagLists ==
  ASSUME NEW l \in LBC, NEW t \in Tags
  PROVE  /\ Claim(l, t).users = t.users \cup {ClusterOf[l]}
         /\ Release(l, t).users = t.users \ {ClusterOf[l]}
         /\ Claim(l, t).by \in {ClusterOf[l], t.by} /\ Release(l, t).by = t.by
         /\ l = Maker => Claim(l, t).by = ClusterOf[l]
         /\ Claim(l, t) = t => ClusterOf[l] \in t.users
         /\ Release(l, t) = t => ClusterOf[l] \notin t.users
<1>1. /\ Claim(l, t).users = t.users \cup {ClusterOf[l]}
      /\ Claim(l, t).by = IF l = Maker THEN ClusterOf[l] ELSE t.by
  BY DEF Claim
<1>2. Release(l, t).users = t.users \ {ClusterOf[l]} /\ Release(l, t).by = t.by
  BY DEF Release, Tags
<1> QED
  BY <1>1, <1>2

\* A step of l leaves what the others have.
LEMMA OthersFrame ==
  ASSUME TypeOK, NEW l \in LBC, Turn(l), NEW k \in LBC, k # l
  PROVE  /\ phase'[k] = phase[k] /\ known'[k] = known[k] /\ booked'[k] = booked[k]
         /\ pc'[k] = pc[k] /\ seen'[k] = seen[k] /\ fetched'[k] = fetched[k]
<1>1. pc'[k] = pc[k]
  BY Facts DEF Turn, Reconcile, Begin, Fetch, DiffClaim, Ask, AskAgain, DiffRelease, After, CreateTags,
     Flush, Fill, Strip, CheckEmpty, DeleteLoadBalancer, Finish, NotFound, Fault, Return, Goto
<1>2. seen'[k] = seen[k] /\ fetched'[k] = fetched[k]
  BY Facts DEF Turn, Reconcile, Begin, Fetch, DiffClaim, Ask, AskAgain, DiffRelease, After, CreateTags,
     Flush, Fill, Strip, CheckEmpty, DeleteLoadBalancer, Finish, NotFound, Fault, Return
<1>3. phase'[k] = phase[k] /\ known'[k] = known[k] /\ booked'[k] = booked[k]
  BY Facts DEF Turn, Reconcile, Begin, Fetch, DiffClaim, Ask, AskAgain, DiffRelease, After, CreateTags,
     Flush, Fill, Strip, CheckEmpty, DeleteLoadBalancer, Finish, NotFound, Fault, object
<1> QED
  BY <1>1, <1>2, <1>3

\* What a step of l does to the tags, and to the caches of other clusters.
LEMMA TagsEffect ==
  ASSUME TypeOK, NEW l \in LBC, Turn(l), Reads(l)
  PROVE  /\ \/ tags' = tags
            \/ pc[l] = "write" /\ pc'[l] = "flush" /\ tags' = Claim(l, tags) /\ UNCHANGED <<alive, cache, phase, known, booked, on>>
            \/ pc[l] = "dropWrite" /\ pc'[l] = "dropFlush" /\ tags' = Release(l, tags) /\ UNCHANGED <<alive, cache, phase, known, booked, on>>
         /\ \A c \in Cluster \ {ClusterOf[l]} : cache'[c] = cache[c]
<1>1. \A c \in Cluster \ {ClusterOf[l]} : cache'[c] = cache[c]
  BY Facts DEF Turn, Reconcile, Begin, Fetch, DiffClaim, Ask, AskAgain, DiffRelease, After, CreateTags,
     Flush, Fill, Strip, CheckEmpty, DeleteLoadBalancer, Finish, NotFound, Fault, Invalidate
<1>2. CASE CreateTags(l)
  BY <1>1, <1>2, Facts DEF CreateTags, Reads, object, Goto
<1>3. CASE ~CreateTags(l)
  BY <1>1, <1>3 DEF Turn, Reconcile, Begin, Fetch, DiffClaim, Ask, AskAgain, DiffRelease, After, Flush,
     Fill, Strip, CheckEmpty, DeleteLoadBalancer, Finish, NotFound, Fault, cloud
<1> QED
  BY <1>2, <1>3

\* While l works, everybody else is idle.
LEMMA OthersIdle ==
  ASSUME TypeOK, OneAtATime, OneAtATime', NEW l \in LBC, Turn(l), NEW k \in LBC, k # l
  PROVE  pc[k] = "idle" /\ pc'[k] = "idle"
<1>1. pc'[k] = pc[k]
  BY OthersFrame
<1>2. CASE pc[l] # "idle"
  BY <1>1, <1>2 DEF OneAtATime
<1>3. CASE pc[l] = "idle"
  <2>1. Begin(l)
    BY <1>3 DEF Turn, Reconcile, Fetch, DiffClaim, Ask, AskAgain, DiffRelease, CreateTags, Flush, Fill,
       Strip, CheckEmpty, DeleteLoadBalancer, Finish, NotFound, Fault, Listing
  <2>2. pc'[l] # "idle"
    BY <2>1, Facts DEF Begin, Goto
  <2> QED
    BY <1>1, <2>2 DEF OneAtATime
<1> QED
  BY <1>2, <1>3

\* A step of l keeps what is said of the others.
LEMMA OthersOwn ==
  ASSUME TypeOK, OneAtATime, OneAtATime', NEW l \in LBC, Turn(l), Own(l), NEW k \in LBC, k # l, Own(k)
  PROVE  Own(k)'
<1>0. /\ phase'[k] = phase[k] /\ known'[k] = known[k] /\ booked'[k] = booked[k]
      /\ seen'[k] = seen[k] /\ fetched'[k] = fetched[k] /\ pc[k] = "idle" /\ pc'[k] = "idle"
  BY OthersFrame, OthersIdle
<1>1. Phases(k)'
  BY <1>0 DEF Own, Phases
<1>2. Reads(k)'
  BY <1>0 DEF Own, Reads, Listing
<1>3. phase[k] = "live" /\ booked[k] => ClusterOf[k] \in tags'.users
  <2>1. CASE tags' = tags
    BY <2>1 DEF Own, Claims
  <2>2. CASE tags' = Claim(l, tags)
    BY <2>2, Facts, TagLists DEF Own, Claims
  <2>3. CASE pc[l] = "dropWrite" /\ tags' = Release(l, tags)
    BY <2>3, Facts, TagLists DEF Own, Claims, Siblings
  <2> QED
    BY <2>1, <2>2, <2>3, TagsEffect DEF Own
<1>4. Claims(k)'
  BY <1>0, <1>3 DEF Claims
<1>5. Covered(k)'
  BY <1>0 DEF Covered
<1> QED
  BY <1>1, <1>2, <1>4, <1>5 DEF Own

\* ... and of the caches of other clusters.
LEMMA OthersRemember ==
  ASSUME TypeOK, OneAtATime, OneAtATime', NEW l \in LBC, Turn(l), Own(l),
         NEW c \in Cluster, c # ClusterOf[l], Remembered(c)
  PROVE  Remembered(c)'
<1>1. cache'[c] = cache[c]
  BY Facts, TagsEffect DEF Own
<1>2. c \in tags'.users <=> c \in tags.users
  BY Facts, TagsEffect, TagLists DEF Own
<1>3. \A k \in LBC : ClusterOf[k] = c => pc[k] = "idle"
  BY OthersIdle
<1> QED
  BY <1>1, <1>2, <1>3 DEF Remembered

\* What the cluster of l remembers after a step of l.
LEMMA RememberStep ==
  ASSUME TypeOK, OneAtATime, OneAtATime', NEW l \in LBC, Turn(l), NEW c \in Cluster, c = ClusterOf[l],
         \/ cache'[c] = None
         \/ pc'[l] \in {"flush", "dropFlush"}
         \/ c \in cache'[c].users <=> c \in tags'.users
  PROVE  Remembered(c)'
  BY DEF Remembered

\* ... and before it.
LEMMA Recall ==
  ASSUME TypeOK, OneAtATime, OneAtATime', NEW l \in LBC, Turn(l), NEW c \in Cluster, c = ClusterOf[l],
         Remembered(c), pc[l] \notin {"flush", "dropFlush"}
  PROVE  cache[c] # None => (c \in cache[c].users <=> c \in tags.users)
<1>1. \A k \in LBC : k # l => pc[k] = "idle"
  BY OthersIdle
<1> QED
  BY <1>1 DEF Remembered

\* A step that leaves tags and cache alone, or forgets.
LEMMA SameRemember ==
  ASSUME TypeOK, OneAtATime, OneAtATime', NEW l \in LBC, Turn(l), NEW c \in Cluster, c = ClusterOf[l],
         Remembered(c),
         cache'[c] = None \/ (cache' = cache /\ tags' = tags /\ pc[l] \notin {"flush", "dropFlush"})
  PROVE  Remembered(c)'
<1>1. CASE cache'[c] = None
  BY <1>1, RememberStep
<1>2. CASE cache' = cache /\ tags' = tags /\ pc[l] \notin {"flush", "dropFlush"}
  BY <1>2, Recall, RememberStep
<1> QED
  BY <1>1, <1>2

\* What ListTags returns: right about the cluster's own id, and right altogether
\* where the cache has been forgotten.
LEMMA ListedRight ==
  ASSUME TypeOK, OneAtATime, OneAtATime', NEW l \in LBC, Turn(l), Own(l), Remembered(ClusterOf[l]),
         NEW t \in Tags, Listed(l, t), pc[l] \in Listing
  PROVE  /\ ClusterOf[l] \in t.users <=> ClusterOf[l] \in tags.users
         /\ pc[l] \in {"read", "ask", "askAgain", "dropRead"} => t = tags
<1>1. PICK c \in Cluster : c = ClusterOf[l]
  BY Facts
<1>2. CASE fetched[l] /\ t = seen[l]
  BY <1>2 DEF Own, Reads
<1>3. CASE cache[c] # None /\ t = cache[c]
  BY <1>1, <1>3, Recall DEF Own, Reads, Listing
<1> QED
  BY <1>1, <1>2, <1>3 DEF Listed

\* After ListTags.
LEMMA AfterOwn ==
  ASSUME TypeOK, OneAtATime, OneAtATime', NEW l \in LBC, Turn(l), Own(l), Remembered(ClusterOf[l]),
         NEW t \in Tags, Listed(l, t), pc[l] \in Listing,
         NEW p \in PC, NEW forget \in BOOLEAN, After(l, t, p, forget),
         p \in {"read", "dropRead"} => forget,
         \/ pc[l] \in {"look", "read"} /\ p \in {"read", "write", "fill"}
         \/ pc[l] = "ask" /\ p \in {"strip", "deleteLb"}
         \/ pc[l] = "askAgain" /\ p \in {"dropLook", "deleteLb"}
         \/ pc[l] \in {"dropLook", "dropRead"} /\ p \in {"finish", "dropRead", "dropWrite"},
         p \in {"write", "dropWrite"} => t = tags,
         p = "fill" => ClusterOf[l] \in t.users,
         p \in {"dropRead", "dropWrite"} =>
           pc[l] = "dropRead" \/ \A k \in Siblings(l) : phase[k] # "live",
         p = "deleteLb" => on \subseteq {l}
  PROVE  Own(l)' /\ Remembered(ClusterOf[l])'
<1>0. /\ pc'[l] = p /\ seen'[l] = t /\ ~fetched'[l] /\ tags' = tags /\ on' = on /\ phase' = phase
      /\ known' = known /\ booked' = booked
  BY Facts DEF After, Goto, cloud, object
<1>1. PICK c \in Cluster : c = ClusterOf[l]
  BY Facts
<1>2. cache'[c] = IF forget THEN None ELSE t
  BY <1>1, Facts DEF After
<1>3. ClusterOf[l] \in t.users <=> ClusterOf[l] \in tags.users
  BY ListedRight
<1>4. Remembered(c)'
  BY <1>0, <1>1, <1>2, <1>3, RememberStep
<1>5. Phases(l)'
  BY <1>0 DEF Own, Phases, Work, Drop
<1>6. Reads(l)'
  BY <1>0, <1>1, <1>2 DEF Reads
<1>7. Claims(l)'
  BY <1>0, <1>3 DEF Own, Claims
<1>8. Covered(l)'
  BY <1>0 DEF Covered
<1> QED
  BY <1>1, <1>4, <1>5, <1>6, <1>7, <1>8 DEF Own

\* One lemma per step of a reconcile: what is said of l itself still holds after
\* it.  The tags are read for a claim,
LEMMA DiffClaimOwn ==
  ASSUME TypeOK, OneAtATime, OneAtATime', NEW l \in LBC, DiffClaim(l), Own(l), Remembered(ClusterOf[l])
  PROVE  Own(l)' /\ Remembered(ClusterOf[l])'
<1>0. Turn(l)
  BY DEF Turn, Reconcile
<1>1. PICK t \in Tags :
        /\ Listed(l, t)
        /\ \/ pc[l] = "look" /\ Claim(l, t) = t /\ After(l, t, "fill", FALSE)
           \/ pc[l] = "look" /\ After(l, t, "read", TRUE)
           \/ pc[l] = "read" /\ Claim(l, t) = t /\ After(l, t, "fill", FALSE)
           \/ pc[l] = "read" /\ After(l, t, "write", FALSE)
  BY DEF DiffClaim
<1>2. pc[l] \in Listing /\ {"fill", "read", "write"} \subseteq PC
  BY <1>1 DEF Listing, PC
<1>3. (Claim(l, t) = t => ClusterOf[l] \in t.users) /\ (pc[l] = "read" => t = tags)
  BY <1>0, <1>1, <1>2, TagLists, ListedRight
<1>4. CASE Claim(l, t) = t /\ pc[l] \in {"look", "read"} /\ After(l, t, "fill", FALSE)
  BY <1>0, <1>1, <1>2, <1>3, <1>4, AfterOwn
<1>5. CASE pc[l] = "look" /\ After(l, t, "read", TRUE)
  BY <1>0, <1>1, <1>2, <1>3, <1>5, AfterOwn
<1>6. CASE pc[l] = "read" /\ After(l, t, "write", FALSE)
  BY <1>0, <1>1, <1>2, <1>3, <1>6, AfterOwn
<1> QED
  BY <1>1, <1>4, <1>5, <1>6

\* for the question whose the load balancer is,
LEMMA AskOwn ==
  ASSUME TypeOK, OneAtATime, OneAtATime', NEW l \in LBC, Ask(l) \/ AskAgain(l), Own(l),
         Remembered(ClusterOf[l])
  PROVE  Own(l)' /\ Remembered(ClusterOf[l])'
<1>0. Turn(l) /\ pc[l] \in Listing
  BY DEF Turn, Reconcile, Ask, AskAgain, Listing
<1>1. PICK t \in Tags :
        /\ Listed(l, t)
        /\ \/ pc[l] = "ask" /\ CanDeleteWhole(l) /\ After(l, t, "deleteLb", FALSE)
           \/ pc[l] = "ask" /\ After(l, t, "strip", FALSE)
           \/ pc[l] = "askAgain" /\ After(l, t, "deleteLb", FALSE)
           \/ pc[l] = "askAgain" /\ After(l, t, "dropLook", FALSE)
  BY DEF Ask, AskAgain
<1>2. {"deleteLb", "strip", "dropLook"} \subseteq PC
  BY DEF Listing, PC
<1>3. CASE pc[l] = "ask" /\ After(l, t, "strip", FALSE)
  BY <1>0, <1>1, <1>2, <1>3, AfterOwn
<1>4. CASE pc[l] = "askAgain" /\ After(l, t, "dropLook", FALSE)
  BY <1>0, <1>1, <1>2, <1>4, AfterOwn
<1>5. CASE /\ (pc[l] = "ask" /\ CanDeleteWhole(l)) \/ pc[l] = "askAgain"
           /\ After(l, t, "deleteLb", FALSE)
  <2>1. on \subseteq {l}
    BY <1>5 DEF CanDeleteWhole, Own, Covered
  <2> QED
    BY <1>0, <1>1, <1>2, <1>5, <2>1, AfterOwn
<1> QED
  BY <1>1, <1>3, <1>4, <1>5

\* for a release;
LEMMA DiffReleaseOwn ==
  ASSUME TypeOK, OneAtATime, OneAtATime', NEW l \in LBC, DiffRelease(l), Own(l), Remembered(ClusterOf[l])
  PROVE  Own(l)' /\ Remembered(ClusterOf[l])'
<1>0. Turn(l) /\ pc[l] \in Listing
  BY DEF Turn, Reconcile, DiffRelease, Listing
<1>1. PICK t \in Tags :
        /\ Listed(l, t)
        /\ \/ After(l, t, "finish", FALSE)
           \/ pc[l] = "dropLook" /\ ~HasOtherLBC(l) /\ After(l, t, "dropRead", TRUE)
           \/ pc[l] = "dropRead" /\ After(l, t, "dropWrite", FALSE)
  BY DEF DiffRelease
<1>2. {"finish", "dropRead", "dropWrite"} \subseteq PC /\ pc[l] \in {"dropLook", "dropRead"}
  BY DEF Listing, PC, DiffRelease
<1>3. pc[l] = "dropRead" => t = tags
  BY <1>0, <1>1, ListedRight
<1>4. CASE After(l, t, "finish", FALSE)
  BY <1>0, <1>1, <1>2, <1>4, AfterOwn
<1>5. CASE pc[l] = "dropLook" /\ ~HasOtherLBC(l) /\ After(l, t, "dropRead", TRUE)
  <2>1. \A k \in Siblings(l) : phase[k] # "live"
    BY <1>5 DEF HasOtherLBC, Siblings
  <2> QED
    BY <1>0, <1>1, <1>2, <1>5, <2>1, AfterOwn
<1>6. CASE pc[l] = "dropRead" /\ After(l, t, "dropWrite", FALSE)
  BY <1>0, <1>1, <1>2, <1>3, <1>6, AfterOwn
<1> QED
  BY <1>1, <1>4, <1>5, <1>6

\* a reconcile begins,
LEMMA BeginOwn ==
  ASSUME TypeOK, OneAtATime, OneAtATime', NEW l \in LBC, Begin(l), Own(l), Remembered(ClusterOf[l])
  PROVE  Own(l)' /\ Remembered(ClusterOf[l])'
<1>0. /\ Turn(l) /\ pc[l] = "idle" /\ tags' = tags /\ on' = on /\ phase' = phase /\ booked' = booked
      /\ seen' = seen /\ fetched' = fetched /\ ClusterOf[l] \in Cluster
  BY Facts DEF Turn, Reconcile, Begin, cloud
<1>1. \/ pc'[l] = "look" /\ phase[l] = "live" /\ known'[l] /\ cache' = cache
      \/ pc'[l] = "ask" /\ phase[l] = "deleting" /\ known[l] /\ known' = known /\ cache'[ClusterOf[l]] = None
      \/ pc'[l] = "strip" /\ phase[l] = "retiring" /\ known' = known /\ cache' = cache
      \/ pc'[l] = "finish" /\ phase[l] \in {"deleting", "retiring"} /\ known' = known /\ cache' = cache
  BY Facts DEF Begin, Goto, Invalidate
<1>2. Phases(l)'
  BY <1>0, <1>1 DEF Own, Phases, Work, Drop
<1>3. Reads(l)' /\ Claims(l)' /\ Covered(l)'
  BY <1>0, <1>1 DEF Own, Reads, Claims, Covered, Listing
<1>4. Remembered(ClusterOf[l])'
  BY <1>0, <1>1, SameRemember
<1> QED
  BY <1>2, <1>3, <1>4 DEF Own

\* the API answers,
LEMMA FetchOwn ==
  ASSUME TypeOK, OneAtATime, OneAtATime', NEW l \in LBC, Fetch(l), Own(l), Remembered(ClusterOf[l])
  PROVE  Own(l)' /\ Remembered(ClusterOf[l])'
<1>0. /\ Turn(l) /\ pc' = pc /\ pc[l] \in Listing /\ tags' = tags /\ on' = on /\ phase' = phase
      /\ booked' = booked /\ known' = known /\ cache' = cache /\ seen'[l] = tags
      /\ ClusterOf[l] \in Cluster
  BY Facts DEF Turn, Reconcile, Fetch, cloud, object
<1>1. Phases(l)' /\ Claims(l)' /\ Covered(l)'
  BY <1>0 DEF Own, Phases, Claims, Covered, Siblings
<1>2. Reads(l)'
  BY <1>0 DEF Own, Reads
<1>3. Remembered(ClusterOf[l])'
  BY <1>0, SameRemember DEF Listing
<1> QED
  BY <1>1, <1>2, <1>3 DEF Own

\* the tags are written,
LEMMA CreateTagsOwn ==
  ASSUME TypeOK, OneAtATime, OneAtATime', NEW l \in LBC, CreateTags(l), Own(l), Remembered(ClusterOf[l])
  PROVE  Own(l)' /\ Remembered(ClusterOf[l])'
<1>0. /\ Turn(l) /\ on' = on /\ phase' = phase /\ booked' = booked /\ known' = known
      /\ fetched' = fetched /\ ~fetched[l] /\ ClusterOf[l] \in Cluster
  BY Facts DEF Turn, Reconcile, CreateTags, object, Own, Reads, Listing
<1>1. \/ pc[l] = "write" /\ pc'[l] = "flush" /\ ClusterOf[l] \in tags'.users
      \/ pc[l] = "dropWrite" /\ pc'[l] = "dropFlush" /\ ClusterOf[l] \notin tags'.users
  BY Facts, TagLists DEF CreateTags, Own, Reads, Goto
<1>2. Phases(l)'
  BY <1>0, <1>1 DEF Own, Phases, Work, Drop
<1>3. Reads(l)' /\ Covered(l)'
  BY <1>0, <1>1 DEF Reads, Covered
<1>4. Claims(l)'
  BY <1>0, <1>1 DEF Own, Claims, Phases, Drop
<1>5. Remembered(ClusterOf[l])'
  BY <1>0, <1>1, RememberStep
<1> QED
  BY <1>2, <1>3, <1>4, <1>5 DEF Own

\* the cache forgets them,
LEMMA FlushOwn ==
  ASSUME TypeOK, OneAtATime, OneAtATime', NEW l \in LBC, Flush(l), Own(l), Remembered(ClusterOf[l])
  PROVE  Own(l)' /\ Remembered(ClusterOf[l])'
<1>0. /\ Turn(l) /\ on' = on /\ phase' = phase /\ booked' = booked /\ known' = known /\ tags' = tags
      /\ fetched' = fetched /\ ~fetched[l] /\ ClusterOf[l] \in Cluster /\ cache'[ClusterOf[l]] = None
  BY Facts DEF Turn, Reconcile, Flush, object, cloud, Own, Reads, Listing, Invalidate
<1>1. \/ pc[l] = "flush" /\ pc'[l] = "fill"
      \/ pc[l] = "dropFlush" /\ pc'[l] = "finish"
  BY Facts DEF Flush, Goto
<1>2. Phases(l)'
  BY <1>0, <1>1 DEF Own, Phases, Work, Drop
<1>3. Reads(l)' /\ Covered(l)'
  BY <1>0, <1>1 DEF Reads, Covered
<1>4. Claims(l)'
  BY <1>0, <1>1 DEF Own, Claims
<1>5. Remembered(ClusterOf[l])'
  BY <1>0, <1>1, RememberStep
<1> QED
  BY <1>2, <1>3, <1>4, <1>5 DEF Own

\* A reconcile that is over.
LEMMA ReturnOwn ==
  ASSUME TypeOK, OneAtATime, OneAtATime', NEW l \in LBC, Turn(l), Own(l), Remembered(ClusterOf[l]),
         Return(l), tags' = tags, known' = known,
         \/ phase' = phase /\ booked' = booked
         \/ phase'[l] = "gone" /\ booked' = booked
         \/ phase' = phase /\ booked'[l] /\ pc[l] = "fill",
         \/ cache' = cache /\ pc[l] \notin {"flush", "dropFlush"}
         \/ cache'[ClusterOf[l]] = None
  PROVE  Own(l)' /\ Remembered(ClusterOf[l])'
<1>0. pc'[l] = "idle" /\ fetched'[l] = FALSE /\ ClusterOf[l] \in Cluster
  BY Facts DEF Return, Goto
<1>1. Phases(l)'
  BY <1>0 DEF Own, Phases, Work, Drop
<1>2. Reads(l)' /\ Covered(l)'
  BY <1>0 DEF Reads, Covered
<1>3. Claims(l)'
  BY <1>0 DEF Own, Claims
<1>4. Remembered(ClusterOf[l])'
  BY <1>0, SameRemember
<1> QED
  BY <1>1, <1>2, <1>3, <1>4 DEF Own

\* the reconcile ends,
LEMMA EndsOwn ==
  ASSUME TypeOK, OneAtATime, OneAtATime', NEW l \in LBC, Fill(l) \/ Finish(l) \/ NotFound(l) \/ Fault(l),
         Own(l), Remembered(ClusterOf[l])
  PROVE  Own(l)' /\ Remembered(ClusterOf[l])'
<1>0. Turn(l) /\ Return(l) /\ tags' = tags /\ known' = known
  BY DEF Turn, Reconcile, Fill, Finish, NotFound, Fault, cloud, object
<1>1. \/ phase' = phase /\ booked' = booked
      \/ phase'[l] = "gone" /\ booked' = booked
      \/ phase' = phase /\ booked'[l] /\ pc[l] = "fill"
  BY Facts DEF Fill, Finish, NotFound, Fault, object
<1>2. \/ cache' = cache /\ pc[l] \notin {"flush", "dropFlush"}
      \/ cache'[ClusterOf[l]] = None
  BY Facts DEF Fill, Finish, NotFound, Fault, Invalidate, Listing
<1> QED
  BY <1>0, <1>1, <1>2, ReturnOwn

\* and what it does on its way out.
LEMMA LeavesOwn ==
  ASSUME TypeOK, OneAtATime, OneAtATime', NEW l \in LBC,
         Strip(l) \/ CheckEmpty(l) \/ DeleteLoadBalancer(l), Own(l), Remembered(ClusterOf[l])
  PROVE  Own(l)' /\ Remembered(ClusterOf[l])'
<1>0. /\ Turn(l) /\ tags' = tags /\ known' = known /\ phase' = phase /\ booked' = booked
      /\ fetched' = fetched /\ ~fetched[l] /\ ClusterOf[l] \in Cluster
  BY Facts DEF Turn, Reconcile, Strip, CheckEmpty, DeleteLoadBalancer, cloud, object, Own, Reads, Listing
<1>1. \/ pc[l] = "strip" /\ pc'[l] \in {"dropLook", "checkEmpty"} /\ cache' = cache
         /\ (pc'[l] = "checkEmpty" => phase[l] # "retiring")
      \/ pc[l] = "checkEmpty" /\ pc'[l] = "dropLook" /\ cache' = cache
      \/ pc[l] = "checkEmpty" /\ pc'[l] = "deleteLb" /\ cache' = cache /\ on' = {}
      \/ pc[l] = "checkEmpty" /\ pc'[l] = "askAgain" /\ cache'[ClusterOf[l]] = None /\ on' = {}
      \/ pc[l] = "deleteLb" /\ pc'[l] = "finish" /\ cache' = cache
  BY Facts DEF Strip, CheckEmpty, DeleteLoadBalancer, Goto, Invalidate, cloud
<1>2. Phases(l)'
  BY <1>0, <1>1 DEF Own, Phases, Work, Drop
<1>3. Reads(l)' /\ Covered(l)'
  BY <1>0, <1>1 DEF Reads, Covered
<1>4. Claims(l)'
  BY <1>0, <1>1 DEF Own, Claims
<1>5. Remembered(ClusterOf[l])'
  BY <1>0, <1>1, SameRemember
<1> QED
  BY <1>2, <1>3, <1>4, <1>5 DEF Own

\* A step of a reconcile keeps all of it.
LEMMA TurnKeeps ==
  ASSUME TypeOK, OneAtATime, OneAtATime', TurnInv, NEW l \in LBC, Turn(l) PROVE TurnInv'
<1>0. Own(l) /\ Remembered(ClusterOf[l])
  BY Facts DEF TurnInv
<1>1. Own(l)' /\ Remembered(ClusterOf[l])'
  BY <1>0, BeginOwn, FetchOwn, DiffClaimOwn, AskOwn, DiffReleaseOwn, CreateTagsOwn, FlushOwn, EndsOwn,
     LeavesOwn DEF Turn, Reconcile
<1>2. \A k \in LBC : k # l => Own(k)'
  BY <1>0, OthersOwn DEF TurnInv
<1>3. \A c \in Cluster : c # ClusterOf[l] => Remembered(c)'
  BY <1>0, OthersRemember DEF TurnInv
<1> QED
  BY <1>1, <1>2, <1>3 DEF TurnInv

\* An LBC comes or is to go.
LEMMA WishKeeps ==
  ASSUME TypeOK, TurnInv, NEW l \in LBC, Join(l) \/ Leave(l) PROVE TurnInv'
<1>0. /\ tags' = tags /\ on' = on /\ cache' = cache /\ known' = known /\ booked' = booked /\ pc' = pc
      /\ seen' = seen /\ fetched' = fetched
  BY DEF Join, Leave, cloud, run
<1>1. \A k \in LBC : k # l => phase'[k] = phase[k]
  BY Facts DEF Join, Leave
<1>2. \/ phase[l] = "new" /\ phase'[l] = "live"
      \/ phase[l] = "live" /\ phase'[l] = "deleting" /\ (known[l] \/ l \in Early)
      \/ phase[l] = "live" /\ phase'[l] = "retiring" /\ known[l] /\ pc[l] = "idle" /\ l \in Repins
  BY Facts DEF Join, Leave
<1>3. \A c \in Cluster : Remembered(c)'
  BY <1>0 DEF TurnInv, Remembered
<1>4. ASSUME NEW k \in LBC PROVE Own(k)'
  <2>1. Own(k) /\ Own(l)
    BY DEF TurnInv
  <2>2. Reads(k)' /\ Covered(k)'
    BY <1>0, <2>1 DEF Own, Reads, Covered
  <2>3. Phases(k)'
    BY <1>0, <1>1, <1>2, <2>1 DEF Own, Phases, Work, Drop
  <2>4. Claims(k)'
    <3>1. \A m \in LBC : phase'[m] = "live" /\ booked[m] => phase[m] = "live"
      BY <1>1, <1>2, <2>1 DEF Own, Phases
    <3> QED
      BY <1>0, <2>1, <3>1 DEF Own, Claims, Siblings
  <2> QED
    BY <2>2, <2>3, <2>4 DEF Own
<1> QED
  BY <1>3, <1>4 DEF TurnInv

\* An entry of a cache expires, or a controller stops.
LEMMA ForgetKeeps ==
  ASSUME TypeOK, TurnInv, NEW c \in Cluster, Expire(c) \/ Crash(c) PROVE TurnInv'
<1>0. /\ tags' = tags /\ on' = on /\ phase' = phase /\ known' = known /\ booked' = booked
      /\ cache' = [cache EXCEPT ![c] = None]
  BY DEF Expire, Crash, cloud, object
<1>1. \A l \in LBC :
        \/ pc'[l] = pc[l] /\ seen'[l] = seen[l] /\ fetched'[l] = fetched[l]
        \/ pc'[l] = "idle" /\ ~fetched'[l] /\ ClusterOf[l] = c
  BY Facts DEF Expire, Crash, run
<1>2. cache'[c] = None /\ \A d \in Cluster : d # c => cache'[d] = cache[d]
  BY <1>0, Facts
<1>3. ASSUME NEW d \in Cluster PROVE Remembered(d)'
  <2>1. CASE d = c
    BY <1>2, <2>1 DEF Remembered
  <2>2. CASE d # c
    BY <1>0, <1>1, <1>2, <2>2 DEF TurnInv, Remembered
  <2> QED
    BY <2>1, <2>2
<1>4. ASSUME NEW k \in LBC PROVE Own(k)'
  <2>1. Own(k) /\ ClusterOf[k] \in Cluster
    BY Facts DEF TurnInv
  <2>2. CASE pc'[k] = "idle" /\ ~fetched'[k]
    BY <1>0, <2>1, <2>2 DEF Own, Reads, Covered, Phases, Claims, Work, Drop
  <2>3. CASE pc'[k] = pc[k] /\ seen'[k] = seen[k] /\ fetched'[k] = fetched[k]
    <3>1. Reads(k)'
      BY <1>0, <1>2, <2>1, <2>3 DEF Own, Reads
    <3>2. Phases(k)' /\ Claims(k)' /\ Covered(k)'
      BY <1>0, <2>1, <2>3 DEF Own, Phases, Claims, Covered, Siblings
    <3> QED
      BY <3>1, <3>2 DEF Own
  <2> QED
    BY <1>1, <2>2, <2>3
<1> QED
  BY <1>3, <1>4 DEF TurnInv

\* The first state: nothing is written or remembered.
LEMMA InitTurn == ASSUME Init PROVE TurnInv
<1>1. ASSUME NEW l \in LBC PROVE Own(l)
  <2>1. /\ phase[l] \in {"live", "new", "gone"} /\ (l = Maker => phase[l] = "live")
        /\ known[l] = (l = Maker) /\ booked[l] = FALSE /\ pc[l] = (IF l = Maker THEN "look" ELSE "idle")
        /\ fetched[l] = FALSE
    BY DEF Init
  <2> QED
    BY <2>1 DEF Own, Phases, Reads, Claims, Covered, Work, Drop
<1>2. \A c \in Cluster : Remembered(c)
  BY DEF Init, Remembered
<1> QED
  BY <1>1, <1>2 DEF TurnInv

\* TurnInv is inductive while the reconciles take turns.
LEMMA NextTurn == TypeOK /\ OneAtATime /\ OneAtATime' /\ TurnInv /\ [Next]_vars => TurnInv'
<1> SUFFICES ASSUME TypeOK, OneAtATime, OneAtATime', TurnInv, [Next]_vars PROVE TurnInv'
  OBVIOUS
<1>1. CASE UNCHANGED vars
  BY <1>1 DEF vars, cloud, object, run, TurnInv, Own, Phases, Reads, Claims, Covered, Remembered,
     Siblings
<1> QED
  BY <1>1, TurnKeeps, WishKeeps, ForgetKeeps DEF Next, Turn

-----------------------------------------------------------------------------
(* What the mutexes give, with any number of clusters at work, failures and     *)
(* re-pinned LBCs: from the check that the load balancer may go to the call    *)
(* that deletes it, nobody of the same cluster comes between but the maker's   *)
(* first pass, which takes no mutex; those of other clusters are in late.      *)

Deciding == {"ask", "checkEmpty", "askAgain", "deleteLb"}

Held(l) ==
  /\ pc[l] \in Work => phase[l] # "retiring"
  /\ pc[l] \in Deciding => phase[l] = "deleting"
  /\ pc[l] = "strip" => phase[l] \in {"deleting", "retiring"}
  /\ pc[l] \in Work \cup Deciding \cup {"strip"} /\ phase[l] # "retiring" =>
       lock[ClusterOf[l]] = l \/ (l = Maker /\ ~booked[l] /\ pc[l] \in Work)

Checked(l) == pc[l] \in {"askAgain", "deleteLb"} => on \subseteq {l} \cup late[l]

HeldInv == \A l \in LBC : Held(l) /\ Checked(l)

\* The types of what the mutexes protect.
LEMMA LockTypes ==
  ASSUME TypeOK
  PROVE  lock \in [Cluster -> LBC \cup {None}] /\ late \in [LBC -> SUBSET LBC] /\ None \notin LBC
  BY SharedAssumption DEF TypeOK

\* A step of l takes no mutex from anybody, and forgets nobody's latecomers.
LEMMA LockFrame ==
  ASSUME TypeOK, NEW l \in LBC, Turn(l), NEW k \in LBC, k # l
  PROVE  /\ lock[ClusterOf[k]] = k => lock'[ClusterOf[k]] = k
         /\ late[k] \subseteq late'[k]
<1>1. CASE Begin(l)
  BY <1>1, Facts, LockTypes DEF Begin
<1>2. CASE Fill(l)
  BY <1>2, Facts, LockTypes DEF Fill, Return
<1>3. CASE Finish(l) \/ NotFound(l) \/ Fault(l)
  BY <1>3, Facts, LockTypes DEF Finish, NotFound, Fault, Return
<1>4. CASE ~(Begin(l) \/ Fill(l) \/ Finish(l) \/ NotFound(l) \/ Fault(l))
  BY <1>4 DEF Turn, Reconcile, Fetch, DiffClaim, Ask, AskAgain, DiffRelease, After, CreateTags, Flush,
     Strip, CheckEmpty, DeleteLoadBalancer
<1> QED
  BY <1>1, <1>2, <1>3, <1>4

\* What a step of l puts on the load balancer.
LEMMA OnFrame ==
  ASSUME TypeOK, NEW l \in LBC, Turn(l)
  PROVE  on' \subseteq on \/ (Fill(l) /\ on' = on \cup {l} /\ ~first[l] /\ alive)
<1>1. CASE Fill(l)
  BY <1>1 DEF Fill
<1>2. CASE Strip(l) \/ DeleteLoadBalancer(l)
  BY <1>2 DEF Strip, DeleteLoadBalancer
<1>3. CASE ~(Fill(l) \/ Strip(l) \/ DeleteLoadBalancer(l))
  BY <1>3 DEF Turn, Reconcile, Begin, Fetch, DiffClaim, Ask, AskAgain, DiffRelease, After, CreateTags, Flush,
     CheckEmpty, Finish, NotFound, Fault, cloud
<1> QED
  BY <1>1, <1>2, <1>3

\* A step of l keeps what is said of the others.
LEMMA OthersHeld ==
  ASSUME TypeOK, HeldInv, NEW l \in LBC, Turn(l), NEW k \in LBC, k # l
  PROVE  Held(k)' /\ Checked(k)'
<1>1. phase'[k] = phase[k] /\ booked'[k] = booked[k] /\ pc'[k] = pc[k]
  BY OthersFrame
<1>2. Held(k) /\ Checked(k)
  BY DEF HeldInv
<1>3. /\ lock[ClusterOf[k]] = k => lock'[ClusterOf[k]] = k
      /\ late[k] \subseteq late'[k]
  BY LockFrame
<1>4. Held(k)'
  BY <1>1, <1>2, <1>3 DEF Held
<1>5. CASE on' \subseteq on
  <2>1. Checked(k)'
    BY <1>1, <1>5, <1>2, <1>3 DEF Checked
  <2> QED
    BY <1>4, <2>1
<1>6. ASSUME Fill(l), on' = on \cup {l}, ~first[l], alive, pc[k] \in {"askAgain", "deleteLb"}
      PROVE  on' \subseteq {k} \cup late'[k]
  <2>1. lock[ClusterOf[k]] = k /\ pc[l] = "fill"
    BY <1>6 DEF HeldInv, Held, Work, Deciding, Fill
  <2>2. ClusterOf[k] # ClusterOf[l] \/ (l = Maker /\ ~booked[l])
    BY <2>1, LockTypes DEF HeldInv, Held, Work
  <2>3. k \in Overtaken(l)
    BY <1>6, <2>2 DEF Overtaken
  <2>4. late'[k] = late[k] \cup {l}
    BY <1>6, <2>3 DEF Fill
  <2> QED
    BY <1>6, <2>4 DEF HeldInv, Checked
<1> QED
  BY <1>1, <1>4, <1>5, <1>6, OnFrame DEF Checked

\* The steps between the two ends of a reconcile keep its mutex.
LEMMA MiddleHeld ==
  ASSUME TypeOK, HeldInv, NEW l \in LBC, UNCHANGED <<phase, booked, lock, late>>,
         \/ pc'[l] = pc[l] /\ on' = on
         \/ pc[l] \in Work /\ pc'[l] \in Work
         \/ pc[l] \in Deciding \cup {"strip"} /\ phase[l] = "deleting" /\ pc'[l] \in {"strip", "checkEmpty"}
         \/ pc[l] \in Deciding /\ pc'[l] \in {"askAgain", "deleteLb"} /\ on' \subseteq {l} \cup late[l]
         \/ pc'[l] \in Drop \cup {"finish", "idle"}
  PROVE  Held(l)' /\ Checked(l)'
  BY DEF HeldInv, Held, Checked, Work, Deciding, Drop

\* A step of l keeps what is said of l.
LEMMA OwnHeld ==
  ASSUME TypeOK, HeldInv, NEW l \in LBC, Turn(l)
  PROVE  Held(l)' /\ Checked(l)'
<1>1. CASE Begin(l)
  <2>1. /\ phase' = phase
        /\ \/ phase[l] = "live" /\ pc'[l] = "look"
           \/ phase[l] = "deleting" /\ pc'[l] = "ask"
           \/ phase[l] = "retiring" /\ pc'[l] = "strip"
           \/ pc'[l] = "finish"
        /\ phase[l] # "retiring" => lock'[ClusterOf[l]] = l
    BY <1>1, Facts, LockTypes DEF Begin, Goto
  <2> QED
    BY <2>1 DEF Held, Checked, Work, Deciding
<1>2. CASE Fetch(l)
  BY <1>2, MiddleHeld DEF Fetch, cloud, object
<1>3. CASE DiffClaim(l)
  <2>1. UNCHANGED <<phase, booked, lock, late>> /\ pc[l] \in {"look", "read"} /\ pc'[l] \in {"fill", "read", "write"}
    BY <1>3, Facts DEF DiffClaim, After, Goto, object
  <2> QED
    BY <2>1, MiddleHeld DEF Work
<1>4. CASE Ask(l)
  <2>1. /\ UNCHANGED <<phase, booked, lock, late, on>> /\ pc[l] = "ask"
        /\ \/ pc'[l] = "strip"
           \/ pc'[l] = "deleteLb" /\ CanDeleteWhole(l)
    BY <1>4, Facts DEF Ask, After, Goto, object, cloud
  <2>2. phase[l] = "deleting"
    BY <2>1 DEF HeldInv, Held, Deciding
  <2>3. CanDeleteWhole(l) => on \subseteq {l}
    BY DEF CanDeleteWhole
  <2> QED
    BY <2>1, <2>2, <2>3, MiddleHeld DEF Deciding
<1>5. CASE AskAgain(l)
  <2>1. /\ UNCHANGED <<phase, booked, lock, late, on>> /\ pc[l] = "askAgain"
        /\ pc'[l] \in {"deleteLb", "dropLook"}
    BY <1>5, Facts DEF AskAgain, After, Goto, object, cloud
  <2>2. on \subseteq {l} \cup late[l]
    BY <2>1 DEF HeldInv, Checked
  <2> QED
    BY <2>1, <2>2, MiddleHeld DEF Deciding, Drop
<1>6. CASE DiffRelease(l)
  <2>1. UNCHANGED <<phase, booked, lock, late>> /\ pc'[l] \in {"finish", "dropRead", "dropWrite"}
    BY <1>6, Facts DEF DiffRelease, After, Goto, object
  <2> QED
    BY <2>1, MiddleHeld DEF Drop
<1>7. CASE CreateTags(l) \/ Flush(l)
  <2>1. /\ UNCHANGED <<phase, booked, lock, late>>
        /\ \/ pc[l] \in {"write", "flush"} /\ pc'[l] \in {"flush", "fill"}
           \/ pc'[l] \in {"dropFlush", "finish"}
    BY <1>7, Facts DEF CreateTags, Flush, Goto, object
  <2> QED
    BY <2>1, MiddleHeld DEF Work, Drop
<1>8. CASE Strip(l)
  <2>1. /\ UNCHANGED <<phase, booked, lock, late>> /\ pc[l] = "strip"
        /\ pc'[l] = IF phase[l] = "retiring" THEN "dropLook" ELSE "checkEmpty"
    BY <1>8, Facts DEF Strip, Goto, object
  <2>2. phase[l] \in {"deleting", "retiring"}
    BY <2>1 DEF HeldInv, Held
  <2> QED
    BY <2>1, <2>2, MiddleHeld DEF Drop
<1>9. CASE CheckEmpty(l)
  <2>1. /\ UNCHANGED <<phase, booked, lock, late, on>> /\ pc[l] = "checkEmpty"
        /\ \/ pc'[l] = "dropLook"
           \/ pc'[l] \in {"askAgain", "deleteLb"} /\ on = {}
    BY <1>9, Facts DEF CheckEmpty, Goto, object, cloud
  <2> QED
    BY <2>1, MiddleHeld DEF Deciding, Drop
<1>10. CASE DeleteLoadBalancer(l)
  <2>1. UNCHANGED <<phase, booked, lock, late>> /\ pc'[l] = "finish"
    BY <1>10, Facts DEF DeleteLoadBalancer, Goto, object
  <2> QED
    BY <2>1, MiddleHeld
<1>11. CASE Fill(l) \/ Finish(l) \/ NotFound(l) \/ Fault(l)
  <2>1. pc'[l] = "idle"
    BY <1>11, Facts DEF Fill, Finish, NotFound, Fault, Return, Goto
  <2> QED
    BY <2>1 DEF Held, Checked, Work, Deciding
<1> QED
  BY <1>1, <1>2, <1>3, <1>4, <1>5, <1>6, <1>7, <1>8, <1>9, <1>10, <1>11 DEF Turn, Reconcile

\* Every step keeps HeldInv.
LEMMA NextHeld == TypeOK /\ HeldInv /\ [Next]_vars => HeldInv'
<1> SUFFICES ASSUME TypeOK, HeldInv, [Next]_vars, NEW l \in LBC PROVE Held(l)' /\ Checked(l)'
  BY DEF HeldInv
<1>1. CASE UNCHANGED vars
  BY <1>1 DEF vars, cloud, object, run, HeldInv, Held, Checked
<1>2. ASSUME NEW k \in LBC, Turn(k) PROVE Held(l)' /\ Checked(l)'
  BY <1>2, OwnHeld, OthersHeld
<1>3. ASSUME NEW k \in LBC, Join(k) \/ Leave(k) PROVE Held(l)' /\ Checked(l)'
  <2>1. UNCHANGED <<pc, lock, late, booked, on>>
    BY <1>3 DEF Join, Leave, run, cloud
  <2>2. \/ phase'[l] = phase[l]
        \/ phase[l] = "new" /\ phase'[l] = "live"
        \/ phase[l] = "live" /\ (phase'[l] = "deleting" \/ (phase'[l] = "retiring" /\ pc[l] = "idle"))
    BY <1>3, Facts DEF Join, Leave
  <2> QED
    BY <2>1, <2>2 DEF HeldInv, Held, Checked, Work, Deciding
<1>4. ASSUME NEW c \in Cluster, Expire(c) PROVE Held(l)' /\ Checked(l)'
  BY <1>4 DEF Expire, cloud, object, run, HeldInv, Held, Checked
<1>5. ASSUME NEW c \in Cluster, Crash(c) PROVE Held(l)' /\ Checked(l)'
  <2>1. /\ UNCHANGED <<phase, booked, late, on>>
        /\ \/ pc'[l] = "idle"
           \/ pc'[l] = pc[l] /\ lock'[ClusterOf[l]] = lock[ClusterOf[l]]
    BY <1>5, Facts, LockTypes DEF Crash, cloud, object
  <2> QED
    BY <2>1 DEF HeldInv, Held, Checked, Work, Deciding
<1> QED
  BY <1>1, <1>2, <1>3, <1>4, <1>5 DEF Next, Turn

\* The first state: the maker alone is at work, and without the mutex.
LEMMA InitHeld == ASSUME Init PROVE HeldInv
  BY SharedAssumption DEF Init, HeldInv, Held, Checked, Work, Deciding

\* canDeleteWholeLoadBalancer, isLoadBalancerEmpty, lbLocks: however many clusters
\* and LBCs interleave, fail and restart, only an LBC that is being deleted deletes
\* the load balancer, and all that goes with it is its own or was put there after
\* the check by another cluster or by the maker's first pass.
THEOREM SharedServingLbSafe == Spec => ServingLbNeverDeleted
<1>1. ASSUME HeldInv, TypeOK, [Next]_vars
      PROVE  [alive /\ ~alive' =>
                \E k \in LBC : /\ phase[k] = "deleting" /\ pc[k] = "deleteLb" /\ pc'[k] = "finish"
                               /\ on \subseteq {k} \cup late[k]]_vars
  <2> SUFFICES ASSUME Next, alive, ~alive'
               PROVE  \E k \in LBC : /\ phase[k] = "deleting" /\ pc[k] = "deleteLb" /\ pc'[k] = "finish"
                                     /\ on \subseteq {k} \cup late[k]
    BY <1>1
  <2>1. PICK l \in LBC : DeleteLoadBalancer(l)
    <3>1. ASSUME NEW l \in LBC, Reconcile(l), ~DeleteLoadBalancer(l) PROVE alive' = alive
      BY <3>1 DEF Reconcile, Begin, Fetch, DiffClaim, Ask, AskAgain, DiffRelease, After, CreateTags, Flush,
         Fill, Strip, CheckEmpty, Finish, NotFound, cloud
    <3>2. ASSUME NEW l \in LBC, Join(l) \/ Leave(l) \/ Fault(l) PROVE alive' = alive
      BY <3>2 DEF Join, Leave, Fault, cloud
    <3>3. ASSUME NEW c \in Cluster, Expire(c) \/ Crash(c) PROVE alive' = alive
      BY <3>3 DEF Expire, Crash, cloud
    <3> QED
      BY <3>1, <3>2, <3>3 DEF Next
  <2>2. Held(l) /\ Checked(l) /\ pc[l] = "deleteLb" /\ pc'[l] = "finish"
    BY <1>1, <2>1, Facts DEF HeldInv, DeleteLoadBalancer, Goto
  <2> QED
    BY <2>2 DEF Held, Checked, Deciding
<1>2. IInv => TypeOK
  BY DEF IInv
<1>3. Init => HeldInv
  BY InitHeld
<1>4. TypeOK /\ HeldInv /\ [Next]_vars => HeldInv'
  BY NextHeld
<1> QED
  BY InitIInv, NextIInv, <1>1, <1>2, <1>3, <1>4, PTL DEF Spec, ServingLbNeverDeleted

-----------------------------------------------------------------------------
(* Whose id is in the tags.  An LBC that is deleted before its first reconcile *)
(* releases nothing, and its siblings may have left their id to it: this is    *)
(* about those that have none.                                                 *)

EarlyAlone == \A l \in Early : Siblings(l) = {}

\* It is there, and has worked on the load balancer or will before it goes.
Stays(k) == phase[k] \notin {"new", "gone"} /\ (known[k] \/ k \notin Early)

\* A listed cluster has somebody who will take its id off, and one that is done
\* with the tags leaves nothing behind, or somebody.
Accounted ==
  alive =>
    /\ \A c \in tags.users : \E l \in LBC : ClusterOf[l] = c /\ Stays(l)
    /\ \A l \in LBC : pc[l] = "finish" =>
         ClusterOf[l] \notin tags.users \/ ~known[l] \/ \E k \in Siblings(l) : Stays(k)

\* What a reconcile has come to when it has only to finish.
LEMMA ComesToFinish ==
  ASSUME TypeOK, OneAtATime, OneAtATime', TurnInv, EarlyAlone, NEW l \in LBC, Turn(l),
         alive', pc'[l] = "finish"
  PROVE  ClusterOf[l] \notin tags'.users \/ ~known'[l] \/ \E k \in Siblings(l) : Stays(k)
<1>0. Own(l) /\ Remembered(ClusterOf[l])
  BY Facts DEF TurnInv
<1>1. CASE Begin(l)
  BY <1>1, Facts DEF Begin, Goto, cloud
<1>2. CASE DiffRelease(l)
  <2>1. pc[l] \in Listing /\ tags' = tags
    BY <1>2 DEF DiffRelease, Listing, After, cloud
  <2>2. PICK t \in Tags : Listed(l, t) /\ (Release(l, t) = t \/ HasOtherLBC(l))
    BY <1>2, Facts DEF DiffRelease, After, Goto
  <2>3. CASE Release(l, t) = t
    BY <1>0, <2>1, <2>2, <2>3, TagLists, ListedRight
  <2>4. CASE HasOtherLBC(l)
    BY <2>4 DEF HasOtherLBC, Siblings, EarlyAlone, Stays
  <2> QED
    BY <2>2, <2>3, <2>4
<1>3. CASE Flush(l)
  BY <1>0, <1>3, Facts DEF Flush, Goto, cloud, Own, Claims
<1>4. CASE Ask(l) \/ AskAgain(l) \/ DiffClaim(l)
  BY <1>4, Facts DEF Ask, AskAgain, DiffClaim, After, Goto
<1>5. CASE Fetch(l) \/ CreateTags(l) \/ Strip(l) \/ CheckEmpty(l)
  BY <1>5, Facts DEF Fetch, CreateTags, Strip, CheckEmpty, Goto, Listing
<1>6. CASE DeleteLoadBalancer(l) \/ Fill(l) \/ Finish(l) \/ NotFound(l) \/ Fault(l)
  BY <1>6, Facts DEF DeleteLoadBalancer, Fill, Finish, NotFound, Fault, Return, Goto
<1> QED
  BY <1>1, <1>2, <1>3, <1>4, <1>5, <1>6 DEF Turn, Reconcile

\* A step of l leaves who stays, but for l that is gone.
LEMMA StaysOn ==
  ASSUME TypeOK, NEW l \in LBC, Turn(l), NEW k \in LBC, Stays(k)
  PROVE  Stays(k)' \/ (k = l /\ Finish(l))
<1>1. CASE k # l
  BY <1>1, OthersFrame DEF Stays
<1>2. CASE k = l /\ ~Finish(l)
  <2>1. phase' = phase
    BY <1>2 DEF Turn, Reconcile, Begin, Fetch, DiffClaim, Ask, AskAgain, DiffRelease, After, CreateTags,
       Flush, Fill, Strip, CheckEmpty, DeleteLoadBalancer, NotFound, Fault, object
  <2>2. known[l] => known'[l]
    BY <1>2, Facts DEF Turn, Reconcile, Begin, Fetch, DiffClaim, Ask, AskAgain, DiffRelease, After, CreateTags,
       Flush, Fill, Strip, CheckEmpty, DeleteLoadBalancer, NotFound, Fault, object
  <2> QED
    BY <1>2, <2>1, <2>2 DEF Stays
<1> QED
  BY <1>1, <1>2

\* A step of a reconcile leaves nobody listed without somebody to take the id off.
LEMMA TurnAccounted ==
  ASSUME TypeOK, OneAtATime, OneAtATime', TurnInv, EarlyAlone, Accounted, NEW l \in LBC, Turn(l)
  PROVE  Accounted'
<1> SUFFICES ASSUME alive' PROVE Accounted'
  BY DEF Accounted
<1>0. Own(l) /\ alive
  BY DEF TurnInv, Turn, Reconcile, Begin, Fetch, DiffClaim, Ask, AskAgain, DiffRelease, After, CreateTags,
     Flush, Fill, Strip, CheckEmpty, DeleteLoadBalancer, Finish, NotFound, Fault, cloud
<1>1. ASSUME NEW k \in LBC, pc'[k] = "finish"
      PROVE  ClusterOf[k] \notin tags'.users \/ ~known'[k] \/ \E m \in Siblings(k) : Stays(m)'
  <2>1. k = l
    BY <1>1, OthersIdle
  <2>2. \A m \in Siblings(l) : Stays(m) => Stays(m)'
    BY StaysOn DEF Siblings
  <2> QED
    BY <1>1, <2>1, <2>2, ComesToFinish
<1>2. ASSUME NEW c \in tags'.users PROVE \E k \in LBC : ClusterOf[k] = c /\ Stays(k)'
  <2>1. CASE c \notin tags.users
    <3>1. c = ClusterOf[l] /\ pc[l] = "write" /\ known' = known /\ phase' = phase
      BY <1>0, <1>2, <2>1, Facts, TagsEffect, TagLists DEF Own
    <3>2. Stays(l)'
      BY <1>0, <3>1 DEF Own, Phases, Work, Stays
    <3> QED
      BY <3>1, <3>2
  <2>2. CASE c \in tags.users /\ ~Finish(l)
    BY <1>0, <2>2, StaysOn DEF Accounted
  <2>3. CASE c \in tags.users /\ Finish(l)
    <3>1. PICK k \in LBC : ClusterOf[k] = c /\ Stays(k)
      BY <1>0, <2>3 DEF Accounted
    <3>2. CASE k # l
      BY <3>1, <3>2, StaysOn
    <3>3. CASE k = l
      <4>1. pc[l] = "finish"
        BY <2>3 DEF Finish
      <4>2. known[l]
        BY <1>0, <3>1, <3>3, <4>1 DEF Own, Phases, Stays
      <4>3. PICK m \in Siblings(l) : Stays(m)
        BY <1>0, <2>3, <3>1, <3>3, <4>1, <4>2 DEF Accounted
      <4>4. m \in LBC /\ m # l /\ ClusterOf[m] = c
        BY <3>1, <3>3 DEF Siblings
      <4> QED
        BY <4>3, <4>4, StaysOn
    <3> QED
      BY <3>2, <3>3
  <2> QED
    BY <2>1, <2>2, <2>3
<1> QED
  BY <1>1, <1>2 DEF Accounted

\* Accounted is inductive.
LEMMA NextAccounted ==
  ASSUME EarlyAlone
  PROVE  TypeOK /\ OneAtATime /\ OneAtATime' /\ TurnInv /\ Accounted /\ [Next]_vars => Accounted'
<1> SUFFICES ASSUME TypeOK, OneAtATime, OneAtATime', TurnInv, Accounted, [Next]_vars PROVE Accounted'
  OBVIOUS
<1>1. ASSUME tags' = tags, alive' = alive, known' = known, \A l \in LBC : pc'[l] \in {pc[l], "idle"},
             \A l \in LBC : Stays(l) => Stays(l)'
      PROVE  Accounted'
  BY <1>1 DEF Accounted, Siblings
<1>2. CASE UNCHANGED vars
  BY <1>1, <1>2 DEF vars, cloud, object, run, Stays
<1>3. ASSUME NEW l \in LBC, Join(l) \/ Leave(l) PROVE Accounted'
  <2>1. \A k \in LBC : Stays(k) => Stays(k)'
    BY <1>3, Facts DEF Join, Leave, Stays
  <2> QED
    BY <1>1, <1>3, <2>1 DEF Join, Leave, cloud, run
<1>4. ASSUME NEW c \in Cluster, Expire(c) \/ Crash(c) PROVE Accounted'
  BY <1>1, <1>4 DEF Expire, Crash, cloud, object, run, Stays
<1> QED
  BY <1>2, <1>3, <1>4, TurnAccounted DEF Next, Turn

\* The first state: nobody is listed.
LEMMA InitAccounted == ASSUME Init PROVE Accounted
<1>1. tags.users = {}
  BY DEF Init, NoTags
<1>2. \A l \in LBC : pc[l] # "finish"
  BY DEF Init
<1> QED
  BY <1>1, <1>2 DEF Accounted

\* The list of clusters is in step with who is on the load balancer: a cluster with
\* nothing left on it is not listed, and an LBC that leaves does not take the id
\* along while a sibling serves; however old the caches are, wherever calls fail
\* and controllers stop.
THEOREM SharedIdsInStep == ASSUME EarlyAlone PROVE Spec /\ []OneAtATime => []IdsInStep
<1>1. TurnInv /\ Accounted => IdsInStep
  BY DEF TurnInv, Own, Claims, Accounted, Stays, IdsInStep
<1>2. IInv => TypeOK
  BY DEF IInv
<1>3. Init => TurnInv /\ Accounted
  BY InitTurn, InitAccounted
<1>4. TypeOK /\ OneAtATime /\ OneAtATime' /\ TurnInv /\ Accounted /\ [Next]_vars => Accounted'
  BY NextAccounted
<1> QED
  BY InitIInv, NextIInv, NextTurn, <1>1, <1>2, <1>3, <1>4, PTL DEF Spec
=============================================================================
