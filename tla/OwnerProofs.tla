---------------------------- MODULE OwnerProofs -----------------------------
(***************************************************************************)
(* For any names, specs and bounds, however the reconciles of the four     *)
(* controllers, the user, the cache and the children's controllers         *)
(* interleave, and with failing calls and restarts anywhere: Owner         *)
(* implements Custody, and an owner has one configuration at a time.       *)
(*                                                                         *)
(* The argument: a child that is there is in the cache, or is the one the  *)
(* reconcile waits for, or was lost sight of (Seen).  So a reconcile that  *)
(* makes one after it has seen none makes the only one, and one that saw   *)
(* nothing to delete leaves nothing.                                       *)
(***************************************************************************)
EXTENDS Owner, FiniteSetTheorems, TLAPS

There(k, s) == api[k][s] # None /\ <<k, s>> \notin lost

\* What is there shows in the cache, unless its maker is still waiting for that.
Seen(k) ==
  \A s \in Slot : There(k, s) =>
    cache[k][s] # None \/ (pc[k] = "wait" /\ plan[k].slot = s)

\* What a reconcile has found out, and is to write.
Known(k) ==
  /\ pc[k] # "idle" => k \in fin
  /\ pc[k] \in {"write", "wait", "group"} => plan[k].new \in Want
  /\ pc[k] = "wait" => plan[k].slot \in Slot
  /\ pc[k] = "write" =>
       IF plan[k].slot = None THEN \A c \in Config : ~There(k, c) ELSE plan[k].slot \in Config
  /\ pc[k] = "delete" /\ ~still[k] =>
       /\ "config" \notin todo[k] => \A c \in Config : ~There(k, c)
       /\ "group" \notin todo[k] => ~There(k, Group)

\* A global owner has no NSG.
Global(k) == k \notin Local => api[k][Group] = None /\ pc[k] # "group"

\* Without a finalizer there is nothing, and there is one configuration.
Kept(k) ==
  /\ k \notin fin \cup left => \A s \in Slot : ~There(k, s)
  /\ \A c, d \in Config : There(k, c) /\ There(k, d) => c = d

Sound(k) == Seen(k) /\ Known(k) /\ Global(k) /\ Kept(k)

IInv == TypeOK /\ \A k \in Kind : Sound(k)

-----------------------------------------------------------------------------
\* Every kind is that of some object.
LEMMA ObjectOfKind == \A k \in Kind : Object(k) \in Objects
BY DEF Objects

\* Nothing is there yet.
LEMMA InitIInv == Init => IInv
<1> SUFFICES ASSUME Init PROVE IInv
  OBVIOUS
<1>1. NoPlan \in Plan /\ Empty \in Children /\ NoPlan.slot = None
  BY DEF NoPlan, Plan, Empty, Children
<1>2. spec \in [Kind -> Asked] /\ used \in Used /\ queue \subseteq used
  BY DEF Init
<1>3. 0 \in 0..MaxEdits[used] /\ 0 \in 0..MaxLate[used] /\ 0 \in 0..MaxFaults[used]
  BY <1>2, OwnerAssumption
<1>4. TypeOK
  BY <1>1, <1>2, <1>3 DEF Init, TypeOK
<1>5. ASSUME NEW k \in Kind PROVE Sound(k)
  <2>1. \A s \in Slot : api[k][s] = None
    BY DEF Init, Empty
  <2>2. Group \in Slot /\ Config \subseteq Slot
    BY DEF Slot
  <2> QED
    BY <2>1, <2>2 DEF Init, Sound, Seen, Known, Global, Kept, There
<1> QED
  BY <1>4, <1>5 DEF IInv

\* What a step of k leaves of j.
Same(j) ==
  /\ api'[j] = api[j] /\ cache'[j] = cache[j] /\ pc'[j] = pc[j] /\ plan'[j] = plan[j]
  /\ todo'[j] = todo[j] /\ still'[j] = still[j]
  /\ (j \in fin <=> j \in fin') /\ (j \in left <=> j \in left')
  /\ \A s \in Slot : <<j, s>> \in lost <=> <<j, s>> \in lost'

\* Then j may go on.
LEMMA SameSound == ASSUME IInv, NEW j \in Kind, Same(j) PROVE Sound(j)'
<1>1. Group \in Slot /\ Config \subseteq Slot
  BY DEF Slot
<1> QED
  BY <1>1 DEF IInv, Same, Sound, Seen, Known, Global, Kept, There

-----------------------------------------------------------------------------
(* Steps that change no child and nothing the cache shows. *)

\* The reconcile of k goes to a step at which it knows nothing yet.
Blank(k) ==
  /\ pc'[k] \in {"idle", "read", "address"} \/ (pc'[k] = "group" /\ k \in Local /\ plan'[k].new \in Want)
  /\ pc'[k] # "idle" => k \in fin'

LEMMA BlankSound ==
  ASSUME IInv, NEW k \in Kind, Blank(k), UNCHANGED <<api, cache, history>>,
         pc[k] = "wait" => cache[k][plan[k].slot] # None, k \in fin => k \in fin'
  PROVE  Sound(k)'
<1>1. Group \in Slot /\ Config \subseteq Slot
  BY DEF Slot
<1>2. Seen(k)'
  BY DEF IInv, Sound, Seen, There, history
<1>3. Known(k)'
  BY DEF Blank, Known
<1>4. Global(k)' /\ Kept(k)'
  BY <1>1 DEF IInv, Sound, Blank, Global, Kept, There, history
<1> QED
  BY <1>2, <1>3, <1>4 DEF Sound

\* A reconcile returns.
LEMMA ReturnTypes ==
  ASSUME TypeOK, NEW k \in Kind, Return(k)
  PROVE  /\ pc' \in [Kind -> {"idle", "read", "write", "wait", "group", "address", "delete"}]
         /\ plan' \in [Kind -> Plan] /\ todo' \in [Kind -> SUBSET Parts]
         /\ still' \in [Kind -> BOOLEAN] /\ pc'[k] = "idle"
         /\ \A j \in Kind \ {k} : pc'[j] = pc[j] /\ plan'[j] = plan[j]
                                 /\ todo'[j] = todo[j] /\ still'[j] = still[j]
<1>1. NoPlan \in Plan
  BY DEF NoPlan, Plan
<1> QED
  BY <1>1 DEF Return, Goto, TypeOK

\* It returns for another try, having changed nothing.
LEMMA RetryStep ==
  ASSUME IInv, NEW k \in Kind, k \in used, Retry(k), UNCHANGED <<used, object, api, cache, ready, history>>,
         pc[k] # "wait", UNCHANGED edits, UNCHANGED late, faults' \in 0..MaxFaults[used]
  PROVE  IInv'
<1>1. TypeOK'
  BY ReturnTypes DEF Retry, IInv, TypeOK, object, history
<1>2. Sound(k)'
  BY ReturnTypes, BlankSound DEF Retry, IInv, Blank, object
<1>3. ASSUME NEW j \in Kind, j # k PROVE Sound(j)'
  BY <1>3, ReturnTypes, SameSound DEF Retry, IInv, Same, object, history
<1> QED
  BY <1>1, <1>2, <1>3 DEF IInv

\* The bounds are as wide as their constants say.
LEMMA BoundTypes ==
  ASSUME TypeOK
  PROVE  /\ edits \in Nat /\ late \in Nat /\ faults \in Nat
         /\ MaxEdits[used] \in Nat /\ MaxLate[used] \in Nat /\ MaxFaults[used] \in Nat
BY OwnerAssumption DEF TypeOK

\* The finalizer is put on.
LEMMA EnsureStep == ASSUME IInv, NEW k \in Kind, Ensure(k) PROVE IInv'
<1>1. TypeOK'
  BY DEF Ensure, Start, Goto, IInv, TypeOK, history, bounds
<1>2. Sound(k)'
  <2>1. Blank(k) /\ pc[k] = "idle"
    BY DEF Ensure, Start, Goto, IInv, TypeOK, Blank
  <2> QED
    BY <2>1, BlankSound DEF Ensure
<1>3. ASSUME NEW j \in Kind, j # k PROVE Sound(j)'
  <2>1. Same(j)
    BY <1>3 DEF Ensure, Start, Goto, IInv, TypeOK, Same, history
  <2> QED
    BY <2>1, SameSound
<1> QED
  BY <1>1, <1>2, <1>3 DEF IInv

\* The use case gives up for now.
LEMMA RefuseStep == ASSUME IInv, NEW k \in Kind, Refuse(k) PROVE IInv'
<1>1. k \in used
  BY DEF Refuse, IInv, TypeOK, Sound, Known
<1> QED
  BY <1>1, RetryStep DEF Refuse, IInv, TypeOK, bounds

\* The children are listed: if none is in the cache, none is there.
LEMMA ReadStep == ASSUME IInv, NEW k \in Kind, Read(k) PROVE IInv'
<1> DEFINE known == Cached(k)
           c == IF known = {} THEN None ELSE CHOOSE x \in known : TRUE
           p == [slot |-> c, old |-> IF c = None THEN None ELSE cache[k][c].want, new |-> spec[k].want]
           skip == Ignored(k) \/ (k = "vglb" /\ spec[k].pre = "follower" /\ c = None)
           step == IF skip THEN AfterConfig(k) ELSE "write"
<1>1. /\ pc[k] = "read" /\ plan' = [plan EXCEPT ![k] = p] /\ pc' = [pc EXCEPT ![k] = step]
      /\ UNCHANGED <<used, object, api, cache, ready, queue, todo, still, history, bounds>>
  BY DEF Read, Goto
<1>2. /\ c \in Config \cup {None} /\ (c = None => \A x \in Config : cache[k][x] = None)
      /\ (c # None => c \in Config /\ cache[k][c] # None)
  <2>1. CASE known = {}
    BY <2>1 DEF Cached
  <2>2. CASE known # {}
    <3>1. c \in known
      BY <2>2
    <3> QED
      BY <3>1, OwnerAssumption DEF Cached, Slot
  <2> QED
    BY <2>1, <2>2
<1>3. p \in Plan /\ p.slot = c /\ p.new \in Want
  <2>1. c # None => cache[k][c] \in Child
    BY <1>2 DEF IInv, TypeOK, Children, Slot
  <2>2. spec[k].want \in Want
    BY DEF IInv, TypeOK, Asked
  <2> HIDE DEF c
  <2> QED
    BY <1>2, <2>1, <2>2 DEF Child, Plan, Slot
<1>4. step \in {"write", "address"} \/ (step = "group" /\ k \in Local)
  BY DEF AfterConfig
<1> HIDE DEF c, p, step
<1>5. TypeOK'
  BY <1>1, <1>3, <1>4 DEF IInv, TypeOK, object, history, bounds
<1>6. k \in fin /\ k \in fin'
  BY <1>1 DEF IInv, Sound, Known, object
<1>7. Sound(k)'
  <2>1. pc'[k] = step /\ plan'[k] = p
    BY <1>1 DEF IInv, TypeOK
  <2>2. CASE step # "write"
    <3>1. Blank(k)
      BY <1>3, <1>4, <1>6, <2>1, <2>2 DEF Blank
    <3> QED
      BY <1>1, <1>6, <3>1, BlankSound
  <2>3. CASE step = "write"
    <3>1. Seen(k)' /\ Global(k)' /\ Kept(k)'
      BY <1>1, <2>1, <2>3 DEF IInv, Sound, Seen, Global, Kept, There, object, history
    <3>2. c = None => \A x \in Config : ~There(k, x)'
      BY <1>1, <1>2 DEF IInv, Sound, Seen, There, Slot, history
    <3>3. Known(k)'
      BY <1>2, <1>3, <1>6, <2>1, <2>3, <3>2 DEF Known
    <3> QED
      BY <3>1, <3>3 DEF Sound
  <2> QED
    BY <2>2, <2>3
<1>8. ASSUME NEW j \in Kind, j # k PROVE Sound(j)'
  <2>1. Same(j)
    BY <1>1, <1>8 DEF IInv, TypeOK, Same, object, history
  <2> QED
    BY <2>1, SameSound
<1> QED
  BY <1>5, <1>7, <1>8 DEF IInv

-----------------------------------------------------------------------------
(* Steps that make, change or lose sight of a child. *)

\* A child is made in a slot that was empty, and waited for.
LEMMA MakeStep ==
  ASSUME IInv, NEW k \in Kind, NEW s \in Slot, api[k][s] = None, cache[k][s] = None,
         pc[k] \in {"write", "group"}, s = Group => k \in Local,
         s \in Config => \A c \in Config : ~There(k, c),
         Make(k, s), UNCHANGED <<used, object, cache, ready, history, bounds>>
  PROVE  IInv'
<1>1. /\ plan[k].new \in Want /\ k \in fin
  BY DEF IInv, Sound, Known
<1>2. New(plan[k].new) \in Child /\ New(plan[k].new) # None
  <2>1. New(plan[k].new) \in Child
    BY <1>1 DEF New, Child
  <2> QED
    BY <2>1, OwnerAssumption
<1>3. /\ api' \in [Kind -> Children] /\ api'[k][s] # None
      /\ \A x \in Slot \ {s} : api'[k][x] = api[k][x]
      /\ \A j \in Kind \ {k} : api'[j] = api[j]
  BY <1>2 DEF Make, IInv, TypeOK, Children
<1>4. /\ plan' \in [Kind -> Plan] /\ plan'[k].slot = s /\ plan'[k].new = plan[k].new
      /\ pc'[k] = "wait"
      /\ \A j \in Kind \ {k} : plan'[j] = plan[j] /\ pc'[j] = pc[j]
  BY DEF Make, Goto, IInv, TypeOK, Plan
<1>5. TypeOK'
  BY <1>3, <1>4 DEF Make, Goto, IInv, TypeOK, object, history, bounds
<1>6. Sound(k)'
  <2>1. Group \notin Config /\ Slot = Config \cup {Group}
    BY OwnerAssumption DEF Slot
  <2>2. Seen(k)' /\ Known(k)'
    BY <1>1, <1>3, <1>4, <2>1 DEF IInv, Sound, Seen, Known, There, object, history
  <2>3. Global(k)' /\ Kept(k)'
    BY <1>1, <1>3, <1>4, <2>1 DEF IInv, Sound, Global, Kept, There, object, history
  <2> QED
    BY <2>2, <2>3 DEF Sound
<1>7. ASSUME NEW j \in Kind, j # k PROVE Sound(j)'
  <2>1. Same(j)
    BY <1>3, <1>4, <1>7 DEF Make, Same, object, history
  <2> QED
    BY <2>1, SameSound
<1> QED
  BY <1>5, <1>6, <1>7 DEF IInv

\* A child is made where the cache had none.
LEMMA CreateConfigStep == ASSUME IInv, NEW k \in Kind, CreateConfig(k) PROVE IInv'
<1> DEFINE s == CHOOSE c \in Free(k) : TRUE
<1>1. s \in Free(k) /\ Make(k, s)
  BY DEF CreateConfig
<1>2. s \in Config /\ api[k][s] = None /\ cache[k][s] = None
  BY <1>1 DEF Free
<1> HIDE DEF s
<1>3. \A c \in Config : ~There(k, c)
  BY DEF CreateConfig, IInv, Sound, Known
<1> QED
  BY <1>1, <1>2, <1>3, MakeStep, OwnerAssumption DEF CreateConfig, Slot

\* A step that leaves every child where it is, whatever it writes into it, and
\* takes the reconcile of k on without anything to know.
LEMMA RewriteStep ==
  ASSUME IInv, NEW k \in Kind, api' \in [Kind -> Children], NEW q,
         \A s \in Slot : api'[k][s] = None <=> api[k][s] = None,
         \A j \in Kind \ {k} : api'[j] = api[j], pc[k] \in {"write", "group"},
         q = "address" \/ (q = "group" /\ k \in Local), pc' = [pc EXCEPT ![k] = q],
         UNCHANGED <<used, object, cache, ready, queue, plan, todo, still, history, bounds>>
  PROVE  IInv'
<1>1. TypeOK'
  BY DEF IInv, TypeOK, object, history, bounds
<1>2. Sound(k)'
  <2>1. Group \in Slot /\ Config \subseteq Slot
    BY DEF Slot
  <2>2. pc'[k] = q
    BY DEF IInv, TypeOK
  <2>3. Seen(k)' /\ Known(k)'
    BY <2>1, <2>2 DEF IInv, Sound, Seen, Known, There, object, history
  <2>4. Global(k)' /\ Kept(k)'
    BY <2>1, <2>2 DEF IInv, Sound, Global, Kept, There, object, history
  <2> QED
    BY <2>3, <2>4 DEF Sound
<1>3. ASSUME NEW j \in Kind, j # k PROVE Sound(j)'
  <2>1. Same(j)
    BY <1>3 DEF IInv, TypeOK, Same, object, history
  <2> QED
    BY <2>1, SameSound
<1> QED
  BY <1>1, <1>2, <1>3 DEF IInv

\* A patch writes into a child that is there, or fails.
LEMMA PatchStep ==
  ASSUME IInv, NEW k \in Kind, NEW s \in Slot, NEW old, NEW next,
         Patch(k, s, old, next), pc[k] \in {"write", "group"},
         next = "address" \/ (next = "group" /\ k \in Local),
         UNCHANGED <<used, object, cache, ready, history, bounds>>
  PROVE  IInv'
<1>1. k \in used /\ plan[k].new \in Want
  BY DEF IInv, TypeOK, Sound, Known
<1>2. CASE old = plan[k].new
  <2>1. pc' = [pc EXCEPT ![k] = next] /\ UNCHANGED <<api, queue, plan, todo, still>>
    BY <1>2 DEF Patch, Goto
  <2> QED
    BY <2>1, RewriteStep DEF IInv, TypeOK
<1>3. CASE old # plan[k].new /\ api[k][s] # None
  <2>1. /\ api' = [api EXCEPT ![k][s].want = plan[k].new] /\ pc' = [pc EXCEPT ![k] = next]
        /\ UNCHANGED <<queue, plan, todo, still>>
    BY <1>3 DEF Patch, Goto
  <2>2. api[k][s] \in Child
    BY <1>3 DEF IInv, TypeOK, Children
  <2>3. [api[k][s] EXCEPT !.want = plan[k].new] \in Child
    BY <1>1, <2>2 DEF Child
  <2>4. [api[k][s] EXCEPT !.want = plan[k].new] # None
    BY <2>3, OwnerAssumption
  <2>5. /\ api' \in [Kind -> Children] /\ \A j \in Kind \ {k} : api'[j] = api[j]
        /\ \A x \in Slot : api'[k][x] = None <=> api[k][x] = None
    BY <1>3, <2>1, <2>3, <2>4 DEF IInv, TypeOK, Children
  <2> QED
    BY <2>1, <2>5, RewriteStep
<1>4. CASE old # plan[k].new /\ api[k][s] = None
  <2>1. Retry(k) /\ UNCHANGED api
    BY <1>4 DEF Patch
  <2> QED
    BY <1>1, <2>1, RetryStep DEF IInv, TypeOK, bounds
<1> QED
  BY <1>2, <1>3, <1>4

\* The configuration that was found is patched.
LEMMA PatchConfigStep == ASSUME IInv, NEW k \in Kind, PatchConfig(k) PROVE IInv'
<1>1. plan[k].slot \in Slot
  BY DEF PatchConfig, IInv, Sound, Known, Slot
<1>2. AfterConfig(k) = "address" \/ (AfterConfig(k) = "group" /\ k \in Local)
  BY DEF AfterConfig
<1> QED
  BY <1>1, <1>2, PatchStep DEF PatchConfig

\* The NSG is made, unless it is there and the cache does not show it.
LEMMA CreateGroupStep == ASSUME IInv, NEW k \in Kind, CreateGroup(k) PROVE IInv'
<1>1. k \in used /\ k \in Local
  BY DEF CreateGroup, IInv, TypeOK, Sound, Known, Global
<1>2. CASE api[k][Group] = None
  BY <1>1, <1>2, MakeStep, OwnerAssumption DEF CreateGroup, Slot
<1>3. CASE api[k][Group] # None
  BY <1>1, <1>3, RetryStep DEF CreateGroup, IInv, TypeOK, bounds
<1> QED
  BY <1>2, <1>3

\* The NSG is patched.
LEMMA PatchGroupStep == ASSUME IInv, NEW k \in Kind, PatchGroup(k) PROVE IInv'
<1>1. Group \in Slot
  BY DEF Slot
<1> QED
  BY <1>1, PatchStep DEF PatchGroup

\* The child shows in the cache.
LEMMA WaitCreatedStep == ASSUME IInv, NEW k \in Kind, WaitCreated(k) PROVE IInv'
<1> DEFINE q == IF plan[k].slot = Group THEN "address" ELSE AfterConfig(k)
<1>1. q = "address" \/ (q = "group" /\ k \in Local)
  BY DEF AfterConfig
<1>2. pc' = [pc EXCEPT ![k] = q]
  BY DEF WaitCreated, Goto
<1> HIDE DEF q
<1>3. TypeOK'
  BY <1>1, <1>2 DEF WaitCreated, IInv, TypeOK, object, history, bounds
<1>4. Sound(k)'
  <2>1. Blank(k)
    BY <1>1, <1>2 DEF WaitCreated, IInv, TypeOK, Sound, Known, Blank, object
  <2> QED
    BY <2>1, BlankSound DEF WaitCreated, object
<1>5. ASSUME NEW j \in Kind, j # k PROVE Sound(j)'
  <2>1. Same(j)
    BY <1>2, <1>5 DEF WaitCreated, IInv, TypeOK, Same, object, history
  <2> QED
    BY <2>1, SameSound
<1> QED
  BY <1>3, <1>4, <1>5 DEF IInv

\* Or it does not in time, and is lost sight of.
LEMMA WaitGivenUpStep == ASSUME IInv, NEW k \in Kind, WaitGivenUp(k) PROVE IInv'
<1>1. plan[k].slot \in Slot /\ k \in fin /\ k \in used
  BY DEF WaitGivenUp, IInv, TypeOK, Sound, Known
<1>2. late' \in 0..MaxLate[used]
  BY BoundTypes DEF WaitGivenUp, IInv
<1>3. TypeOK'
  BY <1>1, <1>2, ReturnTypes DEF WaitGivenUp, Retry, IInv, TypeOK, object
<1>4. Sound(k)'
  <2>1. Group \in Slot /\ Config \subseteq Slot
    BY DEF Slot
  <2>2. pc'[k] = "idle"
    BY ReturnTypes DEF WaitGivenUp, Retry, IInv
  <2>3. Seen(k)' /\ Known(k)'
    BY <2>1, <2>2 DEF WaitGivenUp, IInv, Sound, Seen, Known, There
  <2>4. Global(k)' /\ Kept(k)'
    BY <2>1, <2>2 DEF WaitGivenUp, IInv, Sound, Global, Kept, There, object
  <2> QED
    BY <2>3, <2>4 DEF Sound
<1>5. ASSUME NEW j \in Kind, j # k PROVE Sound(j)'
  <2>1. Same(j)
    BY <1>5, ReturnTypes DEF WaitGivenUp, Retry, IInv, Same, object
  <2> QED
    BY <2>1, SameSound
<1> QED
  BY <1>3, <1>4, <1>5 DEF IInv

\* The address is shown.
LEMMA PublishStep == ASSUME IInv, NEW k \in Kind, Publish(k) PROVE IInv'
<1>1. k \in used /\ pc[k] = "address" /\ Return(k)
  BY DEF Publish, IInv, TypeOK, Sound, Known
<1>2. TypeOK'
  BY <1>1, ReturnTypes DEF Publish, IInv, TypeOK, history, bounds
<1>3. Sound(k)'
  <2>1. Blank(k)
    BY <1>1, ReturnTypes DEF IInv, Blank
  <2> QED
    BY <1>1, <2>1, BlankSound DEF Publish
<1>4. ASSUME NEW j \in Kind, j # k PROVE Sound(j)'
  <2>1. Same(j)
    BY <1>1, <1>4, ReturnTypes DEF Publish, IInv, Same, history
  <2> QED
    BY <2>1, SameSound
<1> QED
  BY <1>2, <1>3, <1>4 DEF IInv

-----------------------------------------------------------------------------
(* Deletion. *)

\* The finalizer comes off an owner that has nothing, or is let go.
LEMMA ReleaseStep ==
  ASSUME IInv, NEW k \in Kind, k \in used, Release(k), pc[k] # "wait",
         queue' \subseteq queue, left' \in {left, left \cup {k}},
         k \notin left' => \A s \in Slot : ~There(k, s)
  PROVE  IInv'
<1>1. state' \in [Objects -> {"live", "deleting", "gone"}]
  BY ObjectOfKind DEF Release, IInv, TypeOK
<1>2. TypeOK'
  BY <1>1, ReturnTypes DEF Release, IInv, TypeOK, bounds
<1>3. Sound(k)'
  <2>1. Group \in Slot /\ Config \subseteq Slot
    BY DEF Slot
  <2>2. pc'[k] = "idle"
    BY ReturnTypes DEF Release, IInv
  <2>3. Seen(k)' /\ Known(k)'
    BY <2>1, <2>2 DEF Release, IInv, Sound, Seen, Known, There
  <2>4. Global(k)' /\ Kept(k)'
    BY <2>1, <2>2 DEF Release, IInv, Sound, Global, Kept, There
  <2> QED
    BY <2>3, <2>4 DEF Sound
<1>4. ASSUME NEW j \in Kind, j # k PROVE Sound(j)'
  <2>1. Same(j)
    BY <1>4, ReturnTypes DEF Release, IInv, Same
  <2> QED
    BY <2>1, SameSound
<1> QED
  BY <1>2, <1>3, <1>4 DEF IInv

\* Both goroutines saw nothing.
LEMMA NothingLeft ==
  ASSUME IInv, NEW k \in Kind, pc[k] = "delete", todo[k] = {}, ~still[k]
  PROVE  \A s \in Slot : ~There(k, s)
BY DEF IInv, Sound, Known, Slot

\* So the finalizer comes off.
LEMMA RemoveFinalizersStep == ASSUME IInv, NEW k \in Kind, RemoveFinalizers(k) PROVE IInv'
<1>1. k \in used
  BY DEF RemoveFinalizers, IInv, TypeOK, Sound, Known
<1> QED
  BY <1>1, NothingLeft, ReleaseStep DEF RemoveFinalizers

\* With the ignore annotation it comes off all the same.
LEMMA LetGoStep == ASSUME IInv, NEW k \in Kind, LetGo(k) PROVE IInv'
BY ReleaseStep DEF LetGo, Start, IInv, TypeOK

\* The request is dropped.
LEMMA SkipStep == ASSUME IInv, NEW k \in Kind, Skip(k) PROVE IInv'
<1>1. TypeOK'
  BY DEF Skip, Start, IInv, TypeOK, object, run, history, bounds
<1>2. ASSUME NEW j \in Kind PROVE Sound(j)'
  <2>1. Same(j)
    BY DEF Skip, Same, object, run, history
  <2> QED
    BY <2>1, SameSound
<1> QED
  BY <1>1, <1>2 DEF IInv

\* The goroutines of a deletion start.
LEMMA DeleteStep == ASSUME IInv, NEW k \in Kind, Delete(k) PROVE IInv'
<1> DEFINE parts == IF k \in Local THEN Parts ELSE {"config"}
<1>1. /\ pc[k] = "idle" /\ k \in fin /\ queue' = queue \ {k}
      /\ pc' = [pc EXCEPT ![k] = "delete"] /\ todo' = [todo EXCEPT ![k] = parts]
      /\ UNCHANGED <<used, object, api, cache, ready, plan, still, history, bounds>>
  BY DEF Delete, Start, Goto
<1>2. parts \subseteq Parts /\ "config" \in parts /\ ("group" \notin parts => k \notin Local)
  BY DEF Parts
<1> HIDE DEF parts
<1>3. TypeOK'
  BY <1>1, <1>2 DEF IInv, TypeOK, object, history, bounds
<1>4. Sound(k)'
  <2>1. pc'[k] = "delete" /\ todo'[k] = parts
    BY <1>1 DEF IInv, TypeOK
  <2>2. Seen(k)' /\ Global(k)' /\ Kept(k)'
    BY <1>1, <2>1 DEF IInv, Sound, Seen, Global, Kept, There, object, history
  <2>3. Known(k)'
    BY <1>1, <1>2, <2>1 DEF IInv, Sound, Global, Known, There, object, history
  <2> QED
    BY <2>2, <2>3 DEF Sound
<1>5. ASSUME NEW j \in Kind, j # k PROVE Sound(j)'
  <2>1. Same(j)
    BY <1>1, <1>5 DEF IInv, TypeOK, Same, object, history
  <2> QED
    BY <2>1, SameSound
<1> QED
  BY <1>3, <1>4, <1>5 DEF IInv

\* One of them deletes what the cache shows, and reports whether that was
\* anything.
LEMMA DeletePartStep ==
  ASSUME IInv, NEW k \in Kind, NEW part \in Parts, NEW slots \in SUBSET Slot,
         part = "config" => slots = Config, part = "group" => slots = {Group},
         DeletePart(k, part, slots)
  PROVE  IInv'
<1> DEFINE gone(s) == s \in slots /\ cache[k][s] # None /\ api[k][s] # None /\ ~cache[k][s].deleting
           new(s) == IF gone(s) THEN [api[k][s] EXCEPT !.deleting = TRUE] ELSE api[k][s]
           any == \E s \in slots : cache[k][s] # None
<1>1. /\ pc[k] = "delete" /\ part \in todo[k]
      /\ api' = [api EXCEPT ![k] = [s \in Slot |-> new(s)]]
      /\ still' = [still EXCEPT ![k] = @ \/ any]
      /\ todo' = [todo EXCEPT ![k] = @ \ {part}]
      /\ UNCHANGED <<used, object, cache, ready, queue, pc, plan, history, bounds>>
  BY DEF DeletePart, Deleted
<1>2. ASSUME NEW s \in Slot
      PROVE  new(s) \in Child \cup {None} /\ (new(s) = None <=> api[k][s] = None)
  <2>1. api[k][s] \in Child \cup {None}
    BY DEF IInv, TypeOK, Children
  <2>2. CASE gone(s)
    <3>1. [api[k][s] EXCEPT !.deleting = TRUE] \in Child
      BY <2>1, <2>2 DEF Child
    <3> QED
      BY <2>2, <3>1, OwnerAssumption
  <2> QED
    BY <2>1, <2>2
<1> HIDE DEF new
<1>3. /\ api' \in [Kind -> Children] /\ \A j \in Kind \ {k} : api'[j] = api[j]
      /\ \A s \in Slot : api'[k][s] = None <=> api[k][s] = None
  BY <1>1, <1>2 DEF IInv, TypeOK, Children
<1>4. any \in BOOLEAN /\ (~any => \A s \in slots : cache[k][s] = None)
  OBVIOUS
<1> HIDE DEF any
<1>5. still' \in [Kind -> BOOLEAN] /\ (~still'[k] => ~still[k] /\ ~any)
  BY <1>1, <1>4 DEF IInv, TypeOK
<1>6. todo' \in [Kind -> SUBSET Parts] /\ todo'[k] = todo[k] \ {part}
  BY <1>1 DEF IInv, TypeOK
<1>7. TypeOK'
  BY <1>1, <1>3, <1>5, <1>6 DEF IInv, TypeOK, object, history, bounds
<1>8. Sound(k)'
  <2>1. Group \in Slot /\ Config \subseteq Slot
    BY DEF Slot
  <2>2. Seen(k)' /\ Global(k)' /\ Kept(k)'
    BY <1>1, <1>3, <2>1 DEF IInv, Sound, Seen, Global, Kept, There, object, history
  <2>3. ~still'[k] => \A s \in slots : ~There(k, s)'
    BY <1>1, <1>3, <1>4, <1>5 DEF IInv, Sound, Seen, There, history
  <2>4. \A s \in Slot : ~There(k, s) => ~There(k, s)'
    BY <1>1, <1>3 DEF There, history
  <2>5. part \in {"config", "group"}
    BY DEF Parts
  <2>6. Known(k)'
    BY <1>1, <1>5, <1>6, <2>1, <2>3, <2>4, <2>5 DEF IInv, Sound, Known, object
  <2> QED
    BY <2>2, <2>6 DEF Sound
<1>9. ASSUME NEW j \in Kind, j # k PROVE Sound(j)'
  <2>1. Same(j)
    BY <1>1, <1>3, <1>9 DEF IInv, TypeOK, Same, object, history
  <2> QED
    BY <2>1, SameSound
<1> QED
  BY <1>7, <1>8, <1>9 DEF IInv

\* One of them fails, and counts as having seen something.
LEMMA DeleteFailsStep == ASSUME IInv, NEW k \in Kind, DeleteFails(k) PROVE IInv'
<1>1. PICK part \in todo[k] : todo' = [todo EXCEPT ![k] = @ \ {part}]
  BY DEF DeleteFails
<1>2. faults' \in 0..MaxFaults[used]
  BY BoundTypes DEF DeleteFails, IInv
<1>3. TypeOK'
  BY <1>1, <1>2 DEF DeleteFails, IInv, TypeOK, object, history
<1>4. Sound(k)'
  <2>1. still'[k] /\ pc[k] = "delete" /\ UNCHANGED <<api, cache, history, pc, plan, object>>
    BY DEF DeleteFails, IInv, TypeOK
  <2> QED
    BY <2>1 DEF IInv, Sound, Seen, Known, Global, Kept, There, object, history
<1>5. ASSUME NEW j \in Kind, j # k PROVE Sound(j)'
  <2>1. Same(j)
    BY <1>1, <1>5 DEF DeleteFails, IInv, TypeOK, Same, object, history
  <2> QED
    BY <2>1, SameSound
<1> QED
  BY <1>3, <1>4, <1>5 DEF IInv

\* Something is still there: asked again.
LEMMA WaitingStep == ASSUME IInv, NEW k \in Kind, Waiting(k) PROVE IInv'
<1>1. k \in used
  BY DEF Waiting, IInv, TypeOK, Sound, Known
<1> QED
  BY <1>1, RetryStep DEF Waiting, IInv, TypeOK, bounds

\* A call fails, and the reconcile with it.
LEMMA FailStep == ASSUME IInv, NEW k \in Kind, Fail(k) PROVE IInv'
<1>1. k \in used /\ pc[k] # "wait"
  BY DEF Fail, IInv, TypeOK, Sound, Known
<1>2. faults' \in 0..MaxFaults[used]
  BY BoundTypes DEF Fail, IInv
<1> QED
  BY <1>1, <1>2, RetryStep DEF Fail

-----------------------------------------------------------------------------
(* The program, the cache, the children's controllers and the users. *)

\* A step that leaves children, cache and reconciles as they are.
LEMMA AsideStep ==
  ASSUME IInv, TypeOK', UNCHANGED <<fin, api, cache, run, history>>
  PROVE  IInv'
<1>1. ASSUME NEW j \in Kind PROVE Sound(j)'
  <2>1. Same(j)
    BY DEF Same, run, history
  <2> QED
    BY <2>1, SameSound
<1> QED
  BY <1>1 DEF IInv

\* The use case is initialized, or an owner is queued again.
LEMMA QueueStep ==
  ASSUME IInv, InitDone \/ \E k \in Kind : Resync(k) PROVE IInv'
<1>1. TypeOK' /\ UNCHANGED <<fin, api, cache, run, history>>
  BY DEF InitDone, Resync, Enqueued, IInv, TypeOK, object, run, history, bounds
<1> QED
  BY <1>1, AsideStep

\* The program starts anew, with a cache that is up to date.
LEMMA RestartStep == ASSUME IInv, Restart PROVE IInv'
<1>1. faults' \in 0..MaxFaults[used]
  BY BoundTypes DEF Restart, IInv
<1>2. NoPlan \in Plan
  BY DEF NoPlan, Plan
<1>3. TypeOK'
  BY <1>1, <1>2 DEF Restart, IInv, TypeOK, object, history
<1>4. ASSUME NEW j \in Kind PROVE Sound(j)'
  <2>1. pc'[j] = "idle" /\ UNCHANGED <<api, object, history>> /\ cache'[j] = api[j]
    BY DEF Restart
  <2> QED
    BY <2>1 DEF IInv, Sound, Seen, Known, Global, Kept, There, object, history
<1> QED
  BY <1>3, <1>4 DEF IInv

\* The cache catches up with one child.
LEMMA SyncStep == ASSUME IInv, NEW k \in Kind, NEW s \in Slot, Sync(k, s) PROVE IInv'
<1>1. /\ cache' \in [Kind -> Children] /\ cache'[k][s] = api[k][s]
      /\ \A x \in Slot \ {s} : cache'[k][x] = cache[k][x]
      /\ \A j \in Kind \ {k} : cache'[j] = cache[j]
  BY DEF Sync, IInv, TypeOK, Children
<1>2. UNCHANGED <<fin, api, run, history>>
  BY DEF Sync, object
<1>3. TypeOK'
  BY <1>1, <1>2 DEF Sync, Enqueued, IInv, TypeOK, object, run, history, bounds
<1>4. Sound(k)'
  BY <1>1, <1>2 DEF IInv, Sound, Seen, Known, Global, Kept, There, run, history
<1>5. ASSUME NEW j \in Kind, j # k PROVE Sound(j)'
  <2>1. Same(j)
    BY <1>1, <1>2, <1>5 DEF Same, run, history
  <2> QED
    BY <2>1, SameSound
<1> QED
  BY <1>3, <1>4, <1>5 DEF IInv

\* A child comes up.
LEMMA ComeUpStep == ASSUME IInv, NEW k \in Kind, NEW s \in Slot, ComeUp(k, s) PROVE IInv'
<1>1. api[k][s] \in Child
  BY DEF ComeUp, IInv, TypeOK, Children
<1>2. [api[k][s] EXCEPT !.up = TRUE] \in Child
  BY <1>1 DEF Child
<1>3. [api[k][s] EXCEPT !.up = TRUE] # None
  BY <1>2, OwnerAssumption
<1>4. /\ api' \in [Kind -> Children] /\ \A j \in Kind \ {k} : api'[j] = api[j]
      /\ \A x \in Slot : api'[k][x] = None <=> api[k][x] = None
  BY <1>2, <1>3 DEF ComeUp, IInv, TypeOK, Children
<1>5. UNCHANGED <<fin, cache, run, history>>
  BY DEF ComeUp, object
<1>6. TypeOK'
  BY <1>4 DEF ComeUp, IInv, TypeOK, object, run, history, bounds
<1>7. Sound(k)'
  <2>1. Group \in Slot /\ Config \subseteq Slot
    BY DEF Slot
  <2> QED
    BY <1>4, <1>5, <2>1 DEF IInv, Sound, Seen, Known, Global, Kept, There, run, history
<1>8. ASSUME NEW j \in Kind, j # k PROVE Sound(j)'
  <2>1. Same(j)
    BY <1>4, <1>5, <1>8 DEF Same, run, history
  <2> QED
    BY <2>1, SameSound
<1> QED
  BY <1>6, <1>7, <1>8 DEF IInv

\* A child that is to go goes.
LEMMA FinalizeStep == ASSUME IInv, NEW k \in Kind, NEW s \in Slot, Finalize(k, s) PROVE IInv'
<1>1. /\ api' \in [Kind -> Children] /\ api'[k][s] = None
      /\ \A x \in Slot \ {s} : api'[k][x] = api[k][x]
      /\ \A j \in Kind \ {k} : api'[j] = api[j]
  BY DEF Finalize, IInv, TypeOK, Children
<1>2. UNCHANGED <<fin, left, cache, run>> /\ lost' = lost \ {<<k, s>>}
  BY DEF Finalize, object
<1>3. TypeOK'
  BY <1>1, <1>2 DEF Finalize, IInv, TypeOK, object, run, bounds
<1>4. Sound(k)'
  <2>1. Group \in Slot /\ Config \subseteq Slot
    BY DEF Slot
  <2>2. \A x \in Slot : There(k, x)' => There(k, x)
    BY <1>1, <1>2 DEF There
  <2>3. Global(k)' /\ Kept(k)' /\ Seen(k)'
    BY <1>1, <1>2, <2>1, <2>2 DEF IInv, Sound, Seen, Global, Kept, run
  <2>4. Known(k)'
    BY <1>2, <2>1, <2>2 DEF IInv, Sound, Known, run
  <2> QED
    BY <2>3, <2>4 DEF Sound
<1>5. ASSUME NEW j \in Kind, j # k PROVE Sound(j)'
  <2>1. Same(j)
    BY <1>1, <1>2, <1>5 DEF Same, run
  <2> QED
    BY <2>1, SameSound
<1> QED
  BY <1>3, <1>4, <1>5 DEF IInv

\* What an owner asks for changes.
LEMMA ChangeStep ==
  ASSUME IInv, NEW k \in Kind, NEW asked \in Asked, NEW told \in SUBSET used,
         Change(k, asked, told)
  PROVE  IInv'
<1>1. edits' \in 0..MaxEdits[used]
  BY BoundTypes DEF Change, IInv
<1>2. TypeOK' /\ UNCHANGED <<fin, api, cache, run, history>>
  BY <1>1 DEF Change, IInv, TypeOK, run, history
<1> QED
  BY <1>2, AsideStep

\* By the user, by the nodes or by the endpoints; or it is deleted.
LEMMA EventStep ==
  ASSUME IInv, NEW k \in Kind, Edit(k) \/ NodeEvent(k) \/ EndpointEvent(k) \/ Remove(k)
  PROVE  IInv'
<1>1. CASE Edit(k)
  <2>1. PICK s \in Specs[k] : \E told \in SUBSET used : Change(k, s, told)
    BY <1>1 DEF Edit
  <2> QED
    BY <2>1, ChangeStep, OwnerAssumption
<1>2. \A w \in Want : [spec[k] EXCEPT !.want = w] \in Asked
  BY DEF IInv, TypeOK, Asked
<1>3. CASE NodeEvent(k)
  BY <1>2, <1>3, ChangeStep DEF NodeEvent
<1>4. CASE EndpointEvent(k)
  <2>1. PICK w \in Want : Change(k, [spec[k] EXCEPT !.want = w],
                                IF Hears(k) /\ Managed(k) THEN {k} ELSE {})
    BY <1>4 DEF EndpointEvent
  <2>2. k \in used
    BY <2>1 DEF Change
  <2>3. (IF Hears(k) /\ Managed(k) THEN {k} ELSE {}) \in SUBSET used
    BY <2>2
  <2> QED
    BY <1>2, <2>1, <2>3, ChangeStep
<1>5. CASE Remove(k)
  <2>1. edits' \in 0..MaxEdits[used]
    BY <1>5, BoundTypes DEF Remove, IInv
  <2>2. state' \in [Objects -> {"live", "deleting", "gone"}]
    BY <1>5, ObjectOfKind DEF Remove, IInv, TypeOK
  <2>3. TypeOK' /\ UNCHANGED <<fin, api, cache, run, history>>
    BY <1>5, <2>1, <2>2 DEF Remove, IInv, TypeOK, run, history
  <2> QED
    BY <2>3, AsideStep
<1> QED
  BY <1>1, <1>3, <1>4, <1>5

-----------------------------------------------------------------------------
\* What the program does for a kind of owner.
Step(k) ==
  \/ Reconcile(k) \/ BuildConfig(k) \/ BuildGroup(k) \/ Publish(k)
  \/ DeleteOwned(k) \/ DeleteGroup(k) \/ Steps(k)

\* A step is one of some kind of owner, or of the program.
LEMMA Cases ==
  ASSUME Next
  PROVE  \/ InitDone \/ Restart
         \/ \E k \in Kind : Step(k)
         \/ \E k \in Kind : Edit(k) \/ NodeEvent(k) \/ EndpointEvent(k) \/ Remove(k)
         \/ \E k \in Kind : Resync(k)
         \/ \E k \in Kind, s \in Slot : Sync(k, s) \/ ComeUp(k, s) \/ Finalize(k, s)
<1>1. "service" \in Kind /\ "ingress" \in Kind /\ "serviceGlb" \in Kind /\ "vglb" \in Kind
  BY DEF Kind
<1>2. ASSUME ServiceStep \/ IngressStep PROVE \E k \in Kind : Step(k)
  BY <1>1, <1>2 DEF ServiceStep, IngressStep, Step, ServiceReconcile, ServiceBuildLbc,
     ServiceBuildNsg, ServiceAddress, ServiceDelete, ServiceDeleteNsg, IngressReconcile,
     IngressBuildLbc, IngressBuildNsg, IngressAddress, IngressDelete, IngressDeleteNsg
<1>3. ASSUME ServiceGlbStep \/ VglbStep PROVE \E k \in Kind : Step(k)
  BY <1>1, <1>3 DEF ServiceGlbStep, VglbStep, Step, ServiceGlbReconcile, ServiceGlbBuild,
     ServiceGlbAddress, ServiceGlbDelete, VglbReconcile, VglbBuild, VglbAddress, VglbDelete
<1>4. ASSUME Event
      PROVE  \E k \in Kind : Edit(k) \/ NodeEvent(k) \/ EndpointEvent(k) \/ Remove(k)
  BY <1>1, <1>4 DEF Event, ServiceEvent, ServiceNodeEvent, ServiceEndpointEvent,
     IngressEvent, IngressNodeEvent, IngressEndpointEvent, ServiceGlbEvent,
     ServiceGlbNodeEvent, VglbEvent, VglbNodeEvent, GlobalEndpoints
<1> QED
  BY <1>2, <1>3, <1>4 DEF Next, Syncs, Others

\* Every step preserves the invariant.
LEMMA NextIInv == IInv /\ [Next]_vars => IInv'
<1> SUFFICES ASSUME IInv, [Next]_vars PROVE IInv'
  OBVIOUS
<1>1. CASE UNCHANGED vars
  <2>1. TypeOK' /\ UNCHANGED <<fin, api, cache, run, history>>
    BY <1>1 DEF vars, object, run, history, bounds, IInv, TypeOK
  <2> QED
    BY <2>1, AsideStep
<1>2. ASSUME NEW k \in Kind, DeleteConfig(k) \/ DeleteGroup(k) PROVE IInv'
  BY <1>2, DeletePartStep, OwnerAssumption DEF DeleteConfig, DeleteGroup, Parts, Slot
<1>3. ASSUME NEW k \in Kind, Step(k) PROVE IInv'
  BY <1>2, <1>3, EnsureStep, SkipStep, LetGoStep, DeleteStep, RemoveFinalizersStep, RefuseStep,
     ReadStep, CreateConfigStep, PatchConfigStep, CreateGroupStep, PatchGroupStep, PublishStep,
     DeleteFailsStep, WaitingStep, WaitCreatedStep, WaitGivenUpStep, FailStep
     DEF Step, Reconcile, BuildConfig, BuildGroup, DeleteOwned, Steps, Wait
<1> QED
  BY <1>1, <1>3, Cases, QueueStep, RestartStep, EventStep, SyncStep, ComeUpStep, FinalizeStep

-----------------------------------------------------------------------------
\* Every reachable state of owners, children and caches is well formed.
THEOREM OwnerTypeCorrect == Spec => []TypeOK
<1>1. IInv => TypeOK
  BY DEF IInv
<1> QED
  BY InitIInv, NextIInv, <1>1, PTL DEF Spec

\* An owner whose children are all accounted for has one configuration at most:
\* the wait of Create... for the cache makes the list before a creation reliable.
THEOREM OwnerOneConfig == Spec => []OneConfig
<1>1. IInv => OneConfig
  <2> SUFFICES ASSUME IInv, NEW k \in Kind, Lost(k) = {}
               PROVE  Cardinality(Alive(k) \ {Group}) <= 1
    BY DEF OneConfig
  <2>1. \A c, d \in Alive(k) \ {Group} : c = d
    <3>1. ASSUME NEW c \in Alive(k) \ {Group} PROVE c \in Config /\ There(k, c)
      BY DEF Alive, Lost, There, Slot
    <3> QED
      BY <3>1 DEF IInv, Sound, Kept
  <2>2. CASE Alive(k) \ {Group} = {}
    BY <2>2, FS_EmptySet
  <2>3. CASE Alive(k) \ {Group} # {}
    <3>1. PICK c \in Alive(k) \ {Group} : TRUE
      BY <2>3
    <3>2. Alive(k) \ {Group} = {c}
      BY <2>1, <3>1
    <3> QED
      BY <3>2, FS_Singleton
  <2> QED
    BY <2>2, <2>3
<1> QED
  BY InitIInv, NextIInv, <1>1, PTL DEF Spec

-----------------------------------------------------------------------------
(* Owner implements Custody: what Held's things are, and how steps change them. *)

Things == {t \in (Kind \ left) \X Slot : api[t[1]][t[2]] # None /\ t \notin lost}

\* Membership, by its two parts.
LEMMA InThings ==
  /\ Things \subseteq Kind \X Slot
  /\ \A k \in Kind, s \in Slot : <<k, s>> \in Things <=> k \notin left /\ There(k, s)
BY DEF Things, There

\* The same after a step.
LEMMA InThingsPrimed ==
  /\ Things' \subseteq Kind \X Slot
  /\ \A k \in Kind, s \in Slot : <<k, s>> \in Things' <=> k \notin left' /\ There(k, s)'
BY DEF Things, There

\* Sets of children that have the same ones are the same.
LEMMA SamePairs ==
  ASSUME NEW S, NEW T, S \subseteq Kind \X Slot, T \subseteq Kind \X Slot,
         \A k \in Kind, s \in Slot : <<k, s>> \in S <=> <<k, s>> \in T
  PROVE  S = T
<1>1. ASSUME NEW t \in Kind \X Slot PROVE t \in S <=> t \in T
  <2>1. PICK k \in Kind, s \in Slot : t = <<k, s>>
    OBVIOUS
  <2> QED
    BY <2>1
<1> QED
  BY <1>1

\* A step that neither makes nor drops anything.
Idle == fin' = fin /\ Things' = Things

\* What is written into a child does not matter to custody.
LEMMA IdleStep ==
  ASSUME fin' = fin, left' = left, lost' = lost,
         \A k \in Kind, s \in Slot : api'[k][s] = None <=> api[k][s] = None
  PROVE  Idle
<1>1. \A k \in Kind, s \in Slot : <<k, s>> \in Things' <=> <<k, s>> \in Things
  BY InThings, InThingsPrimed DEF There
<1> QED
  BY <1>1, InThings, InThingsPrimed, SamePairs DEF Idle

\* Nothing is there, and no finalizer is on.
LEMMA InitHeld == Init => Held!Init
<1> SUFFICES ASSUME Init PROVE Held!Init
  OBVIOUS
<1>1. \A k \in Kind, s \in Slot : api[k][s] = None
  BY DEF Init, Empty
<1>2. Things = {}
  BY <1>1, InThings, SamePairs DEF There
<1> QED
  BY <1>2 DEF Init, Held!Init, Things

\* A child is made by an owner that has its finalizer on.
LEMMA MakeHeld ==
  ASSUME IInv, NEW k \in Kind, NEW s \in Slot, pc[k] \in {"write", "group"}, Make(k, s),
         UNCHANGED <<object, history>>
  PROVE  Held!Next \/ Idle
<1>1. k \in fin /\ fin' = fin /\ left' = left /\ lost' = lost /\ plan[k].new \in Want
  BY DEF IInv, Sound, Known, object, history
<1>2. New(plan[k].new) # None
  <2>1. New(plan[k].new) \in Child
    BY <1>1 DEF New, Child
  <2> QED
    BY <2>1, OwnerAssumption
<1>3. /\ api'[k][s] # None
      /\ \A j \in Kind, x \in Slot : <<j, x>> # <<k, s>> => api'[j][x] = api[j][x]
  BY <1>2 DEF Make, IInv, TypeOK, Children
<1>4. CASE k \in left \/ <<k, s>> \in lost
  <2>1. ASSUME NEW j \in Kind, NEW x \in Slot
        PROVE  (j \notin left' /\ There(j, x)') <=> (j \notin left /\ There(j, x))
    BY <1>1, <1>3, <1>4 DEF There
  <2>2. \A j \in Kind, x \in Slot : <<j, x>> \in Things' <=> <<j, x>> \in Things
    BY <2>1, InThings, InThingsPrimed
  <2> QED
    BY <1>1, <2>2, InThings, InThingsPrimed, SamePairs DEF Idle
<1>5. CASE k \notin left /\ <<k, s>> \notin lost
  <2>1. \A j \in Kind, x \in Slot : <<j, x>> \in Things' <=> <<j, x>> \in Things \cup {<<k, s>>}
    <3>1. ASSUME NEW j \in Kind, NEW x \in Slot
          PROVE  (j \notin left' /\ There(j, x)') <=> ((j \notin left /\ There(j, x)) \/ <<j, x>> = <<k, s>>)
      BY <1>1, <1>3, <1>5 DEF There
    <3> QED
      BY <3>1, InThings, InThingsPrimed
  <2>2. Things \cup {<<k, s>>} \subseteq Kind \X Slot
    BY InThings
  <2>3. Things' = Things \cup {<<k, s>>}
    BY <2>1, <2>2, InThingsPrimed, SamePairs
  <2>4. Held!Make(k, s)
    BY <1>1, <2>3 DEF Held!Make, Things
  <2> QED
    BY <2>4 DEF Held!Next
<1> QED
  BY <1>4, <1>5

\* One child leaves custody: it is gone, or was lost sight of.
LEMMA DropHeld ==
  ASSUME NEW k \in Kind, NEW s \in Slot, fin' = fin, left' = left, ~There(k, s)',
         \A j \in Kind, x \in Slot : <<j, x>> # <<k, s>> => (There(j, x)' <=> There(j, x))
  PROVE  Held!Next \/ Idle
<1>1. \A j \in Kind, x \in Slot : <<j, x>> \in Things' <=> <<j, x>> \in Things \ {<<k, s>>}
  BY InThings, InThingsPrimed
<1>2. Things' = Things \ {<<k, s>>}
  BY <1>1, InThings, InThingsPrimed, SamePairs
<1>3. CASE <<k, s>> \in Things
  <2>1. Held!Drop(<<k, s>>)
    BY <1>2 DEF Held!Drop, Things
  <2> QED
    BY <1>3, <2>1 DEF Held!Next, Things
<1>4. CASE <<k, s>> \notin Things
  BY <1>2, <1>4 DEF Idle
<1> QED
  BY <1>3, <1>4

\* The finalizer comes off an owner that has nothing there, or is let go.
LEMMA ReleaseHeld ==
  ASSUME IInv, NEW k \in Kind, RemoveFinalizers(k) \/ LetGo(k)
  PROVE  Held!Next
<1>1. fin' = fin \ {k} /\ lost' = lost /\ api' = api
  BY DEF RemoveFinalizers, LetGo, Release
<1>2. CASE RemoveFinalizers(k)
  <2>1. \A s \in Slot : ~There(k, s)
    BY <1>2, NothingLeft DEF RemoveFinalizers
  <2>2. left' = left
    BY <1>2 DEF RemoveFinalizers
  <2>3. \A j \in Kind, x \in Slot : <<j, x>> \in Things' <=> <<j, x>> \in Things
    BY <1>1, <2>2, InThings, InThingsPrimed DEF There
  <2>4. Things' = Things
    BY <2>3, InThings, InThingsPrimed, SamePairs
  <2>5. {t \in Things : t[1] = k} = {}
    <3>1. ASSUME NEW t \in Things, t[1] = k PROVE FALSE
      <4>1. PICK j \in Kind, x \in Slot : t = <<j, x>>
        BY InThings
      <4> QED
        BY <2>1, <3>1, <4>1, InThings
    <3> QED
      BY <3>1
  <2>6. Held!Release(k)
    BY <1>1, <2>4, <2>5 DEF Held!Release, Held!Of, Things
  <2> QED
    BY <2>6 DEF Held!Next
<1>3. CASE LetGo(k)
  <2>1. left' = left \cup {k}
    BY <1>3 DEF LetGo
  <2> DEFINE rest == Things \ {t \in Things : t[1] = k}
  <2>2. rest \subseteq Kind \X Slot
    BY InThings
  <2>3. \A j \in Kind, x \in Slot : <<j, x>> \in rest <=> <<j, x>> \in Things /\ j # k
    OBVIOUS
  <2> HIDE DEF rest
  <2>4. \A j \in Kind, x \in Slot : <<j, x>> \in Things' <=> <<j, x>> \in rest
    BY <1>1, <2>1, <2>3, InThings, InThingsPrimed DEF There
  <2>5. Things' = rest
    BY <2>2, <2>4, InThingsPrimed, SamePairs
  <2>6. Held!Abandon(k)
    BY <1>1, <2>5 DEF rest, Held!Abandon, Held!Of, Things
  <2> QED
    BY <2>6 DEF Held!Next
<1> QED
  BY <1>2, <1>3

\* The finalizer is put on.
LEMMA EnsureHeld == ASSUME NEW k \in Kind, Ensure(k) PROVE Held!Next
<1>1. fin' = fin \cup {k} /\ left' = left /\ lost' = lost /\ api' = api
  BY DEF Ensure, history
<1>2. Things' = Things
  BY <1>1 DEF Things
<1>3. Held!Take(k)
  BY <1>1, <1>2 DEF Held!Take, Things
<1> QED
  BY <1>3 DEF Held!Next

\* A patch, and a request to go, leave a child where it is.
LEMMA WriteHeld ==
  ASSUME IInv, NEW k \in Kind,
         PatchConfig(k) \/ PatchGroup(k) \/ DeleteConfig(k) \/ DeleteGroup(k)
  PROVE  Idle
<1>1. fin' = fin /\ left' = left /\ lost' = lost
  BY DEF PatchConfig, PatchGroup, DeleteConfig, DeleteGroup, DeletePart, object, history
<1>2. ASSUME NEW s \in Slot, NEW old, NEW next, Patch(k, s, old, next), plan[k].new \in Want
      PROVE  \A j \in Kind, x \in Slot : api'[j][x] = None <=> api[j][x] = None
  <2>1. CASE UNCHANGED api
    BY <2>1
  <2>2. CASE api[k][s] # None /\ api' = [api EXCEPT ![k][s].want = plan[k].new]
    <3>1. api[k][s] \in Child
      BY <2>2 DEF IInv, TypeOK, Children
    <3>2. [api[k][s] EXCEPT !.want = plan[k].new] \in Child
      BY <1>2, <3>1 DEF Child
    <3>3. [api[k][s] EXCEPT !.want = plan[k].new] # None
      BY <3>2, OwnerAssumption
    <3> QED
      BY <2>2, <3>3 DEF IInv, TypeOK, Children
  <2> QED
    BY <1>2, <2>1, <2>2 DEF Patch
<1>3. ASSUME NEW slots, Deleted(k, slots)
      PROVE  \A j \in Kind, x \in Slot : api'[j][x] = None <=> api[j][x] = None
  <2> DEFINE asked(s) == s \in slots /\ cache[k][s] # None /\ api[k][s] # None /\ ~cache[k][s].deleting
             new(s) == IF asked(s) THEN [api[k][s] EXCEPT !.deleting = TRUE] ELSE api[k][s]
  <2>1. api' = [api EXCEPT ![k] = [s \in Slot |-> new(s)]]
    BY <1>3 DEF Deleted
  <2>2. ASSUME NEW s \in Slot PROVE new(s) = None <=> api[k][s] = None
    <3>1. CASE asked(s)
      <4>1. api[k][s] \in Child
        BY <3>1 DEF IInv, TypeOK, Children
      <4>2. [api[k][s] EXCEPT !.deleting = TRUE] \in Child
        BY <4>1 DEF Child
      <4> QED
        BY <3>1, <4>2, OwnerAssumption
    <3> QED
      BY <3>1
  <2> HIDE DEF new
  <2> QED
    BY <2>1, <2>2 DEF IInv, TypeOK
<1>4. CASE PatchConfig(k) \/ PatchGroup(k)
  <2>1. plan[k].new \in Want /\ (pc[k] = "write" /\ plan[k].slot # None => plan[k].slot \in Slot)
    BY <1>4 DEF PatchConfig, PatchGroup, IInv, Sound, Known, Slot
  <2>2. Group \in Slot
    BY DEF Slot
  <2> QED
    BY <1>1, <1>2, <1>4, <2>1, <2>2, IdleStep DEF PatchConfig, PatchGroup
<1>5. CASE DeleteConfig(k) \/ DeleteGroup(k)
  BY <1>1, <1>3, <1>5, IdleStep DEF DeleteConfig, DeleteGroup, DeletePart
<1> QED
  BY <1>4, <1>5

\* The other steps touch neither children nor finalizers.
LEMMA AsideHeld == ASSUME UNCHANGED <<fin, api, history>> PROVE Idle
BY DEF Idle, Things, history

\* What the program does for an owner.
LEMMA StepHeld == ASSUME IInv, NEW k \in Kind, Step(k) PROVE Held!Next \/ Idle
<1>1. CASE CreateConfig(k)
  <2>1. (CHOOSE c \in Free(k) : TRUE) \in Slot
    BY <1>1 DEF CreateConfig, Free, Slot
  <2> QED
    BY <1>1, <2>1, MakeHeld DEF CreateConfig
<1>2. CASE CreateGroup(k)
  <2>1. Group \in Slot
    BY DEF Slot
  <2>2. CASE api[k][Group] = None
    BY <1>2, <2>1, <2>2, MakeHeld DEF CreateGroup
  <2>3. CASE api[k][Group] # None
    BY <1>2, <2>3, AsideHeld DEF CreateGroup, object
  <2> QED
    BY <2>2, <2>3
<1>3. CASE WaitGivenUp(k)
  <2>1. plan[k].slot \in Slot
    BY <1>3 DEF WaitGivenUp, IInv, Sound, Known
  <2>2. fin' = fin /\ left' = left /\ api' = api /\ lost' = lost \cup {<<k, plan[k].slot>>}
    BY <1>3 DEF WaitGivenUp, object
  <2> QED
    BY <2>1, <2>2, DropHeld DEF There
<1>4. CASE Skip(k) \/ Delete(k) \/ Refuse(k) \/ Read(k) \/ Publish(k) \/ DeleteFails(k)
           \/ Waiting(k) \/ WaitCreated(k) \/ Fail(k)
  <2>1. UNCHANGED <<fin, api, history>>
    BY <1>4 DEF Skip, Delete, Refuse, Read, Publish, DeleteFails, Waiting, WaitCreated, Fail, object
  <2> QED
    BY <2>1, AsideHeld
<1> QED
  BY <1>1, <1>2, <1>3, <1>4, EnsureHeld, ReleaseHeld, WriteHeld
     DEF Step, Reconcile, BuildConfig, BuildGroup, DeleteOwned, Steps, Wait

\* Every step is one of Custody, or none.
LEMMA NextHeld == IInv /\ [Next]_vars => Held!Next \/ Idle
<1> SUFFICES ASSUME IInv, [Next]_vars PROVE Held!Next \/ Idle
  OBVIOUS
<1>1. CASE UNCHANGED vars
  BY <1>1, AsideHeld DEF vars, object
<1>2. CASE InitDone \/ Restart
  <2>1. UNCHANGED <<fin, api, history>>
    BY <1>2 DEF InitDone, Restart, object
  <2> QED
    BY <2>1, AsideHeld
<1>3. ASSUME NEW k \in Kind, Resync(k) \/ Edit(k) \/ NodeEvent(k) \/ EndpointEvent(k) \/ Remove(k)
      PROVE  Idle
  <2>1. UNCHANGED <<fin, api, history>>
    BY <1>3 DEF Resync, Edit, NodeEvent, EndpointEvent, Remove, Change, object
  <2> QED
    BY <2>1, AsideHeld
<1>4. ASSUME NEW k \in Kind, NEW s \in Slot, Sync(k, s) \/ ComeUp(k, s) \/ Finalize(k, s)
      PROVE  Held!Next \/ Idle
  <2>1. CASE Sync(k, s)
    BY <2>1, AsideHeld DEF Sync, object
  <2>2. CASE ComeUp(k, s)
    <3>1. [api[k][s] EXCEPT !.up = TRUE] \in Child
      <4>1. api[k][s] \in Child
        BY <2>2 DEF ComeUp, IInv, TypeOK, Children
      <4> QED
        BY <4>1 DEF Child
    <3>2. [api[k][s] EXCEPT !.up = TRUE] # None
      BY <3>1, OwnerAssumption
    <3>3. \A j \in Kind, x \in Slot : api'[j][x] = None <=> api[j][x] = None
      BY <2>2, <3>2 DEF ComeUp, IInv, TypeOK, Children
    <3> QED
      BY <2>2, <3>3, IdleStep DEF ComeUp, object, history
  <2>3. CASE Finalize(k, s)
    <3>1. /\ fin' = fin /\ left' = left /\ lost' = lost \ {<<k, s>>} /\ api'[k][s] = None
          /\ \A j \in Kind, x \in Slot : <<j, x>> # <<k, s>> => api'[j][x] = api[j][x]
      BY <2>3 DEF Finalize, object, IInv, TypeOK, Children
    <3>2. ~There(k, s)'
      BY <3>1 DEF There
    <3>3. \A j \in Kind, x \in Slot : <<j, x>> # <<k, s>> => (There(j, x)' <=> There(j, x))
      BY <3>1 DEF There
    <3> QED
      BY <3>1, <3>2, <3>3, DropHeld
  <2> QED
    BY <1>4, <2>1, <2>2, <2>3
<1> QED
  BY <1>1, <1>2, <1>3, <1>4, Cases, StepHeld

\* Owner implements Custody: no LBC, NSG or GLBC is made without a finalizer on
\* its owner, and reconcileDelete takes none off while one is left.
THEOREM OwnerInCustody == Spec => InCustody
<1>1. IInv /\ [Next]_vars => [Held!Next]_<<fin, Things>>
  BY NextHeld DEF Idle
<1> QED
  BY InitIInv, NextIInv, InitHeld, <1>1, PTL DEF Spec, InCustody, Held!Spec, Things
=============================================================================
