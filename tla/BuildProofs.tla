---------------------------- MODULE BuildProofs ----------------------------
(***************************************************************************)
(* For any objects, clusters and edits of them, and failures at any step:  *)
(* no policy on the cloud is off the books, but for one that a reconcile   *)
(* left which ended between the call that made it and the write that       *)
(* records it.                                                             *)
(*                                                                         *)
(* The argument: the end of a reconcile replaces the records of all        *)
(* listeners by what it has collected (task.new), and forgets a policy     *)
(* left behind that it has found again.  That loses nothing because what   *)
(* it has collected is on the listener it was collected for (Held) and no  *)
(* id is on two listeners (Apart), which rests on the service giving a new *)
(* policy an id that nobody has (FreshId); and because redundant policies  *)
(* are gone by then.  Until then the status lists every policy but the one *)
(* in hand (OnBooks).                                                      *)
(***************************************************************************)
EXTENDS Build, FiniteSetTheorems, SequenceTheorems, TLAPS

\* The policies of listener l on the cloud, and their ids.
PoliciesOf(l) == cloud.lis[l].policies
IdsOf(l) == Ids(PoliciesOf(l))

\* What the records look like.
IsPolicies(ps) ==
  /\ \E S : ps \in Seq(S)
  /\ \A j \in DOMAIN ps : "id" \in DOMAIN ps[j]
IsListener(lis) == DOMAIN lis = {"pool", "policies"} /\ IsPolicies(lis.policies)
Shape ==
  /\ DOMAIN cloud = {"lb", "pools", "lis"} /\ DOMAIN status = {"subnet", "made"}
  /\ DOMAIN task = {"conf", "left", "next", "id", "new"}
  /\ IsFiniteSet(DOMAIN cloud.lis) /\ IsFiniteSet(DOMAIN status.made)
  /\ \A l \in DOMAIN status.made : IsFiniteSet(status.made[l])
  /\ \A l \in DOMAIN cloud.lis : IsListener(cloud.lis[l])

\* No id is on two listeners.
Apart == \A k, l \in DOMAIN cloud.lis : k # l => IdsOf(k) \cap IdsOf(l) = {}

\* What the reconcile holds is on the cloud, on its listener.
Held ==
  /\ \A l \in DOMAIN task.new : l \in DOMAIN cloud.lis /\ task.new[l] \subseteq IdsOf(l)
  /\ dpc \in {"addListener", "update"} => Current \in DOMAIN cloud.lis
  /\ dpc = "update" => Current \in DOMAIN status.made
  /\ dpc \in {"policy", "record"} => Current \in DOMAIN task.new \cap DOMAIN status.made
  /\ dpc = "record" => task.id \in IdsOf(Current)

\* What is on the cloud is on the books, the policy in the reconcile's hands apart.
Booked(l, id) ==
  \/ l \in DOMAIN status.made /\ id \in status.made[l]
  \/ dpc = "record" /\ l = Current /\ id = task.id
  \/ id \in stray
OnBooks == \A l \in DOMAIN cloud.lis : \A id \in IdsOf(l) : Booked(l, id)

BooksInv == Shape /\ Apart /\ Held /\ OnBooks
-----------------------------------------------------------------------------
(* What the calls of the cloud do to the ids of a listener's policies. *)

\* There are finitely many.
LEMMA IdsFinite == ASSUME NEW ps, IsPolicies(ps) PROVE IsFiniteSet(Ids(ps))
<1>1. PICK S : ps \in Seq(S)
  BY DEF IsPolicies
<1>2. Len(ps) \in Nat /\ DOMAIN ps = 1..Len(ps)
  BY <1>1, LenProperties
<1>3. IsFiniteSet(DOMAIN ps)
  BY <1>2, FS_Interval
<1> DEFINE f == [j \in DOMAIN ps |-> ps[j].id]
<1>4. f \in Surjection(DOMAIN ps, Ids(ps))
  BY DEF Surjection, Ids
<1> HIDE DEF f
<1> QED
  BY <1>3, <1>4, FS_Surjection

\* CreatePolicy adds one,
LEMMA AppendIds ==
  ASSUME NEW ps, IsPolicies(ps), NEW p, "id" \in DOMAIN p
  PROVE  IsPolicies(Append(ps, p)) /\ Ids(Append(ps, p)) = Ids(ps) \cup {p.id}
<1>1. PICK S : ps \in Seq(S)
  BY DEF IsPolicies
<1>2. PICK T : T = S \cup {p}
  OBVIOUS
<1>3. ps \in Seq(T) /\ p \in T
  BY <1>1, <1>2, SeqMonotonic
<1>4. PICK r : r = Append(ps, p)
  OBVIOUS
<1>5. /\ r \in Seq(T) /\ Len(r) = Len(ps) + 1
      /\ \A i \in 1..Len(ps) : r[i] = ps[i]
      /\ r[Len(ps) + 1] = p
  BY <1>3, <1>4, AppendProperties
<1>6. Len(ps) \in Nat /\ DOMAIN ps = 1..Len(ps) /\ DOMAIN r = 1..(Len(ps) + 1)
  BY <1>3, <1>5, LenProperties
<1>7. DOMAIN r = DOMAIN ps \cup {Len(ps) + 1} /\ \A j \in DOMAIN ps : r[j] = ps[j]
  BY <1>5, <1>6
<1>8. Ids(r) = Ids(ps) \cup {p.id}
  BY <1>5, <1>7 DEF Ids
<1>9. IsPolicies(r)
  BY <1>5, <1>7 DEF IsPolicies
<1> QED
  BY <1>4, <1>8, <1>9

\* UpdatePolicy leaves them,
LEMMA UpdateIds ==
  ASSUME NEW ps, IsPolicies(ps), NEW want, NEW j \in DOMAIN ps
  PROVE  /\ IsPolicies([ps EXCEPT ![j] = PolicyUpdate(want, @)])
         /\ Ids([ps EXCEPT ![j] = PolicyUpdate(want, @)]) = Ids(ps)
<1>1. PICK S : ps \in Seq(S)
  BY DEF IsPolicies
<1>2. PICK p : p = PolicyUpdate(want, ps[j])
  OBVIOUS
<1>3. "id" \in DOMAIN p /\ p.id = ps[j].id
  <2>1. "id" \in DOMAIN ps[j]
    BY DEF IsPolicies
  <2> QED
    BY <1>2, <2>1 DEF PolicyUpdate
<1>4. PICK r : r = [ps EXCEPT ![j] = p]
  OBVIOUS
<1>5. r = [ps EXCEPT ![j] = PolicyUpdate(want, @)]
  BY <1>2, <1>4
<1>6. PICK T : T = S \cup {p}
  OBVIOUS
<1>7. ps \in Seq(T) /\ p \in T /\ j \in 1..Len(ps)
  BY <1>1, <1>6, SeqMonotonic, LenProperties
<1>8. r \in Seq(T)
  BY <1>4, <1>7, ExceptSeq
<1>9. DOMAIN r = DOMAIN ps /\ \A i \in DOMAIN ps : r[i] = IF i = j THEN p ELSE ps[i]
  BY <1>4
<1>10. Ids(r) = Ids(ps)
  BY <1>3, <1>9 DEF Ids
<1>11. IsPolicies(r)
  BY <1>3, <1>8, <1>9 DEF IsPolicies
<1> QED
  BY <1>5, <1>10, <1>11

\* and so does ReorderPolicies, which is given a permutation;
LEMMA ReorderIds ==
  ASSUME NEW ps, IsPolicies(ps), NEW q \in Bijection(DOMAIN ps, DOMAIN ps)
  PROVE  IsPolicies(ReorderPolicies(ps, q)) /\ Ids(ReorderPolicies(ps, q)) = Ids(ps)
<1>1. PICK S : ps \in Seq(S)
  BY DEF IsPolicies
<1>2. Len(ps) \in Nat /\ DOMAIN ps = 1..Len(ps) /\ \A i \in DOMAIN ps : ps[i] \in S
  BY <1>1, LenProperties
<1>3. q \in [DOMAIN ps -> DOMAIN ps] /\ \A t \in DOMAIN ps : \E s \in DOMAIN ps : q[s] = t
  BY DEF Bijection, Surjection
<1>4. PICK r : r = ReorderPolicies(ps, q)
  OBVIOUS
<1>5. r \in [DOMAIN ps -> S] /\ DOMAIN r = DOMAIN ps /\ \A i \in DOMAIN ps : r[i] = ps[q[i]]
  BY <1>2, <1>3, <1>4 DEF ReorderPolicies
<1>6. r \in Seq(S)
  BY <1>2, <1>5, SeqDef
<1>7. Ids(r) = Ids(ps)
  BY <1>3, <1>5 DEF Ids
<1>8. IsPolicies(r)
  BY <1>3, <1>5, <1>6 DEF IsPolicies
<1> QED
  BY <1>4, <1>7, <1>8

\* DeletePolicy takes away one at most.
LEMMA RemoveIds ==
  ASSUME NEW ps, IsPolicies(ps), NEW j \in DOMAIN ps
  PROVE  /\ IsPolicies(RemoveAt(ps, j)) /\ Ids(RemoveAt(ps, j)) \subseteq Ids(ps)
         /\ Ids(ps) \ {ps[j].id} \subseteq Ids(RemoveAt(ps, j))
<1>1. PICK S : ps \in Seq(S)
  BY DEF IsPolicies
<1>2. PICK n \in Nat : n = Len(ps) /\ DOMAIN ps = 1..n /\ \A i \in 1..n : ps[i] \in S
  BY <1>1, LenProperties
<1>3. PICK a : a = SubSeq(ps, 1, j - 1)
  OBVIOUS
<1>4. PICK b : b = SubSeq(ps, j + 1, n)
  OBVIOUS
<1>j. j \in Nat /\ 1 <= j /\ j <= n
  BY <1>2
<1>5. /\ a \in Seq(S) /\ Len(a) = j - 1 /\ \A i \in 1..(j - 1) : a[i] = ps[i]
  <2>1. 1 \in Int /\ j - 1 \in Int /\ \A i \in 1..(j - 1) : ps[i] \in S
    BY <1>2, <1>j
  <2>2. /\ a \in Seq(S)
        /\ Len(a) = IF 1 <= j - 1 THEN (j - 1) - 1 + 1 ELSE 0
        /\ \A i \in 1..((j - 1) - 1 + 1) : a[i] = ps[1 + i - 1]
    BY <1>3, <2>1, SubSeqProperties
  <2>3. \A i \in 1..(j - 1) : 1 + i - 1 = i
    OBVIOUS
  <2>4. (j - 1) - 1 + 1 = j - 1
    BY <1>j
  <2> QED
    BY <1>j, <2>2, <2>3, <2>4
<1>6. /\ b \in Seq(S) /\ Len(b) = n - j /\ \A i \in 1..(n - j) : b[i] = ps[j + i]
  <2>1. j + 1 \in Int /\ n \in Int /\ \A i \in (j + 1)..n : ps[i] \in S
    BY <1>2, <1>j
  <2>2. /\ b \in Seq(S)
        /\ Len(b) = IF j + 1 <= n THEN n - (j + 1) + 1 ELSE 0
        /\ \A i \in 1..(n - (j + 1) + 1) : b[i] = ps[(j + 1) + i - 1]
    BY <1>4, <2>1, SubSeqProperties
  <2>3. \A i \in 1..(n - j) : (j + 1) + i - 1 = j + i
    BY <1>j
  <2>4. n - (j + 1) + 1 = n - j
    BY <1>j
  <2> QED
    BY <1>j, <2>2, <2>3, <2>4
<1>7. PICK r : r = a \o b
  OBVIOUS
<1>8. /\ r \in Seq(S) /\ Len(r) = Len(a) + Len(b)
      /\ \A i \in 1..Len(a) + Len(b) : r[i] = IF i <= Len(a) THEN a[i] ELSE b[i - Len(a)]
  <2>1. a \in Seq(S) /\ b \in Seq(S)
    BY <1>5, <1>6
  <2> QED
    BY <1>7, <2>1, ConcatProperties
<1>9. Len(r) = n - 1 /\ DOMAIN r = 1..(n - 1)
  BY <1>j, <1>5, <1>6, <1>8, LenProperties
<1>10. ASSUME NEW i \in 1..(n - 1) PROVE r[i] = IF i < j THEN ps[i] ELSE ps[i + 1]
  <2>1. CASE i < j
    <3>1. i \in 1..(j - 1) /\ i <= Len(a)
      BY <1>j, <1>5, <1>10, <2>1
    <3> QED
      BY <1>5, <1>8, <1>9, <2>1, <3>1
  <2>2. CASE ~(i < j)
    <3>1. i - (j - 1) \in 1..(n - j) /\ j + (i - (j - 1)) = i + 1 /\ ~(i <= j - 1)
      BY <1>j, <1>10, <2>2
    <3>2. r[i] = b[i - (j - 1)]
      BY <1>5, <1>8, <1>9, <3>1
    <3> QED
      BY <1>6, <2>2, <3>1, <3>2
  <2> QED
    BY <2>1, <2>2
<1>11. ASSUME NEW i \in DOMAIN r PROVE \E k \in DOMAIN ps : r[i] = ps[k]
  <2>1. i \in DOMAIN ps /\ i + 1 \in DOMAIN ps
    BY <1>2, <1>9
  <2> QED
    BY <1>9, <1>10, <2>1
<1>12. Ids(r) \subseteq Ids(ps)
  BY <1>11 DEF Ids
<1>13. ASSUME NEW i \in DOMAIN ps, i # j PROVE \E k \in DOMAIN r : r[k] = ps[i]
  <2>0. i \in Nat /\ 1 <= i /\ i <= n
    BY <1>2
  <2>1. CASE i < j
    <3>1. i \in 1..(n - 1)
      BY <1>j, <2>0, <2>1
    <3> QED
      BY <1>9, <1>10, <2>1, <3>1
  <2>2. CASE i > j
    <3>1. PICK k \in 1..(n - 1) : ~(k < j) /\ k + 1 = i
      <4>1. i - 1 \in 1..(n - 1) /\ ~(i - 1 < j) /\ (i - 1) + 1 = i
        BY <1>j, <2>0, <2>2
      <4> QED
        BY <4>1
    <3>2. r[k] = ps[i]
      BY <1>10, <3>1
    <3> QED
      BY <1>9, <3>1, <3>2
  <2> QED
    BY <1>j, <1>13, <2>0, <2>1, <2>2
<1>14. Ids(ps) \ {ps[j].id} \subseteq Ids(r)
  BY <1>13 DEF Ids
<1>15. IsPolicies(r)
  BY <1>8, <1>11 DEF IsPolicies
<1>16. r = RemoveAt(ps, j)
  BY <1>2, <1>3, <1>4, <1>7 DEF RemoveAt
<1> QED
  BY <1>12, <1>14, <1>15, <1>16

\* The service gives a policy an id that is on no listener.
LEMMA FreshId == ASSUME Shape PROVE NewId \notin PolicyIds
<1>1. \A l \in DOMAIN cloud.lis : IsFiniteSet(IdsOf(l))
  BY IdsFinite DEF Shape, IsListener, IdsOf, PoliciesOf
<1>2. IsFiniteSet(PolicyIds)
  <2>1. PICK S : S = {Ids(cloud.lis[l].policies) : l \in DOMAIN cloud.lis}
    OBVIOUS
  <2> DEFINE f == [l \in DOMAIN cloud.lis |-> Ids(cloud.lis[l].policies)]
  <2>2. f \in Surjection(DOMAIN cloud.lis, S)
    BY <2>1 DEF Surjection
  <2>3. \A T \in S : IsFiniteSet(T)
    BY <1>1, <2>1 DEF IdsOf, PoliciesOf
  <2> HIDE DEF f
  <2>4. IsFiniteSet(S)
    BY <2>2, FS_Surjection DEF Shape
  <2> QED
    BY <2>1, <2>3, <2>4, FS_UNION DEF PolicyIds
<1>3. IsFiniteSet(UNION {status.made[l] : l \in DOMAIN status.made})
  <2>1. PICK S : S = {status.made[l] : l \in DOMAIN status.made}
    OBVIOUS
  <2> DEFINE f == [l \in DOMAIN status.made |-> status.made[l]]
  <2>2. f \in Surjection(DOMAIN status.made, S)
    BY <2>1 DEF Surjection
  <2>3. \A T \in S : IsFiniteSet(T)
    BY <2>1 DEF Shape
  <2> HIDE DEF f
  <2>4. IsFiniteSet(S)
    BY <2>2, FS_Surjection DEF Shape
  <2> QED
    BY <2>1, <2>3, <2>4, FS_UNION
<1>4. IsFiniteSet(IdsInUse)
  BY <1>2, <1>3, FS_Union DEF IdsInUse
<1>5. PICK n \in Nat : n = Cardinality(IdsInUse)
  BY <1>4, FS_CardinalityType
<1>6. \E id \in 1..n + 1 : id \notin IdsInUse
  <2> SUFFICES ASSUME 1..n + 1 \subseteq IdsInUse PROVE FALSE
    OBVIOUS
  <2>1. Cardinality(1..n + 1) = n + 1
    BY FS_Interval
  <2>2. Cardinality(1..n + 1) <= Cardinality(IdsInUse)
    BY <1>4, FS_Subset
  <2> QED
    BY <1>5, <2>1, <2>2
<1>7. NewId \notin IdsInUse
  BY <1>5, <1>6 DEF NewId
<1> QED
  BY <1>7 DEF IdsInUse

-----------------------------------------------------------------------------
(* The steps of the deployment. *)

\* What a listener's policies become when only they are rewritten.
LEMMA Rewritten ==
  ASSUME Shape, NEW l \in DOMAIN cloud.lis, NEW ps, IsPolicies(ps),
         cloud' = [cloud EXCEPT !.lis[l].policies = ps]
  PROVE  /\ DOMAIN cloud' = {"lb", "pools", "lis"} /\ DOMAIN cloud'.lis = DOMAIN cloud.lis
         /\ \A k \in DOMAIN cloud.lis : IsListener(cloud'.lis[k])
         /\ cloud'.lis[l].policies = ps
         /\ \A k \in DOMAIN cloud.lis : k # l => cloud'.lis[k] = cloud.lis[k]
<1>1. DOMAIN cloud = {"lb", "pools", "lis"} /\ IsListener(cloud.lis[l])
  BY DEF Shape
<1>2. PICK f, g, h : f = cloud.lis /\ g = cloud.lis[l] /\ h = [g EXCEPT !.policies = ps]
  OBVIOUS
<1>3. cloud'.lis = [f EXCEPT ![l] = h] /\ DOMAIN cloud' = DOMAIN cloud
  BY <1>1, <1>2
<1>4. DOMAIN h = {"pool", "policies"} /\ h.policies = ps
  BY <1>1, <1>2 DEF IsListener
<1>5. IsListener(h)
  BY <1>4 DEF IsListener
<1>6. /\ DOMAIN cloud'.lis = DOMAIN f /\ cloud'.lis[l] = h
      /\ \A k \in DOMAIN f : k # l => cloud'.lis[k] = f[k]
  BY <1>2, <1>3
<1> QED
  BY <1>1, <1>2, <1>3, <1>4, <1>5, <1>6 DEF Shape

\* A step that leaves the policies and the records.
LEMMA SameBooks ==
  ASSUME BooksInv, cloud'.lis = cloud.lis, DOMAIN cloud' = DOMAIN cloud,
         status'.made = status.made, DOMAIN status' = DOMAIN status, stray' = stray,
         dpc \notin {"policy", "record"}, dpc' \in {"idle", "sync", "pools", "listener"},
         DOMAIN task' = DOMAIN task, task'.new = task.new \/ DOMAIN task'.new = {}
  PROVE  BooksInv'
<1>1. Shape'
  BY DEF BooksInv, Shape
<1>2. Apart'
  BY DEF BooksInv, Apart, IdsOf, PoliciesOf
<1>3. Held'
  BY DEF BooksInv, Held, IdsOf, PoliciesOf
<1>4. OnBooks'
  BY DEF BooksInv, OnBooks, Booked, IdsOf, PoliciesOf
<1> QED
  BY <1>1, <1>2, <1>3, <1>4 DEF BooksInv

\* The start, the status of the load balancer, the pools.
LEMMA PreludeStep == ASSUME BooksInv, DeployLoadBalancer \/ SyncStatus \/ DeployPools PROVE BooksInv'
<1>1. CASE DeployLoadBalancer
  <2>1. cloud'.lis = cloud.lis /\ DOMAIN cloud' = DOMAIN cloud
    BY <1>1 DEF DeployLoadBalancer, BooksInv, Shape
  <2>2. DOMAIN task' = DOMAIN task /\ DOMAIN task'.new = {}
    BY <1>1 DEF DeployLoadBalancer, NoTask, BooksInv, Shape
  <2>3. dpc = "idle" /\ dpc' = "sync" /\ status' = status /\ stray' = stray
    BY <1>1 DEF DeployLoadBalancer, Goto
  <2> QED
    BY <2>1, <2>2, <2>3, SameBooks
<1>2. CASE SyncStatus
  <2>1. status'.made = status.made /\ DOMAIN status' = DOMAIN status
    BY <1>2 DEF SyncStatus, BooksInv, Shape
  <2>2. dpc = "sync" /\ dpc' = "pools" /\ cloud' = cloud /\ stray' = stray /\ task' = task
    BY <1>2 DEF SyncStatus, Goto
  <2> QED
    BY <2>1, <2>2, SameBooks
<1>3. CASE DeployPools
  <2>1. cloud'.lis = cloud.lis /\ DOMAIN cloud' = DOMAIN cloud
    BY <1>3 DEF DeployPools, BooksInv, Shape
  <2>2. dpc = "pools" /\ dpc' = "listener" /\ status' = status /\ stray' = stray /\ task' = task
    BY <1>3 DEF DeployPools, Goto
  <2> QED
    BY <2>1, <2>2, SameBooks
<1> QED
  BY <1>1, <1>2, <1>3

\* A listener is written.
LEMMA WrittenListener ==
  ASSUME Shape, NEW c, NEW lis, IsListener(lis),
         cloud' = [cloud EXCEPT !.lis = Put(cloud.lis, c, lis)]
  PROVE  /\ DOMAIN cloud' = {"lb", "pools", "lis"} /\ IsFiniteSet(DOMAIN cloud'.lis)
         /\ DOMAIN cloud'.lis = DOMAIN cloud.lis \cup {c} /\ cloud'.lis[c] = lis
         /\ \A k \in DOMAIN cloud.lis : k # c => cloud'.lis[k] = cloud.lis[k]
         /\ \A k \in DOMAIN cloud'.lis : IsListener(cloud'.lis[k])
<1>1. DOMAIN cloud' = {"lb", "pools", "lis"} /\ cloud'.lis = Put(cloud.lis, c, lis)
  BY DEF Shape
<1>2. /\ DOMAIN cloud'.lis = DOMAIN cloud.lis \cup {c} /\ cloud'.lis[c] = lis
      /\ \A k \in DOMAIN cloud.lis : k # c => cloud'.lis[k] = cloud.lis[k]
  BY <1>1 DEF Put
<1>3. IsFiniteSet(DOMAIN cloud.lis \cup {c})
  BY FS_AddElement DEF Shape
<1> QED
  BY <1>1, <1>2, <1>3 DEF Shape

\* A listener is made, without policies, ...
LEMMA CreateListenerStep == ASSUME BooksInv, CreateListener PROVE BooksInv'
<1>1. PICK c : c = Current
  OBVIOUS
<1>2. PICK lis : lis = [pool |-> Want.pool, policies |-> <<>>]
  OBVIOUS
<1>3. /\ dpc = "listener" /\ dpc' = "addListener" /\ c \notin DOMAIN cloud.lis
      /\ stray' = stray /\ status' = status /\ task' = task
      /\ cloud' = [cloud EXCEPT !.lis = Put(cloud.lis, c, lis)]
  BY <1>1, <1>2 DEF CreateListener, Goto
<1>4. IsListener(lis)
  <2>1. <<>> \in Seq({}) /\ DOMAIN <<>> = {}
    BY EmptySeq
  <2>2. IsPolicies(<<>>)
    BY <2>1 DEF IsPolicies
  <2>3. DOMAIN lis = {"pool", "policies"} /\ lis.policies = <<>>
    BY <1>2
  <2> QED
    BY <2>2, <2>3 DEF IsListener
<1>5. /\ DOMAIN cloud' = {"lb", "pools", "lis"} /\ IsFiniteSet(DOMAIN cloud'.lis)
      /\ DOMAIN cloud'.lis = DOMAIN cloud.lis \cup {c} /\ cloud'.lis[c] = lis
      /\ \A k \in DOMAIN cloud.lis : k # c => cloud'.lis[k] = cloud.lis[k]
      /\ \A k \in DOMAIN cloud'.lis : IsListener(cloud'.lis[k])
  BY <1>3, <1>4, WrittenListener DEF BooksInv
<1>6. (\A k \in DOMAIN cloud.lis : IdsOf(k)' = IdsOf(k)) /\ IdsOf(c)' = {}
  <2>1. \A k \in DOMAIN cloud.lis : cloud'.lis[k] = cloud.lis[k]
    BY <1>3, <1>5
  <2>2. cloud'.lis[c].policies = <<>>
    BY <1>2, <1>5
  <2> QED
    BY <2>1, <2>2 DEF IdsOf, PoliciesOf, Ids
<1>7. Current' = c
  BY <1>1, <1>3 DEF Current
<1>8. Shape'
  BY <1>3, <1>5 DEF BooksInv, Shape
<1>9. Apart'
  BY <1>5, <1>6 DEF BooksInv, Apart
<1>10. Held'
  BY <1>3, <1>5, <1>6, <1>7 DEF BooksInv, Held
<1>11. OnBooks'
  BY <1>3, <1>5, <1>6 DEF BooksInv, OnBooks, Booked
<1> QED
  BY <1>8, <1>9, <1>10, <1>11 DEF BooksInv

\* ... and recorded, ...
LEMMA StatusAddListenerStep == ASSUME BooksInv, StatusAddListener PROVE BooksInv'
<1>1. PICK c : c = Current
  OBVIOUS
<1>2. PICK made : made = IF c \in DOMAIN status.made THEN status.made[c] ELSE {}
  OBVIOUS
<1>3. /\ dpc \in {"listener", "addListener"} /\ dpc' = "update" /\ c \in DOMAIN cloud.lis
      /\ stray' = stray /\ task' = task /\ cloud' = cloud
      /\ status' = [status EXCEPT !.made = Put(status.made, c, made)]
  BY <1>1, <1>2 DEF StatusAddListener, Goto, BooksInv, Held
<1>4. DOMAIN status' = DOMAIN status /\ status'.made = Put(status.made, c, made)
  BY <1>3 DEF BooksInv, Shape
<1>5. /\ DOMAIN status'.made = DOMAIN status.made \cup {c} /\ status'.made[c] = made
      /\ \A k \in DOMAIN status.made : k # c => status'.made[k] = status.made[k]
  BY <1>4 DEF Put
<1>6. \A k : IdsOf(k)' = IdsOf(k)
  BY <1>3 DEF IdsOf, PoliciesOf
<1>7. Current' = c
  BY <1>1, <1>3 DEF Current
<1>8. Shape'
  <2>1. IsFiniteSet(DOMAIN status.made \cup {c}) /\ IsFiniteSet(made)
    BY <1>2, FS_AddElement, FS_EmptySet DEF BooksInv, Shape
  <2>2. \A l \in DOMAIN status'.made : IsFiniteSet(status'.made[l])
    BY <1>5, <2>1 DEF BooksInv, Shape
  <2> QED
    BY <1>3, <1>4, <1>5, <2>1, <2>2 DEF BooksInv, Shape
<1>9. Apart'
  BY <1>3, <1>6 DEF BooksInv, Apart
<1>10. Held'
  BY <1>3, <1>5, <1>6, <1>7 DEF BooksInv, Held
<1>11. OnBooks'
  BY <1>2, <1>3, <1>5, <1>6 DEF BooksInv, OnBooks, Booked
<1> QED
  BY <1>8, <1>9, <1>10, <1>11 DEF BooksInv

\* ... or recorded and updated.
LEMMA UpdateListenerStep == ASSUME BooksInv, UpdateListener PROVE BooksInv'
<1>1. PICK c : c = Current
  OBVIOUS
<1>2. PICK lis : lis = [pool |-> Want.pool, policies |-> cloud.lis[c].policies]
  OBVIOUS
<1>3. /\ dpc = "update" /\ dpc' = "policy" /\ c \in DOMAIN cloud.lis \cap DOMAIN status.made
      /\ stray' = stray /\ status' = status
      /\ cloud' = [cloud EXCEPT !.lis = Put(cloud.lis, c, lis)]
      /\ task' = [task EXCEPT !.next = 1, !.new = Put(task.new, c, {})]
  BY <1>1, <1>2 DEF UpdateListener, Goto, OnCloud, BooksInv, Held
<1>4. IsListener(lis)
  <2>1. IsPolicies(cloud.lis[c].policies)
    BY <1>3 DEF BooksInv, Shape, IsListener
  <2>2. DOMAIN lis = {"pool", "policies"} /\ lis.policies = cloud.lis[c].policies
    BY <1>2
  <2> QED
    BY <2>1, <2>2 DEF IsListener
<1>5. /\ DOMAIN cloud' = {"lb", "pools", "lis"} /\ IsFiniteSet(DOMAIN cloud'.lis)
      /\ DOMAIN cloud'.lis = DOMAIN cloud.lis \cup {c} /\ cloud'.lis[c] = lis
      /\ \A k \in DOMAIN cloud.lis : k # c => cloud'.lis[k] = cloud.lis[k]
      /\ \A k \in DOMAIN cloud'.lis : IsListener(cloud'.lis[k])
  BY <1>3, <1>4, WrittenListener DEF BooksInv
<1>6. \A k \in DOMAIN cloud.lis : IdsOf(k)' = IdsOf(k)
  <2>1. \A k \in DOMAIN cloud.lis : cloud'.lis[k].policies = cloud.lis[k].policies
    BY <1>2, <1>5
  <2> QED
    BY <2>1 DEF IdsOf, PoliciesOf
<1>7. DOMAIN task' = DOMAIN task /\ task'.new = Put(task.new, c, {}) /\ task'.left = task.left
  BY <1>3 DEF BooksInv, Shape
<1>8. /\ DOMAIN task'.new = DOMAIN task.new \cup {c} /\ task'.new[c] = {}
      /\ \A k \in DOMAIN task.new : k # c => task'.new[k] = task.new[k]
  BY <1>7 DEF Put
<1>9. Current' = c
  BY <1>1, <1>7 DEF Current
<1>10. Shape'
  BY <1>3, <1>5, <1>7 DEF BooksInv, Shape
<1>11. Apart'
  BY <1>3, <1>5, <1>6 DEF BooksInv, Apart
<1>12. Held'
  BY <1>3, <1>5, <1>6, <1>8, <1>9 DEF BooksInv, Held
<1>13. OnBooks'
  BY <1>3, <1>5, <1>6 DEF BooksInv, OnBooks, Booked
<1> QED
  BY <1>10, <1>11, <1>12, <1>13 DEF BooksInv

\* The new policy is in hand, with an id of its own.
LEMMA CreatePolicyStep == ASSUME BooksInv, CreatePolicy PROVE BooksInv'
<1>1. PICK c : c = Current
  OBVIOUS
<1>2. PICK id : id = NewId
  OBVIOUS
<1>3. PICK p : p = [id |-> id, name |-> Policy.name, rules |-> Policy.rules, action |-> Policy.action,
                    pool |-> Policy.pool, url |-> Policy.url]
  OBVIOUS
<1>4. PICK ps : ps = Append(OnCloud, p)
  OBVIOUS
<1>5. /\ dpc = "policy" /\ dpc' = "record" /\ stray' = stray /\ status' = status
      /\ cloud' = [cloud EXCEPT !.lis[c].policies = ps] /\ task' = [task EXCEPT !.id = id]
  BY <1>1, <1>2, <1>3, <1>4 DEF CreatePolicy, WithPolicies, Goto
<1>6. c \in DOMAIN cloud.lis /\ c \in DOMAIN task.new /\ c \in DOMAIN status.made
  BY <1>1, <1>5 DEF BooksInv, Held
<1>7. IsPolicies(OnCloud)
  BY <1>1, <1>6 DEF OnCloud, BooksInv, Shape, IsListener
<1>8. IsPolicies(ps) /\ Ids(ps) = Ids(OnCloud) \cup {id}
  <2>1. "id" \in DOMAIN p /\ p.id = id
    BY <1>3
  <2> QED
    BY <1>4, <1>7, <2>1, AppendIds
<1>9. /\ DOMAIN cloud' = {"lb", "pools", "lis"} /\ DOMAIN cloud'.lis = DOMAIN cloud.lis
      /\ \A k \in DOMAIN cloud.lis : IsListener(cloud'.lis[k])
      /\ cloud'.lis[c].policies = ps
      /\ \A k \in DOMAIN cloud.lis : k # c => cloud'.lis[k] = cloud.lis[k]
  BY <1>5, <1>6, <1>8, Rewritten DEF BooksInv
<1>10. DOMAIN task' = DOMAIN task /\ task'.id = id /\ task'.new = task.new /\ task'.left = task.left
  BY <1>5 DEF BooksInv, Shape
<1>11. Current' = c
  BY <1>1, <1>10 DEF Current
<1>12. /\ \A k \in DOMAIN cloud.lis : k # c => IdsOf(k)' = IdsOf(k)
       /\ IdsOf(c)' = IdsOf(c) \cup {id}
  BY <1>1, <1>8, <1>9 DEF IdsOf, PoliciesOf, OnCloud
<1>13. \A k \in DOMAIN cloud.lis : id \notin IdsOf(k)
  BY <1>2, FreshId DEF BooksInv, PolicyIds, IdsOf, PoliciesOf
<1>14. Shape'
  BY <1>5, <1>9, <1>10 DEF BooksInv, Shape
<1>15. Apart'
  BY <1>9, <1>12, <1>13 DEF BooksInv, Apart
<1>16. Held'
  BY <1>5, <1>6, <1>9, <1>10, <1>11, <1>12 DEF BooksInv, Held
<1>17. OnBooks'
  BY <1>5, <1>9, <1>10, <1>11, <1>12 DEF BooksInv, OnBooks, Booked
<1> QED
  BY <1>14, <1>15, <1>16, <1>17 DEF BooksInv

\* A step that moves or updates the policies of a listener, or leaves them: their ids
\* are the same.
LEMMA SameIds ==
  ASSUME BooksInv, NEW c \in DOMAIN cloud.lis, NEW ps, IsPolicies(ps), Ids(ps) = IdsOf(c),
         cloud' = cloud \/ cloud' = [cloud EXCEPT !.lis[c].policies = ps]
  PROVE  /\ DOMAIN cloud' = {"lb", "pools", "lis"} /\ DOMAIN cloud'.lis = DOMAIN cloud.lis
         /\ \A k \in DOMAIN cloud.lis : IsListener(cloud'.lis[k]) /\ IdsOf(k)' = IdsOf(k)
         /\ Apart'
<1>1. /\ DOMAIN cloud' = {"lb", "pools", "lis"} /\ DOMAIN cloud'.lis = DOMAIN cloud.lis
      /\ \A k \in DOMAIN cloud.lis : IsListener(cloud'.lis[k])
  <2>1. CASE cloud' = cloud
    BY <2>1 DEF BooksInv, Shape
  <2>2. CASE cloud' = [cloud EXCEPT !.lis[c].policies = ps]
    BY <2>2, Rewritten DEF BooksInv
  <2> QED
    BY <2>1, <2>2
<1>2. \A k \in DOMAIN cloud.lis : IdsOf(k)' = IdsOf(k)
  <2>1. CASE cloud' = cloud
    BY <2>1 DEF IdsOf, PoliciesOf
  <2>2. CASE cloud' = [cloud EXCEPT !.lis[c].policies = ps]
    <3>1. /\ cloud'.lis[c].policies = ps
          /\ \A k \in DOMAIN cloud.lis : k # c => cloud'.lis[k] = cloud.lis[k]
      BY <2>2, Rewritten DEF BooksInv
    <3> QED
      BY <3>1 DEF IdsOf, PoliciesOf
  <2> QED
    BY <2>1, <2>2
<1>3. Apart'
  BY <1>1, <1>2 DEF BooksInv, Apart
<1> QED
  BY <1>1, <1>2, <1>3

\* The policy found is updated and in hand, or collected as it is.
LEMMA UpdatePolicyStep == ASSUME BooksInv, UpdatePolicy PROVE BooksInv'
<1>1. PICK c : c = Current
  OBVIOUS
<1>2. PICK j \in Found :
        IF NeedUpdate(Policy, OnCloud[j])
        THEN /\ cloud' = WithPolicies([OnCloud EXCEPT ![j] = PolicyUpdate(Policy, @)])
             /\ task' = [task EXCEPT !.id = OnCloud[j].id] /\ Goto("record")
        ELSE NextPolicy(OnCloud[j].id) /\ UNCHANGED <<cloud, dpc>>
  BY DEF UpdatePolicy
<1>3. dpc = "policy" /\ stray' = stray /\ status' = status
  BY DEF UpdatePolicy
<1>4. c \in DOMAIN cloud.lis /\ c \in DOMAIN task.new /\ c \in DOMAIN status.made
  BY <1>1, <1>3 DEF BooksInv, Held
<1>5. IsPolicies(OnCloud) /\ Ids(OnCloud) = IdsOf(c) /\ j \in DOMAIN OnCloud
  BY <1>1, <1>4 DEF OnCloud, BooksInv, Shape, IsListener, IdsOf, PoliciesOf, Found
<1>6. PICK id : id = OnCloud[j].id
  OBVIOUS
<1>7. id \in IdsOf(c)
  BY <1>5, <1>6 DEF Ids
<1>8. PICK ps : ps = [OnCloud EXCEPT ![j] = PolicyUpdate(Policy, @)]
  OBVIOUS
<1>9. IsPolicies(ps) /\ Ids(ps) = IdsOf(c)
  <2>1. PICK os, want : os = OnCloud /\ want = Policy
    OBVIOUS
  <2>2. IsPolicies(os) /\ j \in DOMAIN os
    BY <1>5, <2>1
  <2>3. /\ IsPolicies([os EXCEPT ![j] = PolicyUpdate(want, @)])
        /\ Ids([os EXCEPT ![j] = PolicyUpdate(want, @)]) = Ids(os)
    BY ONLY <2>2, UpdateIds
  <2>4. ps = [os EXCEPT ![j] = PolicyUpdate(want, @)]
    BY <1>8, <2>1
  <2> QED
    BY <1>5, <2>1, <2>3, <2>4
<1>10. \/ /\ cloud' = [cloud EXCEPT !.lis[c].policies = ps]
          /\ task' = [task EXCEPT !.id = id] /\ dpc' = "record"
       \/ /\ task' = [task EXCEPT !.next = @ + 1, !.id = None, !.new[c] = @ \cup {id}]
          /\ cloud' = cloud /\ dpc' = dpc
  BY <1>1, <1>2, <1>6, <1>8 DEF WithPolicies, NextPolicy, Goto
<1>11. cloud' = cloud \/ cloud' = [cloud EXCEPT !.lis[c].policies = ps]
  BY <1>10
<1>12. /\ DOMAIN cloud' = {"lb", "pools", "lis"} /\ DOMAIN cloud'.lis = DOMAIN cloud.lis
       /\ \A k \in DOMAIN cloud.lis : IsListener(cloud'.lis[k]) /\ IdsOf(k)' = IdsOf(k)
       /\ Apart'
  BY <1>4, <1>9, <1>11, SameIds
<1>13. /\ DOMAIN task' = DOMAIN task /\ task'.left = task.left /\ DOMAIN task'.new = DOMAIN task.new
       /\ \A k \in DOMAIN task.new : task'.new[k] = task.new[k] \/ (k = c /\ task'.new[k] = task.new[k] \cup {id})
       /\ dpc' = "policy" \/ (dpc' = "record" /\ task'.id = id)
  <2>1. CASE task' = [task EXCEPT !.id = id] /\ dpc' = "record"
    BY <2>1 DEF BooksInv, Shape
  <2>2. CASE task' = [task EXCEPT !.next = @ + 1, !.id = None, !.new[c] = @ \cup {id}] /\ dpc' = dpc
    BY <1>3, <2>2 DEF BooksInv, Shape
  <2> QED
    BY <1>10, <2>1, <2>2
<1>14. Current' = c
  BY <1>1, <1>13 DEF Current
<1>15. Shape'
  BY <1>3, <1>12, <1>13 DEF BooksInv, Shape
<1>16. Held'
  BY <1>3, <1>4, <1>7, <1>12, <1>13, <1>14 DEF BooksInv, Held
<1>17. OnBooks'
  BY <1>3, <1>12 DEF BooksInv, OnBooks, Booked
<1> QED
  BY <1>12, <1>15, <1>16, <1>17 DEF BooksInv

\* The policy in hand is recorded and collected.
LEMMA StatusAddPolicyStep == ASSUME BooksInv, StatusAddPolicy PROVE BooksInv'
<1>1. PICK c : c = Current
  OBVIOUS
<1>2. PICK made : made = {task.id} \cup status.made[c]
  OBVIOUS
<1>3. /\ dpc = "record" /\ dpc' = "policy" /\ stray' = stray /\ cloud' = cloud
      /\ status' = [status EXCEPT !.made = Put(status.made, c, made)]
      /\ task' = [task EXCEPT !.next = @ + 1, !.id = None, !.new[c] = @ \cup {task.id}]
  BY <1>1, <1>2 DEF StatusAddPolicy, NextPolicy, Goto
<1>4. /\ c \in DOMAIN cloud.lis /\ c \in DOMAIN task.new /\ c \in DOMAIN status.made
      /\ task.id \in IdsOf(c)
  BY <1>1, <1>3 DEF BooksInv, Held
<1>5. DOMAIN status' = DOMAIN status /\ status'.made = Put(status.made, c, made)
  BY <1>3 DEF BooksInv, Shape
<1>6. /\ DOMAIN status'.made = DOMAIN status.made /\ status'.made[c] = made
      /\ \A k \in DOMAIN status.made : k # c => status'.made[k] = status.made[k]
  BY <1>4, <1>5 DEF Put
<1>7. /\ DOMAIN task' = DOMAIN task /\ task'.left = task.left /\ DOMAIN task'.new = DOMAIN task.new
      /\ task'.new[c] = task.new[c] \cup {task.id}
      /\ \A k \in DOMAIN task.new : k # c => task'.new[k] = task.new[k]
  BY <1>3, <1>4 DEF BooksInv, Shape
<1>8. Current' = c /\ \A k : IdsOf(k)' = IdsOf(k)
  BY <1>1, <1>3, <1>7 DEF Current, IdsOf, PoliciesOf
<1>9. Shape'
  <2>1. IsFiniteSet(made)
    <3>1. IsFiniteSet(status.made[c] \cup {task.id})
      BY <1>4, FS_AddElement DEF BooksInv, Shape
    <3>2. made = status.made[c] \cup {task.id}
      BY <1>2
    <3> QED
      BY <3>1, <3>2
  <2>2. \A k \in DOMAIN status'.made : IsFiniteSet(status'.made[k])
    BY <1>6, <2>1 DEF BooksInv, Shape
  <2> QED
    BY <1>3, <1>5, <1>6, <1>7, <2>2 DEF BooksInv, Shape
<1>10. Apart'
  BY <1>3, <1>8 DEF BooksInv, Apart
<1>11. Held'
  BY <1>3, <1>4, <1>6, <1>7, <1>8 DEF BooksInv, Held
<1>12. OnBooks'
  <2>1. ASSUME NEW l \in DOMAIN cloud.lis, NEW id \in IdsOf(l) PROVE Booked(l, id)'
    <3>1. Booked(l, id)
      BY <2>1 DEF BooksInv, OnBooks
    <3>2. CASE l # c
      BY <1>1, <1>3, <1>6, <3>1, <3>2 DEF Booked
    <3>3. CASE l = c
      BY <1>1, <1>2, <1>3, <1>4, <1>6, <3>1, <3>3 DEF Booked
    <3> QED
      BY <3>2, <3>3
  <2> QED
    BY <1>3, <1>8, <2>1 DEF OnBooks
<1> QED
  BY <1>9, <1>10, <1>11, <1>12 DEF BooksInv

\* The policies of the listener are put in order.
LEMMA ReorderStep == ASSUME BooksInv, Reorder PROVE BooksInv'
<1>1. PICK c : c = Current
  OBVIOUS
<1>2. PICK q \in Sorted(Want.policies, OnCloud) :
        cloud' = IF NeedReorder(Want.policies, OnCloud, q)
                 THEN WithPolicies(ReorderPolicies(OnCloud, q)) ELSE cloud
  BY DEF Reorder
<1>3. /\ dpc = "policy" /\ dpc' = "listener" /\ stray' = stray /\ status' = status
      /\ task' = [task EXCEPT !.left = Tail(@)]
  BY DEF Reorder, Goto
<1>4. c \in DOMAIN cloud.lis
  BY <1>1, <1>3 DEF BooksInv, Held
<1>5. IsPolicies(OnCloud) /\ Ids(OnCloud) = IdsOf(c)
  BY <1>1, <1>4 DEF OnCloud, BooksInv, Shape, IsListener, IdsOf, PoliciesOf
<1>6. PICK ps : ps = ReorderPolicies(OnCloud, q)
  OBVIOUS
<1>7. q \in Bijection(DOMAIN OnCloud, DOMAIN OnCloud)
  BY <1>2 DEF Sorted
<1>8. IsPolicies(ps) /\ Ids(ps) = IdsOf(c)
  BY <1>5, <1>6, <1>7, ReorderIds
<1>9. cloud' = cloud \/ cloud' = [cloud EXCEPT !.lis[c].policies = ps]
  BY <1>1, <1>2, <1>6 DEF WithPolicies
<1>10. /\ DOMAIN cloud' = {"lb", "pools", "lis"} /\ DOMAIN cloud'.lis = DOMAIN cloud.lis
       /\ \A k \in DOMAIN cloud.lis : IsListener(cloud'.lis[k]) /\ IdsOf(k)' = IdsOf(k)
       /\ Apart'
  BY <1>4, <1>8, <1>9, SameIds
<1>11. DOMAIN task' = DOMAIN task /\ task'.new = task.new
  BY <1>3 DEF BooksInv, Shape
<1>12. Shape'
  BY <1>3, <1>10, <1>11 DEF BooksInv, Shape
<1>13. Held'
  BY <1>3, <1>10, <1>11 DEF BooksInv, Held
<1>14. OnBooks'
  BY <1>3, <1>10 DEF BooksInv, OnBooks, Booked
<1> QED
  BY <1>10, <1>12, <1>13, <1>14 DEF BooksInv

\* A redundant listener goes: nothing was collected on it.
LEMMA DeleteListenerStep == ASSUME BooksInv, DeleteListener PROVE BooksInv'
<1>1. PICK l \in Whole : cloud' = [cloud EXCEPT !.lis = [k \in DOMAIN cloud.lis \ {l} |-> cloud.lis[k]]]
  BY DEF DeleteListener
<1>2. dpc = "listener" /\ dpc' = dpc /\ status' = status /\ task' = task /\ stray' = stray
  BY DEF DeleteListener
<1>3. /\ DOMAIN cloud' = DOMAIN cloud /\ DOMAIN cloud'.lis = DOMAIN cloud.lis \ {l}
      /\ \A k \in DOMAIN cloud'.lis : cloud'.lis[k] = cloud.lis[k]
  BY <1>1 DEF BooksInv, Shape
<1>4. l \notin DOMAIN task.new
  BY <1>1 DEF Whole, Redundant
<1>5. \A k \in DOMAIN cloud'.lis : IdsOf(k)' = IdsOf(k)
  BY <1>3 DEF IdsOf, PoliciesOf
<1>6. Shape'
  <2>1. IsFiniteSet(DOMAIN cloud.lis \ {l})
    BY FS_RemoveElement DEF BooksInv, Shape
  <2>2. IsFiniteSet(DOMAIN cloud'.lis)
    BY <1>3, <2>1
  <2> QED
    BY <1>2, <1>3, <2>2 DEF BooksInv, Shape
<1>7. Apart'
  BY <1>3, <1>5 DEF BooksInv, Apart
<1>8. Held'
  BY <1>2, <1>3, <1>4, <1>5 DEF BooksInv, Held
<1>9. OnBooks'
  BY <1>2, <1>3, <1>5 DEF BooksInv, OnBooks, Booked
<1> QED
  BY <1>6, <1>7, <1>8, <1>9 DEF BooksInv

\* A redundant policy goes: it was not collected.
LEMMA DeletePolicyStep == ASSUME BooksInv, DeletePolicy PROVE BooksInv'
<1>1. PICK l \in Recorded \ Whole : \E j \in DOMAIN cloud.lis[l].policies :
        /\ cloud.lis[l].policies[j].id \in RedundantPolicies(l)
        /\ cloud' = [cloud EXCEPT !.lis[l].policies = RemoveAt(@, j)]
  BY DEF DeletePolicy
<1>2. PICK j \in DOMAIN PoliciesOf(l) :
        /\ PoliciesOf(l)[j].id \in RedundantPolicies(l)
        /\ cloud' = [cloud EXCEPT !.lis[l].policies = RemoveAt(PoliciesOf(l), j)]
  BY <1>1 DEF PoliciesOf
<1>3. PICK id, ps : id = PoliciesOf(l)[j].id /\ ps = RemoveAt(PoliciesOf(l), j)
  OBVIOUS
<1>4. dpc = "listener" /\ dpc' = dpc /\ status' = status /\ task' = task /\ stray' = stray
  BY DEF DeletePolicy
<1>5. l \in DOMAIN cloud.lis /\ IsPolicies(PoliciesOf(l))
  BY <1>1 DEF Recorded, BooksInv, Shape, IsListener, PoliciesOf
<1>6. IsPolicies(ps) /\ Ids(ps) \subseteq IdsOf(l) /\ IdsOf(l) \ {id} \subseteq Ids(ps)
  BY <1>3, <1>5, RemoveIds DEF IdsOf
<1>7. l \in DOMAIN task.new => id \notin task.new[l]
  BY <1>2, <1>3 DEF RedundantPolicies, New, Redundant
<1>8. /\ DOMAIN cloud' = {"lb", "pools", "lis"} /\ DOMAIN cloud'.lis = DOMAIN cloud.lis
      /\ \A k \in DOMAIN cloud.lis : IsListener(cloud'.lis[k])
      /\ cloud'.lis[l].policies = ps
      /\ \A k \in DOMAIN cloud.lis : k # l => cloud'.lis[k] = cloud.lis[k]
  <2>1. cloud' = [cloud EXCEPT !.lis[l].policies = ps]
    BY <1>2, <1>3
  <2> QED
    BY <1>5, <1>6, <2>1, Rewritten DEF BooksInv
<1>9. /\ \A k \in DOMAIN cloud.lis : IdsOf(k)' \subseteq IdsOf(k) /\ (k # l => IdsOf(k)' = IdsOf(k))
      /\ IdsOf(l) \ {id} \subseteq IdsOf(l)'
  BY <1>6, <1>8 DEF IdsOf, PoliciesOf
<1>10. Shape'
  BY <1>4, <1>8 DEF BooksInv, Shape
<1>11. Apart'
  BY <1>8, <1>9 DEF BooksInv, Apart
<1>12. Held'
  <2>1. ASSUME NEW k \in DOMAIN task.new PROVE task.new[k] \subseteq IdsOf(k)'
    BY <1>7, <1>9 DEF BooksInv, Held
  <2> QED
    BY <1>4, <1>8, <2>1 DEF BooksInv, Held
<1>13. OnBooks'
  BY <1>4, <1>8, <1>9 DEF BooksInv, OnBooks, Booked
<1> QED
  BY <1>10, <1>11, <1>12, <1>13 DEF BooksInv

\* The records are replaced by what was collected.
LEMMA FinishStep == ASSUME BooksInv, Finish PROVE BooksInv'
<1>1. /\ dpc = "listener" /\ dpc' = "idle" /\ task' = NoTask
      /\ \A l \in Recorded : RedundantPolicies(l) = {}
      /\ stray' = (stray \cap PolicyIds) \ UNION {task.new[l] : l \in DOMAIN task.new}
  BY DEF Finish
<1>2. DOMAIN cloud' = DOMAIN cloud /\ cloud'.lis = cloud.lis
  BY DEF Finish, BooksInv, Shape
<1>3. DOMAIN status' = DOMAIN status /\ status'.made = task.new
  BY DEF Finish, BooksInv, Shape
<1>4. DOMAIN task' = DOMAIN task /\ DOMAIN task'.new = {}
  BY <1>1 DEF NoTask, BooksInv, Shape
<1>5. \A l : IdsOf(l)' = IdsOf(l)
  BY <1>2 DEF IdsOf, PoliciesOf
<1>6. Shape'
  <2>1. DOMAIN task.new \in SUBSET (DOMAIN cloud.lis)
    BY DEF BooksInv, Held
  <2>2. IsFiniteSet(DOMAIN task.new)
    BY <2>1, FS_Subset DEF BooksInv, Shape
  <2>3. ASSUME NEW l \in DOMAIN task.new PROVE IsFiniteSet(task.new[l])
    <3>1. l \in DOMAIN cloud.lis /\ task.new[l] \in SUBSET IdsOf(l)
      BY <2>3 DEF BooksInv, Held
    <3>2. IsFiniteSet(IdsOf(l))
      BY <3>1, IdsFinite DEF BooksInv, Shape, IsListener, IdsOf, PoliciesOf
    <3> QED
      BY <3>1, <3>2, FS_Subset
  <2> QED
    BY <1>2, <1>3, <1>4, <2>2, <2>3 DEF BooksInv, Shape
<1>7. Apart'
  BY <1>2, <1>5 DEF BooksInv, Apart
<1>8. Held'
  BY <1>1, <1>4 DEF Held
<1>9. ASSUME NEW l \in DOMAIN cloud.lis, NEW id \in IdsOf(l) PROVE Booked(l, id)'
  <2>1. CASE l \in DOMAIN status.made /\ id \in status.made[l]
    <3>1. id \in New(l)
      BY <1>1, <1>9, <2>1 DEF Recorded, RedundantPolicies, IdsOf, PoliciesOf
    <3>2. l \in DOMAIN task.new /\ id \in task.new[l]
      BY <3>1 DEF New, Redundant
    <3> QED
      BY <1>3, <3>2 DEF Booked
  <2>2. CASE id \in stray
    <3>1. id \in PolicyIds
      BY <1>9 DEF PolicyIds, IdsOf, PoliciesOf
    <3>2. CASE id \in UNION {task.new[k] : k \in DOMAIN task.new}
      <4>1. PICK k \in DOMAIN task.new : id \in task.new[k]
        BY <3>2
      <4>2. k \in DOMAIN cloud.lis /\ id \in IdsOf(k)
        BY <4>1 DEF BooksInv, Held
      <4>3. k = l
        BY <1>9, <4>2 DEF BooksInv, Apart
      <4> QED
        BY <1>3, <4>1, <4>3 DEF Booked
    <3>3. CASE id \notin UNION {task.new[k] : k \in DOMAIN task.new}
      BY <1>1, <2>2, <3>1, <3>3 DEF Booked
    <3> QED
      BY <3>2, <3>3
  <2> QED
    BY <1>1, <1>9, <2>1, <2>2 DEF BooksInv, OnBooks, Booked
<1>10. OnBooks'
  BY <1>2, <1>5, <1>9 DEF OnBooks
<1> QED
  BY <1>6, <1>7, <1>8, <1>10 DEF BooksInv

\* What was collected is lost; the policy in hand is recorded or left behind.
LEMMA FailStep == ASSUME BooksInv, Fail PROVE BooksInv'
<1>1. /\ dpc' = "idle" /\ task' = NoTask /\ status' = status /\ cloud' = cloud
      /\ stray' = IF dpc = "record" /\ task.id \notin status.made[Current]
                  THEN stray \cup {task.id} ELSE stray
  BY DEF Fail
<1>2. DOMAIN task' = DOMAIN task /\ DOMAIN task'.new = {}
  BY <1>1 DEF NoTask, BooksInv, Shape
<1>3. \A l : IdsOf(l)' = IdsOf(l)
  BY <1>1 DEF IdsOf, PoliciesOf
<1>4. Shape' /\ Apart'
  BY <1>1, <1>2, <1>3 DEF BooksInv, Shape, Apart
<1>5. Held'
  BY <1>1, <1>2 DEF Held
<1>6. ASSUME NEW l \in DOMAIN cloud.lis, NEW id \in IdsOf(l) PROVE Booked(l, id)'
  <2>1. Booked(l, id)
    BY <1>6 DEF BooksInv, OnBooks
  <2>2. dpc = "record" => Current \in DOMAIN status.made
    BY DEF BooksInv, Held
  <2> QED
    BY <1>1, <2>1, <2>2 DEF Booked
<1>7. OnBooks'
  BY <1>1, <1>3, <1>6 DEF OnBooks
<1> QED
  BY <1>4, <1>5, <1>7 DEF BooksInv

\* A step of the owner or of the user, or none.
LEMMA ElsewhereStep ==
  ASSUME BooksInv, OwnerReconcile \/ Edit \/ ClusterChanges \/ UNCHANGED vars PROVE BooksInv'
<1>1. status' = status /\ dpc' = dpc /\ task' = task /\ cloud' = cloud /\ stray' = stray
  BY DEF OwnerReconcile, BuildConfig, BuildGroup, Edit, ClusterChanges, deploy, vars
<1> QED
  BY <1>1 DEF BooksInv, Shape, Apart, Held, OnBooks, Booked, IdsOf, PoliciesOf, Current

\* BooksInv is inductive.
LEMMA NextBooks == BooksInv /\ [Next]_vars => BooksInv'
<1> SUFFICES ASSUME BooksInv, [Next]_vars PROVE BooksInv'
  OBVIOUS
<1>1. CASE Deploy
  BY <1>1, PreludeStep, CreateListenerStep, StatusAddListenerStep, UpdateListenerStep, CreatePolicyStep,
     UpdatePolicyStep, StatusAddPolicyStep, ReorderStep, DeleteListenerStep, DeletePolicyStep, FinishStep
     DEF Deploy, DeployListener, DeployPolicy, DeleteRedundant
<1> QED
  BY <1>1, FailStep, ElsewhereStep DEF Next

\* The first state: nothing is there.
LEMMA InitBooks == Init => BooksInv
<1> SUFFICES ASSUME Init PROVE BooksInv
  OBVIOUS
<1>1. /\ DOMAIN cloud = {"lb", "pools", "lis"} /\ DOMAIN cloud.lis = {}
      /\ DOMAIN status = {"subnet", "made"} /\ DOMAIN status.made = {}
      /\ DOMAIN task = {"conf", "left", "next", "id", "new"} /\ DOMAIN task.new = {} /\ dpc = "idle"
  BY DEF Init, NoTask
<1> QED
  BY <1>1, FS_EmptySet DEF BooksInv, Shape, Apart, Held, OnBooks

\* For any objects, clusters and changes of them, with failing calls and restarts at
\* any step: every policy on a listener of the cloud is in the status, in the hands of
\* the reconcile that goes on, or was left by one that ended between the call that made
\* it and the write that records it (deployPolicy, deployDeleteRedundantPoliciesFrom).
THEOREM PoliciesOnBooks == Spec => []PolicyOnBooks
<1>1. BooksInv => PolicyOnBooks
  BY DEF BooksInv, OnBooks, Booked, IdsOf, PoliciesOf, PolicyOnBooks
<1> QED
  BY InitBooks, NextBooks, <1>1, PTL DEF Spec
=============================================================================
