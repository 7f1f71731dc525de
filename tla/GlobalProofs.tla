---------------------------- MODULE GlobalProofs ----------------------------
(***************************************************************************)
(* For any number of GLBCs, load balancers, pools and ports, with calls    *)
(* that fail or crash anywhere: a group of members the user brought stays, *)
(* with its pool; a GLBC that is settled keeps its port, its pool and      *)
(* its members while others come, change and go on the same global load    *)
(* balancer; and when all of them are gone nothing of theirs is left.      *)
(*                                                                         *)
(* The argument for the user's groups: what a reconcile has decided to     *)
(* delete had nothing of the user's in it when it looked, and nobody else  *)
(* puts something of the user's there (Spares).  For the siblings: a pass  *)
(* holds the mutex of its load balancer, unless it created it, and then    *)
(* nobody else has read it yet (Sealed, Born); so what it decided while it *)
(* held the mutex still holds when it sends it (Decided).  For what is     *)
(* left: members are where the status says, or where a pass is deploying   *)
(* them (Booked); a teardown takes the listeners, then the pools, and does *)
(* not end before the last (Sweeping); what is not the user's has members  *)
(* of a GLBC (Intact), and what was made here is somebody's (Minded).      *)
(***************************************************************************)
EXTENDS Global, TLAPS

Task == [spec : Want, st : Status]

\* What the running reconcile of g has read and decided.
Run(g) ==
  /\ pc[g] # "idle" => task[g] \in Task
  /\ pc[g] = "idle" => mode[g] = "deploy" /\ on[g] = None
  /\ pc[g] = "attach" \/ mode[g] = "migrate" => task[g].spec.pin \in LB
  /\ pc[g] \in {"ensure", "recordLb", "wait", "clear"} => on[g] \in LB
  /\ pc[g] = "clear" => mode[g] = "migrate"
  /\ pc[g] \in {"deletePool", "trimPool"} => victim[g] \in Pool
  /\ pc[g] = "deleteListener" => victim[g] \in Port

IInv == TypeOK /\ \A g \in GLBC : Run(g)

-----------------------------------------------------------------------------
(* What the service does on each call. *)

\* None is none of the values, and User none of the GLBCs.
LEMMA Nones ==
  /\ None \notin LB /\ None \notin Pool /\ None \notin Port /\ None \notin GLBC
  /\ None \notin Balancer /\ None \notin Groups /\ \A ms \in SUBSET Member : ms # None
  /\ User \notin GLBC /\ User \in Group /\ GLBC \subseteq Group
BY GlobalAssumption DEF Group

\* The empty records.
LEMMA Empties == NoPools \in [Pool -> (SUBSET Member) \cup {None}] /\ NoStatus \in Status
<1>1. NoPools \in [Pool -> (SUBSET Member) \cup {None}]
  BY DEF NoPools
<1> QED
  BY <1>1 DEF NoStatus, Status

\* A group of members.
LEMMA GroupOfType ==
  ASSUME NEW g \in GLBC, NEW ms \in SUBSET Member
  PROVE  /\ GroupOf(g, ms) \in Groups /\ GroupOf(g, ms)[g] = ms
         /\ \A k \in Group \ {g} : GroupOf(g, ms)[k] = {}
BY Nones DEF GroupOf, Groups

\* A pool is made, ...
LEMMA WithPoolType ==
  ASSUME NEW b \in Balancer, NEW p \in Pool, NEW gs \in Groups
  PROVE  /\ WithPool(b, p, gs) \in Balancer
         /\ WithPool(b, p, gs).lis = b.lis /\ WithPool(b, p, gs).state = b.state
         /\ WithPool(b, p, gs).name = b.name
         /\ WithPool(b, p, gs).pools = [b.pools EXCEPT ![p] = gs]
<1> DEFINE ps == [b.pools EXCEPT ![p] = gs]
<1>1. ps \in [Pool -> Groups \cup {None}]
  BY DEF Balancer
<1>2. WithPool(b, p, gs) = [b EXCEPT !.pools = ps]
  BY DEF WithPool, Balancer
<1> HIDE DEF ps
<1>3. /\ [b EXCEPT !.pools = ps] \in Balancer /\ [b EXCEPT !.pools = ps].lis = b.lis
      /\ [b EXCEPT !.pools = ps].state = b.state /\ [b EXCEPT !.pools = ps].name = b.name
      /\ [b EXCEPT !.pools = ps].pools = ps
  BY <1>1 DEF Balancer
<1> QED
  BY <1>2, <1>3 DEF ps

\* ... deleted, with the listeners that point to it, ...
LEMMA WithoutPoolType ==
  ASSUME NEW b \in Balancer, NEW p \in Pool
  PROVE  /\ WithoutPool(b, p) \in Balancer
         /\ WithoutPool(b, p).state = b.state /\ WithoutPool(b, p).name = b.name
         /\ WithoutPool(b, p).pools = [b.pools EXCEPT ![p] = None]
         /\ WithoutPool(b, p).lis = [q \in Port |-> IF b.lis[q] = p THEN None ELSE b.lis[q]]
<1> DEFINE ps == [b.pools EXCEPT ![p] = None]
           ls == [q \in Port |-> IF b.lis[q] = p THEN None ELSE b.lis[q]]
<1>1. ps \in [Pool -> Groups \cup {None}] /\ ls \in [Port -> Pool \cup {None}]
  BY DEF Balancer
<1>2. WithoutPool(b, p) = [b EXCEPT !.pools = ps, !.lis = ls]
  BY DEF WithoutPool, Balancer
<1> HIDE DEF ps, ls
<1>3. LET n == [b EXCEPT !.pools = ps, !.lis = ls]
      IN n \in Balancer /\ n.lis = ls /\ n.pools = ps /\ n.state = b.state /\ n.name = b.name
  BY <1>1 DEF Balancer
<1> QED
  BY <1>2, <1>3 DEF ps, ls

\* ... a group of its members replaced, ...
LEMMA WithGroupType ==
  ASSUME NEW b \in Balancer, NEW p \in Pool, b.pools[p] # None, NEW g \in GLBC, NEW ms \in SUBSET Member
  PROVE  /\ WithGroup(b, p, g, ms) \in Balancer
         /\ WithGroup(b, p, g, ms).lis = b.lis /\ WithGroup(b, p, g, ms).state = b.state
         /\ WithGroup(b, p, g, ms).name = b.name
         /\ [b.pools[p] EXCEPT ![g] = ms] \in Groups
         /\ WithGroup(b, p, g, ms).pools = [b.pools EXCEPT ![p] = [b.pools[p] EXCEPT ![g] = ms]]
<1> DEFINE gs == [b.pools[p] EXCEPT ![g] = ms]
           ps == [b.pools EXCEPT ![p] = gs]
<1>0. b.pools[p] \in Groups
  BY DEF Balancer
<1>1. gs \in Groups
  BY <1>0 DEF Groups
<1>2. WithGroup(b, p, g, ms) = [b EXCEPT !.pools = ps]
  BY DEF WithGroup, Balancer
<1> HIDE DEF gs
<1>3. ps \in [Pool -> Groups \cup {None}]
  BY <1>1 DEF Balancer
<1> HIDE DEF ps
<1>4. /\ [b EXCEPT !.pools = ps] \in Balancer /\ [b EXCEPT !.pools = ps].lis = b.lis
      /\ [b EXCEPT !.pools = ps].state = b.state /\ [b EXCEPT !.pools = ps].name = b.name
      /\ [b EXCEPT !.pools = ps].pools = ps
  BY <1>3 DEF Balancer
<1> QED
  BY <1>1, <1>2, <1>4 DEF ps, gs

\* ... a listener set or deleted, ...
LEMMA WithListenerType ==
  ASSUME NEW b \in Balancer, NEW q \in Port, NEW p \in Pool \cup {None}
  PROVE  LET n == [b EXCEPT !.lis[q] = p]
         IN /\ n \in Balancer /\ n.pools = b.pools /\ n.state = b.state /\ n.name = b.name
            /\ n.lis = [b.lis EXCEPT ![q] = p]
<1> DEFINE ls == [b.lis EXCEPT ![q] = p]
<1>1. ls \in [Port -> Pool \cup {None}]
  BY DEF Balancer
<1>2. [b EXCEPT !.lis[q] = p] = [b EXCEPT !.lis = ls]
  BY DEF Balancer
<1> HIDE DEF ls
<1>3. LET n == [b EXCEPT !.lis = ls]
      IN n \in Balancer /\ n.lis = ls /\ n.pools = b.pools /\ n.state = b.state /\ n.name = b.name
  BY <1>1 DEF Balancer
<1> QED
  BY <1>2, <1>3 DEF ls

\* ... the state of the load balancer changed, ...
LEMMA WithStateType ==
  ASSUME NEW b \in Balancer, NEW s \in {"BUILD", "ACTIVE", "ERROR"}
  PROVE  LET n == [b EXCEPT !.state = s]
         IN n \in Balancer /\ n.pools = b.pools /\ n.lis = b.lis /\ n.state = s /\ n.name = b.name
BY DEF Balancer

\* ... and a load balancer created.
LEMMA NewBalancerType ==
  ASSUME NEW g \in GLBC, NEW w \in Want
  PROVE  LET n == NewBalancer(g, w)
         IN /\ n \in Balancer /\ n.state = "BUILD" /\ n.name = Name[g]
            /\ n.lis = [q \in Port |-> IF q = w.port THEN w.pool ELSE None]
            /\ n.pools = [p \in Pool |-> IF p = w.pool THEN GroupOf(g, w.members) ELSE None]
<1> DEFINE ls == [q \in Port |-> IF q = w.port THEN w.pool ELSE None]
           ps == [p \in Pool |-> IF p = w.pool THEN GroupOf(g, w.members) ELSE None]
<1>1. w.pool \in Pool /\ w.members \in SUBSET Member
  BY DEF Want
<1>2. GroupOf(g, w.members) \in Groups
  BY <1>1, GroupOfType
<1>3. ls \in [Port -> Pool \cup {None}] /\ ps \in [Pool -> Groups \cup {None}]
  BY <1>1, <1>2
<1>4. NewBalancer(g, w) = [name |-> Name[g], state |-> "BUILD", lis |-> ls, pools |-> ps]
  BY DEF NewBalancer
<1> HIDE DEF ls, ps
<1>5. [name |-> Name[g], state |-> "BUILD", lis |-> ls, pools |-> ps] \in Balancer
  BY <1>3 DEF Balancer
<1> QED
  BY <1>4, <1>5 DEF ls, ps

-----------------------------------------------------------------------------
(* The parts of the type invariant. *)

CloudOK == cloud \in [LB -> Balancer \cup {None}] /\ fresh \in SUBSET LB
StatusOK ==
  /\ spec \in [GLBC -> Want] /\ st \in [GLBC -> Status]
  /\ phase \in [GLBC -> {"live", "deleting", "gone"}]
RunOK ==
  /\ pc \in [GLBC -> PC] /\ mode \in [GLBC -> {"deploy", "migrate", "delete"}]
  /\ task \in [GLBC -> Task \cup {NoTask}]
  /\ on \in [GLBC -> LB \cup {None}] /\ seen \in [GLBC -> SUBSET Member]
  /\ victim \in [GLBC -> Port \cup Pool \cup {None}]
  /\ lock \in [LB -> GLBC \cup {None}]
  /\ \A g \in GLBC : Run(g)
HistoryOK == left \in SUBSET LB /\ loose \in BOOLEAN /\ edits \in Nat /\ faults \in Nat

LEMMA Parts == IInv <=> CloudOK /\ StatusOK /\ RunOK /\ HistoryOK
BY DEF IInv, TypeOK, CloudOK, StatusOK, RunOK, HistoryOK, Task

LEMMA PartsNext == CloudOK' /\ StatusOK' /\ RunOK' /\ HistoryOK' => IInv'
BY DEF IInv, TypeOK, CloudOK, StatusOK, RunOK, HistoryOK, Task

\* A variable that is left alone keeps its type.
LEMMA Frame ==
  /\ CloudOK /\ UNCHANGED <<cloud, fresh>> => CloudOK'
  /\ StatusOK /\ UNCHANGED <<spec, st, phase>> => StatusOK'
  /\ RunOK /\ UNCHANGED <<pc, mode, task, on, seen, victim, lock>> => RunOK'
  /\ HistoryOK /\ UNCHANGED <<left, loose, edits, faults>> => HistoryOK'
<1>1. CloudOK /\ UNCHANGED <<cloud, fresh>> => CloudOK'
  BY DEF CloudOK
<1>2. StatusOK /\ UNCHANGED <<spec, st, phase>> => StatusOK'
  BY DEF StatusOK
<1>3. RunOK /\ UNCHANGED <<pc, mode, task, on, seen, victim, lock>> => RunOK'
  BY DEF RunOK, Run
<1>4. HistoryOK /\ UNCHANGED <<left, loose, edits, faults>> => HistoryOK'
  BY DEF HistoryOK
<1> QED
  BY <1>1, <1>2, <1>3, <1>4

\* A reconcile ends.
LEMMA ReturnRun ==
  ASSUME RunOK, NEW g \in GLBC, Return(g)
  PROVE  /\ RunOK' /\ \A k \in GLBC \ {g} : /\ pc'[k] = pc[k] /\ mode'[k] = mode[k]
                                            /\ task'[k] = task[k] /\ on'[k] = on[k]
                                            /\ seen'[k] = seen[k] /\ victim'[k] = victim[k]
         /\ pc'[g] = "idle" /\ mode'[g] = "deploy" /\ on'[g] = None
<1>1. /\ pc' = [pc EXCEPT ![g] = "idle"] /\ mode' = [mode EXCEPT ![g] = "deploy"]
      /\ task' = [task EXCEPT ![g] = NoTask] /\ on' = [on EXCEPT ![g] = None]
      /\ seen' = [seen EXCEPT ![g] = {}] /\ victim' = [victim EXCEPT ![g] = None]
      /\ lock' = [x \in LB |-> IF lock[x] = g THEN None ELSE lock[x]]
  BY DEF Return, Goto
<1>2. /\ pc' \in [GLBC -> PC] /\ mode' \in [GLBC -> {"deploy", "migrate", "delete"}]
      /\ task' \in [GLBC -> Task \cup {NoTask}]
      /\ on' \in [GLBC -> LB \cup {None}] /\ seen' \in [GLBC -> SUBSET Member]
      /\ victim' \in [GLBC -> Port \cup Pool \cup {None}]
  BY <1>1 DEF RunOK, PC
<1>3. lock' \in [LB -> GLBC \cup {None}]
  BY <1>1 DEF RunOK
<1>4. pc'[g] = "idle" /\ mode'[g] = "deploy" /\ on'[g] = None
  BY <1>1 DEF RunOK
<1>5. \A k \in GLBC \ {g} : /\ pc'[k] = pc[k] /\ mode'[k] = mode[k] /\ task'[k] = task[k]
                            /\ on'[k] = on[k] /\ seen'[k] = seen[k] /\ victim'[k] = victim[k]
  BY <1>1 DEF RunOK
<1>6. Run(g)'
  BY <1>4 DEF Run
<1>7. \A k \in GLBC \ {g} : Run(k)'
  BY <1>5 DEF RunOK, Run
<1> QED
  BY <1>2, <1>3, <1>4, <1>5, <1>6, <1>7 DEF RunOK

\* A reconcile goes on to another step, and may have listed members or decided
\* what to delete.
LEMMA GotoRun ==
  ASSUME RunOK, NEW g \in GLBC, NEW step \in PC \ {"idle"}, Goto(g, step), UNCHANGED work,
         pc[g] # "idle",
         NEW ms \in SUBSET Member, seen' = [seen EXCEPT ![g] = ms],
         NEW v \in Port \cup Pool \cup {None}, victim' = [victim EXCEPT ![g] = v],
         step = "attach" => task[g].spec.pin \in LB,
         step \in {"ensure", "recordLb", "wait", "clear"} => on[g] \in LB,
         step = "clear" => mode[g] = "migrate",
         step \in {"deletePool", "trimPool"} => v \in Pool,
         step = "deleteListener" => v \in Port
  PROVE  /\ RunOK' /\ pc'[g] = step /\ victim'[g] = v /\ seen'[g] = ms
         /\ \A k \in GLBC \ {g} : pc'[k] = pc[k] /\ victim'[k] = victim[k] /\ seen'[k] = seen[k]
<1>1. pc' = [pc EXCEPT ![g] = step] /\ mode' = mode /\ task' = task /\ on' = on /\ lock' = lock
  BY DEF Goto, work
<1>2. pc' \in [GLBC -> PC] /\ seen' \in [GLBC -> SUBSET Member] /\ victim' \in [GLBC -> Port \cup Pool \cup {None}]
  BY <1>1 DEF RunOK
<1>3. pc'[g] = step /\ victim'[g] = v /\ seen'[g] = ms
  BY <1>1 DEF RunOK
<1>4. \A k \in GLBC \ {g} : pc'[k] = pc[k] /\ victim'[k] = victim[k] /\ seen'[k] = seen[k]
  BY <1>1 DEF RunOK
<1>5. Run(g)'
  BY <1>1, <1>3 DEF RunOK, Run
<1>6. \A k \in GLBC \ {g} : Run(k)'
  BY <1>1, <1>4 DEF RunOK, Run
<1> QED
  BY <1>1, <1>2, <1>3, <1>4, <1>5, <1>6 DEF RunOK

\* The variables a step leaves alone, as updates with the old value.
LEMMA SeenSame ==
  ASSUME RunOK, NEW g \in GLBC
  PROVE  /\ UNCHANGED seen => seen' = [seen EXCEPT ![g] = seen[g]]
         /\ UNCHANGED victim => victim' = [victim EXCEPT ![g] = victim[g]]
         /\ seen[g] \in SUBSET Member /\ victim[g] \in Port \cup Pool \cup {None}
BY DEF RunOK

\* A call changes one load balancer.
LEMMA CallCloud ==
  ASSUME CloudOK, NEW x \in LB, NEW b \in Balancer \cup {None}, Call(x, b)
  PROVE  /\ cloud' \in [LB -> Balancer \cup {None}] /\ cloud'[x] = b
         /\ \A y \in LB \ {x} : cloud'[y] = cloud[y]
BY DEF CloudOK, Call

\* The status of one GLBC changes.
LEMMA StatusType ==
  ASSUME StatusOK, NEW g \in GLBC
  PROVE  /\ \A x \in LB \cup {None} :
              SetLb(g, x) => /\ st' \in [GLBC -> Status] /\ st'[g].lb = x
                             /\ st'[g].lis = st[g].lis /\ st'[g].pools = st[g].pools
                             /\ \A k \in GLBC \ {g} : st'[k] = st[k]
         /\ \A ls \in SUBSET Port, ps \in [Pool -> (SUBSET Member) \cup {None}] :
              st' = [st EXCEPT ![g].lis = ls, ![g].pools = ps]
                => /\ st' \in [GLBC -> Status] /\ st'[g].lb = st[g].lb
                   /\ st'[g].lis = ls /\ st'[g].pools = ps
                   /\ \A k \in GLBC \ {g} : st'[k] = st[k]
         /\ \A ls \in SUBSET Port :
              st' = [st EXCEPT ![g].lis = ls]
                => /\ st' \in [GLBC -> Status] /\ st'[g].lb = st[g].lb
                   /\ st'[g].lis = ls /\ st'[g].pools = st[g].pools
                   /\ \A k \in GLBC \ {g} : st'[k] = st[k]
         /\ \A p \in Pool, ms \in (SUBSET Member) \cup {None} :
              st' = [st EXCEPT ![g].pools[p] = ms]
                => /\ st' \in [GLBC -> Status] /\ st'[g].lb = st[g].lb
                   /\ st'[g].lis = st[g].lis /\ st'[g].pools = [st[g].pools EXCEPT ![p] = ms]
                   /\ \A k \in GLBC \ {g} : st'[k] = st[k]
<1>1. st \in [GLBC -> Status] /\ st[g] \in Status
  BY DEF StatusOK
<1>2. ASSUME NEW x \in LB \cup {None}, SetLb(g, x)
      PROVE  /\ st' \in [GLBC -> Status] /\ st'[g].lb = x
             /\ st'[g].lis = st[g].lis /\ st'[g].pools = st[g].pools
             /\ \A k \in GLBC \ {g} : st'[k] = st[k]
  BY <1>1, <1>2 DEF SetLb, Status
<1>3. ASSUME NEW ls \in SUBSET Port, NEW ps \in [Pool -> (SUBSET Member) \cup {None}],
             st' = [st EXCEPT ![g].lis = ls, ![g].pools = ps]
      PROVE  /\ st' \in [GLBC -> Status] /\ st'[g].lb = st[g].lb
             /\ st'[g].lis = ls /\ st'[g].pools = ps
             /\ \A k \in GLBC \ {g} : st'[k] = st[k]
  BY <1>1, <1>3 DEF Status
<1>4. ASSUME NEW ls \in SUBSET Port, st' = [st EXCEPT ![g].lis = ls]
      PROVE  /\ st' \in [GLBC -> Status] /\ st'[g].lb = st[g].lb
             /\ st'[g].lis = ls /\ st'[g].pools = st[g].pools
             /\ \A k \in GLBC \ {g} : st'[k] = st[k]
  BY <1>1, <1>4 DEF Status
<1>5. ASSUME NEW p \in Pool, NEW ms \in (SUBSET Member) \cup {None},
             st' = [st EXCEPT ![g].pools[p] = ms]
      PROVE  /\ st' \in [GLBC -> Status] /\ st'[g].lb = st[g].lb
             /\ st'[g].lis = st[g].lis /\ st'[g].pools = [st[g].pools EXCEPT ![p] = ms]
             /\ \A k \in GLBC \ {g} : st'[k] = st[k]
  <2> DEFINE ps == [st[g].pools EXCEPT ![p] = ms]
  <2>1. ps \in [Pool -> (SUBSET Member) \cup {None}]
    BY <1>1 DEF Status
  <2>2. st' = [st EXCEPT ![g].pools = ps]
    BY <1>1, <1>5
  <2> HIDE DEF ps
  <2>3. /\ st' \in [GLBC -> Status] /\ st'[g].lb = st[g].lb
        /\ st'[g].lis = st[g].lis /\ st'[g].pools = ps
        /\ \A k \in GLBC \ {g} : st'[k] = st[k]
    BY <1>1, <2>1, <2>2 DEF Status
  <2> QED
    BY <2>3 DEF ps
<1> QED
  BY <1>2, <1>3, <1>4, <1>5

-----------------------------------------------------------------------------
(* Every step keeps the types. *)

LEMMA InitIInv == Init => IInv
<1> SUFFICES ASSUME Init PROVE IInv
  OBVIOUS
<1>1. CloudOK
  BY GlobalAssumption DEF Init, CloudOK
<1>2. StatusOK
  BY Empties DEF Init, StatusOK, Each
<1>3. RunOK
  BY DEF Init, RunOK, Run, Each, PC
<1>4. HistoryOK
  BY DEF Init, HistoryOK
<1> QED
  BY <1>1, <1>2, <1>3, <1>4, Parts

\* The load balancer a reconcile works on, when it is there.
LEMMA ThereType ==
  ASSUME IInv, NEW g \in GLBC, There(g)
  PROVE  on[g] \in LB /\ Lb(g) \in Balancer /\ cloud[on[g]] \in Balancer
BY DEF IInv, TypeOK, There, Lb

\* What a running reconcile has read.
LEMMA TaskType ==
  ASSUME IInv, NEW g \in GLBC, pc[g] # "idle"
  PROVE  /\ task[g] \in Task /\ task[g].spec \in Want /\ task[g].st \in Status
         /\ task[g].spec.pool \in Pool /\ task[g].spec.port \in Port
         /\ task[g].spec.members \in SUBSET Member /\ task[g].spec.members # {}
         /\ task[g].spec.pin \in LB \cup {None}
         /\ task[g].st.pools \in [Pool -> (SUBSET Member) \cup {None}]
         /\ task[g].st.lis \in SUBSET Port /\ task[g].st.lb \in LB \cup {None}
<1>1. task[g] \in Task
  BY DEF IInv, Run
<1>2. task[g].spec \in Want /\ task[g].st \in Status
  BY <1>1 DEF Task
<1> QED
  BY <1>1, <1>2 DEF Want, Status

LEMMA BeginType ==
  ASSUME IInv, NEW g \in GLBC, Begin(g)
  PROVE  IInv'
<1> DEFINE s == st[g]
           x == LockOf(g)
           leaving == phase[g] = "deleting"
           moving == s.lb # None /\ spec[g].pin \notin {None, s.lb}
           m == IF leaving THEN "delete" ELSE IF moving THEN "migrate" ELSE "deploy"
           step == IF leaving THEN "delete"
                   ELSE IF moving THEN IF cloud[s.lb] # None THEN "redundantListeners" ELSE "attach"
                   ELSE IF s.lb # None THEN "ensure"
                   ELSE IF spec[g].pin # None THEN "attach" ELSE "find"
           t == [spec |-> spec[g], st |-> s]
<1>1. CloudOK /\ StatusOK /\ RunOK /\ HistoryOK
  BY Parts
<1>2. /\ task' = [task EXCEPT ![g] = t] /\ mode' = [mode EXCEPT ![g] = m]
      /\ on' = [on EXCEPT ![g] = s.lb] /\ pc' = [pc EXCEPT ![g] = step]
      /\ (UNCHANGED lock \/ (x # None /\ lock' = [lock EXCEPT ![x] = g]))
      /\ UNCHANGED <<cloud, fresh, spec, st, phase, seen, victim, left, edits, faults>>
  BY DEF Begin, Goto, status
<1>3. s \in Status /\ spec[g] \in Want /\ s.lb \in LB \cup {None} /\ spec[g].pin \in LB \cup {None}
  BY <1>1 DEF StatusOK, Status, Want
<1>4. t \in Task /\ t.spec = spec[g] /\ t.st = s
  BY <1>3 DEF Task
<1>5. x \in LB \cup {None}
  BY <1>3 DEF LockOf
<1>6. step \in PC \ {"idle"} /\ m \in {"deploy", "migrate", "delete"}
  BY DEF PC
<1>7. /\ step = "attach" \/ m = "migrate" => spec[g].pin \in LB
      /\ step = "ensure" => s.lb \in LB
      /\ step \notin {"recordLb", "wait", "clear", "deletePool", "trimPool", "deleteListener"}
  BY <1>3
<1> HIDE DEF s, x, m, step, t
<1>8. /\ task' \in [GLBC -> Task \cup {NoTask}] /\ mode' \in [GLBC -> {"deploy", "migrate", "delete"}]
      /\ on' \in [GLBC -> LB \cup {None}] /\ pc' \in [GLBC -> PC]
      /\ task'[g] = t /\ mode'[g] = m /\ on'[g] = s.lb /\ pc'[g] = step
      /\ \A k \in GLBC \ {g} : task'[k] = task[k] /\ mode'[k] = mode[k] /\ on'[k] = on[k] /\ pc'[k] = pc[k]
  BY <1>1, <1>2, <1>3, <1>4, <1>6 DEF RunOK
<1>9. lock' \in [LB -> GLBC \cup {None}]
  BY <1>1, <1>2, <1>5 DEF RunOK
<1>10. Run(g)'
  BY <1>4, <1>6, <1>7, <1>8 DEF Run
<1>11. \A k \in GLBC \ {g} : Run(k)'
  BY <1>1, <1>2, <1>8 DEF RunOK, Run
<1>12. RunOK'
  BY <1>1, <1>2, <1>8, <1>9, <1>10, <1>11 DEF RunOK
<1>13. HistoryOK'
  <2>1. loose' \in BOOLEAN
    BY DEF Begin
  <2> QED
    BY <1>1, <1>2, <2>1 DEF HistoryOK
<1> QED
  BY <1>1, <1>2, <1>12, <1>13, Frame, PartsNext

\* The steps that end the reconcile, and may record a load balancer.
LEMMA ReturnType ==
  ASSUME IInv, NEW g \in GLBC,
         \/ Ensure(g) /\ ~Active(on[g])
         \/ Attach(g) \/ FindByName(g) \/ NothingToDelete(g) \/ NotFound(g) \/ Crash(g) \/ Finish(g)
         \/ IsEmpty(g) /\ Gone(g)
  PROVE  IInv'
<1>1. CloudOK /\ StatusOK /\ RunOK /\ HistoryOK
  BY Parts
<1>2. Return(g)
  BY DEF Ensure, Attach, FindByName, NothingToDelete, NotFound, Crash, Finish, Gone
<1>3. RunOK'
  BY <1>1, <1>2, ReturnRun
<1>4. CloudOK'
  <2>1. UNCHANGED <<cloud, fresh>>
    BY DEF Ensure, Attach, FindByName, NothingToDelete, NotFound, Crash, Finish, IsEmpty, work
  <2> QED
    BY <1>1, <2>1, Frame
<1>5. HistoryOK'
  <2>1. CASE Crash(g)
    <3>1. loose' \in BOOLEAN /\ faults' = faults + 1 /\ UNCHANGED <<left, edits>>
      BY <2>1 DEF Crash, history
    <3> QED
      BY <1>1, <3>1 DEF HistoryOK
  <2>2. CASE ~Crash(g)
    <3>1. UNCHANGED <<left, loose, edits, faults>>
      BY <2>2 DEF Ensure, Attach, FindByName, NothingToDelete, NotFound, Finish, IsEmpty, history
    <3> QED
      BY <1>1, <3>1, Frame
  <2> QED
    BY <2>1, <2>2
<1>6. StatusOK'
  <2>1. CASE (Ensure(g) /\ ~Active(on[g])) \/ NotFound(g) \/ Crash(g)
    <3>1. UNCHANGED <<spec, st, phase>>
      BY <2>1 DEF Ensure, NotFound, Crash, status
    <3> QED
      BY <1>1, <3>1, Frame
  <2>2. CASE NothingToDelete(g) \/ (IsEmpty(g) /\ Gone(g))
    <3>1. UNCHANGED <<spec, st>> /\ phase' = [phase EXCEPT ![g] = "gone"]
      BY <2>2 DEF NothingToDelete, IsEmpty, Gone
    <3> QED
      BY <1>1, <3>1 DEF StatusOK
  <2>3. CASE Attach(g)
    <3>1. pc[g] = "attach" /\ UNCHANGED <<spec, phase>> /\ (SetLb(g, task[g].spec.pin) \/ UNCHANGED st)
      BY <2>3 DEF Attach
    <3>2. task[g].spec.pin \in LB \cup {None}
      BY <3>1, TaskType
    <3>3. st' \in [GLBC -> Status]
      BY <1>1, <3>1, <3>2, StatusType DEF StatusOK
    <3> QED
      BY <1>1, <3>1, <3>3 DEF StatusOK
  <2>4. CASE FindByName(g)
    <3>1. UNCHANGED <<spec, phase>> /\ ((\E x \in LB : SetLb(g, x)) \/ UNCHANGED st)
      BY <2>4 DEF FindByName, Named
    <3>2. st' \in [GLBC -> Status]
      BY <1>1, <3>1, StatusType DEF StatusOK
    <3> QED
      BY <1>1, <3>1, <3>2 DEF StatusOK
  <2>5. CASE Finish(g)
    <3> DEFINE ls == {task[g].spec.port}
               ps == [p \in Pool |-> IF p = task[g].spec.pool THEN seen[g] ELSE None]
    <3>1. st' = [st EXCEPT ![g].lis = ls, ![g].pools = ps] /\ UNCHANGED <<spec, phase>> /\ pc[g] = "finish"
      BY <2>5 DEF Finish
    <3>2. task[g].spec.port \in Port /\ seen[g] \in SUBSET Member
      BY <1>1, <3>1, TaskType DEF RunOK
    <3>3. ls \in SUBSET Port /\ ps \in [Pool -> (SUBSET Member) \cup {None}]
      BY <3>2
    <3> HIDE DEF ls, ps
    <3>4. st' \in [GLBC -> Status]
      BY <1>1, <3>1, <3>3, StatusType
    <3> QED
      BY <1>1, <3>1, <3>4 DEF StatusOK
  <2> QED
    BY <2>1, <2>2, <2>3, <2>4, <2>5
<1> QED
  BY <1>3, <1>4, <1>5, <1>6, PartsNext

\* The steps that only read, or change the status, and go on.
LEMMA ReadType ==
  ASSUME IInv, NEW g \in GLBC,
         \/ Ensure(g) /\ Active(on[g])
         \/ StatusAddLb(g) \/ WaitLb(g) \/ ClearStatus(g) \/ StatusAddPool(g) \/ ListMembers(g)
         \/ StatusAddMembers(g) \/ StatusAddListener(g) \/ ReadListeners(g) \/ ReadPools(g) \/ ReadWhole(g)
         \/ IsEmpty(g) /\ Goto(g, "deleteLb") /\ UNCHANGED <<phase, mode, task, on, seen, victim, lock>>
  PROVE  IInv' /\ UNCHANGED cloud
<1>1. CloudOK /\ StatusOK /\ RunOK /\ HistoryOK
  BY Parts
<1>2. UNCHANGED <<cloud, fresh, loose, edits, faults, spec, phase>> /\ UNCHANGED work /\ pc[g] # "idle"
  <2>1. UNCHANGED <<cloud, fresh, edits, faults, spec>>
    BY DEF Ensure, StatusAddLb, WaitLb, ClearStatus, StatusAddPool, ListMembers, StatusAddMembers,
           StatusAddListener, ReadListeners, ReadPools, ReadWhole, IsEmpty, status
  <2>2. UNCHANGED <<loose, phase>>
    BY DEF Ensure, StatusAddLb, WaitLb, ClearStatus, StatusAddPool, ListMembers, StatusAddMembers,
           StatusAddListener, ReadListeners, ReadPools, ReadWhole, IsEmpty, status, history
  <2>3. UNCHANGED work
    BY DEF Ensure, StatusAddLb, WaitLb, ClearStatus, StatusAddPool, ListMembers, StatusAddMembers,
           StatusAddListener, ReadListeners, ReadPools, ReadWhole, work
  <2>4. pc[g] # "idle"
    BY DEF Ensure, StatusAddLb, WaitLb, ClearStatus, StatusAddPool, ListMembers, StatusAddMembers,
           StatusAddListener, ReadListeners, ReadPools, ReadWhole, IsEmpty
  <2> QED
    BY <2>1, <2>2, <2>3, <2>4
<1>3. CloudOK'
  BY <1>1, <1>2, Frame
<1>4. HistoryOK'
  <2>1. CASE ClearStatus(g)
    <3>1. pc[g] = "clear" /\ left' = left \cup {on[g]}
      BY <2>1 DEF ClearStatus
    <3>2. on[g] \in LB
      BY <1>1, <3>1 DEF RunOK, Run
    <3> QED
      BY <1>1, <1>2, <3>1, <3>2 DEF HistoryOK
  <2>2. CASE ~ClearStatus(g)
    <3>1. UNCHANGED left
      BY <2>2 DEF Ensure, StatusAddLb, WaitLb, StatusAddPool, ListMembers, StatusAddMembers,
           StatusAddListener, ReadListeners, ReadPools, ReadWhole, IsEmpty, history
    <3> QED
      BY <1>1, <1>2, <3>1, Frame
  <2> QED
    BY <2>1, <2>2
<1>5. StatusOK'
  <2>1. CASE StatusAddLb(g) \/ WaitLb(g)
    <3>1. SetLb(g, on[g]) \/ SetLb(g, None) \/ UNCHANGED st
      BY <2>1 DEF StatusAddLb, WaitLb
    <3>2. on[g] \in LB \cup {None}
      BY <1>1 DEF RunOK
    <3>3. st' \in [GLBC -> Status]
      BY <1>1, <3>1, <3>2, StatusType DEF StatusOK
    <3> QED
      BY <1>1, <1>2, <3>3 DEF StatusOK
  <2>2. CASE ClearStatus(g)
    <3>1. st' = [st EXCEPT ![g].lis = {}, ![g].pools = NoPools]
      BY <2>2 DEF ClearStatus
    <3>2. st' \in [GLBC -> Status]
      BY <1>1, <3>1, Empties, StatusType
    <3> QED
      BY <1>1, <1>2, <3>2 DEF StatusOK
  <2>3. CASE StatusAddPool(g) \/ StatusAddMembers(g)
    <3>1. \E ms \in SUBSET Member : st' = [st EXCEPT ![g].pools[task[g].spec.pool] = ms]
      BY <1>1, <2>3 DEF StatusAddPool, StatusAddMembers, StatusPool, RunOK
    <3>2. task[g].spec.pool \in Pool
      BY <1>2, TaskType
    <3>3. st' \in [GLBC -> Status]
      BY <1>1, <3>1, <3>2, StatusType
    <3> QED
      BY <1>1, <1>2, <3>3 DEF StatusOK
  <2>4. CASE StatusAddListener(g)
    <3> DEFINE ls == st[g].lis \cup {task[g].spec.port}
    <3>1. st' = [st EXCEPT ![g].lis = ls]
      BY <2>4 DEF StatusAddListener
    <3>2. st[g] \in Status /\ task[g].spec.port \in Port
      BY <1>1, <1>2, TaskType DEF StatusOK
    <3>3. ls \in SUBSET Port
      BY <3>2 DEF Status
    <3> HIDE DEF ls
    <3>4. st' \in [GLBC -> Status]
      BY <1>1, <3>1, <3>3, StatusType
    <3> QED
      BY <1>1, <1>2, <3>4 DEF StatusOK
  <2>5. CASE ~(StatusAddLb(g) \/ WaitLb(g) \/ ClearStatus(g) \/ StatusAddPool(g) \/ StatusAddMembers(g)
               \/ StatusAddListener(g))
    <3>1. UNCHANGED st
      BY <2>5 DEF Ensure, ListMembers, ReadListeners, ReadPools, ReadWhole, IsEmpty, status
    <3> QED
      BY <1>1, <1>2, <3>1, Frame
  <2> QED
    BY <2>1, <2>2, <2>3, <2>4, <2>5
<1>6. RunOK'
  <2>0. /\ UNCHANGED seen => seen' = [seen EXCEPT ![g] = seen[g]]
        /\ UNCHANGED victim => victim' = [victim EXCEPT ![g] = victim[g]]
        /\ seen[g] \in SUBSET Member /\ victim[g] \in Port \cup Pool \cup {None}
    BY <1>1, SeenSame
  <2>1. CASE \/ Ensure(g) /\ Active(on[g])
             \/ StatusAddLb(g) \/ WaitLb(g) \/ ClearStatus(g) \/ StatusAddPool(g)
             \/ StatusAddMembers(g) \/ StatusAddListener(g) \/ ReadWhole(g)
             \/ IsEmpty(g) /\ Goto(g, "deleteLb") /\ UNCHANGED <<phase, mode, task, on, seen, victim, lock>>
    <3>1. UNCHANGED seen /\ UNCHANGED victim
      BY <2>1 DEF Ensure, StatusAddLb, WaitLb, ClearStatus, StatusAddPool, StatusAddMembers,
           StatusAddListener, ReadWhole
    <3>2. \E step \in {"pools", "wait", "deleteLb", "attach", "members", "listeners", "redundantListeners"} :
            /\ Goto(g, step) /\ (step = "wait" => pc[g] = "recordLb") /\ (step = "attach" => pc[g] = "clear")
      BY <2>1 DEF Ensure, StatusAddLb, WaitLb, ClearStatus, StatusAddPool, StatusAddMembers,
           StatusAddListener, ReadWhole, Goto
    <3>3. PICK step \in {"pools", "wait", "deleteLb", "attach", "members", "listeners", "redundantListeners"} :
            /\ Goto(g, step) /\ (step = "wait" => pc[g] = "recordLb") /\ (step = "attach" => pc[g] = "clear")
      BY <3>2
    <3>4. step = "wait" => on[g] \in LB
      BY <1>1, <3>3 DEF RunOK, Run
    <3>5. step = "attach" => task[g].spec.pin \in LB
      BY <1>1, <3>3 DEF RunOK, Run
    <3>6. step \in PC \ {"idle"}
      BY DEF PC
    <3>7. /\ step \notin {"ensure", "recordLb", "clear", "deletePool", "trimPool", "deleteListener"}
      OBVIOUS
    <3> QED
      BY <1>1, <1>2, <2>0, <3>1, <3>3, <3>4, <3>5, <3>6, <3>7, GotoRun
  <2>2. CASE ListMembers(g)
    <3>1. /\ pc[g] \in {"members", "relist"} /\ There(g) /\ PoolNow(g) # None /\ UNCHANGED victim
          /\ seen' = [seen EXCEPT ![g] = PoolNow(g)[g]]
          /\ Goto(g, IF pc[g] = "members" THEN "patch" ELSE "recordMembers")
      BY <2>2 DEF ListMembers
    <3>2. Lb(g) \in Balancer /\ task[g].spec.pool \in Pool
      BY <3>1, ThereType, TaskType
    <3>3. PoolNow(g) \in Groups
      BY <3>1, <3>2 DEF PoolNow, Balancer
    <3>4. PoolNow(g)[g] \in SUBSET Member
      BY <3>3 DEF Groups, Group
    <3>5. PICK step \in {"patch", "recordMembers"} : Goto(g, step)
      BY <3>1
    <3>6. step \in PC \ {"idle"}
      BY DEF PC
    <3>7. victim' = [victim EXCEPT ![g] = victim[g]] /\ victim[g] \in Port \cup Pool \cup {None}
      BY <2>0, <3>1
    <3>8. step \notin {"attach", "ensure", "recordLb", "wait", "clear", "deletePool", "trimPool", "deleteListener"}
      OBVIOUS
    <3> QED
      BY ZenonT(30), <1>1, <1>2, <3>1, <3>4, <3>5, <3>6, <3>7, <3>8, GotoRun
  <2>3. CASE ReadListeners(g)
    <3>1. CASE Goto(g, "redundantPools") /\ UNCHANGED victim
      <4>1. UNCHANGED seen
        BY <2>3 DEF ReadListeners
      <4>2. PICK step \in PC \ {"idle"} : step = "redundantPools"
        BY DEF PC
      <4>3. /\ victim' = [victim EXCEPT ![g] = victim[g]] /\ victim[g] \in Port \cup Pool \cup {None}
            /\ seen' = [seen EXCEPT ![g] = seen[g]] /\ seen[g] \in SUBSET Member /\ Goto(g, step)
        BY <2>0, <3>1, <4>1, <4>2
      <4>4. step \notin {"attach", "ensure", "recordLb", "wait", "clear", "deletePool", "trimPool", "deleteListener"}
        BY <4>2
      <4> QED
        BY <1>1, <1>2, <4>3, <4>4, GotoRun
    <3>2. CASE \E q \in task[g].st.lis : victim' = [victim EXCEPT ![g] = q] /\ Goto(g, "deleteListener")
      <4>1. UNCHANGED seen
        BY <2>3 DEF ReadListeners
      <4>2. "deleteListener" \in PC \ {"idle"}
        BY DEF PC
      <4>3. task[g].st.lis \in SUBSET Port
        BY <1>2, TaskType
      <4>4. PICK q \in Port : victim' = [victim EXCEPT ![g] = q] /\ Goto(g, "deleteListener")
        BY <3>2, <4>3
      <4> QED
        BY <1>1, <1>2, <2>0, <4>1, <4>2, <4>4, GotoRun
    <3> QED
      BY <2>3, <3>1, <3>2 DEF ReadListeners
  <2>4. CASE ReadPools(g)
    <3>0. UNCHANGED seen
      BY <2>4 DEF ReadPools
    <3>1. CASE Goto(g, AfterPools(g)) /\ UNCHANGED victim
      <4>1. AfterPools(g) \in {"finish", "clear", "isEmpty"} /\ (AfterPools(g) = "clear" => mode[g] = "migrate")
        BY <1>1 DEF AfterPools, RunOK
      <4>2. AfterPools(g) \in PC \ {"idle"}
        BY <4>1 DEF PC
      <4>3. on[g] \in LB
        BY <2>4, ThereType DEF ReadPools
      <4> QED
        BY <1>1, <1>2, <2>0, <3>0, <3>1, <4>1, <4>2, <4>3, GotoRun
    <3>2. CASE \E p \in Pool : victim' = [victim EXCEPT ![g] = p] /\ (Goto(g, "deletePool") \/ Goto(g, "trimPool"))
      <4>1. PICK p \in Pool : victim' = [victim EXCEPT ![g] = p] /\ (Goto(g, "deletePool") \/ Goto(g, "trimPool"))
        BY <3>2
      <4>2. "deletePool" \in PC \ {"idle"} /\ "trimPool" \in PC \ {"idle"}
        BY DEF PC
      <4>3. CASE Goto(g, "deletePool")
        BY <1>1, <1>2, <2>0, <3>0, <4>1, <4>2, <4>3, GotoRun
      <4>4. CASE Goto(g, "trimPool")
        BY <1>1, <1>2, <2>0, <3>0, <4>1, <4>2, <4>4, GotoRun
      <4> QED
        BY <4>1, <4>3, <4>4
    <3> QED
      BY <2>4, <3>1, <3>2 DEF ReadPools, Deletable, Trimmable
  <2> QED
    BY <2>1, <2>2, <2>3, <2>4
<1> QED
  BY <1>2, <1>3, <1>4, <1>5, <1>6, PartsNext

\* A call leaves the user's group in a pool as it is.
Keeps(x, p) ==
  cloud[x] # None /\ cloud[x].pools[p] # None =>
    /\ cloud'[x] # None /\ cloud'[x].pools[p] # None
    /\ cloud'[x].pools[p][User] = cloud[x].pools[p][User]

\* A reconcile goes on to a step with nothing to be known before.
Plain == PC \ {"idle", "attach", "ensure", "recordLb", "wait", "clear", "deletePool", "trimPool", "deleteListener"}

\* A step that calls the service for the load balancer of the reconcile.
LEMMA CallType ==
  ASSUME IInv, NEW g \in GLBC, pc[g] # "idle", There(g),
         NEW b \in Balancer, Call(on[g], b) \/ UNCHANGED cloud,
         NEW step \in Plain, Goto(g, step), UNCHANGED work, UNCHANGED seen,
         NEW v \in Port \cup Pool \cup {None}, victim' = [victim EXCEPT ![g] = v],
         UNCHANGED <<fresh, status, history, edits, faults>>
  PROVE  /\ IInv' /\ pc'[g] = step /\ \A k \in GLBC \ {g} : pc'[k] = pc[k] /\ victim'[k] = victim[k]
         /\ \A x \in LB \ {on[g]} : cloud'[x] = cloud[x]
         /\ Call(on[g], b) => cloud'[on[g]] = b
<1>1. CloudOK /\ StatusOK /\ RunOK /\ HistoryOK
  BY Parts
<1>2. on[g] \in LB
  BY ThereType
<1>3. CloudOK' /\ \A x \in LB \ {on[g]} : cloud'[x] = cloud[x]
  <2>1. CASE Call(on[g], b)
    BY <1>1, <1>2, <2>1, CallCloud DEF CloudOK
  <2>2. CASE UNCHANGED cloud
    BY <1>1, <2>2 DEF CloudOK
  <2> QED
    BY <2>1, <2>2
<1>4. Call(on[g], b) => cloud'[on[g]] = b
  BY <1>1, <1>2, CallCloud
<1>5. /\ seen' = [seen EXCEPT ![g] = seen[g]] /\ seen[g] \in SUBSET Member
  BY <1>1, SeenSame
<1>6. /\ step \in PC \ {"idle"}
      /\ step \notin {"attach", "ensure", "recordLb", "wait", "clear", "deletePool", "trimPool", "deleteListener"}
  BY DEF Plain
<1>7. RunOK' /\ pc'[g] = step /\ \A k \in GLBC \ {g} : pc'[k] = pc[k] /\ victim'[k] = victim[k]
  BY <1>1, <1>5, <1>6, GotoRun
<1>8. StatusOK' /\ HistoryOK'
  BY <1>1, Frame DEF status, history
<1> QED
  BY <1>3, <1>4, <1>7, <1>8, PartsNext

LEMMA CreatePoolType ==
  ASSUME IInv, NEW g \in GLBC, CreatePool(g)
  PROVE  IInv' /\ \A x \in LB, p \in Pool : Keeps(x, p)
<1> DEFINE w == task[g].spec
           b == WithPool(Lb(g), w.pool, GroupOf(g, w.members))
<1>1. /\ pc[g] = "pools" /\ There(g) /\ UNCHANGED <<fresh, status, history, edits, faults>>
      /\ UNCHANGED work /\ UNCHANGED seen /\ UNCHANGED victim
      /\ \/ PoolNow(g) # None /\ Goto(g, "members") /\ UNCHANGED cloud
         \/ PoolNow(g) = None /\ Call(on[g], b) /\ Goto(g, "recordPool")
  BY DEF CreatePool
<1>2. Lb(g) \in Balancer /\ on[g] \in LB /\ w.pool \in Pool /\ w.members \in SUBSET Member
  BY <1>1, ThereType, TaskType
<1>3. GroupOf(g, w.members) \in Groups
  BY <1>2, GroupOfType
<1>4. b \in Balancer /\ b.pools = [Lb(g).pools EXCEPT ![w.pool] = GroupOf(g, w.members)]
  BY <1>2, <1>3, WithPoolType
<1>5. PICK step \in Plain : Goto(g, step)
  BY <1>1 DEF Plain, PC
<1>6. victim' = [victim EXCEPT ![g] = victim[g]] /\ victim[g] \in Port \cup Pool \cup {None}
  BY <1>1, Parts, SeenSame
<1> HIDE DEF b
<1>7. /\ IInv' /\ \A x \in LB \ {on[g]} : cloud'[x] = cloud[x]
      /\ Call(on[g], b) => cloud'[on[g]] = b
  BY ZenonT(30), <1>1, <1>4, <1>5, <1>6, CallType
<1>8. ASSUME NEW x \in LB, NEW p \in Pool PROVE Keeps(x, p)
  <2>1. CASE UNCHANGED cloud \/ x # on[g]
    BY <1>7, <2>1 DEF Keeps
  <2>2. CASE Call(on[g], b) /\ x = on[g] /\ PoolNow(g) = None
    <3>1. cloud'[x] = b /\ b # None
      BY <1>4, <1>7, <2>2, Nones
    <3>2. p # w.pool => b.pools[p] = cloud[x].pools[p]
      BY <1>2, <1>4, <2>2 DEF Lb, Balancer
    <3>3. cloud[x].pools[w.pool] = None
      BY <2>2 DEF PoolNow, Lb
    <3> QED
      BY <3>1, <3>2, <3>3 DEF Keeps
  <2> QED
    BY <1>1, <2>1, <2>2
<1> QED
  BY <1>7, <1>8

LEMMA MergeType ==
  ASSUME IInv, NEW g \in GLBC, pc[g] # "idle", NEW now \in SUBSET Member
  PROVE  Merge(g, now) \in SUBSET Member /\ task[g].spec.members \subseteq Merge(g, now)
BY TaskType DEF Merge

\* A call that replaces the members of one group leaves the user's alone.
LEMMA GroupKeeps ==
  ASSUME IInv, NEW y \in LB, cloud[y] # None, NEW q \in Pool, cloud[y].pools[q] # None,
         NEW g \in GLBC, NEW ms \in SUBSET Member,
         cloud'[y] = WithGroup(cloud[y], q, g, ms), \A x \in LB \ {y} : cloud'[x] = cloud[x]
  PROVE  \A x \in LB, p \in Pool : Keeps(x, p)
<1>0. PICK old \in Balancer : old = cloud[y]
  BY DEF IInv, TypeOK
<1> DEFINE b == WithGroup(old, q, g, ms)
           gs == [old.pools[q] EXCEPT ![g] = ms]
<1>1. old.pools[q] # None
  BY <1>0
<1>2. b \in Balancer /\ gs \in Groups /\ b.pools = [old.pools EXCEPT ![q] = gs]
  BY <1>1, WithGroupType
<1>3. gs[User] = old.pools[q][User]
  <2>1. old.pools[q] \in Groups
    BY <1>1 DEF Balancer
  <2> QED
    BY <2>1, Nones DEF Groups
<1> HIDE DEF gs
<1>4. \A p \in Pool : b.pools[p] = IF p = q THEN gs ELSE old.pools[p]
  BY <1>2 DEF Balancer
<1>5. cloud'[y] = b /\ b # None /\ gs # None
  BY <1>0, <1>2, Nones
<1> QED
  BY <1>0, <1>3, <1>4, <1>5 DEF Keeps

LEMMA PatchType ==
  ASSUME IInv, NEW g \in GLBC, PatchMembers(g)
  PROVE  IInv' /\ \A x \in LB, p \in Pool : Keeps(x, p)
<1> DEFINE w == task[g].spec
           ms == Merge(g, seen[g])
           b == WithGroup(Lb(g), w.pool, g, ms)
<1>1. /\ pc[g] = "patch" /\ There(g) /\ PoolNow(g) # None /\ UNCHANGED <<fresh, status, history, edits, faults>>
      /\ UNCHANGED work /\ UNCHANGED seen /\ UNCHANGED victim
      /\ \/ UNCHANGED cloud /\ Goto(g, "recordMembers")
         \/ Call(on[g], b) /\ Goto(g, "relist")
  BY DEF PatchMembers
<1>2. Lb(g) \in Balancer /\ on[g] \in LB /\ w.pool \in Pool /\ Lb(g) = cloud[on[g]] /\ Lb(g) # None
  BY <1>1, ThereType, TaskType, Nones DEF Lb
<1>3. ms \in SUBSET Member
  BY <1>1, MergeType DEF IInv, TypeOK
<1>4. b \in Balancer /\ Lb(g).pools[w.pool] # None
  BY <1>1, <1>2, <1>3, WithGroupType DEF PoolNow
<1>5. PICK step \in Plain : Goto(g, step)
  BY <1>1 DEF Plain, PC
<1>6. victim' = [victim EXCEPT ![g] = victim[g]] /\ victim[g] \in Port \cup Pool \cup {None}
  BY <1>1, Parts, SeenSame
<1> HIDE DEF ms
<1>7. /\ IInv' /\ \A x \in LB \ {on[g]} : cloud'[x] = cloud[x]
      /\ Call(on[g], b) => cloud'[on[g]] = b
  <2> HIDE DEF b
  <2> QED
    BY ZenonT(30), <1>1, <1>4, <1>5, <1>6, CallType
<1>8. CASE UNCHANGED cloud
  BY <1>7, <1>8 DEF Keeps
<1>9. CASE Call(on[g], b)
  BY <1>2, <1>3, <1>4, <1>7, <1>9, GroupKeeps
<1> QED
  BY <1>1, <1>7, <1>8, <1>9

LEMMA ListenerType ==
  ASSUME IInv, NEW g \in GLBC, DeployListener(g) \/ DeleteListener(g)
  PROVE  IInv' /\ \A x \in LB, p \in Pool : Keeps(x, p)
<1> DEFINE w == task[g].spec
<1>1. /\ pc[g] \in {"listeners", "deleteListener"} /\ There(g) /\ UNCHANGED <<fresh, status, history, edits, faults>>
      /\ UNCHANGED work /\ UNCHANGED seen
  BY DEF DeployListener, DeleteListener
<1>2. \E step \in Plain : Goto(g, step)
  BY DEF DeployListener, DeleteListener, Plain, PC
<1>3. \E v \in Port \cup Pool \cup {None} : victim' = [victim EXCEPT ![g] = v]
  BY Parts, SeenSame DEF DeployListener, DeleteListener
<1>4. Lb(g) \in Balancer /\ on[g] \in LB /\ w.pool \in Pool /\ w.port \in Port
  BY <1>1, ThereType, TaskType
<1>5. \E b \in Balancer : /\ Call(on[g], b) \/ UNCHANGED cloud
                          /\ b.pools = Lb(g).pools
  <2>1. CASE DeployListener(g)
    <3> DEFINE b == WithListener(Lb(g), w.port, w.pool)
    <3>1. b \in Balancer /\ b.pools = Lb(g).pools
      BY <1>4, WithListenerType DEF WithListener
    <3>2. Call(on[g], b) \/ UNCHANGED cloud
      BY <2>1 DEF DeployListener
    <3> QED
      BY <3>1, <3>2
  <2>2. CASE DeleteListener(g)
    <3> DEFINE b == WithoutListener(Lb(g), victim[g])
    <3>0. victim[g] \in Port
      BY <2>2 DEF DeleteListener, IInv, Run
    <3>1. b \in Balancer /\ b.pools = Lb(g).pools
      BY <1>4, <3>0, WithListenerType DEF WithoutListener
    <3>2. Call(on[g], b) \/ UNCHANGED cloud
      BY <2>2 DEF DeleteListener
    <3> QED
      BY <3>1, <3>2
  <2> QED
    BY <2>1, <2>2
<1>6. PICK b \in Balancer : /\ Call(on[g], b) \/ UNCHANGED cloud
                            /\ b.pools = Lb(g).pools
  BY <1>5
<1>7. PICK step \in Plain : Goto(g, step)
  BY <1>2
<1>8. PICK v \in Port \cup Pool \cup {None} : victim' = [victim EXCEPT ![g] = v]
  BY <1>3
<1>9. pc[g] # "idle"
  BY <1>1
<1>10. /\ IInv' /\ \A x \in LB \ {on[g]} : cloud'[x] = cloud[x]
       /\ Call(on[g], b) => cloud'[on[g]] = b
  BY <1>1, <1>6, <1>7, <1>8, <1>9, CallType
<1>11. \A x \in LB, p \in Pool : Keeps(x, p)
  BY <1>4, <1>6, <1>10, Nones DEF Keeps, Lb
<1> QED
  BY <1>10, <1>11

LEMMA TrimPoolType ==
  ASSUME IInv, NEW g \in GLBC, TrimPool(g)
  PROVE  IInv' /\ \A x \in LB, p \in Pool : Keeps(x, p)
<1> DEFINE b == WithGroup(Lb(g), victim[g], g, {})
<1>1. /\ pc[g] = "trimPool" /\ There(g) /\ Lb(g).pools[victim[g]] # None
      /\ UNCHANGED <<fresh, status, history, edits, faults>>
      /\ UNCHANGED work /\ UNCHANGED seen /\ victim' = [victim EXCEPT ![g] = None]
      /\ Call(on[g], b) /\ Goto(g, "redundantPools")
  BY DEF TrimPool
<1>2. Lb(g) \in Balancer /\ on[g] \in LB /\ Lb(g) = cloud[on[g]] /\ Lb(g) # None
  BY <1>1, ThereType, Nones DEF Lb
<1>3. victim[g] \in Pool /\ {} \in SUBSET Member
  BY <1>1 DEF IInv, Run
<1>4. b \in Balancer
  BY <1>1, <1>2, <1>3, WithGroupType
<1>5. PICK step \in Plain : Goto(g, step)
  BY <1>1 DEF Plain, PC
<1>6. IInv' /\ (\A x \in LB \ {on[g]} : cloud'[x] = cloud[x]) /\ cloud'[on[g]] = b
  <2> HIDE DEF b
  <2>1. None \in Port \cup Pool \cup {None} /\ pc[g] # "idle"
    BY <1>1
  <2> QED
    BY <1>1, <1>4, <1>5, <2>1, CallType
<1>7. \A x \in LB, p \in Pool : Keeps(x, p)
  BY SMTT(20), <1>1, <1>2, <1>3, <1>6, GroupKeeps
<1> QED
  BY <1>6, <1>7

LEMMA DeletePoolType ==
  ASSUME IInv, NEW g \in GLBC, DeletePool(g)
  PROVE  IInv' /\ \A x \in LB, p \in Pool : x # on[g] \/ p # victim[g] => Keeps(x, p)
<1> DEFINE b == WithoutPool(Lb(g), victim[g])
<1>1. /\ pc[g] = "deletePool" /\ There(g)
      /\ UNCHANGED <<fresh, status, history, edits, faults>>
      /\ UNCHANGED work /\ UNCHANGED seen /\ victim' = [victim EXCEPT ![g] = None]
      /\ Call(on[g], b) /\ Goto(g, "redundantPools")
  BY DEF DeletePool
<1>2. Lb(g) \in Balancer /\ on[g] \in LB /\ Lb(g) = cloud[on[g]] /\ Lb(g) # None
  BY <1>1, ThereType, Nones DEF Lb
<1>3. victim[g] \in Pool
  BY <1>1 DEF IInv, Run
<1>4. b \in Balancer /\ b.pools = [Lb(g).pools EXCEPT ![victim[g]] = None]
  BY <1>1, <1>2, <1>3, WithoutPoolType
<1>5. PICK step \in Plain : Goto(g, step)
  BY <1>1 DEF Plain, PC
<1> HIDE DEF b
<1>6. IInv' /\ (\A x \in LB \ {on[g]} : cloud'[x] = cloud[x]) /\ cloud'[on[g]] = b
  <2>1. None \in Port \cup Pool \cup {None} /\ pc[g] # "idle"
    BY <1>1
  <2> QED
    BY <1>1, <1>4, <1>5, <2>1, CallType
<1>7. \A p \in Pool \ {victim[g]} : b.pools[p] = cloud[on[g]].pools[p]
  BY <1>2, <1>4 DEF Balancer
<1>8. \A x \in LB, p \in Pool : x # on[g] \/ p # victim[g] => Keeps(x, p)
  BY <1>4, <1>6, <1>7, Nones DEF Keeps
<1> QED
  BY <1>6, <1>8

LEMMA DeleteLbType ==
  ASSUME IInv, NEW g \in GLBC, DeleteLb(g)
  PROVE  IInv' /\ \A x \in LB, p \in Pool : x # on[g] => Keeps(x, p)
<1>1. CloudOK /\ StatusOK /\ RunOK /\ HistoryOK
  BY Parts
<1>2. /\ There(g) /\ Call(on[g], None) /\ Return(g)
      /\ UNCHANGED <<fresh, spec, st, left, loose, edits, faults>>
      /\ UNCHANGED phase \/ phase' = [phase EXCEPT ![g] = "gone"]
  BY DEF DeleteLb, Gone, history
<1>3. on[g] \in LB
  BY <1>2, ThereType
<1>4. cloud' \in [LB -> Balancer \cup {None}] /\ \A y \in LB \ {on[g]} : cloud'[y] = cloud[y]
  BY <1>1, <1>2, <1>3, CallCloud
<1>5. CloudOK' /\ HistoryOK'
  BY <1>1, <1>2, <1>4, Frame DEF CloudOK
<1>6. StatusOK'
  BY <1>1, <1>2 DEF StatusOK
<1>7. RunOK'
  BY <1>1, <1>2, ReturnRun
<1>8. \A x \in LB, p \in Pool : x # on[g] => Keeps(x, p)
  BY <1>4 DEF Keeps
<1> QED
  BY <1>5, <1>6, <1>7, <1>8, PartsNext

LEMMA CreateLbType ==
  ASSUME IInv, NEW g \in GLBC, CreateLb(g)
  PROVE  /\ IInv'
         /\ \E x \in fresh : /\ \A y \in LB \ {x} : cloud'[y] = cloud[y]
                             /\ cloud'[x] = NewBalancer(g, task[g].spec)
                             /\ fresh' = fresh \ {x} /\ on'[g] = x
         /\ pc'[g] = "recordLb"
         /\ \A k \in GLBC \ {g} : pc'[k] = pc[k] /\ on'[k] = on[k]
         /\ UNCHANGED <<victim, mode, task, lock, seen>>
<1>1. CloudOK /\ StatusOK /\ RunOK /\ HistoryOK
  BY Parts
<1>2. /\ pc[g] = "find" /\ pc' = [pc EXCEPT ![g] = "recordLb"]
      /\ UNCHANGED <<status, mode, task, seen, victim, lock, history, edits, faults>>
  BY DEF CreateLb, Goto
<1>3. PICK x \in fresh : /\ Call(x, NewBalancer(g, task[g].spec))
                         /\ fresh' = fresh \ {x} /\ on' = [on EXCEPT ![g] = x]
  BY DEF CreateLb
<1>4. x \in LB /\ task[g].spec \in Want
  BY <1>1, <1>2, TaskType DEF CloudOK
<1> DEFINE b == NewBalancer(g, task[g].spec)
<1>5. b \in Balancer
  BY <1>4, NewBalancerType
<1> HIDE DEF b
<1>6. /\ cloud' \in [LB -> Balancer \cup {None}] /\ (\A y \in LB \ {x} : cloud'[y] = cloud[y])
      /\ cloud'[x] = b
  BY <1>1, <1>3, <1>4, <1>5, CallCloud DEF b
<1>7. CloudOK'
  BY <1>1, <1>3, <1>6 DEF CloudOK
<1>8. /\ pc' \in [GLBC -> PC] /\ on' \in [GLBC -> LB \cup {None}]
      /\ pc'[g] = "recordLb" /\ on'[g] = x
      /\ \A k \in GLBC \ {g} : pc'[k] = pc[k] /\ on'[k] = on[k]
  BY <1>1, <1>2, <1>3, <1>4 DEF RunOK, PC
<1>9. Run(g)'
  BY <1>1, <1>2, <1>4, <1>8 DEF RunOK, Run
<1>10. \A k \in GLBC \ {g} : Run(k)'
  BY <1>1, <1>2, <1>8 DEF RunOK, Run
<1>11. RunOK'
  BY <1>1, <1>2, <1>8, <1>9, <1>10 DEF RunOK
<1>12. StatusOK' /\ HistoryOK'
  BY <1>1, <1>2, Frame DEF status, history
<1>13. IInv'
  BY <1>7, <1>11, <1>12, PartsNext
<1> QED
  BY <1>2, <1>3, <1>6, <1>8, <1>13 DEF b

LEMMA ProvisionType ==
  ASSUME IInv, NEW x \in LB, Provision(x)
  PROVE  /\ IInv' /\ UNCHANGED <<fresh, run>> /\ \A y \in LB, p \in Pool : Keeps(y, p)
<1>1. CloudOK /\ StatusOK /\ RunOK /\ HistoryOK
  BY Parts
<1>2. /\ cloud[x] # None /\ UNCHANGED <<fresh, status, run, history, edits>>
      /\ faults' = faults \/ faults' = faults + 1
      /\ \E s \in {"BUILD", "ACTIVE", "ERROR"} : Call(x, [cloud[x] EXCEPT !.state = s])
  BY DEF Provision
<1>3. PICK s \in {"BUILD", "ACTIVE", "ERROR"} : Call(x, [cloud[x] EXCEPT !.state = s])
  BY <1>2
<1>4. cloud[x] \in Balancer
  BY <1>1, <1>2 DEF CloudOK
<1> DEFINE b == [cloud[x] EXCEPT !.state = s]
<1>5. b \in Balancer /\ b.pools = cloud[x].pools
  BY <1>4, WithStateType
<1> HIDE DEF b
<1>6. /\ cloud' \in [LB -> Balancer \cup {None}] /\ cloud'[x] = b
      /\ \A y \in LB \ {x} : cloud'[y] = cloud[y]
  BY <1>1, <1>3, <1>5, CallCloud DEF b
<1>7. CloudOK'
  BY <1>1, <1>2, <1>6 DEF CloudOK
<1>8. StatusOK' /\ RunOK'
  BY <1>1, <1>2, Frame DEF status, run
<1>9. HistoryOK'
  BY <1>1, <1>2 DEF HistoryOK, history
<1>10. \A y \in LB, p \in Pool : Keeps(y, p)
  BY <1>5, <1>6, Nones DEF Keeps
<1> QED
  BY <1>2, <1>7, <1>8, <1>9, <1>10, PartsNext

LEMMA AddByHandType ==
  ASSUME IInv, NEW x \in LB, NEW p \in Pool, NEW g \in GLBC, NEW m \in Hand, AddByHand(x, p, g, m)
  PROVE  /\ IInv' /\ UNCHANGED <<fresh, run>> /\ \A y \in LB, q \in Pool : Keeps(y, q)
<1> DEFINE ms == cloud[x].pools[p][g] \cup {m}
           b == WithGroup(cloud[x], p, g, ms)
<1>1. CloudOK /\ StatusOK /\ RunOK /\ HistoryOK
  BY Parts
<1>2. /\ cloud[x] # None /\ cloud[x].pools[p] # None /\ UNCHANGED <<fresh, status, run, left, faults>>
      /\ edits' = edits + 1 /\ loose' = TRUE /\ Call(x, b)
  BY DEF AddByHand
<1>3. cloud[x] \in Balancer
  BY <1>1, <1>2 DEF CloudOK
<1>4. cloud[x].pools[p] \in Groups
  BY <1>2, <1>3 DEF Balancer
<1>5. ms \in SUBSET Member
  BY <1>4, GlobalAssumption DEF Groups, Group
<1> HIDE DEF ms
<1>6. b \in Balancer
  BY <1>2, <1>3, <1>5, WithGroupType
<1>7. /\ cloud' \in [LB -> Balancer \cup {None}] /\ cloud'[x] = b
      /\ \A y \in LB \ {x} : cloud'[y] = cloud[y]
  <2> HIDE DEF b
  <2> QED
    BY <1>1, <1>2, <1>6, CallCloud
<1>8. CloudOK'
  BY <1>1, <1>2, <1>7 DEF CloudOK
<1>9. StatusOK' /\ RunOK'
  BY <1>1, <1>2, Frame DEF status, run
<1>10. HistoryOK'
  BY <1>1, <1>2 DEF HistoryOK
<1>11. \A y \in LB, q \in Pool : Keeps(y, q)
  BY <1>2, <1>5, <1>7, GroupKeeps
<1> QED
  BY <1>2, <1>8, <1>9, <1>10, <1>11, PartsNext

LEMMA UserType ==
  ASSUME IInv, NEW g \in GLBC, Edit(g) \/ Delete(g)
  PROVE  IInv' /\ UNCHANGED <<cloud, fresh, run>>
<1>1. CloudOK /\ StatusOK /\ RunOK /\ HistoryOK
  BY Parts
<1>2. UNCHANGED <<cloud, fresh, st, run, left, loose, faults>> /\ (edits' = edits \/ edits' = edits + 1)
  BY DEF Edit, Delete, history
<1>3. CloudOK' /\ RunOK'
  BY <1>1, <1>2, Frame DEF run
<1>4. HistoryOK'
  BY <1>1, <1>2 DEF HistoryOK
<1>5. StatusOK'
  <2>1. CASE Edit(g)
    <3>1. Wanted[g] \subseteq Want
      BY GlobalAssumption
    <3>2. PICK w \in Want : spec' = [spec EXCEPT ![g] = w]
      BY <2>1, <3>1 DEF Edit
    <3>3. UNCHANGED phase
      BY <2>1 DEF Edit
    <3> QED
      BY <1>1, <1>2, <3>2, <3>3 DEF StatusOK
  <2>2. CASE Delete(g)
    BY <1>1, <1>2, <2>2 DEF Delete, StatusOK
  <2> QED
    BY <2>1, <2>2
<1> QED
  BY <1>2, <1>3, <1>4, <1>5, PartsNext

\* The steps of the module, by shape.
LEMMA NextCases ==
  ASSUME Next
  PROVE  \/ \E g \in GLBC :
              \/ Begin(g)
              \/ \/ Ensure(g) /\ ~Active(on[g])
                 \/ Attach(g) \/ FindByName(g) \/ NothingToDelete(g) \/ NotFound(g) \/ Crash(g) \/ Finish(g)
                 \/ IsEmpty(g) /\ Gone(g)
              \/ \/ Ensure(g) /\ Active(on[g])
                 \/ StatusAddLb(g) \/ WaitLb(g) \/ ClearStatus(g) \/ StatusAddPool(g) \/ ListMembers(g)
                 \/ StatusAddMembers(g) \/ StatusAddListener(g) \/ ReadListeners(g) \/ ReadPools(g) \/ ReadWhole(g)
                 \/ IsEmpty(g) /\ Goto(g, "deleteLb") /\ UNCHANGED <<phase, mode, task, on, seen, victim, lock>>
              \/ CreateLb(g) \/ CreatePool(g) \/ PatchMembers(g) \/ (DeployListener(g) \/ DeleteListener(g))
              \/ DeletePool(g) \/ TrimPool(g) \/ DeleteLb(g)
              \/ Edit(g) \/ Delete(g)
         \/ \E x \in LB : Provision(x)
         \/ \E x \in LB, p \in Pool, g \in GLBC, m \in Hand : AddByHand(x, p, g, m)
<1>1. CASE \E x \in LB : Provision(x)
  BY <1>1
<1>2. CASE \E x \in LB, p \in Pool, g \in GLBC, m \in Hand : AddByHand(x, p, g, m)
  BY <1>2
<1>3. CASE \E g \in GLBC : Reconcile(g) \/ Crash(g) \/ Edit(g) \/ Delete(g)
  <2>1. PICK g \in GLBC : Reconcile(g) \/ Crash(g) \/ Edit(g) \/ Delete(g)
    BY <1>3
  <2>2. IsEmpty(g) => \/ IsEmpty(g) /\ Gone(g)
                      \/ IsEmpty(g) /\ Goto(g, "deleteLb") /\ UNCHANGED <<phase, mode, task, on, seen, victim, lock>>
    BY DEF IsEmpty
  <2> QED
    BY <2>1, <2>2 DEF Reconcile
<1> QED
  BY <1>1, <1>2, <1>3 DEF Next

LEMMA NextIInv == IInv /\ [Next]_vars => IInv'
<1> SUFFICES ASSUME IInv, [Next]_vars PROVE IInv'
  OBVIOUS
<1>1. CASE UNCHANGED vars
  BY <1>1, Parts, PartsNext, Frame DEF vars, status, run, history
<1>2. CASE Next
  BY <1>2, NextCases, BeginType, ReturnType, ReadType, CreateLbType, CreatePoolType, PatchType, ListenerType,
     DeletePoolType, TrimPoolType, DeleteLbType, UserType, ProvisionType, AddByHandType
<1> QED
  BY <1>1, <1>2

\* The load balancers, the statuses and the running reconciles stay well formed;
\* no step of deployLoadBalancer or of the teardown works on a load balancer, a
\* pool or a listener it has not decided on.
THEOREM GlobalTypeCorrect == Spec => []TypeOK
<1>1. IInv => TypeOK
  BY DEF IInv
<1> QED
  BY <1>1, InitIInv, NextIInv, PTL DEF Spec

-----------------------------------------------------------------------------
(* The user's groups of members are safe. *)

\* The user has members of his own in pool p of load balancer x.
Users(x, p) == Brought[x] # None /\ Brought[x].pools[p] # None /\ Brought[x].pools[p][User] # {}

\* What a reconcile has decided to delete holds nothing of the user's: decisions
\* are taken on a reading of the cloud that is old when the deletion is called.
Spares(g) ==
  /\ pc[g] \in {"recordLb", "wait"} => Brought[on[g]] = None
  /\ pc[g] = "deletePool" => ~Users(on[g], victim[g])
  /\ pc[g] = "deleteLb" => \A p \in Pool : ~Users(on[g], p)

UserInv ==
  /\ \A x \in fresh : Brought[x] = None
  /\ \A g \in GLBC : Spares(g)
  /\ UserGroupKept

LEMMA KeptUsers ==
  ASSUME UserGroupKept, NEW x \in LB, NEW p \in Pool, Users(x, p)
  PROVE  cloud[x] # None /\ cloud[x].pools[p] # None /\ cloud[x].pools[p][User] # {}
BY DEF UserGroupKept, Users

\* A step that keeps the user's groups keeps the property.
LEMMA KeepsAll ==
  ASSUME UserGroupKept, \A x \in LB, p \in Pool : Users(x, p) => Keeps(x, p)
  PROVE  UserGroupKept'
<1> SUFFICES ASSUME NEW x \in LB, NEW p \in Pool, Users(x, p)
             PROVE  /\ cloud'[x] # None /\ cloud'[x].pools[p] # None
                    /\ cloud'[x].pools[p][User] = Brought[x].pools[p][User]
  BY DEF UserGroupKept, Users
<1>1. /\ cloud[x] # None /\ cloud[x].pools[p] # None
      /\ cloud[x].pools[p][User] = Brought[x].pools[p][User]
  BY DEF UserGroupKept, Users
<1> QED
  BY <1>1 DEF Keeps

\* The reconciles that a step leaves alone.
LEMMA SparesFrame ==
  ASSUME NEW k \in GLBC, Spares(k), on'[k] = on[k], victim'[k] = victim[k],
         pc'[k] = pc[k] \/ pc'[k] \notin {"recordLb", "wait", "deletePool", "deleteLb"}
  PROVE  Spares(k)'
BY DEF Spares, Users

LEMMA ReturnSpares ==
  ASSUME IInv, \A k \in GLBC : Spares(k), NEW g \in GLBC, Return(g)
  PROVE  \A k \in GLBC : Spares(k)'
<1>1. RunOK
  BY Parts
<1>2. /\ \A k \in GLBC \ {g} : pc'[k] = pc[k] /\ on'[k] = on[k] /\ victim'[k] = victim[k]
      /\ pc'[g] = "idle"
  BY <1>1, ReturnRun
<1> QED
  BY SMTT(20), <1>2 DEF Spares, Users

\* A reconcile goes on to another step.
LEMMA GotoSpares ==
  ASSUME IInv, \A k \in GLBC : Spares(k), NEW g \in GLBC, NEW step \in PC, Goto(g, step), UNCHANGED on,
         \A k \in GLBC \ {g} : victim'[k] = victim[k],
         step \in {"recordLb", "wait"} => Brought[on[g]] = None,
         step = "deletePool" => ~Users(on[g], victim'[g]),
         step = "deleteLb" => \A p \in Pool : ~Users(on[g], p)
  PROVE  \A k \in GLBC : Spares(k)'
<1>1. pc \in [GLBC -> PC]
  BY DEF IInv, TypeOK
<1>2. pc'[g] = step /\ \A k \in GLBC \ {g} : pc'[k] = pc[k]
  BY <1>1 DEF Goto
<1>3. Spares(g)'
  BY <1>2 DEF Spares, Users
<1>4. \A k \in GLBC \ {g} : Spares(k)'
  BY <1>2, SparesFrame
<1> QED
  BY <1>3, <1>4

LEMMA InitUserInv == Init => UserInv
<1> SUFFICES ASSUME Init PROVE UserInv
  OBVIOUS
<1>1. \A x \in fresh : Brought[x] = None
  BY DEF Init
<1>2. \A g \in GLBC : Spares(g)
  BY DEF Init, Spares, Each
<1>3. UserGroupKept
  BY DEF Init, UserGroupKept
<1> QED
  BY <1>1, <1>2, <1>3 DEF UserInv

\* Nothing in the cloud changes: the decisions.
LEMMA ReadUser ==
  ASSUME IInv, UserInv, NEW g \in GLBC,
         \/ Ensure(g) /\ Active(on[g])
         \/ StatusAddLb(g) \/ WaitLb(g) \/ ClearStatus(g) \/ StatusAddPool(g) \/ ListMembers(g)
         \/ StatusAddMembers(g) \/ StatusAddListener(g) \/ ReadListeners(g) \/ ReadPools(g) \/ ReadWhole(g)
         \/ IsEmpty(g) /\ Goto(g, "deleteLb") /\ UNCHANGED <<phase, mode, task, on, seen, victim, lock>>
  PROVE  UserInv'
<1>1. UNCHANGED cloud
  BY ReadType
<1>2. UNCHANGED <<fresh, on>>
  BY DEF Ensure, StatusAddLb, WaitLb, ClearStatus, StatusAddPool, ListMembers, StatusAddMembers,
         StatusAddListener, ReadListeners, ReadPools, ReadWhole, IsEmpty, work
<1>3. UserGroupKept'
  BY <1>1 DEF UserInv, UserGroupKept
<1>4. \A k \in GLBC \ {g} : victim'[k] = victim[k]
  BY DEF Ensure, StatusAddLb, WaitLb, ClearStatus, StatusAddPool, ListMembers, StatusAddMembers,
         StatusAddListener, ReadListeners, ReadPools, ReadWhole, IsEmpty, IInv, TypeOK
<1>5. \A k \in GLBC : Spares(k)'
  <2>1. CASE StatusAddLb(g) \/ WaitLb(g)
    <3>1. pc[g] \in {"recordLb", "wait"} /\ \E step \in {"wait", "pools", "deleteLb"} : Goto(g, step)
      BY <2>1 DEF StatusAddLb, WaitLb
    <3>2. PICK step \in {"wait", "pools", "deleteLb"} : Goto(g, step)
      BY <3>1
    <3>3. Brought[on[g]] = None
      BY <3>1 DEF UserInv, Spares
    <3>4. \A p \in Pool : ~Users(on[g], p)
      BY <3>3 DEF Users
    <3>5. step \in PC /\ step # "deletePool"
      BY DEF PC
    <3> QED
      BY <1>2, <1>4, <3>2, <3>3, <3>4, <3>5, GotoSpares DEF UserInv
  <2>2. CASE ReadPools(g)
    <3>1. CASE \E p \in Deletable(g, Lb(g)) : victim' = [victim EXCEPT ![g] = p] /\ Goto(g, "deletePool")
      <4>1. PICK p \in Deletable(g, Lb(g)) : victim' = [victim EXCEPT ![g] = p] /\ Goto(g, "deletePool")
        BY <3>1
      <4>2. p \in Pool /\ Alone(g, Lb(g), p)
        BY DEF Deletable
      <4>3. Lb(g).pools[p][User] = {}
        BY <4>2, Nones DEF Alone
      <4>4. on[g] \in LB
        BY <2>2, ThereType DEF ReadPools
      <4>5. ~Users(on[g], p)
        BY <4>2, <4>3, <4>4, KeptUsers DEF Lb, UserInv
      <4>6. victim'[g] = p
        BY <4>1 DEF IInv, TypeOK
      <4>7. "deletePool" \in PC
        BY DEF PC
      <4> QED
        BY <1>2, <1>4, <4>1, <4>5, <4>6, <4>7, GotoSpares DEF UserInv
    <3>2. CASE \E step \in PC \ {"recordLb", "wait", "deletePool", "deleteLb"} : Goto(g, step)
      BY <1>2, <1>4, <3>2, GotoSpares DEF UserInv
    <3> QED
      <4>1. AfterPools(g) \in {"finish", "clear", "isEmpty"}
        BY DEF IInv, TypeOK, AfterPools
      <4>2. /\ AfterPools(g) \in PC \ {"recordLb", "wait", "deletePool", "deleteLb"}
            /\ "trimPool" \in PC \ {"recordLb", "wait", "deletePool", "deleteLb"}
        BY <4>1 DEF PC
      <4> QED
        BY <2>2, <3>1, <3>2, <4>2 DEF ReadPools
  <2>3. CASE ReadWhole(g)
    <3>1. CASE WholeLb(g, Lb(g)) /\ Goto(g, "deleteLb")
      <4>1. on[g] \in LB
        BY <2>3, ThereType DEF ReadWhole
      <4>2. \A p \in Pool : Lb(g).pools[p] # None => Lb(g).pools[p][User] = {}
        BY <3>1, Nones DEF WholeLb, Owned
      <4>3. \A p \in Pool : ~Users(on[g], p)
        BY <4>1, <4>2, KeptUsers DEF Lb, UserInv
      <4>4. "deleteLb" \in PC
        BY DEF PC
      <4> QED
        BY <1>2, <1>4, <3>1, <4>3, <4>4, GotoSpares DEF UserInv
    <3>2. CASE Goto(g, "redundantListeners")
      <4>1. "redundantListeners" \in PC
        BY DEF PC
      <4> QED
        BY <1>2, <1>4, <3>2, <4>1, GotoSpares DEF UserInv
    <3> QED
      BY <2>3, <3>1, <3>2 DEF ReadWhole
  <2>4. CASE IsEmpty(g) /\ Goto(g, "deleteLb") /\ UNCHANGED <<phase, mode, task, on, seen, victim, lock>>
    <3>1. on[g] \in LB
      BY <2>4, ThereType DEF IsEmpty
    <3>2. Lb(g).pools = NoPools
      <4>1. ~Gone(g)
        <5>1. pc'[g] = "deleteLb"
          BY <2>4 DEF Goto, IInv, TypeOK
        <5>2. Return(g) => pc'[g] = "idle"
          BY Parts, ReturnRun
        <5> QED
          BY <5>1, <5>2 DEF Gone
      <4> QED
        BY <2>4, <4>1 DEF IsEmpty
    <3>3. \A p \in Pool : Lb(g).pools[p] = None
      BY <3>2 DEF NoPools
    <3>4. \A p \in Pool : ~Users(on[g], p)
      BY <3>1, <3>3, KeptUsers DEF Lb, UserInv
    <3>5. "deleteLb" \in PC
      BY DEF PC
    <3> QED
      BY <1>2, <1>4, <2>4, <3>4, <3>5, GotoSpares DEF UserInv
  <2>5. CASE \/ Ensure(g) /\ Active(on[g])
             \/ ClearStatus(g) \/ StatusAddPool(g) \/ ListMembers(g)
             \/ StatusAddMembers(g) \/ StatusAddListener(g) \/ ReadListeners(g)
    <3>1. \E step \in {"pools", "attach", "members", "patch", "recordMembers", "listeners", "redundantListeners",
                       "redundantPools", "deleteListener"} : Goto(g, step)
      BY <2>5 DEF Ensure, ClearStatus, StatusAddPool, ListMembers, StatusAddMembers, StatusAddListener, ReadListeners
    <3>2. PICK step \in PC \ {"recordLb", "wait", "deletePool", "deleteLb"} : Goto(g, step)
      BY <3>1 DEF PC
    <3> QED
      BY <1>2, <1>4, <3>2, GotoSpares DEF UserInv
  <2> QED
    BY <2>1, <2>2, <2>3, <2>4, <2>5
<1> QED
  BY <1>2, <1>3, <1>5 DEF UserInv

\* The calls of a reconcile that go on with it.
LEMMA CallUser ==
  ASSUME IInv, UserInv, NEW g \in GLBC,
         CreatePool(g) \/ PatchMembers(g) \/ DeployListener(g) \/ DeleteListener(g) \/ DeletePool(g) \/ TrimPool(g)
  PROVE  UserInv'
<1>1. UNCHANGED <<fresh, on>>
  BY DEF CreatePool, PatchMembers, DeployListener, DeleteListener, DeletePool, TrimPool, work
<1>2. \A k \in GLBC \ {g} : victim'[k] = victim[k]
  BY DEF CreatePool, PatchMembers, DeployListener, DeleteListener, DeletePool, TrimPool, IInv, TypeOK
<1>3. \E step \in {"members", "recordPool", "recordMembers", "relist", "redundantListeners", "recordListener",
                   "redundantPools"} : Goto(g, step)
  BY DEF CreatePool, PatchMembers, DeployListener, DeleteListener, DeletePool, TrimPool
<1>4. PICK step \in PC \ {"recordLb", "wait", "deletePool", "deleteLb"} : Goto(g, step)
  BY <1>3 DEF PC
<1>5. \A k \in GLBC : Spares(k)'
  BY <1>1, <1>2, <1>4, GotoSpares DEF UserInv
<1>6. \A x \in LB, p \in Pool : Users(x, p) => Keeps(x, p)
  <2>1. CASE DeletePool(g)
    <3>1. ~Users(on[g], victim[g])
      BY <2>1 DEF DeletePool, UserInv, Spares
    <3> QED
      BY <2>1, <3>1, DeletePoolType
  <2>2. CASE ~DeletePool(g)
    BY <2>2, CreatePoolType, PatchType, ListenerType, TrimPoolType
  <2> QED
    BY <2>1, <2>2
<1> QED
  BY <1>1, <1>5, <1>6, KeepsAll DEF UserInv

LEMMA NextUserInv == IInv /\ UserInv /\ [Next]_vars => UserInv'
<1> SUFFICES ASSUME IInv, UserInv, [Next]_vars PROVE UserInv'
  OBVIOUS
<1>1. CASE UNCHANGED vars
  BY <1>1 DEF vars, run, UserInv, Spares, Users, UserGroupKept
<1>2. ASSUME NEW g \in GLBC, Begin(g) PROVE UserInv'
  <2>1. UNCHANGED <<cloud, fresh, victim>>
    BY <1>2 DEF Begin
  <2>2. /\ pc'[g] \notin {"recordLb", "wait", "deletePool", "deleteLb"}
        /\ \A k \in GLBC \ {g} : pc'[k] = pc[k] /\ on'[k] = on[k]
    BY <1>2 DEF Begin, Goto, IInv, TypeOK
  <2>3. \A k \in GLBC : Spares(k)'
    BY <2>1, <2>2 DEF UserInv, Spares, Users
  <2>4. UserGroupKept'
    BY <2>1 DEF UserInv, UserGroupKept
  <2> QED
    BY <2>1, <2>3, <2>4 DEF UserInv
<1>3. ASSUME NEW g \in GLBC,
             \/ Ensure(g) /\ ~Active(on[g])
             \/ Attach(g) \/ FindByName(g) \/ NothingToDelete(g) \/ NotFound(g) \/ Crash(g) \/ Finish(g)
             \/ IsEmpty(g) /\ Gone(g)
      PROVE  UserInv'
  <2>1. Return(g)
    BY <1>3 DEF Ensure, Attach, FindByName, NothingToDelete, NotFound, Crash, Finish, Gone
  <2>2. UNCHANGED <<cloud, fresh>>
    BY <1>3 DEF Ensure, Attach, FindByName, NothingToDelete, NotFound, Crash, Finish, IsEmpty
  <2>3. \A k \in GLBC : Spares(k)'
    BY <2>1, ReturnSpares DEF UserInv
  <2>4. UserGroupKept'
    BY <2>2 DEF UserInv, UserGroupKept
  <2> QED
    BY <2>2, <2>3, <2>4 DEF UserInv
<1>4. ASSUME NEW g \in GLBC, DeleteLb(g) PROVE UserInv'
  <2>1. Return(g) /\ UNCHANGED fresh /\ pc[g] = "deleteLb"
    BY <1>4 DEF DeleteLb, Gone
  <2>2. \A k \in GLBC : Spares(k)'
    BY <2>1, ReturnSpares DEF UserInv
  <2>3. \A p \in Pool : ~Users(on[g], p)
    BY <2>1 DEF UserInv, Spares
  <2>4. UserGroupKept'
    BY <1>4, <2>3, DeleteLbType, KeepsAll DEF UserInv
  <2> QED
    BY <2>1, <2>2, <2>4 DEF UserInv
<1>5. ASSUME NEW g \in GLBC, CreateLb(g) PROVE UserInv'
  <2>1. PICK x \in fresh : /\ \A y \in LB \ {x} : cloud'[y] = cloud[y]
                           /\ fresh' = fresh \ {x} /\ on'[g] = x
    BY <1>5, CreateLbType
  <2>2. /\ pc'[g] = "recordLb"
        /\ \A k \in GLBC \ {g} : pc'[k] = pc[k] /\ on'[k] = on[k]
        /\ UNCHANGED victim
    BY <1>5, CreateLbType
  <2>3. Brought[x] = None
    BY DEF UserInv
  <2>4. Spares(g)'
    BY <2>1, <2>2, <2>3 DEF Spares
  <2>5. \A k \in GLBC \ {g} : Spares(k)'
    BY <2>2, SparesFrame DEF UserInv
  <2>6. UserGroupKept'
    BY <2>1, <2>3, KeepsAll DEF UserInv, Keeps, Users
  <2> QED
    BY <2>1, <2>4, <2>5, <2>6 DEF UserInv
<1>6. ASSUME UNCHANGED <<fresh, run>>, \A x \in LB, p \in Pool : Keeps(x, p) PROVE UserInv'
  <2>1. UserGroupKept'
    BY <1>6, KeepsAll DEF UserInv
  <2>2. \A k \in GLBC : Spares(k)'
    BY <1>6, SparesFrame DEF UserInv, run
  <2> QED
    BY <1>6, <2>1, <2>2 DEF UserInv
<1>7. ASSUME NEW g \in GLBC, Edit(g) \/ Delete(g) PROVE UserInv'
  <2>1. UNCHANGED <<cloud, fresh, run>>
    BY <1>7, UserType
  <2> QED
    BY <1>6, <2>1 DEF Keeps
<1>8. CASE Next
  BY <1>2, <1>3, <1>4, <1>5, <1>6, <1>7, <1>8, NextCases, ReadUser, CallUser, ProvisionType, AddByHandType
<1> QED
  BY <1>1, <1>8

\* canDeleteWholeLoadBalancer, canDeleteWholePool, patch of the members: whatever
\* the GLBCs ask for, and however their reconciles, the failures and the user's
\* edits fall together, a group of members the user has on a load balancer stays
\* as it was, and so does the load balancer.
THEOREM UserGroupsSafe == Spec => []UserGroupKept
<1>1. UserInv => UserGroupKept
  BY DEF UserInv
<1>2. Spec => [](IInv /\ UserInv)
  BY InitIInv, NextIInv, InitUserInv, NextUserInv, PTL DEF Spec
<1> QED
  BY <1>1, <1>2, PTL

-----------------------------------------------------------------------------
(* What each step does to the load balancers and to the other reconciles. *)

\* The reconcile and the status of j are not changed by a step of another GLBC.
Untouched(j) ==
  /\ pc'[j] = pc[j] /\ mode'[j] = mode[j] /\ task'[j] = task[j] /\ on'[j] = on[j]
  /\ victim'[j] = victim[j] /\ st'[j] = st[j] /\ spec'[j] = spec[j]
  /\ \A x \in LB : lock'[x] = j <=> lock[x] = j

LEMMA OthersUntouched ==
  ASSUME IInv, NEW g \in GLBC, Reconcile(g) \/ Crash(g), NEW j \in GLBC \ {g}
  PROVE  Untouched(j)
<1>1. CloudOK /\ StatusOK /\ RunOK /\ HistoryOK
  BY Parts
<1>2. spec' = spec
  BY DEF Reconcile, Crash, Begin, Ensure, Attach, FindByName, CreateLb, StatusAddLb, WaitLb, ClearStatus,
     CreatePool, StatusAddPool, ListMembers, PatchMembers, StatusAddMembers, DeployListener, StatusAddListener,
     ReadListeners, DeleteListener, ReadPools, DeletePool, TrimPool, Finish, NothingToDelete, ReadWhole, IsEmpty,
     DeleteLb, NotFound, status
<1>3. st'[j] = st[j]
  <2>1. CASE Attach(g) \/ FindByName(g) \/ StatusAddLb(g) \/ WaitLb(g)
    BY <1>1, <2>1 DEF Attach, FindByName, StatusAddLb, WaitLb, SetLb, StatusOK
  <2>2. CASE ClearStatus(g) \/ StatusAddPool(g) \/ StatusAddMembers(g) \/ StatusAddListener(g) \/ Finish(g)
    BY <1>1, <2>2 DEF ClearStatus, StatusAddPool, StatusAddMembers, StatusAddListener, Finish, StatusPool, StatusOK
  <2>3. CASE ~(Attach(g) \/ FindByName(g) \/ StatusAddLb(g) \/ WaitLb(g) \/ ClearStatus(g) \/ StatusAddPool(g)
               \/ StatusAddMembers(g) \/ StatusAddListener(g) \/ Finish(g))
    BY <2>3 DEF Reconcile, Crash, Begin, Ensure, CreateLb, CreatePool, ListMembers, PatchMembers, DeployListener,
       ReadListeners, DeleteListener, ReadPools, DeletePool, TrimPool, NothingToDelete, ReadWhole, IsEmpty,
       DeleteLb, NotFound, status
  <2> QED
    BY <2>1, <2>2, <2>3
<1>4. CASE Return(g)
  <2>1. /\ pc'[j] = pc[j] /\ mode'[j] = mode[j] /\ task'[j] = task[j] /\ on'[j] = on[j]
        /\ victim'[j] = victim[j]
    BY <1>1, <1>4, ReturnRun
  <2>2. \A x \in LB : lock'[x] = IF lock[x] = g THEN None ELSE lock[x]
    BY <1>4 DEF Return
  <2>3. \A x \in LB : lock'[x] = j <=> lock[x] = j
    BY <2>2, Nones
  <2> QED
    BY <1>2, <1>3, <2>1, <2>3 DEF Untouched
<1>5. CASE Begin(g)
  <2>1. pc'[j] = pc[j] /\ mode'[j] = mode[j] /\ task'[j] = task[j] /\ on'[j] = on[j] /\ victim'[j] = victim[j]
    BY <1>1, <1>5 DEF Begin, Goto, RunOK
  <2>2. \A x \in LB : lock'[x] = j <=> lock[x] = j
    <3>1. \/ UNCHANGED lock
          \/ LockOf(g) # None /\ lock[LockOf(g)] = None /\ lock' = [lock EXCEPT ![LockOf(g)] = g]
      BY <1>5 DEF Begin
    <3>2. LockOf(g) \in LB \cup {None}
      BY <1>1 DEF LockOf, StatusOK, Want, Status
    <3> QED
      BY <1>1, <3>1, <3>2, Nones DEF RunOK
  <2> QED
    BY <1>2, <1>3, <2>1, <2>2 DEF Untouched
<1>6. CASE CreateLb(g)
  BY <1>2, <1>3, <1>6, CreateLbType DEF Untouched
<1>7. CASE ~Return(g) /\ ~Begin(g) /\ ~CreateLb(g)
  <2>1. UNCHANGED work
    BY <1>7 DEF Reconcile, Crash, Ensure, Attach, FindByName, StatusAddLb, WaitLb, ClearStatus,
       CreatePool, StatusAddPool, ListMembers, PatchMembers, StatusAddMembers, DeployListener, StatusAddListener,
       ReadListeners, DeleteListener, ReadPools, DeletePool, TrimPool, Finish, NothingToDelete, ReadWhole, IsEmpty,
       DeleteLb, NotFound, Gone, work
  <2>2. \E step : Goto(g, step)
    BY <1>7 DEF Reconcile, Crash, Ensure, Attach, FindByName, StatusAddLb, WaitLb, ClearStatus,
       CreatePool, StatusAddPool, ListMembers, PatchMembers, StatusAddMembers, DeployListener, StatusAddListener,
       ReadListeners, DeleteListener, ReadPools, DeletePool, TrimPool, Finish, NothingToDelete, ReadWhole, IsEmpty,
       DeleteLb, NotFound, Gone
  <2>3. UNCHANGED victim \/ \E v : victim' = [victim EXCEPT ![g] = v]
    BY <1>7 DEF Reconcile, Crash, Ensure, Attach, FindByName, StatusAddLb, WaitLb, ClearStatus,
       CreatePool, StatusAddPool, ListMembers, PatchMembers, StatusAddMembers, DeployListener, StatusAddListener,
       ReadListeners, DeleteListener, ReadPools, DeletePool, TrimPool, Finish, NothingToDelete, ReadWhole, IsEmpty,
       DeleteLb, NotFound, Gone
  <2>4. pc'[j] = pc[j] /\ victim'[j] = victim[j]
    BY <1>1, <2>2, <2>3 DEF Goto, RunOK
  <2> QED
    BY <1>2, <1>3, <2>1, <2>4 DEF Untouched, work
<1> QED
  BY <1>4, <1>5, <1>6, <1>7

\* The load balancer of the reconcile is called, and stays; no other one changes.
Called(g) ==
  /\ on[g] \in LB /\ cloud[on[g]] \in Balancer /\ cloud'[on[g]] \in Balancer
  /\ cloud'[on[g]].state = cloud[on[g]].state
  /\ \A x \in LB \ {on[g]} : cloud'[x] = cloud[x]

LEMMA CreatePoolEffect ==
  ASSUME IInv, NEW g \in GLBC, CreatePool(g)
  PROVE  \/ UNCHANGED cloud
         \/ /\ Called(g) /\ cloud[on[g]].pools[task[g].spec.pool] = None
            /\ cloud'[on[g]].lis = cloud[on[g]].lis
            /\ \A p \in Pool \ {task[g].spec.pool} : cloud'[on[g]].pools[p] = cloud[on[g]].pools[p]
<1> SUFFICES ASSUME ~UNCHANGED cloud
             PROVE  /\ Called(g) /\ cloud[on[g]].pools[task[g].spec.pool] = None
                    /\ cloud'[on[g]].lis = cloud[on[g]].lis
                    /\ \A p \in Pool \ {task[g].spec.pool} : cloud'[on[g]].pools[p] = cloud[on[g]].pools[p]
  OBVIOUS
<1> DEFINE w == task[g].spec
           b == WithPool(Lb(g), w.pool, GroupOf(g, w.members))
<1>1. /\ pc[g] = "pools" /\ There(g) /\ PoolNow(g) = None /\ Call(on[g], b)
  BY DEF CreatePool
<1>2. /\ Lb(g) \in Balancer /\ on[g] \in LB /\ w.pool \in Pool /\ w.members \in SUBSET Member
      /\ Lb(g) = cloud[on[g]]
  BY <1>1, ThereType, TaskType DEF Lb
<1>3. GroupOf(g, w.members) \in Groups
  BY <1>2, GroupOfType
<1>4. /\ b \in Balancer /\ b.pools = [Lb(g).pools EXCEPT ![w.pool] = GroupOf(g, w.members)]
      /\ b.lis = Lb(g).lis /\ b.state = Lb(g).state
  BY <1>2, <1>3, WithPoolType
<1> HIDE DEF b
<1>5. cloud'[on[g]] = b /\ \A x \in LB \ {on[g]} : cloud'[x] = cloud[x]
  BY <1>1, <1>2, <1>4, Parts, CallCloud
<1>6. \A p \in Pool \ {w.pool} : b.pools[p] = Lb(g).pools[p]
  BY <1>2, <1>4 DEF Balancer
<1> QED
  BY <1>1, <1>2, <1>4, <1>5, <1>6 DEF Called, PoolNow

\* The members of group g in pool p are replaced.
Regrouped(g, p, ms) ==
  /\ Called(g) /\ cloud[on[g]].pools[p] # None /\ cloud'[on[g]].pools[p] # None
  /\ cloud'[on[g]].lis = cloud[on[g]].lis
  /\ \A q \in Pool \ {p} : cloud'[on[g]].pools[q] = cloud[on[g]].pools[q]
  /\ cloud'[on[g]].pools[p][g] = ms
  /\ \A k \in Group \ {g} : cloud'[on[g]].pools[p][k] = cloud[on[g]].pools[p][k]

\* What replacing a group does to a load balancer.
LEMMA WithGroupEffect ==
  ASSUME NEW old \in Balancer, NEW p \in Pool, old.pools[p] # None, NEW g \in GLBC, NEW ms \in SUBSET Member
  PROVE  LET b == WithGroup(old, p, g, ms)
         IN /\ b \in Balancer /\ b.lis = old.lis /\ b.state = old.state /\ b.pools[p] # None
            /\ \A q \in Pool \ {p} : b.pools[q] = old.pools[q]
            /\ b.pools[p][g] = ms /\ \A k \in Group \ {g} : b.pools[p][k] = old.pools[p][k]
<1> DEFINE b == WithGroup(old, p, g, ms)
           gs == [old.pools[p] EXCEPT ![g] = ms]
<1>1. /\ b \in Balancer /\ gs \in Groups /\ b.pools = [old.pools EXCEPT ![p] = gs]
      /\ b.lis = old.lis /\ b.state = old.state
  BY WithGroupType
<1>2. gs[g] = ms /\ \A k \in Group \ {g} : gs[k] = old.pools[p][k]
  <2>1. old.pools[p] \in Groups
    BY DEF Balancer
  <2> QED
    BY <2>1, Nones DEF Groups
<1> HIDE DEF gs, b
<1>3. b.pools[p] = gs /\ \A q \in Pool \ {p} : b.pools[q] = old.pools[q]
  BY <1>1 DEF Balancer
<1>4. gs # None
  BY <1>1, Nones
<1> QED
  BY <1>1, <1>2, <1>3, <1>4 DEF b

LEMMA PatchEffect ==
  ASSUME IInv, NEW g \in GLBC, PatchMembers(g)
  PROVE  \/ UNCHANGED cloud
         \/ \E ms \in SUBSET Member : /\ task[g].spec.members \subseteq ms
                                      /\ Regrouped(g, task[g].spec.pool, ms)
<1> SUFFICES ASSUME ~UNCHANGED cloud
             PROVE  \E ms \in SUBSET Member : /\ task[g].spec.members \subseteq ms
                                              /\ Regrouped(g, task[g].spec.pool, ms)
  OBVIOUS
<1> DEFINE w == task[g].spec
           ms == Merge(g, seen[g])
           b == WithGroup(Lb(g), w.pool, g, ms)
<1>1. /\ pc[g] = "patch" /\ There(g) /\ PoolNow(g) # None /\ Call(on[g], b)
  BY DEF PatchMembers
<1>2. Lb(g) \in Balancer /\ on[g] \in LB /\ w.pool \in Pool /\ Lb(g) = cloud[on[g]]
  BY <1>1, ThereType, TaskType DEF Lb
<1>3. ms \in SUBSET Member /\ w.members \subseteq ms
  BY <1>1, MergeType DEF IInv, TypeOK
<1> HIDE DEF ms
<1>4. Lb(g).pools[w.pool] # None
  BY <1>1 DEF PoolNow
<1>5. /\ b \in Balancer /\ b.lis = Lb(g).lis /\ b.state = Lb(g).state /\ b.pools[w.pool] # None
      /\ \A q \in Pool \ {w.pool} : b.pools[q] = Lb(g).pools[q]
      /\ b.pools[w.pool][g] = ms /\ \A k \in Group \ {g} : b.pools[w.pool][k] = Lb(g).pools[w.pool][k]
  BY SMTT(20), <1>2, <1>3, <1>4, WithGroupEffect
<1> HIDE DEF b
<1>6. cloud'[on[g]] = b /\ \A x \in LB \ {on[g]} : cloud'[x] = cloud[x]
  BY <1>1, <1>2, <1>5, Parts, CallCloud
<1>7. Regrouped(g, w.pool, ms)
  BY <1>2, <1>4, <1>5, <1>6 DEF Regrouped, Called
<1> QED
  BY <1>3, <1>7

LEMMA TrimPoolEffect ==
  ASSUME IInv, NEW g \in GLBC, TrimPool(g)
  PROVE  victim[g] \in Pool /\ Regrouped(g, victim[g], {})
<1> DEFINE b == WithGroup(Lb(g), victim[g], g, {})
<1>1. /\ pc[g] = "trimPool" /\ There(g) /\ Lb(g).pools[victim[g]] # None /\ Call(on[g], b)
  BY DEF TrimPool
<1>2. Lb(g) \in Balancer /\ on[g] \in LB /\ Lb(g) = cloud[on[g]]
  BY <1>1, ThereType DEF Lb
<1>3. victim[g] \in Pool /\ {} \in SUBSET Member
  BY <1>1 DEF IInv, Run
<1>5. /\ b \in Balancer /\ b.lis = Lb(g).lis /\ b.state = Lb(g).state /\ b.pools[victim[g]] # None
      /\ \A q \in Pool \ {victim[g]} : b.pools[q] = Lb(g).pools[q]
      /\ b.pools[victim[g]][g] = {} /\ \A k \in Group \ {g} : b.pools[victim[g]][k] = Lb(g).pools[victim[g]][k]
  BY <1>1, <1>2, <1>3, WithGroupEffect
<1> HIDE DEF b
<1>6. cloud'[on[g]] = b /\ \A x \in LB \ {on[g]} : cloud'[x] = cloud[x]
  BY <1>1, <1>2, <1>5, Parts, CallCloud
<1> QED
  BY <1>1, <1>2, <1>3, <1>5, <1>6 DEF Regrouped, Called

LEMMA ListenerEffect ==
  ASSUME IInv, NEW g \in GLBC, DeployListener(g) \/ DeleteListener(g)
  PROVE  \/ UNCHANGED cloud
         \/ /\ Called(g) /\ cloud'[on[g]].pools = cloud[on[g]].pools
            /\ \/ pc[g] = "listeners" /\ cloud'[on[g]].lis = [cloud[on[g]].lis EXCEPT ![task[g].spec.port] = task[g].spec.pool]
               \/ pc[g] = "deleteListener" /\ cloud'[on[g]].lis = [cloud[on[g]].lis EXCEPT ![victim[g]] = None]
<1> DEFINE w == task[g].spec
<1>1. pc[g] \in {"listeners", "deleteListener"} /\ There(g)
  BY DEF DeployListener, DeleteListener
<1>2. Lb(g) \in Balancer /\ on[g] \in LB /\ w.pool \in Pool /\ w.port \in Port /\ Lb(g) = cloud[on[g]]
  BY <1>1, ThereType, TaskType DEF Lb
<1>3. CASE DeployListener(g) /\ ~UNCHANGED cloud
  <2> DEFINE b == WithListener(Lb(g), w.port, w.pool)
  <2>1. /\ b \in Balancer /\ b.pools = Lb(g).pools /\ b.state = Lb(g).state
        /\ b.lis = [Lb(g).lis EXCEPT ![w.port] = w.pool]
    BY <1>2, WithListenerType DEF WithListener
  <2>2. Call(on[g], b) /\ pc[g] = "listeners"
    BY <1>3 DEF DeployListener
  <2> HIDE DEF b
  <2>3. cloud'[on[g]] = b /\ \A x \in LB \ {on[g]} : cloud'[x] = cloud[x]
    BY <1>2, <2>1, <2>2, Parts, CallCloud
  <2> QED
    BY <1>2, <2>1, <2>2, <2>3 DEF Called
<1>4. CASE DeleteListener(g)
  <2> DEFINE b == WithoutListener(Lb(g), victim[g])
  <2>0. victim[g] \in Port
    BY <1>4 DEF DeleteListener, IInv, Run
  <2>1. /\ b \in Balancer /\ b.pools = Lb(g).pools /\ b.state = Lb(g).state
        /\ b.lis = [Lb(g).lis EXCEPT ![victim[g]] = None]
    BY SMTT(20), <1>2, <2>0, WithListenerType DEF WithoutListener
  <2>2. Call(on[g], b) /\ pc[g] = "deleteListener"
    BY <1>4 DEF DeleteListener
  <2> HIDE DEF b
  <2>3. cloud'[on[g]] = b /\ \A x \in LB \ {on[g]} : cloud'[x] = cloud[x]
    BY <1>2, <2>1, <2>2, Parts, CallCloud
  <2> QED
    BY <1>2, <2>1, <2>2, <2>3 DEF Called
<1> QED
  BY <1>3, <1>4

LEMMA DeletePoolEffect ==
  ASSUME IInv, NEW g \in GLBC, DeletePool(g)
  PROVE  /\ Called(g) /\ victim[g] \in Pool /\ cloud'[on[g]].pools = [cloud[on[g]].pools EXCEPT ![victim[g]] = None]
         /\ \A q \in Port : cloud'[on[g]].lis[q] = IF cloud[on[g]].lis[q] = victim[g] THEN None ELSE cloud[on[g]].lis[q]
<1> DEFINE b == WithoutPool(Lb(g), victim[g])
<1>1. /\ pc[g] = "deletePool" /\ There(g) /\ Call(on[g], b)
  BY DEF DeletePool
<1>2. Lb(g) \in Balancer /\ on[g] \in LB /\ Lb(g) = cloud[on[g]]
  BY <1>1, ThereType DEF Lb
<1>3. victim[g] \in Pool
  BY <1>1 DEF IInv, Run
<1>4. /\ b \in Balancer /\ b.pools = [Lb(g).pools EXCEPT ![victim[g]] = None] /\ b.state = Lb(g).state
      /\ b.lis = [q \in Port |-> IF Lb(g).lis[q] = victim[g] THEN None ELSE Lb(g).lis[q]]
  BY <1>2, <1>3, WithoutPoolType
<1> HIDE DEF b
<1>5. cloud'[on[g]] = b /\ \A x \in LB \ {on[g]} : cloud'[x] = cloud[x]
  BY <1>1, <1>2, <1>4, Parts, CallCloud
<1> QED
  BY <1>2, <1>3, <1>4, <1>5 DEF Called

-----------------------------------------------------------------------------
(* What a GLBC has on a load balancer is not taken away by the others. *)

\* Pool p, with members of j, and a listener on port q in front of it.
Serves(j, b, q, p) == b # None /\ b.lis[q] = p /\ b.pools[p] # None /\ b.pools[p][j] # {}

\* The next call of k is not one that takes port q or pool p of x away.
Harmless(k, x, q, p) ==
  on[k] = x =>
    /\ pc[k] = "listeners" /\ task[k].spec.port = q => task[k].spec.pool = p
    /\ pc[k] = "deleteListener" => victim[k] # q
    /\ pc[k] = "deletePool" => victim[k] # p
    /\ pc[k] # "deleteLb"

\* The steps of a reconcile that call the service.
Calls(g) ==
  \/ CreateLb(g) \/ CreatePool(g) \/ PatchMembers(g) \/ DeployListener(g) \/ DeleteListener(g)
  \/ DeletePool(g) \/ TrimPool(g) \/ DeleteLb(g)

LEMMA NoCall ==
  ASSUME NEW g \in GLBC, Reconcile(g) \/ Crash(g), ~Calls(g)
  PROVE  UNCHANGED <<cloud, fresh>>
BY DEF Calls, Reconcile, Crash, Begin, Ensure, Attach, FindByName, StatusAddLb, WaitLb, ClearStatus,
   StatusAddPool, ListMembers, StatusAddMembers, StatusAddListener,
   ReadListeners, ReadPools, Finish, NothingToDelete, ReadWhole, IsEmpty, NotFound

\* A step of k takes nothing of j's away, unless it is one of those.
LEMMA ServesKept ==
  ASSUME IInv, NEW k \in GLBC, Reconcile(k) \/ Crash(k), NEW j \in GLBC \ {k},
         NEW x \in LB, x \notin fresh, NEW q \in Port, NEW p \in Pool,
         Serves(j, cloud[x], q, p), Harmless(k, x, q, p)
  PROVE  /\ cloud'[x] # None /\ cloud'[x].lis[q] = p /\ cloud'[x].pools[p] # None
         /\ cloud'[x].pools[p][j] = cloud[x].pools[p][j] /\ cloud'[x].state = cloud[x].state
<1>0. /\ cloud[x] # None /\ cloud[x].lis[q] = p /\ cloud[x].pools[p] # None
      /\ j \in Group \ {k} /\ cloud[x] \in Balancer
  BY Nones DEF Serves, IInv, TypeOK
<1>1. CASE cloud'[x] = cloud[x]
  BY <1>0, <1>1
<1>2. CASE CreateLb(k)
  BY <1>1, <1>2, CreateLbType
<1>3. CASE CreatePool(k) /\ cloud'[x] # cloud[x]
  <2>1. /\ Called(k) /\ cloud[on[k]].pools[task[k].spec.pool] = None
        /\ cloud'[on[k]].lis = cloud[on[k]].lis
        /\ \A r \in Pool \ {task[k].spec.pool} : cloud'[on[k]].pools[r] = cloud[on[k]].pools[r]
    BY <1>3, CreatePoolEffect
  <2>2. x = on[k] /\ cloud'[x] # None
    BY <1>3, <2>1, Nones DEF Called
  <2> QED
    BY <1>0, <2>1, <2>2 DEF Called
<1>4. CASE (PatchMembers(k) \/ TrimPool(k)) /\ cloud'[x] # cloud[x]
  <2>1. PICK r, ms : Regrouped(k, r, ms)
    BY <1>4, PatchEffect, TrimPoolEffect
  <2>2. x = on[k] /\ cloud'[x] # None
    BY <1>4, <2>1, Nones DEF Regrouped, Called
  <2> QED
    BY <1>0, <2>1, <2>2 DEF Regrouped, Called
<1>5. CASE (DeployListener(k) \/ DeleteListener(k)) /\ cloud'[x] # cloud[x]
  <2>1. /\ Called(k) /\ cloud'[on[k]].pools = cloud[on[k]].pools
        /\ \/ pc[k] = "listeners" /\ cloud'[on[k]].lis = [cloud[on[k]].lis EXCEPT ![task[k].spec.port] = task[k].spec.pool]
           \/ pc[k] = "deleteListener" /\ cloud'[on[k]].lis = [cloud[on[k]].lis EXCEPT ![victim[k]] = None]
    BY <1>5, ListenerEffect
  <2>2. x = on[k] /\ cloud'[x] # None
    BY <1>5, <2>1, Nones DEF Called
  <2>3. cloud[x].lis \in [Port -> Pool \cup {None}]
    BY <1>0 DEF Balancer
  <2>4. cloud'[x].lis[q] = p
    BY <1>0, <2>1, <2>2, <2>3 DEF Harmless
  <2> QED
    BY <1>0, <2>1, <2>2, <2>4 DEF Called
<1>6. CASE DeletePool(k) /\ cloud'[x] # cloud[x]
  <2>1. /\ Called(k) /\ victim[k] \in Pool /\ cloud'[on[k]].pools = [cloud[on[k]].pools EXCEPT ![victim[k]] = None]
        /\ \A r \in Port : cloud'[on[k]].lis[r] = IF cloud[on[k]].lis[r] = victim[k] THEN None ELSE cloud[on[k]].lis[r]
    BY <1>6, DeletePoolEffect
  <2>2. x = on[k] /\ cloud'[x] # None /\ victim[k] # p
    BY <1>6, <2>1, Nones DEF Called, Harmless, DeletePool
  <2>3. cloud[x].pools \in [Pool -> Groups \cup {None}]
    BY <1>0 DEF Balancer
  <2>4. cloud'[x].pools[p] = cloud[x].pools[p]
    BY <2>1, <2>2, <2>3
  <2> QED
    BY <1>0, <2>1, <2>2, <2>4 DEF Called
<1>7. CASE DeleteLb(k)
  <2>1. x # on[k]
    BY <1>7 DEF DeleteLb, Harmless
  <2>2. on[k] \in LB /\ Call(on[k], None)
    BY <1>7, ThereType DEF DeleteLb
  <2>3. cloud'[x] = cloud[x]
    BY <2>1, <2>2, Parts, CallCloud
  <2> QED
    BY <1>1, <2>3
<1>8. CASE ~Calls(k)
  BY <1>1, <1>8, NoCall
<1> QED
  BY <1>1, <1>2, <1>3, <1>4, <1>5, <1>6, <1>7, <1>8 DEF Calls

\* Nothing of a GLBC but k is in the pool.
Others(k, b, p) == b.pools[p] # None => \A j \in GLBC \ {k} : b.pools[p][j] = {}

\* The next call of i makes no pool, points no listener to another pool, and
\* adds no first member to a group.
Settling(i) ==
  /\ pc[i] = "pools" => cloud[on[i]].pools[task[i].spec.pool] # None
  /\ pc[i] = "patch" => /\ cloud[on[i]].pools[task[i].spec.pool] # None
                        /\ cloud[on[i]].pools[task[i].spec.pool][i] # {}
  /\ pc[i] = "listeners" => cloud[on[i]].lis[task[i].spec.port] = task[i].spec.pool

\* Such a step brings no members into a pool that had none but k's, and leaves
\* every listener on its pool, or takes it away.
LEMMA OthersKept ==
  ASSUME IInv, NEW i \in GLBC, Reconcile(i) \/ Crash(i), NEW k \in GLBC,
         NEW x \in LB, x \notin fresh, cloud[x] # None, cloud'[x] # None,
         on[i] = x => Settling(i)
  PROVE  /\ \A p \in Pool : Others(k, cloud[x], p) => Others(k, cloud'[x], p)
         /\ \A q \in Port : cloud'[x].lis[q] \in {cloud[x].lis[q], None}
         /\ cloud'[x].state = cloud[x].state
<1>0. cloud[x] \in Balancer
  BY DEF IInv, TypeOK
<1>1. CASE cloud'[x] = cloud[x]
  BY <1>0, <1>1
<1>2. CASE CreateLb(i)
  BY <1>1, <1>2, CreateLbType
<1>3. CASE CreatePool(i) /\ cloud'[x] # cloud[x]
  <2>1. Called(i) /\ cloud[on[i]].pools[task[i].spec.pool] = None
    BY <1>3, CreatePoolEffect
  <2>2. x = on[i] /\ pc[i] = "pools"
    BY <1>3, <2>1 DEF Called, CreatePool
  <2> QED
    BY <2>1, <2>2 DEF Settling
<1>4. CASE (PatchMembers(i) \/ TrimPool(i)) /\ cloud'[x] # cloud[x]
  <2>1. \E r \in Pool : \E ms : Regrouped(i, r, ms) /\ (ms = {} \/ (pc[i] = "patch" /\ r = task[i].spec.pool))
    <3>1. CASE PatchMembers(i)
      <4>1. task[i].spec.pool \in Pool /\ pc[i] = "patch"
        BY <3>1, TaskType DEF PatchMembers
      <4> QED
        BY <1>4, <3>1, <4>1, PatchEffect
    <3>2. CASE TrimPool(i)
      BY <3>2, TrimPoolEffect
    <3> QED
      BY <1>4, <3>1, <3>2
  <2>r. PICK r \in Pool : \E ms : Regrouped(i, r, ms) /\ (ms = {} \/ (pc[i] = "patch" /\ r = task[i].spec.pool))
    BY <2>1
  <2>2. PICK ms : Regrouped(i, r, ms) /\ (ms = {} \/ (pc[i] = "patch" /\ r = task[i].spec.pool))
    BY <2>r
  <2>3. x = on[i]
    BY <1>4, <2>2 DEF Regrouped, Called
  <2>4. ms = {} \/ cloud[x].pools[r][i] # {}
    BY <2>2, <2>3 DEF Settling
  <2>5. /\ cloud[x].pools[r] # None /\ cloud'[x].pools[r] # None
        /\ cloud'[x].lis = cloud[x].lis /\ cloud'[x].state = cloud[x].state
        /\ \A p \in Pool \ {r} : cloud'[x].pools[p] = cloud[x].pools[p]
        /\ cloud'[x].pools[r][i] = ms
        /\ \A j \in Group \ {i} : cloud'[x].pools[r][j] = cloud[x].pools[r][j]
    BY <2>2, <2>3 DEF Regrouped, Called
  <2>6. Others(k, cloud[x], r) => Others(k, cloud'[x], r)
    BY <2>4, <2>5, Nones DEF Others
  <2>7. \A p \in Pool \ {r} : Others(k, cloud[x], p) => Others(k, cloud'[x], p)
    BY <2>5 DEF Others
  <2> QED
    BY <2>5, <2>6, <2>7
<1>5. CASE (DeployListener(i) \/ DeleteListener(i)) /\ cloud'[x] # cloud[x]
  <2>1. /\ Called(i) /\ cloud'[on[i]].pools = cloud[on[i]].pools
        /\ \/ pc[i] = "listeners" /\ cloud'[on[i]].lis = [cloud[on[i]].lis EXCEPT ![task[i].spec.port] = task[i].spec.pool]
           \/ pc[i] = "deleteListener" /\ cloud'[on[i]].lis = [cloud[on[i]].lis EXCEPT ![victim[i]] = None]
    BY <1>5, ListenerEffect
  <2>2. x = on[i]
    BY <1>5, <2>1 DEF Called
  <2>3. cloud[x].lis \in [Port -> Pool \cup {None}]
    BY <1>0 DEF Balancer
  <2>4. \A q \in Port : cloud'[x].lis[q] \in {cloud[x].lis[q], None}
    BY <2>1, <2>2, <2>3 DEF Settling
  <2>5. \A p \in Pool : Others(k, cloud[x], p) => Others(k, cloud'[x], p)
    BY <2>1, <2>2 DEF Others
  <2> QED
    BY <2>1, <2>2, <2>4, <2>5 DEF Called
<1>6. CASE DeletePool(i) /\ cloud'[x] # cloud[x]
  <2>1. /\ Called(i) /\ victim[i] \in Pool /\ cloud'[on[i]].pools = [cloud[on[i]].pools EXCEPT ![victim[i]] = None]
        /\ \A r \in Port : cloud'[on[i]].lis[r] = IF cloud[on[i]].lis[r] = victim[i] THEN None ELSE cloud[on[i]].lis[r]
    BY <1>6, DeletePoolEffect
  <2>2. x = on[i]
    BY <1>6, <2>1 DEF Called
  <2>3. cloud[x].pools \in [Pool -> Groups \cup {None}]
    BY <1>0 DEF Balancer
  <2>4. \A p \in Pool : cloud'[x].pools[p] \in {cloud[x].pools[p], None}
    BY <2>1, <2>2, <2>3
  <2>5. \A p \in Pool : Others(k, cloud[x], p) => Others(k, cloud'[x], p)
    BY <2>4 DEF Others
  <2> QED
    BY <2>1, <2>2, <2>5 DEF Called
<1>7. CASE DeleteLb(i)
  <2>2. on[i] \in LB /\ Call(on[i], None)
    BY <1>7, ThereType DEF DeleteLb
  <2>3. cloud'[x] = cloud[x]
    BY <2>2, Parts, CallCloud
  <2> QED
    BY <1>1, <2>3
<1>8. CASE ~Calls(i)
  BY <1>1, <1>8, NoCall
<1> QED
  BY <1>1, <1>2, <1>3, <1>4, <1>5, <1>6, <1>7, <1>8 DEF Calls

\* On the portal: a load balancer comes up or fails, and the user adds a member.
LEMMA PortalKept ==
  ASSUME IInv, \/ \E y \in LB : Provision(y)
               \/ \E y \in LB, r \in Pool, i \in GLBC, m \in Hand : AddByHand(y, r, i, m),
         NEW x \in LB
  PROVE  /\ cloud[x] = None <=> cloud'[x] = None
         /\ cloud[x] # None =>
              /\ cloud'[x].lis = cloud[x].lis
              /\ cloud[x].state # "BUILD" => cloud'[x].state = cloud[x].state
              /\ cloud'[x].state = "BUILD" => cloud[x].state = "BUILD"
              /\ \A p \in Pool : /\ cloud[x].pools[p] # None => /\ cloud'[x].pools[p] # None
                                                                /\ \A j \in GLBC : cloud[x].pools[p][j] \subseteq cloud'[x].pools[p][j]
                                 /\ \A k \in GLBC : Others(k, cloud[x], p) => Others(k, cloud'[x], p)
<1>1. CASE \E y \in LB : Provision(y)
  <2>1. PICK y \in LB : Provision(y)
    BY <1>1
  <2>2. PICK s \in {"BUILD", "ACTIVE", "ERROR"} : Call(y, [cloud[y] EXCEPT !.state = s]) /\ s # "BUILD"
    BY <2>1 DEF Provision
  <2>3. cloud[y] \in Balancer /\ cloud[y] # None /\ cloud[y].state = "BUILD"
    BY <2>1 DEF Provision, IInv, TypeOK
  <2> DEFINE b == [cloud[y] EXCEPT !.state = s]
  <2>4. b \in Balancer /\ b.pools = cloud[y].pools /\ b.lis = cloud[y].lis /\ b.state = s
    BY <2>3, WithStateType
  <2> HIDE DEF b
  <2>5. cloud'[y] = b /\ \A z \in LB \ {y} : cloud'[z] = cloud[z]
    BY <2>2, <2>4, Parts, CallCloud DEF b
  <2>6. b # None
    BY <2>4, Nones
  <2> QED
    BY <2>2, <2>3, <2>4, <2>5, <2>6 DEF Others
<1>2. CASE \E y \in LB, r \in Pool, i \in GLBC, m \in Hand : AddByHand(y, r, i, m)
  <2>1. PICK y \in LB, r \in Pool, i \in GLBC, m \in Hand : AddByHand(y, r, i, m)
    BY <1>2
  <2> DEFINE ms == cloud[y].pools[r][i] \cup {m}
             b == WithGroup(cloud[y], r, i, ms)
  <2>2. /\ cloud[y] # None /\ cloud[y].pools[r] # None /\ cloud[y].pools[r][i] # {} /\ Call(y, b)
    BY <2>1 DEF AddByHand
  <2>3. cloud[y] \in Balancer
    BY <2>2 DEF IInv, TypeOK
  <2>4. cloud[y].pools[r] \in Groups
    BY <2>2, <2>3 DEF Balancer
  <2>5. ms \in SUBSET Member /\ cloud[y].pools[r][i] \subseteq ms
    BY <2>4, GlobalAssumption DEF Groups, Group
  <2> HIDE DEF ms
  <2>6. /\ b \in Balancer /\ b.lis = cloud[y].lis /\ b.state = cloud[y].state /\ b.pools[r] # None
        /\ \A q \in Pool \ {r} : b.pools[q] = cloud[y].pools[q]
        /\ b.pools[r][i] = ms /\ \A k \in Group \ {i} : b.pools[r][k] = cloud[y].pools[r][k]
    BY <2>2, <2>3, <2>5, WithGroupEffect
  <2> HIDE DEF b
  <2>7. cloud'[y] = b /\ (\A z \in LB \ {y} : cloud'[z] = cloud[z]) /\ b # None
    BY <2>2, <2>6, Parts, CallCloud, Nones
  <2>8. CASE x # y
    BY <2>7, <2>8 DEF Others
  <2>9. CASE x = y
    <3>1. /\ cloud'[x] # None /\ cloud'[x].lis = cloud[x].lis /\ cloud'[x].state = cloud[x].state
      BY <2>6, <2>7, <2>9
    <3>2. ASSUME NEW p \in Pool
          PROVE  /\ cloud[x].pools[p] # None => /\ cloud'[x].pools[p] # None
                                                /\ \A j \in GLBC : cloud[x].pools[p][j] \subseteq cloud'[x].pools[p][j]
                 /\ \A k \in GLBC : Others(k, cloud[x], p) => Others(k, cloud'[x], p)
      <4>1. CASE p # r
        BY <2>6, <2>7, <2>9, <4>1 DEF Others
      <4>2. CASE p = r
        BY <2>2, <2>5, <2>6, <2>7, <2>9, <4>2, Nones DEF Others
      <4> QED
        BY <4>1, <4>2
    <3> QED
      BY <2>2, <2>9, <3>1, <3>2
  <2> QED
    BY <2>8, <2>9
<1> QED
  BY <1>1, <1>2

-----------------------------------------------------------------------------
(* What each reconcile knows, and the mutexes. *)

\* The pass has created the load balancer it works on, and holds no mutex.
Creating(g) == pc[g] # "idle" /\ on[g] # task[g].st.lb

\* The steps of a teardown.
Takes == {"redundantListeners", "deleteListener", "redundantPools", "deletePool", "trimPool",
          "clear", "attach", "delete", "isEmpty", "deleteLb"}

\* Without a load balancer nothing is recorded; a pass that deploys to one it
\* has not created holds its mutex; one that has created it deletes nothing
\* but, when it failed, the load balancer.
Book(g) ==
  /\ spec[g] \in Wanted[g] /\ (pc[g] # "idle" => task[g].spec \in Wanted[g])
  /\ st[g].lb = None => st[g].lis = {} /\ st[g].pools = NoPools
  /\ pc[g] \in {"find", "recordLb", "wait"} => st[g].lis = {} /\ st[g].pools = NoPools
  /\ mode[g] = "deploy" /\ pc[g] \notin {"idle", "find", "recordLb", "attach", "deleteLb"} => st[g].lb # None
  /\ pc[g] # "idle" /\ task[g].st.lb = None => task[g].st.lis = {} /\ task[g].st.pools = NoPools
  /\ mode[g] # "deploy" => pc[g] \in Takes
  /\ mode[g] = "deploy" => pc[g] \notin {"clear", "delete", "isEmpty"}
  /\ pc[g] \in {"ensure", "attach", "find"} => ~Creating(g)
  /\ pc[g] = "find" => on[g] = None
  /\ pc[g] \in {"recordLb", "wait"} => Creating(g)
  /\ pc[g] = "deleteLb" /\ mode[g] = "deploy" => Creating(g)
  /\ Creating(g) => /\ mode[g] = "deploy" /\ task[g].st.lb = None /\ on[g] # None
                    /\ pc[g] \notin {"deleteListener", "deletePool", "trimPool"}
  /\ pc[g] # "idle" /\ mode[g] = "deploy" /\ ~Creating(g) /\ on[g] # None => lock[on[g]] = g

LEMMA BookFrame ==
  ASSUME NEW j \in GLBC, Book(j), Untouched(j), on[j] \in LB \cup {None}
  PROVE  Book(j)' /\ (Creating(j)' <=> Creating(j))
<1>1. Creating(j)' <=> Creating(j)
  BY DEF Untouched, Creating
<1>2. on[j] # None => (lock'[on[j]] = j <=> lock[on[j]] = j)
  BY DEF Untouched
<1> QED
  BY <1>1, <1>2 DEF Untouched, Book, Takes

\* A pass ends.
LEMMA ReturnBook ==
  ASSUME IInv, NEW g \in GLBC, Book(g), Return(g), spec' = spec, st'[g] = st[g] \/ st'[g].lb # None
  PROVE  Book(g)'
<1>1. pc'[g] = "idle" /\ mode'[g] = "deploy" /\ on'[g] = None
  BY Parts, ReturnRun
<1> QED
  BY <1>1 DEF Book, Creating

\* A pass goes on, with nothing new recorded.
LEMMA MoveBook ==
  ASSUME IInv, NEW g \in GLBC, Book(g), pc[g] # "idle", UNCHANGED work, spec' = spec,
         st'[g].lb = st[g].lb,
         NEW step \in PC \ {"idle", "ensure", "find", "recordLb", "wait"}, pc'[g] = step,
         step \in {"deleteListener", "deletePool", "trimPool", "attach"} => ~Creating(g),
         mode[g] # "deploy" => step \in Takes,
         st[g].lb = None => st'[g].lis = st[g].lis /\ st'[g].pools = st[g].pools,
         mode[g] = "deploy" => /\ pc[g] \notin {"find", "recordLb", "attach", "deleteLb"}
                               /\ step \notin {"clear", "delete", "isEmpty", "deleteLb"}
  PROVE  Book(g)' /\ (Creating(g)' <=> Creating(g))
<1>1. mode' = mode /\ task' = task /\ on' = on /\ lock' = lock
  BY DEF work
<1>2. Creating(g)' <=> Creating(g)
  BY <1>1 DEF Creating
<1> QED
  BY <1>1, <1>2 DEF Book

LEMMA BeginBook ==
  ASSUME IInv, NEW g \in GLBC, Book(g), Begin(g)
  PROVE  Book(g)' /\ ~Creating(g)' /\ on'[g] = st[g].lb /\ st' = st
         /\ pc'[g] \notin {"deletePool", "deleteListener", "deleteLb"}
<1> DEFINE s == st[g]
           x == LockOf(g)
           leaving == phase[g] = "deleting"
           moving == s.lb # None /\ spec[g].pin \notin {None, s.lb}
           m == IF leaving THEN "delete" ELSE IF moving THEN "migrate" ELSE "deploy"
           step == IF leaving THEN "delete"
                   ELSE IF moving THEN IF cloud[s.lb] # None THEN "redundantListeners" ELSE "attach"
                   ELSE IF s.lb # None THEN "ensure"
                   ELSE IF spec[g].pin # None THEN "attach" ELSE "find"
           t == [spec |-> spec[g], st |-> s]
<1>1. CloudOK /\ StatusOK /\ RunOK /\ HistoryOK
  BY Parts
<1>2. /\ task' = [task EXCEPT ![g] = t] /\ mode' = [mode EXCEPT ![g] = m]
      /\ on' = [on EXCEPT ![g] = s.lb] /\ pc' = [pc EXCEPT ![g] = step]
      /\ (x = None /\ UNCHANGED lock) \/ (x # None /\ lock' = [lock EXCEPT ![x] = g])
      /\ UNCHANGED <<spec, st>>
  BY DEF Begin, Goto, status
<1>3. s.lb \in LB \cup {None} /\ spec[g].pin \in LB \cup {None}
  BY <1>1 DEF StatusOK, Status, Want
<1>4. t.spec = spec[g] /\ t.st = s
  OBVIOUS
<1>5. /\ x \in LB \cup {None}
      /\ m = "deploy" /\ s.lb # None => x = s.lb
  BY <1>3 DEF LockOf
<1>6. /\ m # "deploy" => step \in Takes
      /\ step \in {"delete", "redundantListeners", "attach", "ensure", "find"}
      /\ m = "deploy" => step \in {"ensure", "attach", "find"} /\ (step = "ensure" => s.lb # None)
      /\ step = "find" => s.lb = None
  BY DEF Takes
<1>7. task'[g] = t /\ mode'[g] = m /\ on'[g] = s.lb /\ pc'[g] = step
  BY <1>1, <1>2 DEF RunOK
<1>8. m = "deploy" /\ s.lb # None => lock'[s.lb] = g
  BY <1>1, <1>2, <1>3, <1>5 DEF RunOK
<1> HIDE DEF x, m, step, t, leaving, moving
<1>9. ~Creating(g)'
  BY <1>4, <1>7 DEF Creating
<1>10. s.lb = None => s.lis = {} /\ s.pools = NoPools
  BY DEF Book
<1>11. spec[g] \in Wanted[g]
  BY DEF Book
<1>12. task'[g].spec = spec[g] /\ task'[g].st = s /\ st'[g] = s /\ spec'[g] = spec[g]
  BY <1>2, <1>4, <1>7
<1> HIDE DEF s
<1>13. Book(g)'
  BY <1>6, <1>7, <1>8, <1>9, <1>10, <1>11, <1>12 DEF Book
<1> QED
  BY <1>2, <1>6, <1>7, <1>9, <1>13 DEF s

LEMMA ReturnStepBook ==
  ASSUME IInv, NEW g \in GLBC, Book(g),
         \/ Ensure(g) /\ ~Active(on[g])
         \/ Attach(g) \/ FindByName(g) \/ NothingToDelete(g) \/ NotFound(g) \/ Crash(g) \/ Finish(g)
         \/ IsEmpty(g) /\ Gone(g)
         \/ DeleteLb(g)
  PROVE  /\ Return(g) /\ Book(g)'
         /\ st'[g].lb = st[g].lb \/ (st'[g].lb \in LB /\ Active(st'[g].lb))
<1>1. Return(g)
  BY DEF Ensure, Attach, FindByName, NothingToDelete, NotFound, Crash, Finish, Gone, DeleteLb
<1>2. spec' = spec
  BY DEF Ensure, Attach, FindByName, NothingToDelete, NotFound, Crash, Finish, IsEmpty, DeleteLb, status
<1>3. StatusOK
  BY Parts
<1>4. CASE Attach(g) /\ st' # st
  <2>1. pc[g] = "attach" /\ Active(task[g].spec.pin) /\ SetLb(g, task[g].spec.pin)
    BY <1>4 DEF Attach
  <2>2. task[g].spec.pin \in LB
    BY <2>1 DEF IInv, Run
  <2>3. st'[g].lb = task[g].spec.pin
    BY <1>3, <2>1, <2>2, StatusType
  <2>4. st'[g].lb # None
    BY <2>2, <2>3, Nones
  <2> QED
    BY <1>1, <1>2, <2>1, <2>2, <2>3, <2>4, ReturnBook
<1>5. CASE FindByName(g) /\ st' # st
  <2>1. PICK x \in LB : Active(x) /\ SetLb(g, x)
    BY <1>5 DEF FindByName, Named
  <2>2. st'[g].lb = x /\ x # None
    BY <1>3, <2>1, StatusType, Nones
  <2> QED
    BY <1>1, <1>2, <2>1, <2>2, ReturnBook
<1>6. CASE Finish(g)
  <2> DEFINE ls == {task[g].spec.port}
             ps == [p \in Pool |-> IF p = task[g].spec.pool THEN seen[g] ELSE None]
  <2>1. st' = [st EXCEPT ![g].lis = ls, ![g].pools = ps] /\ pc[g] = "finish"
    BY <1>6 DEF Finish
  <2>2. st'[g].lb = st[g].lb
    BY <1>3, <2>1 DEF StatusOK, Status
  <2>3. st[g].lb # None
    BY <2>1 DEF Book, Takes
  <2> QED
    BY <1>1, <1>2, <2>2, <2>3, ReturnBook
<1>7. CASE st' = st
  BY <1>1, <1>2, <1>7, ReturnBook
<1> QED
  BY <1>4, <1>5, <1>6, <1>7 DEF Ensure, NothingToDelete, NotFound, Crash, IsEmpty, DeleteLb, status

\* The steps that go on and record no load balancer.
LEMMA MoveStepBook ==
  ASSUME IInv, NEW g \in GLBC, Book(g),
         \/ Ensure(g) /\ Active(on[g])
         \/ ClearStatus(g) \/ StatusAddPool(g) \/ ListMembers(g)
         \/ StatusAddMembers(g) \/ StatusAddListener(g) \/ ReadListeners(g) \/ ReadPools(g) \/ ReadWhole(g)
         \/ IsEmpty(g) /\ Goto(g, "deleteLb") /\ UNCHANGED <<phase, mode, task, on, seen, victim, lock>>
         \/ CreatePool(g) \/ PatchMembers(g) \/ DeployListener(g) \/ DeleteListener(g)
         \/ DeletePool(g) \/ TrimPool(g)
  PROVE  Book(g)' /\ (Creating(g)' <=> Creating(g)) /\ on' = on /\ task' = task /\ st'[g].lb = st[g].lb
<1>1. StatusOK /\ RunOK
  BY Parts
<1>2. UNCHANGED work /\ spec' = spec
  BY DEF Ensure, ClearStatus, StatusAddPool, ListMembers, StatusAddMembers, StatusAddListener, ReadListeners,
     ReadPools, ReadWhole, IsEmpty, CreatePool, PatchMembers, DeployListener, DeleteListener, DeletePool, TrimPool,
     work, status
<1>3. on' = on /\ task' = task
  BY <1>2 DEF work
<1>4. st'[g].lb = st[g].lb
  <2>1. CASE ClearStatus(g)
    BY <1>1, <2>1 DEF ClearStatus, StatusOK, Status
  <2>2. CASE StatusAddListener(g) \/ StatusAddPool(g) \/ StatusAddMembers(g)
    BY <1>1, <2>2 DEF StatusAddListener, StatusAddPool, StatusAddMembers, StatusPool, StatusOK, Status
  <2>3. CASE UNCHANGED st
    BY <2>3
  <2> QED
    BY <2>1, <2>2, <2>3 DEF Ensure, ListMembers, ReadListeners,
       ReadPools, ReadWhole, IsEmpty, CreatePool, PatchMembers, DeployListener, DeleteListener, DeletePool, TrimPool,
       status
<1>5. CASE \/ Ensure(g) /\ Active(on[g])
           \/ ListMembers(g) \/ CreatePool(g) \/ PatchMembers(g) \/ DeployListener(g)
  <2>1. /\ pc[g] \in {"ensure", "members", "relist", "pools", "patch", "listeners"} /\ UNCHANGED st
        /\ \E step \in {"pools", "patch", "recordMembers", "members", "recordPool", "relist",
                        "redundantListeners", "recordListener"} : Goto(g, step)
    BY <1>5 DEF Ensure, ListMembers, CreatePool, PatchMembers, DeployListener, status
  <2>2. PICK step \in {"pools", "patch", "recordMembers", "members", "recordPool", "relist",
                        "redundantListeners", "recordListener"} : Goto(g, step)
    BY <2>1
  <2>3. pc'[g] = step /\ step \in PC \ {"idle", "ensure", "find", "recordLb", "wait"}
    BY <1>1, <2>2 DEF Goto, RunOK, PC
  <2>4. mode[g] = "deploy"
    BY <2>1 DEF Book, Takes
  <2> QED
    BY <1>2, <1>3, <1>4, <2>1, <2>2, <2>3, <2>4, MoveBook
<1>6. CASE StatusAddPool(g) \/ StatusAddMembers(g) \/ StatusAddListener(g)
  <2>1. /\ pc[g] \in {"recordPool", "recordMembers", "recordListener"}
        /\ \E step \in {"members", "listeners", "redundantListeners"} : Goto(g, step)
    BY <1>6 DEF StatusAddPool, StatusAddMembers, StatusAddListener
  <2>2. PICK step \in {"members", "listeners", "redundantListeners"} : Goto(g, step)
    BY <2>1
  <2>3. pc'[g] = step /\ step \in PC \ {"idle", "ensure", "find", "recordLb", "wait"}
    BY <1>1, <2>2 DEF Goto, RunOK, PC
  <2>4. mode[g] = "deploy" /\ st[g].lb # None
    BY <2>1 DEF Book, Takes
  <2> QED
    BY <1>2, <1>3, <1>4, <2>1, <2>2, <2>3, <2>4, MoveBook
<1>7. CASE ClearStatus(g)
  <2>1. pc[g] = "clear" /\ Goto(g, "attach") /\ st' = [st EXCEPT ![g].lis = {}, ![g].pools = NoPools]
    BY <1>7 DEF ClearStatus
  <2>2. pc'[g] = "attach" /\ "attach" \in PC \ {"idle", "ensure", "find", "recordLb", "wait"}
    BY <1>1, <2>1 DEF Goto, RunOK, PC
  <2>3. mode[g] # "deploy" /\ ~Creating(g)
    BY <2>1 DEF Book
  <2>4. st[g].lb = None => st'[g].lis = st[g].lis /\ st'[g].pools = st[g].pools
    <3>1. st[g] \in Status /\ st \in [GLBC -> Status]
      BY <1>1 DEF StatusOK
    <3>2. st'[g].lis = {} /\ st'[g].pools = NoPools
      BY <2>1, <3>1 DEF Status
    <3> QED
      BY <3>2 DEF Book
  <2> QED
    BY <1>2, <1>3, <1>4, <2>1, <2>2, <2>3, <2>4, MoveBook DEF Takes
<1>8. CASE ReadListeners(g)
  <2>1. /\ pc[g] = "redundantListeners" /\ UNCHANGED st
        /\ \E step \in {"redundantPools", "deleteListener"} : Goto(g, step) /\ (step = "deleteListener" => task[g].st.lis # {})
    BY <1>8 DEF ReadListeners, status
  <2>2. PICK step \in {"redundantPools", "deleteListener"} : Goto(g, step) /\ (step = "deleteListener" => task[g].st.lis # {})
    BY <2>1
  <2>3. pc'[g] = step /\ step \in (PC \ {"idle", "ensure", "find", "recordLb", "wait"}) \cap Takes
    BY <1>1, <2>2 DEF Goto, RunOK, PC, Takes
  <2>4. step = "deleteListener" => ~Creating(g)
    BY <2>1, <2>2 DEF Book
  <2> QED
    BY <1>2, <1>3, <1>4, <2>1, <2>2, <2>3, <2>4, MoveBook
<1>9. CASE ReadPools(g)
  <2>1. /\ pc[g] = "redundantPools" /\ UNCHANGED st
        /\ \/ Goto(g, AfterPools(g))
           \/ \E step \in {"deletePool", "trimPool"} : Goto(g, step) /\ \E p \in Pool : Recorded(g, p) # None
    BY <1>9 DEF ReadPools, status, Deletable, Trimmable
  <2>2. CASE Goto(g, AfterPools(g))
    <3>1. /\ AfterPools(g) \in {"finish", "clear", "isEmpty"} /\ (mode[g] # "deploy" <=> AfterPools(g) # "finish")
      BY <1>1 DEF AfterPools, RunOK
    <3>2. pc'[g] = AfterPools(g) /\ AfterPools(g) \in PC \ {"idle", "ensure", "find", "recordLb", "wait"}
      BY <1>1, <2>2, <3>1 DEF Goto, RunOK, PC
    <3>3. mode[g] # "deploy" => AfterPools(g) \in Takes
      BY <3>1 DEF Takes
    <3> QED
      BY <1>2, <1>3, <1>4, <2>1, <3>1, <3>2, <3>3, MoveBook
  <2>3. CASE \E step \in {"deletePool", "trimPool"} : Goto(g, step) /\ \E p \in Pool : Recorded(g, p) # None
    <3>1. PICK step \in {"deletePool", "trimPool"} : Goto(g, step) /\ \E p \in Pool : Recorded(g, p) # None
      BY <2>3
    <3>2. pc'[g] = step /\ step \in (PC \ {"idle", "ensure", "find", "recordLb", "wait"}) \cap Takes
      BY <1>1, <3>1 DEF Goto, RunOK, PC, Takes
    <3>3. ~Creating(g)
      BY <2>1, <3>1 DEF Book, Recorded, NoPools
    <3> QED
      BY <1>2, <1>3, <1>4, <2>1, <3>2, <3>3, MoveBook
  <2> QED
    BY <2>1, <2>2, <2>3
<1>10. CASE ReadWhole(g) \/ (IsEmpty(g) /\ Goto(g, "deleteLb") /\ UNCHANGED <<phase, mode, task, on, seen, victim, lock>>)
  <2>1. /\ pc[g] \in {"delete", "isEmpty"} /\ UNCHANGED st
        /\ \E step \in {"deleteLb", "redundantListeners"} : Goto(g, step)
    BY <1>10 DEF ReadWhole, IsEmpty, status
  <2>2. PICK step \in {"deleteLb", "redundantListeners"} : Goto(g, step)
    BY <2>1
  <2>3. pc'[g] = step /\ step \in (PC \ {"idle", "ensure", "find", "recordLb", "wait"}) \cap Takes
    BY <1>1, <2>2 DEF Goto, RunOK, PC, Takes
  <2>4. mode[g] # "deploy"
    BY <2>1 DEF Book
  <2> QED
    BY <1>2, <1>3, <1>4, <2>1, <2>2, <2>3, <2>4, MoveBook
<1>11. CASE DeleteListener(g) \/ DeletePool(g) \/ TrimPool(g)
  <2>1. /\ pc[g] \in {"deleteListener", "deletePool", "trimPool"} /\ UNCHANGED st
        /\ \E step \in {"redundantPools", "redundantListeners"} : Goto(g, step)
    BY <1>11 DEF DeleteListener, DeletePool, TrimPool, status
  <2>2. PICK step \in {"redundantPools", "redundantListeners"} : Goto(g, step)
    BY <2>1
  <2>3. pc'[g] = step /\ step \in (PC \ {"idle", "ensure", "find", "recordLb", "wait"}) \cap Takes
    BY <1>1, <2>2 DEF Goto, RunOK, PC, Takes
  <2> QED
    BY <1>2, <1>3, <1>4, <2>1, <2>2, <2>3, MoveBook
<1> QED
  BY <1>5, <1>6, <1>7, <1>8, <1>9, <1>10, <1>11

\* The creation of a load balancer, and the record of it.
LEMMA CreateBook ==
  ASSUME IInv, NEW g \in GLBC, Book(g), CreateLb(g)
  PROVE  Book(g)' /\ Creating(g)' /\ st' = st /\ \E x \in fresh : on'[g] = x
<1>1. PICK x \in fresh : on'[g] = x
  BY CreateLbType
<1>2. pc'[g] = "recordLb" /\ UNCHANGED <<mode, task, lock>> /\ pc[g] = "find" /\ UNCHANGED <<spec, st>>
  BY CreateLbType DEF CreateLb, status
<1>3. x \in LB /\ x # None
  BY Nones DEF IInv, TypeOK
<1>4. on[g] = None /\ ~Creating(g)
  BY <1>2 DEF Book
<1>5. task[g].st.lb = None
  BY <1>2, <1>4 DEF Creating
<1>6. Creating(g)'
  BY <1>1, <1>2, <1>3, <1>5 DEF Creating
<1>7. mode[g] = "deploy"
  BY <1>2 DEF Book, Takes
<1>8. Book(g)'
  BY <1>1, <1>2, <1>3, <1>5, <1>6, <1>7 DEF Book
<1> QED
  BY <1>1, <1>2, <1>6, <1>8

LEMMA RecordBook ==
  ASSUME IInv, NEW g \in GLBC, Book(g), StatusAddLb(g) \/ WaitLb(g)
  PROVE  /\ Book(g)' /\ Creating(g)' /\ Creating(g) /\ on' = on /\ task' = task
         /\ st'[g].lb \in {st[g].lb, on[g], None}
<1>1. StatusOK /\ RunOK
  BY Parts
<1>2. UNCHANGED work /\ spec' = spec /\ pc[g] \in {"recordLb", "wait"}
  BY DEF StatusAddLb, WaitLb
<1>3. mode' = mode /\ on' = on /\ task' = task /\ lock' = lock
  BY <1>2 DEF work
<1>4. Creating(g) /\ mode[g] = "deploy" /\ on[g] \in LB /\ on[g] # None
  BY <1>2, Nones DEF Book, IInv, Run
<1>5. \E step \in {"wait", "pools", "deleteLb"} :
         /\ Goto(g, step)
         /\ step = "wait" => SetLb(g, on[g])
         /\ step = "pools" => UNCHANGED st /\ pc[g] = "wait"
         /\ step = "deleteLb" => SetLb(g, None)
  BY DEF StatusAddLb, WaitLb
<1>6. PICK step \in {"wait", "pools", "deleteLb"} :
         /\ Goto(g, step)
         /\ step = "wait" => SetLb(g, on[g])
         /\ step = "pools" => UNCHANGED st /\ pc[g] = "wait"
         /\ step = "deleteLb" => SetLb(g, None)
  BY <1>5
<1>7. pc'[g] = step
  BY <1>1, <1>6 DEF Goto, RunOK
<1>8. /\ st'[g].lis = st[g].lis /\ st'[g].pools = st[g].pools
      /\ step = "wait" => st'[g].lb = on[g]
      /\ step = "pools" => st'[g].lb = st[g].lb /\ pc[g] = "wait"
      /\ step = "deleteLb" => st'[g].lb = None
  BY <1>1, <1>4, <1>6, StatusType
<1>9. Creating(g)'
  BY <1>3, <1>4, <1>7 DEF Creating
<1>10. Book(g)'
  BY <1>2, <1>3, <1>4, <1>7, <1>8, <1>9 DEF Book
<1> QED
  BY <1>3, <1>4, <1>8, <1>9, <1>10

\* What a step has decided to delete, it has decided on the cloud as it is now.
Decides(g) ==
  /\ pc'[g] = "deletePool" =>
       /\ victim'[g] \in Pool /\ cloud[on[g]].pools[victim'[g]] # None
       /\ Others(g, cloud[on[g]], victim'[g])
  /\ pc'[g] = "deleteListener" =>
       /\ cloud[on[g]].lis[victim'[g]] # None
       /\ Others(g, cloud[on[g]], cloud[on[g]].lis[victim'[g]])
  /\ pc'[g] = "deleteLb" =>
       \/ Creating(g) /\ cloud[on[g]].state = "ERROR"
       \/ ~Creating(g) /\ \A p \in Pool : Others(g, cloud[on[g]], p)
  /\ pc'[g] \in {"deletePool", "deleteListener", "deleteLb"} =>
       UNCHANGED <<cloud, on, mode, lock>> /\ on[g] \in LB /\ cloud[on[g]] # None

LEMMA StepDecides ==
  ASSUME IInv, NEW g \in GLBC, Book(g), Reconcile(g) \/ Crash(g)
  PROVE  Decides(g)
<1>0. pc \in [GLBC -> PC] /\ victim \in [GLBC -> Port \cup Pool \cup {None}]
  BY DEF IInv, TypeOK
<1>1. CASE Return(g)
  <2>1. pc'[g] = "idle"
    BY <1>1, Parts, ReturnRun
  <2> QED
    BY <2>1 DEF Decides
<1>2. CASE Begin(g)
  BY <1>2, BeginBook DEF Decides
<1>3. CASE ReadPools(g)
  <2>1. on[g] \in LB /\ cloud[on[g]] # None /\ UNCHANGED <<cloud, on, mode, lock>> /\ Lb(g) = cloud[on[g]]
    BY <1>3, ThereType, Nones DEF ReadPools, There, work, Lb
  <2>2. CASE \E p \in Deletable(g, Lb(g)) : victim' = [victim EXCEPT ![g] = p] /\ Goto(g, "deletePool")
    <3>1. PICK p \in Deletable(g, Lb(g)) : victim' = [victim EXCEPT ![g] = p] /\ Goto(g, "deletePool")
      BY <2>2
    <3>2. victim'[g] = p /\ pc'[g] = "deletePool"
      BY <1>0, <3>1 DEF Goto
    <3>3. p \in Pool /\ Lb(g).pools[p] # None /\ Others(g, Lb(g), p)
      BY Nones DEF Deletable, Alone, Others
    <3> QED
      BY <2>1, <3>2, <3>3 DEF Decides
  <2>3. CASE Goto(g, AfterPools(g)) \/ Goto(g, "trimPool")
    <3>1. AfterPools(g) \in {"finish", "clear", "isEmpty"}
      BY DEF IInv, TypeOK, AfterPools
    <3>2. pc'[g] \notin {"deletePool", "deleteListener", "deleteLb"}
      BY <1>0, <2>3, <3>1 DEF Goto
    <3> QED
      BY <3>2 DEF Decides
  <2> QED
    BY <1>3, <2>2, <2>3 DEF ReadPools
<1>4. CASE ReadListeners(g)
  <2>1. on[g] \in LB /\ cloud[on[g]] # None /\ UNCHANGED <<cloud, on, mode, lock>> /\ Lb(g) = cloud[on[g]]
    BY <1>4, ThereType, Nones DEF ReadListeners, There, work, Lb
  <2>2. CASE \E q : /\ Lb(g).lis[q] # None /\ CanDeleteListener(g, Lb(g), q)
                    /\ victim' = [victim EXCEPT ![g] = q] /\ Goto(g, "deleteListener")
    <3>1. PICK q : /\ Lb(g).lis[q] # None /\ CanDeleteListener(g, Lb(g), q)
                   /\ victim' = [victim EXCEPT ![g] = q] /\ Goto(g, "deleteListener")
      BY <2>2
    <3>2. victim'[g] = q /\ pc'[g] = "deleteListener"
      BY <1>0, <3>1 DEF Goto
    <3>3. Others(g, Lb(g), Lb(g).lis[q])
      BY <3>1, Nones DEF CanDeleteListener, Owned, Others
    <3> QED
      BY <2>1, <3>1, <3>2, <3>3 DEF Decides
  <2>3. CASE Goto(g, "redundantPools")
    BY <1>0, <2>3 DEF Goto, Decides
  <2> QED
    BY <1>4, <2>2, <2>3 DEF ReadListeners
<1>5. CASE ReadWhole(g)
  <2>1. on[g] \in LB /\ cloud[on[g]] # None /\ UNCHANGED <<cloud, on, mode, lock>> /\ Lb(g) = cloud[on[g]]
    BY <1>5, ThereType, Nones DEF ReadWhole, There, work, Lb
  <2>2. CASE WholeLb(g, Lb(g)) /\ Goto(g, "deleteLb")
    <3>1. pc'[g] = "deleteLb" /\ pc[g] = "delete"
      BY <1>0, <1>5, <2>2 DEF Goto, ReadWhole
    <3>2. ~Creating(g)
      BY <3>1 DEF Book
    <3>3. \A p \in Pool : Others(g, Lb(g), p)
      BY <2>2, Nones DEF WholeLb, Owned, Others
    <3> QED
      BY <2>1, <3>1, <3>2, <3>3 DEF Decides
  <2>3. CASE Goto(g, "redundantListeners")
    BY <1>0, <2>3 DEF Goto, Decides
  <2> QED
    BY <1>5, <2>2, <2>3 DEF ReadWhole
<1>6. CASE IsEmpty(g) /\ ~Return(g)
  <2>1. on[g] \in LB /\ cloud[on[g]] # None /\ UNCHANGED <<cloud, on, mode, lock>> /\ Lb(g) = cloud[on[g]]
    BY <1>6, ThereType, Nones DEF IsEmpty, There, Lb, Gone
  <2>2. Lb(g).pools = NoPools /\ Goto(g, "deleteLb") /\ pc[g] = "isEmpty"
    BY <1>6 DEF IsEmpty, Gone
  <2>3. pc'[g] = "deleteLb" /\ ~Creating(g)
    BY <1>0, <2>2 DEF Goto, Book
  <2>4. \A p \in Pool : Others(g, Lb(g), p)
    BY <2>2 DEF Others, NoPools
  <2> QED
    BY <2>1, <2>3, <2>4 DEF Decides
<1>7. CASE WaitLb(g)
  <2>1. on[g] \in LB /\ cloud[on[g]] \in Balancer /\ cloud[on[g]] # None /\ UNCHANGED <<cloud, on, mode, lock>>
    BY <1>7, ThereType, Nones DEF WaitLb, There, work
  <2>2. CASE Active(on[g]) /\ Goto(g, "pools")
    BY <1>0, <2>2 DEF Goto, Decides
  <2>3. CASE ~Active(on[g]) /\ Goto(g, "deleteLb")
    <3>1. pc'[g] = "deleteLb" /\ Creating(g)
      BY <1>0, <1>7, <2>3, RecordBook DEF Goto
    <3>2. cloud[on[g]].state = "ERROR"
      <4>1. cloud[on[g]].state \in {"BUILD", "ACTIVE", "ERROR"}
        BY <2>1 DEF Balancer
      <4> QED
        BY <1>7, <2>1, <2>3, <4>1 DEF WaitLb, Waited, Active
    <3> QED
      BY <2>1, <3>1, <3>2 DEF Decides
  <2> QED
    BY <1>7, <2>2, <2>3 DEF WaitLb
<1>8. CASE /\ ~(Return(g) \/ Begin(g) \/ ReadPools(g) \/ ReadListeners(g) \/ ReadWhole(g) \/ IsEmpty(g) \/ WaitLb(g))
  <2>1. \E step \in {"pools", "recordLb", "wait", "attach", "members", "recordPool", "patch", "recordMembers", "relist",
                     "listeners", "redundantListeners", "recordListener", "redundantPools"} : Goto(g, step)
    BY <1>8 DEF Reconcile, Crash, Ensure, Attach, FindByName, CreateLb, StatusAddLb, ClearStatus,
       CreatePool, StatusAddPool, ListMembers, PatchMembers, StatusAddMembers, DeployListener, StatusAddListener,
       DeleteListener, DeletePool, TrimPool, Finish, NothingToDelete, DeleteLb, NotFound, Gone
  <2>2. pc'[g] \notin {"deletePool", "deleteListener", "deleteLb"}
    BY <1>0, <2>1 DEF Goto
  <2> QED
    BY <2>2 DEF Decides
<1> QED
  BY <1>1, <1>2, <1>3, <1>4, <1>5, <1>6, <1>7, <1>8

\* What a step makes of its own load balancer and status.
LEMMA OwnStep ==
  ASSUME IInv, NEW g \in GLBC, Book(g), Reconcile(g) \/ Crash(g)
  PROVE  /\ Book(g)'
         /\ Creating(g)' => CreateLb(g) \/ (Creating(g) /\ on'[g] = on[g] /\ task'[g] = task[g])
         /\ CreateLb(g) \/ on'[g] \in {on[g], st[g].lb, None}
         /\ \/ st'[g].lb \in {st[g].lb, None}
            \/ Creating(g) /\ st'[g].lb = on[g]
            \/ st'[g].lb \in LB /\ Active(st'[g].lb)
<1>1. CASE Begin(g)
  BY <1>1, BeginBook
<1>2. CASE \/ Ensure(g) /\ ~Active(on[g])
           \/ Attach(g) \/ FindByName(g) \/ NothingToDelete(g) \/ NotFound(g) \/ Crash(g) \/ Finish(g)
           \/ IsEmpty(g) /\ Gone(g)
           \/ DeleteLb(g)
  <2>1. pc'[g] = "idle" /\ on'[g] = None
    BY <1>2, ReturnStepBook, Parts, ReturnRun
  <2>2. ~Creating(g)'
    BY <2>1 DEF Creating
  <2> QED
    BY <1>2, <2>1, <2>2, ReturnStepBook
<1>3. CASE \/ Ensure(g) /\ Active(on[g])
           \/ ClearStatus(g) \/ StatusAddPool(g) \/ ListMembers(g)
           \/ StatusAddMembers(g) \/ StatusAddListener(g) \/ ReadListeners(g) \/ ReadPools(g) \/ ReadWhole(g)
           \/ IsEmpty(g) /\ Goto(g, "deleteLb") /\ UNCHANGED <<phase, mode, task, on, seen, victim, lock>>
           \/ CreatePool(g) \/ PatchMembers(g) \/ DeployListener(g) \/ DeleteListener(g)
           \/ DeletePool(g) \/ TrimPool(g)
  BY <1>3, MoveStepBook
<1>4. CASE CreateLb(g)
  BY <1>4, CreateBook
<1>5. CASE StatusAddLb(g) \/ WaitLb(g)
  BY <1>5, RecordBook
<1>6. IsEmpty(g) => \/ IsEmpty(g) /\ Gone(g)
                    \/ IsEmpty(g) /\ Goto(g, "deleteLb") /\ UNCHANGED <<phase, mode, task, on, seen, victim, lock>>
  BY DEF IsEmpty
<1> QED
  BY <1>1, <1>2, <1>3, <1>4, <1>5, <1>6 DEF Reconcile

-----------------------------------------------------------------------------
(* The load balancers under creation and the decisions under a mutex. *)

\* Nobody has an identifier that was not given out.
Sealed == \A x \in fresh : cloud[x] = None /\ \A g \in GLBC : st[g].lb # x /\ on[g] # x

\* A load balancer under creation has one creator, whose listener and members
\* are on it and whom no decision to delete, however old, is about; before it
\* is up no other GLBC has it.
Born(j) ==
  Creating(j) =>
    /\ \A k \in GLBC \ {j} : Creating(k) => on[k] # on[j]
    /\ cloud[on[j]] # None =>
         /\ Serves(j, cloud[on[j]], task[j].spec.port, task[j].spec.pool)
         /\ \A k \in GLBC \ {j} : on[k] = on[j] =>
              /\ pc[k] = "deletePool" => victim[k] # task[j].spec.pool
              /\ pc[k] = "deleteListener" => victim[k] # task[j].spec.port
              /\ pc[k] # "deleteLb"
         /\ cloud[on[j]].state # "ACTIVE" => \A k \in GLBC \ {j} : st[k].lb # on[j]
         /\ pc[j] = "deleteLb" => cloud[on[j]].state = "ERROR"

\* What a reconcile has decided to delete under the mutex of its load balancer
\* still holds nothing of another GLBC.
Decided(k) ==
  on[k] # None /\ lock[on[k]] = k /\ cloud[on[k]] # None =>
    /\ pc[k] = "deletePool" => Others(k, cloud[on[k]], victim[k])
    /\ pc[k] = "deleteListener" /\ cloud[on[k]].lis[victim[k]] # None =>
         Others(k, cloud[on[k]], cloud[on[k]].lis[victim[k]])
    /\ pc[k] = "deleteLb" /\ mode[k] # "deploy" => \A p \in Pool : Others(k, cloud[on[k]], p)

SiblingInv == Sealed /\ \A g \in GLBC : Book(g) /\ Born(g) /\ Decided(g)

LEMMA InitSibling == Init => SiblingInv
<1> SUFFICES ASSUME Init PROVE SiblingInv
  OBVIOUS
<1>1. /\ \A g \in GLBC : /\ spec[g] \in Wanted[g] /\ st[g] = NoStatus /\ pc[g] = "idle"
                         /\ mode[g] = "deploy" /\ on[g] = None
      /\ cloud = Brought /\ fresh = {x \in LB : Brought[x] = None}
  BY DEF Init, Each
<1>2. NoStatus.lb = None /\ NoStatus.lis = {} /\ NoStatus.pools = NoPools
  BY DEF NoStatus
<1>3. \A g \in GLBC : Book(g)
  BY <1>1, <1>2 DEF Book, Creating
<1>4. \A g \in GLBC : Born(g) /\ Decided(g)
  BY <1>1 DEF Born, Decided, Creating
<1>5. Sealed
  BY <1>1, <1>2, Nones DEF Sealed
<1> QED
  BY <1>3, <1>4, <1>5 DEF SiblingInv

\* Where a step calls the service.
LEMMA CloudStep ==
  ASSUME IInv, NEW g \in GLBC, Reconcile(g) \/ Crash(g)
  PROVE  /\ fresh' \subseteq fresh
         /\ ~CreateLb(g) => fresh' = fresh /\ \A x \in LB : x # on[g] => cloud'[x] = cloud[x]
         /\ CreateLb(g) => \E x \in fresh : /\ \A y \in LB \ {x} : cloud'[y] = cloud[y]
                                            /\ fresh' = fresh \ {x} /\ on'[g] = x
         /\ \A x \in LB : x \notin fresh /\ cloud[x] = None => cloud'[x] = None
<1>1. CASE CreateLb(g)
  BY <1>1, CreateLbType
<1>2. CASE CreatePool(g) \/ PatchMembers(g) \/ TrimPool(g) \/ DeployListener(g) \/ DeleteListener(g) \/ DeletePool(g)
  <2>1. fresh' = fresh
    BY <1>2 DEF CreatePool, PatchMembers, TrimPool, DeployListener, DeleteListener, DeletePool
  <2>2. UNCHANGED cloud \/ Called(g)
    BY <1>2, CreatePoolEffect, PatchEffect, TrimPoolEffect, ListenerEffect, DeletePoolEffect DEF Regrouped
  <2>3. ~CreateLb(g)
    BY <1>2 DEF CreateLb, CreatePool, PatchMembers, TrimPool, DeployListener, DeleteListener, DeletePool
  <2> QED
    BY <2>1, <2>2, <2>3, Nones DEF Called
<1>3. CASE DeleteLb(g)
  <2>1. on[g] \in LB /\ Call(on[g], None) /\ fresh' = fresh /\ ~CreateLb(g)
    BY <1>3, ThereType DEF DeleteLb, CreateLb
  <2>2. cloud'[on[g]] = None /\ \A y \in LB \ {on[g]} : cloud'[y] = cloud[y]
    BY <2>1, Parts, CallCloud
  <2> QED
    BY <2>1, <2>2
<1>4. CASE ~Calls(g)
  BY <1>4, NoCall DEF Calls
<1> QED
  BY <1>1, <1>2, <1>3, <1>4 DEF Calls

LEMMA SealedStep ==
  ASSUME IInv, SiblingInv, NEW g \in GLBC, Reconcile(g) \/ Crash(g)
  PROVE  Sealed'
<1> SUFFICES ASSUME NEW x \in fresh'
             PROVE  cloud'[x] = None /\ \A j \in GLBC : st'[j].lb # x /\ on'[j] # x
  BY DEF Sealed
<1>1. x \in fresh /\ x \in LB /\ x # None
  BY CloudStep, Nones DEF IInv, TypeOK
<1>2. cloud[x] = None /\ \A j \in GLBC : st[j].lb # x /\ on[j] # x
  BY <1>1 DEF SiblingInv, Sealed
<1>3. cloud'[x] = None
  BY <1>1, <1>2, CloudStep
<1>4. on'[g] # x
  <2>1. CASE CreateLb(g)
    BY <2>1, CloudStep
  <2>2. CASE ~CreateLb(g)
    BY <1>1, <1>2, <2>2, OwnStep DEF SiblingInv
  <2> QED
    BY <2>1, <2>2
<1>5. st'[g].lb # x
  BY <1>1, <1>2, OwnStep DEF SiblingInv, Active
<1>6. \A j \in GLBC \ {g} : st'[j].lb # x /\ on'[j] # x
  BY <1>2, OthersUntouched DEF Untouched
<1> QED
  BY <1>3, <1>4, <1>5, <1>6

\* A reconcile under way works on a load balancer that was given out.
LEMMA CreatingLb ==
  ASSUME IInv, SiblingInv, NEW j \in GLBC, Creating(j)
  PROVE  /\ on[j] \in LB /\ on[j] \notin fresh /\ pc[j] # "idle"
         /\ task[j].spec.port \in Port /\ task[j].spec.pool \in Pool /\ task[j].spec \in Wanted[j]
<1>1. pc[j] # "idle" /\ Book(j)
  BY DEF Creating, SiblingInv
<1>2. task[j].spec.port \in Port /\ task[j].spec.pool \in Pool
  BY <1>1, TaskType
<1> QED
  BY <1>1, <1>2 DEF Book, SiblingInv, Sealed, IInv, TypeOK

\* Others leave the creator alone ...
LEMMA BornOther ==
  ASSUME PortsApart, IInv, SiblingInv, NEW k \in GLBC, Reconcile(k) \/ Crash(k), NEW j \in GLBC \ {k}
  PROVE  Born(j)'
<1>1. Untouched(j) /\ Born(j) /\ Book(k)
  BY OthersUntouched DEF SiblingInv
<1>2. Creating(j)' <=> Creating(j)
  BY <1>1 DEF Untouched, Creating
<1> SUFFICES ASSUME Creating(j) PROVE Born(j)'
  BY <1>2 DEF Born
<1> DEFINE x == on[j]
           q == task[j].spec.port
           p == task[j].spec.pool
<1>3. x \in LB /\ x \notin fresh /\ q \in Port /\ p \in Pool /\ task[j].spec \in Wanted[j] /\ x # None
  BY CreatingLb, Nones
<1>4. on'[j] = x /\ task'[j] = task[j] /\ pc'[j] = pc[j]
  BY <1>1 DEF Untouched
<1>5. \A i \in GLBC \ {j} : Creating(i)' => on'[i] # x
  <2>1. ASSUME NEW i \in GLBC \ {j, k}, Creating(i)' PROVE on'[i] # x
    <3>1. Untouched(i)
      BY OthersUntouched
    <3> QED
      BY <1>1, <2>1, <3>1 DEF Untouched, Creating, Born
  <2>2. ASSUME Creating(k)' PROVE on'[k] # x
    <3>1. CASE CreateLb(k)
      BY <1>3, <3>1, CloudStep
    <3>2. CASE Creating(k) /\ on'[k] = on[k]
      BY <1>1, <3>2 DEF Born
    <3> QED
      BY <1>1, <2>2, <3>1, <3>2, OwnStep
  <2> QED
    BY <2>1, <2>2
<1>6. ASSUME cloud'[x] # None
      PROVE  /\ Serves(j, cloud'[x], q, p)
             /\ \A i \in GLBC \ {j} : on'[i] = x =>
                  /\ pc'[i] = "deletePool" => victim'[i] # p
                  /\ pc'[i] = "deleteListener" => victim'[i] # q
                  /\ pc'[i] # "deleteLb"
             /\ cloud'[x].state # "ACTIVE" => \A i \in GLBC \ {j} : st'[i].lb # x
             /\ pc[j] = "deleteLb" => cloud'[x].state = "ERROR"
  <2>1. cloud[x] # None
    BY <1>3, <1>6, CloudStep
  <2>2. /\ Serves(j, cloud[x], q, p)
        /\ \A i \in GLBC \ {j} : on[i] = x =>
             /\ pc[i] = "deletePool" => victim[i] # p
             /\ pc[i] = "deleteListener" => victim[i] # q
             /\ pc[i] # "deleteLb"
        /\ cloud[x].state # "ACTIVE" => \A i \in GLBC \ {j} : st[i].lb # x
        /\ pc[j] = "deleteLb" => cloud[x].state = "ERROR"
    BY <1>1, <2>1 DEF Born
  <2>3. Harmless(k, x, q, p)
    <3>1. pc[k] = "listeners" /\ task[k].spec.port = q => task[k].spec.pool = p
      <4>1. pc[k] = "listeners" => task[k].spec \in Wanted[k]
        BY <1>1 DEF Book
      <4> QED
        BY <1>3, <4>1 DEF PortsApart
    <3> QED
      BY <2>2, <3>1 DEF Harmless
  <2>4. /\ cloud'[x].lis[q] = p /\ cloud'[x].pools[p] # None
        /\ cloud'[x].pools[p][j] = cloud[x].pools[p][j] /\ cloud'[x].state = cloud[x].state
    BY SMTT(20), <1>3, <2>2, <2>3, ServesKept
  <2>5. Serves(j, cloud'[x], q, p)
    BY <1>6, <2>2, <2>4 DEF Serves
  <2>6. ASSUME NEW i \in GLBC \ {j}, on'[i] = x
        PROVE  /\ pc'[i] = "deletePool" => victim'[i] # p
               /\ pc'[i] = "deleteListener" => victim'[i] # q
               /\ pc'[i] # "deleteLb"
    <3>1. CASE i # k
      <4>1. Untouched(i)
        BY <3>1, OthersUntouched
      <4> QED
        BY <2>2, <2>6, <4>1 DEF Untouched
    <3>2. CASE i = k
      <4>1. Decides(k)
        BY <1>1, StepDecides
      <4>2. pc'[k] \in {"deletePool", "deleteListener", "deleteLb"} => on[k] = x
        BY <2>6, <3>2, <4>1 DEF Decides
      <4>3. ~Others(k, cloud[x], p) /\ cloud[x].lis[q] = p /\ ~(\A r \in Pool : Others(k, cloud[x], r))
        BY <1>3, <2>2, <3>2 DEF Serves, Others
      <4>4. on[k] = x => ~Creating(k)
        BY <1>1, <3>2 DEF Born
      <4> QED
        BY <3>2, <4>1, <4>2, <4>3, <4>4 DEF Decides
    <3> QED
      BY <3>1, <3>2
  <2>7. ASSUME cloud'[x].state # "ACTIVE", NEW i \in GLBC \ {j} PROVE st'[i].lb # x
    <3>1. cloud[x].state # "ACTIVE" /\ st[i].lb # x
      BY <2>2, <2>4, <2>7
    <3>2. CASE i # k
      <4>1. Untouched(i)
        BY <3>2, OthersUntouched
      <4> QED
        BY <3>1, <4>1 DEF Untouched
    <3>3. CASE i = k
      <4>1. ~Active(x)
        BY <3>1 DEF Active
      <4>2. Creating(k) => on[k] # x
        BY <1>1, <3>3 DEF Born
      <4> QED
        BY <1>1, <1>3, <3>1, <3>3, <4>1, <4>2, OwnStep
    <3> QED
      BY <3>2, <3>3
  <2> QED
    BY <2>2, <2>4, <2>5, <2>6, <2>7
<1> QED
  BY <1>4, <1>5, <1>6 DEF Born

\* ... and the creator keeps what it came with.
LEMMA BornOwn ==
  ASSUME IInv, SiblingInv, NEW k \in GLBC, Reconcile(k) \/ Crash(k)
  PROVE  Born(k)'
<1>1. Born(k) /\ Book(k)
  BY DEF SiblingInv
<1>2. CASE CreateLb(k)
  <2>1. PICK x \in fresh : /\ \A y \in LB \ {x} : cloud'[y] = cloud[y]
                           /\ cloud'[x] = NewBalancer(k, task[k].spec)
                           /\ fresh' = fresh \ {x} /\ on'[k] = x
    BY <1>2, CreateLbType
  <2>2. /\ pc'[k] = "recordLb" /\ UNCHANGED <<victim, task>> /\ pc[k] = "find"
        /\ \A i \in GLBC \ {k} : pc'[i] = pc[i] /\ on'[i] = on[i]
    BY <1>2, CreateLbType DEF CreateLb
  <2>3. \A i \in GLBC : st[i].lb # x /\ on[i] # x
    BY DEF SiblingInv, Sealed
  <2>4. \A i \in GLBC \ {k} : on'[i] # x /\ st'[i].lb # x
    BY <2>2, <2>3, OthersUntouched DEF Untouched
  <2> DEFINE w == task[k].spec
             b == NewBalancer(k, w)
  <2>5. w \in Want /\ w.port \in Port /\ w.pool \in Pool /\ w.members \in SUBSET Member /\ w.members # {}
    BY <2>2, TaskType
  <2>6. /\ b \in Balancer
        /\ b.lis = [r \in Port |-> IF r = w.port THEN w.pool ELSE None]
        /\ b.pools = [p \in Pool |-> IF p = w.pool THEN GroupOf(k, w.members) ELSE None]
    BY <2>5, NewBalancerType
  <2>7. GroupOf(k, w.members) \in Groups /\ GroupOf(k, w.members)[k] = w.members
    BY <2>5, GroupOfType
  <2> HIDE DEF b
  <2>8. Serves(k, b, w.port, w.pool)
    BY <2>5, <2>6, <2>7, Nones DEF Serves
  <2>9. cloud'[x] = b
    BY <2>1 DEF b
  <2> QED
    BY <2>1, <2>2, <2>4, <2>8, <2>9 DEF Born
<1>3. CASE ~CreateLb(k) /\ Creating(k)'
  <2> DEFINE x == on[k]
             q == task[k].spec.port
             p == task[k].spec.pool
  <2>1. Creating(k) /\ on'[k] = x /\ task'[k] = task[k]
    BY <1>1, <1>3, OwnStep
  <2>2. x \in LB /\ x \notin fresh /\ q \in Port /\ p \in Pool /\ pc[k] # "idle"
    BY <2>1, CreatingLb
  <2>3. pc[k] \notin {"deleteListener", "deletePool", "trimPool"}
    BY <1>1, <2>1 DEF Book
  <2>4. \A i \in GLBC \ {k} : Untouched(i)
    BY OthersUntouched
  <2>5. \A i \in GLBC \ {k} : Creating(i)' => on'[i] # x
    BY <1>1, <2>1, <2>4 DEF Untouched, Creating, Born
  <2>6. ASSUME cloud'[x] # None
        PROVE  /\ Serves(k, cloud'[x], q, p)
               /\ cloud[x] # None /\ cloud'[x].state = cloud[x].state
    <3>1. cloud[x] # None
      BY <2>2, <2>6, CloudStep
    <3>2. Serves(k, cloud[x], q, p) /\ cloud[x] \in Balancer
      BY <1>1, <2>1, <2>2, <3>1 DEF Born, IInv, TypeOK
    <3>3. CASE cloud'[x] = cloud[x]
      BY <3>1, <3>2, <3>3
    <3>4. CASE PatchMembers(k) /\ cloud'[x] # cloud[x]
      <4>1. PICK ms \in SUBSET Member : task[k].spec.members \subseteq ms /\ Regrouped(k, p, ms)
        BY <3>4, PatchEffect
      <4>2. ms # {}
        BY <2>2, <4>1, TaskType
      <4> QED
        BY <2>6, <3>1, <3>2, <4>1, <4>2 DEF Regrouped, Called, Serves
    <3>5. CASE CreatePool(k) /\ cloud'[x] # cloud[x]
      <4>1. cloud[x].pools[p] = None
        BY <3>5, CreatePoolEffect
      <4> QED
        BY <3>2, <4>1 DEF Serves
    <3>6. CASE DeployListener(k) /\ cloud'[x] # cloud[x]
      <4>1. ~UNCHANGED cloud
        BY <3>6
      <4>2. cloud[x].lis[q] # p
        BY <3>6, <4>1 DEF DeployListener, Lb
      <4> QED
        BY <3>2, <4>2 DEF Serves
    <3>7. CASE DeleteLb(k)
      <4>1. on[k] \in LB /\ Call(on[k], None)
        BY <3>7, ThereType DEF DeleteLb
      <4>2. cloud'[x] = None
        BY <4>1, Parts, CallCloud
      <4> QED
        BY <2>6, <4>2
    <3>8. CASE ~Calls(k)
      BY <3>3, <3>8, NoCall
    <3>9. ~DeleteListener(k) /\ ~DeletePool(k) /\ ~TrimPool(k)
      BY <2>3 DEF DeleteListener, DeletePool, TrimPool
    <3> QED
      BY <1>3, <3>3, <3>4, <3>5, <3>6, <3>7, <3>8, <3>9 DEF Calls
  <2>7. cloud[x] # None =>
          /\ \A i \in GLBC \ {k} : on'[i] = x =>
               /\ pc'[i] = "deletePool" => victim'[i] # p
               /\ pc'[i] = "deleteListener" => victim'[i] # q
               /\ pc'[i] # "deleteLb"
          /\ cloud[x].state # "ACTIVE" => \A i \in GLBC \ {k} : st'[i].lb # x
    BY <1>1, <2>1, <2>4 DEF Untouched, Born
  <2>8. pc'[k] = "deleteLb" /\ cloud'[x] # None => cloud'[x].state = "ERROR"
    BY <1>1, <2>1, StepDecides DEF Decides
  <2> QED
    BY <2>1, <2>5, <2>6, <2>7, <2>8 DEF Born
<1>4. CASE ~Creating(k)'
  BY <1>4 DEF Born
<1> QED
  BY <1>2, <1>3, <1>4

LEMMA DecidedOther ==
  ASSUME IInv, SiblingInv, NEW i \in GLBC, Reconcile(i) \/ Crash(i), NEW k \in GLBC \ {i}
  PROVE  Decided(k)'
<1>1. Untouched(k) /\ Decided(k) /\ Book(i) /\ Born(i)
  BY OthersUntouched DEF SiblingInv
<1> DEFINE x == on[k]
<1> SUFFICES ASSUME x # None, lock'[x] = k, cloud'[x] # None
             PROVE  /\ pc'[k] = "deletePool" => Others(k, cloud'[x], victim'[k])
                    /\ pc'[k] = "deleteListener" /\ cloud'[x].lis[victim'[k]] # None =>
                         Others(k, cloud'[x], cloud'[x].lis[victim'[k]])
                    /\ pc'[k] = "deleteLb" /\ mode'[k] # "deploy" => \A p \in Pool : Others(k, cloud'[x], p)
  BY <1>1 DEF Decided, Untouched
<1>2. x \in LB /\ x \notin fresh
  BY DEF SiblingInv, Sealed, IInv, TypeOK
<1>3. cloud[x] # None /\ lock[x] = k
  BY <1>1, <1>2, CloudStep DEF Untouched
<1>4. on[i] = x => Settling(i)
  <2>1. SUFFICES ASSUME on[i] = x, pc[i] \in {"pools", "patch", "listeners"} PROVE Settling(i)
    BY DEF Settling
  <2>2. mode[i] = "deploy"
    BY <1>1, <2>1 DEF Book, Takes
  <2>3. Creating(i)
    BY <1>1, <1>3, <2>1, <2>2 DEF Book
  <2>4. Serves(i, cloud[x], task[i].spec.port, task[i].spec.pool)
    BY <1>1, <1>3, <2>1, <2>3 DEF Born
  <2> QED
    BY <2>1, <2>4 DEF Settling, Serves
<1>5. /\ \A p \in Pool : Others(k, cloud[x], p) => Others(k, cloud'[x], p)
      /\ \A q \in Port : cloud'[x].lis[q] \in {cloud[x].lis[q], None}
  BY <1>2, <1>3, <1>4, OthersKept
<1>6. pc'[k] = pc[k] /\ victim'[k] = victim[k] /\ mode'[k] = mode[k]
  BY <1>1 DEF Untouched
<1>7. /\ pc[k] = "deletePool" => victim[k] \in Pool /\ Others(k, cloud[x], victim[k])
      /\ pc[k] = "deleteListener" => victim[k] \in Port
      /\ pc[k] = "deleteListener" /\ cloud[x].lis[victim[k]] # None => Others(k, cloud[x], cloud[x].lis[victim[k]])
      /\ pc[k] = "deleteLb" /\ mode[k] # "deploy" => \A p \in Pool : Others(k, cloud[x], p)
  BY <1>1, <1>3 DEF Decided, IInv, Run
<1>8. pc[k] = "deleteListener" /\ cloud[x].lis[victim[k]] # None => cloud[x].lis[victim[k]] \in Pool
  <2>1. cloud[x] \in Balancer
    BY <1>2, <1>3 DEF IInv, TypeOK
  <2> QED
    BY <1>7, <2>1 DEF Balancer
<1>9. pc[k] = "deletePool" => Others(k, cloud'[x], victim[k])
  BY <1>5, <1>7
<1>10. pc[k] = "deleteListener" /\ cloud'[x].lis[victim[k]] # None => Others(k, cloud'[x], cloud'[x].lis[victim[k]])
  <2> SUFFICES ASSUME pc[k] = "deleteListener", cloud'[x].lis[victim[k]] # None
               PROVE  Others(k, cloud'[x], cloud'[x].lis[victim[k]])
    OBVIOUS
  <2>1. cloud'[x].lis[victim[k]] = cloud[x].lis[victim[k]]
    BY <1>5, <1>7
  <2> QED
    BY <1>5, <1>7, <1>8, <2>1
<1> QED
  BY <1>5, <1>6, <1>7, <1>9, <1>10

LEMMA DecidedOwn ==
  ASSUME IInv, SiblingInv, NEW k \in GLBC, Reconcile(k) \/ Crash(k)
  PROVE  Decided(k)'
<1>1. Decides(k) /\ Book(k) /\ Book(k)'
  BY StepDecides, OwnStep DEF SiblingInv
<1>2. CASE pc'[k] \notin {"deletePool", "deleteListener", "deleteLb"}
  BY <1>2 DEF Decided
<1>3. CASE pc'[k] \in {"deletePool", "deleteListener", "deleteLb"}
  <2>1. UNCHANGED <<cloud, on, mode, lock>> /\ on[k] \in LB
    BY <1>1, <1>3 DEF Decides
  <2>2. mode[k] # "deploy" => ~Creating(k)
    BY <1>1 DEF Book
  <2> QED
    BY <1>1, <2>1, <2>2 DEF Decided, Decides
<1> QED
  BY <1>2, <1>3

LEMMA SiblingFrame ==
  ASSUME SiblingInv, UNCHANGED <<cloud, fresh, st, pc, mode, task, on, victim, lock>>
  PROVE  Sealed' /\ \A j \in GLBC : Born(j)' /\ Decided(j)'
<1>1. Sealed'
  BY DEF SiblingInv, Sealed
<1>2. ASSUME NEW j \in GLBC PROVE Born(j)'
  <2>1. Born(j) /\ \A k \in GLBC : Creating(k)' <=> Creating(k)
    BY DEF SiblingInv, Creating
  <2> QED
    BY <2>1 DEF Born, Serves
<1>3. ASSUME NEW j \in GLBC PROVE Decided(j)'
  <2>1. Decided(j)
    BY DEF SiblingInv
  <2> QED
    BY <2>1 DEF Decided, Others
<1> QED
  BY <1>1, <1>2, <1>3

LEMMA NextSibling == PortsApart /\ IInv /\ SiblingInv /\ [Next]_vars => SiblingInv'
<1> SUFFICES ASSUME PortsApart, IInv, SiblingInv, [Next]_vars PROVE SiblingInv'
  OBVIOUS
<1>1. ASSUME NEW g \in GLBC, Reconcile(g) \/ Crash(g) PROVE SiblingInv'
  <2>1. Sealed'
    BY <1>1, SealedStep
  <2>2. Book(g)' /\ Born(g)' /\ Decided(g)'
    BY <1>1, OwnStep, BornOwn, DecidedOwn DEF SiblingInv
  <2>3. ASSUME NEW j \in GLBC \ {g} PROVE Book(j)' /\ Born(j)' /\ Decided(j)'
    <3>1. Untouched(j) /\ on[j] \in LB \cup {None}
      BY <1>1, OthersUntouched DEF IInv, TypeOK
    <3> QED
      BY <1>1, <3>1, BookFrame, BornOther, DecidedOther DEF SiblingInv
  <2> QED
    BY <2>1, <2>2, <2>3 DEF SiblingInv
<1>2. CASE UNCHANGED vars
  <2>1. UNCHANGED <<cloud, fresh, spec, st, pc, mode, task, on, victim, lock>>
    BY <1>2 DEF vars, status, run
  <2>2. \A j \in GLBC : Book(j)'
    BY <2>1 DEF SiblingInv, Book, Creating
  <2> QED
    BY <2>1, <2>2, SiblingFrame DEF SiblingInv
<1>3. ASSUME NEW g \in GLBC, Edit(g) \/ Delete(g) PROVE SiblingInv'
  <2>1. UNCHANGED <<cloud, fresh, st, pc, mode, task, on, victim, lock>>
    BY <1>3, UserType DEF run, Edit, Delete
  <2>2. \A j \in GLBC : spec'[j] \in Wanted[j]
    <3>1. spec \in [GLBC -> Want] /\ \A j \in GLBC : spec[j] \in Wanted[j]
      BY DEF SiblingInv, Book, IInv, TypeOK
    <3> QED
      BY <1>3, <3>1 DEF Edit, Delete
  <2>3. Sealed' /\ \A j \in GLBC : Born(j)' /\ Decided(j)'
    BY <2>1, SiblingFrame
  <2>4. \A j \in GLBC : Book(j)'
    BY <2>1, <2>2 DEF SiblingInv, Book, Creating
  <2> QED
    BY <2>3, <2>4 DEF SiblingInv
<1>4. ASSUME \/ \E y \in LB : Provision(y)
             \/ \E y \in LB, r \in Pool, i \in GLBC, m \in Hand : AddByHand(y, r, i, m)
      PROVE  SiblingInv'
  <2>1. UNCHANGED <<fresh, spec, st, pc, mode, task, on, victim, lock>>
    BY <1>4, ProvisionType, AddByHandType DEF run, Provision, AddByHand, status
  <2>2. \A j \in GLBC : Book(j)' /\ (Creating(j)' <=> Creating(j))
    BY <2>1 DEF SiblingInv, Book, Creating
  <2>3. Sealed'
    <3>1. fresh \subseteq LB
      BY DEF IInv, TypeOK
    <3> QED
      BY <1>4, <2>1, <3>1, PortalKept DEF SiblingInv, Sealed
  <2>4. ASSUME NEW j \in GLBC PROVE Born(j)'
    <3> SUFFICES ASSUME Creating(j) PROVE Born(j)'
      BY <2>2 DEF Born
    <3> DEFINE x == on[j]
               q == task[j].spec.port
               p == task[j].spec.pool
    <3>1. Born(j) /\ x \in LB /\ q \in Port /\ p \in Pool
      BY CreatingLb DEF SiblingInv
    <3>2. cloud'[x] # None => cloud[x] # None
      BY <1>4, <3>1, PortalKept
    <3>3. cloud'[x] # None => Serves(j, cloud'[x], q, p)
      BY <1>4, <3>1, <3>2, PortalKept DEF Born, Serves
    <3>4. cloud'[x] # None => /\ cloud'[x].state # "ACTIVE" => cloud[x].state # "ACTIVE"
                              /\ cloud[x].state = "ERROR" => cloud'[x].state = "ERROR"
      BY <1>4, <3>1, <3>2, PortalKept
    <3>5. \A k \in GLBC \ {j} : Creating(k)' => on'[k] # x
      BY <2>1, <2>2, <3>1 DEF Born
    <3>6. /\ cloud[x] # None =>
               /\ \A k \in GLBC \ {j} : on[k] = x =>
                    /\ pc[k] = "deletePool" => victim[k] # p
                    /\ pc[k] = "deleteListener" => victim[k] # q
                    /\ pc[k] # "deleteLb"
               /\ cloud[x].state # "ACTIVE" => \A k \in GLBC \ {j} : st[k].lb # x
               /\ pc[j] = "deleteLb" => cloud[x].state = "ERROR"
      BY <3>1 DEF Born
    <3> QED
      BY <2>1, <3>2, <3>3, <3>4, <3>5, <3>6 DEF Born
  <2>5. ASSUME NEW k \in GLBC PROVE Decided(k)'
    <3> DEFINE x == on[k]
    <3> SUFFICES ASSUME x # None, lock[x] = k, cloud'[x] # None
                 PROVE  /\ pc[k] = "deletePool" => Others(k, cloud'[x], victim[k])
                        /\ pc[k] = "deleteListener" /\ cloud'[x].lis[victim[k]] # None =>
                             Others(k, cloud'[x], cloud'[x].lis[victim[k]])
                        /\ pc[k] = "deleteLb" /\ mode[k] # "deploy" => \A p \in Pool : Others(k, cloud'[x], p)
      BY <2>1 DEF Decided
    <3>1. x \in LB
      BY DEF IInv, TypeOK
    <3>2. /\ cloud[x] # None /\ cloud'[x].lis = cloud[x].lis
          /\ \A p \in Pool : Others(k, cloud[x], p) => Others(k, cloud'[x], p)
      BY <1>4, <3>1, PortalKept
    <3>3. /\ pc[k] = "deletePool" => victim[k] \in Pool /\ Others(k, cloud[x], victim[k])
          /\ pc[k] = "deleteListener" => victim[k] \in Port
          /\ pc[k] = "deleteListener" /\ cloud[x].lis[victim[k]] # None => Others(k, cloud[x], cloud[x].lis[victim[k]])
          /\ pc[k] = "deleteLb" /\ mode[k] # "deploy" => \A p \in Pool : Others(k, cloud[x], p)
      BY <3>2 DEF SiblingInv, Decided, IInv, Run
    <3>4. pc[k] = "deleteListener" /\ cloud[x].lis[victim[k]] # None => cloud[x].lis[victim[k]] \in Pool
      <4>1. cloud[x] \in Balancer
        BY <3>1, <3>2 DEF IInv, TypeOK
      <4> QED
        BY <3>3, <4>1 DEF Balancer
    <3> QED
      BY <3>2, <3>3, <3>4
  <2> QED
    BY <2>2, <2>3, <2>4, <2>5 DEF SiblingInv
<1> QED
  BY <1>1, <1>2, <1>3, <1>4 DEF Next

-----------------------------------------------------------------------------
\* A step leaves what another GLBC has settled, unless the load balancer is
\* being torn down without its mutex.
LEMMA SettledStep ==
  ASSUME PortsApart, IInv, SiblingInv, [Next]_vars, NEW g \in GLBC, NEW x \in LB,
         Settled(g, x), ~Uncovered(x), phase'[g] = "live", spec'[g] = spec[g], pc'[g] = "idle"
  PROVE  Settled(g, x)'
<1> DEFINE q == spec[g].port
           p == spec[g].pool
<1>1. /\ phase[g] = "live" /\ pc[g] = "idle" /\ st[g].lb = x
      /\ cloud[x] # None /\ cloud[x].lis[q] = p /\ cloud[x].pools[p] # None
      /\ spec[g].members \subseteq cloud[x].pools[p][g]
  BY DEF Settled
<1>2. spec[g] \in Want /\ q \in Port /\ p \in Pool /\ spec[g].members # {} /\ spec[g] \in Wanted[g]
  BY DEF IInv, TypeOK, Want, SiblingInv, Book
<1>3. Serves(g, cloud[x], q, p) /\ x \notin fresh
  BY <1>1, <1>2 DEF Serves, SiblingInv, Sealed
<1>4. SUFFICES /\ st'[g].lb = x
               /\ cloud'[x] # None /\ cloud'[x].lis[q] = p /\ cloud'[x].pools[p] # None
               /\ cloud[x].pools[p][g] \subseteq cloud'[x].pools[p][g]
  BY <1>1 DEF Settled
<1>5. ASSUME NEW k \in GLBC, Reconcile(k) \/ Crash(k)
      PROVE  /\ st'[g].lb = x
             /\ cloud'[x] # None /\ cloud'[x].lis[q] = p /\ cloud'[x].pools[p] # None
             /\ cloud[x].pools[p][g] \subseteq cloud'[x].pools[p][g]
  <2>1. k # g
    <3>1. SUFFICES ASSUME k = g PROVE FALSE
      OBVIOUS
    <3>2. Begin(g)
      BY <1>1, <1>5, <3>1 DEF Reconcile, Crash, Ensure, Attach, FindByName, CreateLb, StatusAddLb, WaitLb, ClearStatus,
         CreatePool, StatusAddPool, ListMembers, PatchMembers, StatusAddMembers, DeployListener, StatusAddListener,
         ReadListeners, DeleteListener, ReadPools, DeletePool, TrimPool, Finish, NothingToDelete, ReadWhole, IsEmpty,
         DeleteLb, NotFound
    <3>3. pc'[g] # "idle"
      BY <3>2 DEF Begin, Goto, IInv, TypeOK
    <3> QED
      BY <3>3
  <2>2. Untouched(g)
    BY <1>5, <2>1, OthersUntouched
  <2>3. Book(k) /\ Born(k) /\ Decided(k)
    BY DEF SiblingInv
  <2>4. on[k] = x /\ mode[k] # "deploy" => lock[x] = k
    BY DEF Uncovered
  <2>5. on[k] = x /\ pc[k] \in {"deleteListener", "deletePool"} => lock[x] = k
    BY <1>1, <2>3, <2>4, Nones DEF Book
  <2>6. ~Others(k, cloud[x], p)
    BY <1>3, <2>1 DEF Serves, Others
  <2>7. Harmless(k, x, q, p)
    <3>1. SUFFICES ASSUME on[k] = x
                   PROVE  /\ pc[k] = "listeners" /\ task[k].spec.port = q => task[k].spec.pool = p
                          /\ pc[k] = "deleteListener" => victim[k] # q
                          /\ pc[k] = "deletePool" => victim[k] # p
                          /\ pc[k] # "deleteLb"
      BY DEF Harmless
    <3>2. pc[k] = "listeners" /\ task[k].spec.port = q => task[k].spec.pool = p
      <4>1. pc[k] = "listeners" => task[k].spec \in Wanted[k]
        BY <2>3 DEF Book
      <4> QED
        BY <1>2, <2>1, <4>1 DEF PortsApart
    <3>3. x # None
      BY Nones
    <3>4. pc[k] = "deleteListener" => victim[k] # q
      <4>1. p # None
        BY <1>2, Nones
      <4> QED
        BY <1>1, <2>3, <2>5, <2>6, <3>1, <3>3, <4>1 DEF Decided
    <3>5. pc[k] = "deletePool" => victim[k] # p
      BY <1>1, <2>3, <2>5, <2>6, <3>1, <3>3 DEF Decided
    <3>6. pc[k] # "deleteLb"
      <4>1. SUFFICES ASSUME pc[k] = "deleteLb" PROVE FALSE
        OBVIOUS
      <4>2. CASE mode[k] = "deploy"
        <5>1. Creating(k)
          BY <2>3, <4>1, <4>2 DEF Book
        <5>2. cloud[x].state = "ERROR"
          BY <1>1, <2>3, <3>1, <4>1, <5>1 DEF Born
        <5>3. st[g].lb # x
          BY <1>1, <2>1, <2>3, <3>1, <5>1, <5>2 DEF Born
        <5> QED
          BY <1>1, <5>3
      <4>3. CASE mode[k] # "deploy"
        BY <1>1, <1>2, <2>3, <2>4, <2>6, <3>1, <3>3, <4>1, <4>3 DEF Decided
      <4> QED
        BY <4>2, <4>3
    <3> QED
      BY <3>2, <3>4, <3>5, <3>6
  <2>8. /\ cloud'[x] # None /\ cloud'[x].lis[q] = p /\ cloud'[x].pools[p] # None
        /\ cloud'[x].pools[p][g] = cloud[x].pools[p][g]
    BY <1>2, <1>3, <1>5, <2>1, <2>7, ServesKept
  <2> QED
    BY <1>1, <2>2, <2>8 DEF Untouched
<1>6. CASE UNCHANGED vars
  BY <1>1, <1>6 DEF vars, status
<1>7. ASSUME NEW k \in GLBC, Edit(k) \/ Delete(k)
      PROVE  UNCHANGED <<cloud, st>>
  BY <1>7 DEF Edit, Delete
<1>8. CASE \/ \E y \in LB : Provision(y)
           \/ \E y \in LB, r \in Pool, i \in GLBC, m \in Hand : AddByHand(y, r, i, m)
  <2>1. UNCHANGED st
    BY <1>8 DEF Provision, AddByHand, status
  <2> QED
    BY <1>1, <1>2, <1>8, <2>1, PortalKept
<1> QED
  BY <1>1, <1>5, <1>6, <1>7, <1>8 DEF Next

\* deleteRedundantListeners, deleteRedundantPools, deleteLoadBalancer: where no
\* two GLBCs ask for one port with different pools, nothing that one of them has
\* settled on a load balancer is taken away by another, however old the reading
\* its decision rests on, unless the load balancer is torn down without its
\* mutex: the mutex, the groups under each GLBC's own name and the listener and
\* members a load balancer comes with are enough.
THEOREM SiblingsSafe == ASSUME PortsApart PROVE Spec => SiblingKept
<1>1. IInv /\ SiblingInv /\ [Next]_vars
        => [\A g \in GLBC, x \in LB :
              /\ Settled(g, x) /\ ~Uncovered(x)
              /\ phase'[g] = "live" /\ spec'[g] = spec[g] /\ pc'[g] = "idle"
              => Settled(g, x)']_vars
  BY SettledStep
<1>2. Init => IInv /\ SiblingInv
  BY InitIInv, InitSibling
<1>3. IInv /\ SiblingInv /\ [Next]_vars => (IInv /\ SiblingInv)'
  BY NextIInv, NextSibling
<1> QED
  BY <1>1, <1>2, <1>3, PTL DEF Spec, SiblingKept

-----------------------------------------------------------------------------
(* What is left once every GLBC is gone. *)

\* The user's pools and listeners.
UserPool(x, p) == Brought[x] # None /\ Brought[x].pools[p] # None
UserPort(x, q) == Brought[x] # None /\ Brought[x].lis[q] # None

\* g has members in pool p of the load balancer.
Has(g, b, p) == b # None /\ b.pools[p] # None /\ b.pools[p][g] # {}

\* What a pass has read is what the status says, but for what it has recorded
\* itself; what is recorded was asked for.
Ledger(g) ==
  /\ \A p \in Pool : st[g].pools[p] # None => \E w \in Wanted[g] : w.pool = p
  /\ pc[g] # "idle" => phase[g] # "gone"
  /\ pc[g] # "idle" /\ ~(Creating(g) /\ pc[g] \in {"recordLb", "deleteLb"}) => on[g] = st[g].lb
  /\ Creating(g) /\ pc[g] \in {"recordLb", "deleteLb"} => st[g].lb = None /\ st[g].pools = NoPools
  /\ mode[g] # "deploy" /\ pc[g] # "attach" => task[g].st = st[g]
  /\ pc[g] # "idle" /\ mode[g] = "deploy" =>
       /\ \A p \in Pool \ {task[g].spec.pool} : task[g].st.pools[p] = st[g].pools[p]
       /\ st[g].lis \subseteq task[g].st.lis \cup {task[g].spec.port}

\* Identifiers are given to load balancers made here.
LedgerInv == (\A x \in fresh : Brought[x] = None) /\ \A g \in GLBC : Ledger(g)

\* The mutex: of two passes on a load balancer one has created it, and the other
\* has the mutex.
Exclusive(g, k) ==
  on[g] # None /\ on[g] = on[k] =>
    (Creating(g) /\ lock[on[k]] = k) \/ (Creating(k) /\ lock[on[g]] = g)

\* A recorded pool is recorded with its members and its listener, but for the
\* one a pass is deploying.
Filed(g) ==
  \A p \in Pool : st[g].pools[p] # None /\ ~(Recording(g) /\ p = task[g].spec.pool) =>
    st[g].pools[p] # {} /\ \E w \in Wanted[g] : w.pool = p /\ w.port \in st[g].lis

\* Who has members somewhere has them on the books, or is deploying them.
Booked(g, x, p) ==
  /\ phase[g] # "gone"
  /\ \/ Recording(g) /\ on[g] = x /\ p = task[g].spec.pool
     \/ st[g].lb = x /\ st[g].pools[p] \notin {None, {}} /\ cloud[x].pools[p][g] \subseteq st[g].pools[p]

\* The steps from the record of the members on.
Placed == {"recordMembers", "listeners", "recordListener", "redundantListeners", "deleteListener",
           "redundantPools", "deletePool", "trimPool", "finish"}

\* What a pass that deploys has put there is still there, ...
Standing(g) ==
  Recording(g) =>
    /\ cloud[on[g]] # None
    /\ LET w == task[g].spec
           now == cloud[on[g]].pools[w.pool]
       IN /\ pc[g] \in {"recordPool", "members", "patch", "relist"} \cup Placed => now # None
          /\ pc[g] = "patch" => seen[g] = now[g]
          /\ pc[g] = "relist" => now[g] # {}
          /\ pc[g] \in Placed => seen[g] = now[g] /\ now[g] # {}
          /\ pc[g] \in {"recordListener", "redundantListeners", "deleteListener"} =>
               cloud[on[g]].lis[w.port] = w.pool

\* ... and what it takes down it takes down to the end.
Sweeping(g) ==
  /\ pc[g] \in {"attach", "find"} => \A x \in LB, p \in Pool : ~Has(g, cloud[x], p)
  /\ pc[g] = "attach" /\ on[g] # None => on[g] \in left \/ cloud[on[g]] = None
  /\ pc[g] = "deleteListener" => victim[g] \notin KeptPorts(g) /\ ~UserPort(on[g], victim[g])
  /\ on[g] # None /\ pc[g] \in {"redundantPools", "deletePool", "trimPool"} =>
       \A p \in Pool \ KeptPools(g) :
         Has(g, cloud[on[g]], p) /\ InUse(cloud[on[g]], p) => ~Alone(g, cloud[on[g]], p)
  /\ pc[g] \in {"deletePool", "trimPool"} => victim[g] \notin KeptPools(g)
  /\ pc[g] = "deletePool" => ~UserPool(on[g], victim[g])
  /\ pc[g] = "trimPool" =>
       /\ on[g] # None /\ cloud[on[g]] # None /\ cloud[on[g]].pools[victim[g]] # None
       /\ ~Alone(g, cloud[on[g]], victim[g])
  /\ on[g] # None /\ pc[g] \in {"finish", "clear", "isEmpty"} =>
       \A p \in Pool \ KeptPools(g) : ~Has(g, cloud[on[g]], p)

\* The user's pools and listeners are as he brought them, and the others are the
\* GLBCs'.
PoolsIntact(x, b) ==
  \A p \in Pool :
    /\ UserPool(x, p) => b.pools[p] # None /\ b.pools[p][User] = Brought[x].pools[p][User]
    /\ ~UserPool(x, p) /\ b.pools[p] # None => b.pools[p][User] = {} /\ \E g \in GLBC : b.pools[p][g] # {}
PortsIntact(x, b) ==
  \A q \in Port :
    /\ UserPort(x, q) => b.lis[q] = Brought[x].lis[q]
    /\ ~UserPort(x, q) /\ b.lis[q] # None =>
         /\ b.pools[b.lis[q]] # None /\ ~UserPool(x, b.lis[q])
         /\ \E g \in GLBC : \E w \in Wanted[g] : w.port = q /\ w.pool = b.lis[q]

Intact(x) ==
  cloud[x] # None =>
    /\ Brought[x] # None => cloud[x].name = Brought[x].name /\ cloud[x].state = Brought[x].state
    /\ PoolsIntact(x, cloud[x]) /\ PortsIntact(x, cloud[x])

\* What was made here is somebody's, or was left.
Minds(g, x) == phase[g] # "gone" /\ (st[g].lb = x \/ (Creating(g) /\ on[g] = x))
Minded(x) == cloud[x] # None /\ Brought[x] = None => x \in left \/ \E g \in GLBC : Minds(g, x)

\* What is true of one GLBC while nothing has come loose.
Tended(g) ==
  /\ Filed(g) /\ Standing(g) /\ Sweeping(g)
  /\ \A x \in LB, p \in Pool : Has(g, cloud[x], p) => Booked(g, x, p)

Order ==
  /\ \A g \in GLBC : Tended(g) /\ \A k \in GLBC \ {g} : Exclusive(g, k)
  /\ \A x \in LB : Intact(x) /\ Minded(x)

ReclaimInv == LedgerInv /\ (~loose => Order)

-----------------------------------------------------------------------------
(* What a step records, and what it leaves to the others. *)

\* The steps that end a pass, and those that go on.
Ends(g) ==
  \/ Ensure(g) /\ ~Active(on[g])
  \/ Attach(g) \/ FindByName(g) \/ NothingToDelete(g) \/ NotFound(g) \/ Crash(g) \/ Finish(g)
  \/ IsEmpty(g) /\ Gone(g)
  \/ DeleteLb(g)
Moves(g) ==
  \/ Ensure(g) /\ Active(on[g])
  \/ ClearStatus(g) \/ StatusAddPool(g) \/ ListMembers(g)
  \/ StatusAddMembers(g) \/ StatusAddListener(g) \/ ReadListeners(g) \/ ReadPools(g) \/ ReadWhole(g)
  \/ IsEmpty(g) /\ Goto(g, "deleteLb") /\ UNCHANGED <<phase, mode, task, on, seen, victim, lock>>
  \/ CreatePool(g) \/ PatchMembers(g) \/ DeployListener(g) \/ DeleteListener(g)
  \/ DeletePool(g) \/ TrimPool(g)

LEMMA StepCases ==
  ASSUME NEW g \in GLBC, Reconcile(g) \/ Crash(g)
  PROVE  Begin(g) \/ Ends(g) \/ Moves(g) \/ CreateLb(g) \/ StatusAddLb(g) \/ WaitLb(g)
<1>1. IsEmpty(g) => \/ IsEmpty(g) /\ Gone(g)
                    \/ IsEmpty(g) /\ Goto(g, "deleteLb") /\ UNCHANGED <<phase, mode, task, on, seen, victim, lock>>
  BY DEF IsEmpty
<1> QED
  BY <1>1 DEF Reconcile, Ends, Moves

\* What a step leaves alone of another GLBC, beside its reconcile; and what is
\* loose stays so.
LEMMA OthersAside ==
  ASSUME IInv, NEW g \in GLBC, Reconcile(g) \/ Crash(g)
  PROVE  /\ \A j \in GLBC \ {g} : seen'[j] = seen[j] /\ phase'[j] = phase[j]
         /\ left \subseteq left' /\ (loose => loose')
<1>1. seen \in [GLBC -> SUBSET Member] /\ phase \in [GLBC -> {"live", "deleting", "gone"}]
  BY DEF IInv, TypeOK
<1>2. left \subseteq left' /\ (loose => loose')
  <2>1. CASE Begin(g) \/ Crash(g)
    BY <2>1 DEF Begin, Crash
  <2>2. CASE ~Begin(g) /\ ~Crash(g)
    BY <2>2 DEF Reconcile, Ensure, Attach, FindByName, CreateLb, StatusAddLb, WaitLb, ClearStatus,
       CreatePool, StatusAddPool, ListMembers, PatchMembers, StatusAddMembers, DeployListener, StatusAddListener,
       ReadListeners, DeleteListener, ReadPools, DeletePool, TrimPool, Finish, NothingToDelete, ReadWhole, IsEmpty,
       DeleteLb, NotFound, history
  <2> QED
    BY <2>1, <2>2
<1>3. UNCHANGED phase \/ phase' = [phase EXCEPT ![g] = "gone"]
  BY DEF Reconcile, Crash, Begin, Ensure, Attach, FindByName, CreateLb, StatusAddLb, WaitLb, ClearStatus,
     CreatePool, StatusAddPool, ListMembers, PatchMembers, StatusAddMembers, DeployListener, StatusAddListener,
     ReadListeners, DeleteListener, ReadPools, DeletePool, TrimPool, Finish, NothingToDelete, ReadWhole, IsEmpty,
     DeleteLb, NotFound, status, Gone
<1>4. UNCHANGED seen \/ \E ms : seen' = [seen EXCEPT ![g] = ms]
  BY DEF Reconcile, Crash, Begin, Ensure, Attach, FindByName, CreateLb, StatusAddLb, WaitLb, ClearStatus,
     CreatePool, StatusAddPool, ListMembers, PatchMembers, StatusAddMembers, DeployListener, StatusAddListener,
     ReadListeners, DeleteListener, ReadPools, DeletePool, TrimPool, Finish, NothingToDelete, ReadWhole, IsEmpty,
     DeleteLb, NotFound, Gone, Return
<1> QED
  BY <1>1, <1>2, <1>3, <1>4

\* A pass that goes on: where it is, where it goes, and what it records.
LEMMA MoveFacts ==
  ASSUME IInv, NEW g \in GLBC, Book(g), Moves(g)
  PROVE  /\ pc[g] \notin {"idle", "recordLb", "wait", "deleteLb", "find", "attach", "finish"}
         /\ pc'[g] \notin {"idle", "recordLb", "wait", "ensure", "find"}
         /\ pc'[g] = "deleteLb" => mode[g] # "deploy"
         /\ UNCHANGED <<mode, task, on, lock, spec, phase, fresh, loose>>
         /\ (left' = left \/ ClearStatus(g))
         /\ \/ ClearStatus(g) /\ mode[g] # "deploy" /\ pc'[g] = "attach" /\ st'[g].lis = {} /\ st'[g].pools = NoPools
            \/ /\ pc'[g] # "attach" /\ (mode[g] # "deploy" => st'[g] = st[g])
               /\ st[g].lis \subseteq st'[g].lis /\ st'[g].lis \subseteq st[g].lis \cup {task[g].spec.port}
               /\ \A p \in Pool \ {task[g].spec.pool} : st'[g].pools[p] = st[g].pools[p]
<1>1. StatusOK /\ RunOK
  BY Parts
<1>2. UNCHANGED <<mode, task, on, lock, spec, phase, fresh, loose>> /\ (left' = left \/ ClearStatus(g))
  BY DEF Moves, Ensure, ClearStatus, StatusAddPool, ListMembers, StatusAddMembers, StatusAddListener, ReadListeners,
     ReadPools, ReadWhole, IsEmpty, CreatePool, PatchMembers, DeployListener, DeleteListener, DeletePool, TrimPool,
     work, status, history
<1>3. pc[g] \notin {"idle", "recordLb", "wait", "deleteLb", "find", "attach", "finish"}
  BY DEF Moves, Ensure, ClearStatus, StatusAddPool, ListMembers, StatusAddMembers, StatusAddListener, ReadListeners,
     ReadPools, ReadWhole, IsEmpty, CreatePool, PatchMembers, DeployListener, DeleteListener, DeletePool, TrimPool
<1>4. /\ pc'[g] \notin {"idle", "recordLb", "wait", "ensure", "find"}
      /\ pc'[g] = "deleteLb" => mode[g] # "deploy"
      /\ pc'[g] = "attach" => ClearStatus(g)
  <2>1. AfterPools(g) \in {"finish", "clear", "isEmpty"}
    BY <1>1 DEF AfterPools, RunOK
  <2>2. pc[g] \in {"delete", "isEmpty"} => mode[g] # "deploy"
    BY DEF Book
  <2>3. PICK step : /\ Goto(g, step) /\ step \notin {"idle", "recordLb", "wait", "ensure", "find"}
                    /\ step = "deleteLb" => pc[g] \in {"delete", "isEmpty"}
                    /\ step = "attach" => ClearStatus(g)
    <3>1. CASE ReadPools(g)
      BY <2>1, <3>1 DEF ReadPools
    <3>2. CASE ~ReadPools(g)
      BY <3>2 DEF Moves, Ensure, ClearStatus, StatusAddPool, ListMembers, StatusAddMembers, StatusAddListener, ReadListeners,
         ReadWhole, IsEmpty, CreatePool, PatchMembers, DeployListener, DeleteListener, DeletePool, TrimPool
    <3> QED
      BY <3>1, <3>2
  <2>4. pc'[g] = step
    BY <1>1, <2>3 DEF Goto, RunOK
  <2> QED
    BY <2>2, <2>3, <2>4
<1>5. CASE ClearStatus(g)
  <2>1. pc[g] = "clear" /\ Goto(g, "attach") /\ st' = [st EXCEPT ![g].lis = {}, ![g].pools = NoPools]
    BY <1>5 DEF ClearStatus
  <2>2. pc'[g] = "attach" /\ st'[g].lis = {} /\ st'[g].pools = NoPools
    BY <1>1, <2>1, Empties DEF Goto, RunOK, StatusOK, Status
  <2>3. mode[g] # "deploy"
    BY <2>1 DEF Book
  <2> QED
    BY <1>2, <1>3, <1>4, <1>5, <2>2, <2>3
<1>6. CASE ~ClearStatus(g)
  <2>1. CASE StatusAddPool(g) \/ StatusAddMembers(g)
    <3>1. pc[g] \in {"recordPool", "recordMembers"} /\ \E ms \in SUBSET Member : StatusPool(g, ms)
      BY <1>1, <2>1 DEF StatusAddPool, StatusAddMembers, RunOK
    <3>2. PICK ms \in SUBSET Member : StatusPool(g, ms)
      BY <3>1
    <3>3. mode[g] = "deploy"
      BY <3>1 DEF Book, Takes
    <3>4. task[g].spec.pool \in Pool
      BY <1>3, TaskType
    <3>5. st'[g].lis = st[g].lis /\ st'[g].pools = [st[g].pools EXCEPT ![task[g].spec.pool] = ms]
      <4>1. st' = [st EXCEPT ![g].pools[task[g].spec.pool] = ms]
        BY <3>2 DEF StatusPool
      <4>2. st \in [GLBC -> Status] /\ st[g] \in Status
        BY <1>1 DEF StatusOK
      <4> QED
        BY <4>1, <4>2 DEF Status
    <3>6. st[g].pools \in [Pool -> (SUBSET Member) \cup {None}]
      BY <1>1 DEF StatusOK, Status
    <3> QED
      BY <1>2, <1>3, <1>4, <1>6, <3>3, <3>4, <3>5, <3>6
  <2>2. CASE StatusAddListener(g)
    <3>1. pc[g] = "recordListener" /\ st' = [st EXCEPT ![g].lis = st[g].lis \cup {task[g].spec.port}]
      BY <1>1, <2>2 DEF StatusAddListener, StatusOK
    <3>2. mode[g] = "deploy"
      BY <3>1 DEF Book, Takes
    <3>3. st[g].lis \cup {task[g].spec.port} \in SUBSET Port
      BY <1>1, <1>3, TaskType DEF StatusOK, Status
    <3>4. st'[g].lis = st[g].lis \cup {task[g].spec.port} /\ st'[g].pools = st[g].pools
      BY <1>1, <3>1, <3>3, StatusType
    <3> QED
      BY <1>2, <1>3, <1>4, <1>6, <3>2, <3>4
  <2>3. CASE UNCHANGED st
    BY <1>2, <1>3, <1>4, <1>6, <2>3
  <2> QED
    BY <1>6, <2>1, <2>2, <2>3 DEF Moves, Ensure, ListMembers, ReadListeners,
       ReadPools, ReadWhole, IsEmpty, CreatePool, PatchMembers, DeployListener, DeleteListener, DeletePool, TrimPool,
       status
<1> QED
  BY <1>5, <1>6

\* A pass that ends: only the end of a deployment records pools.
LEMMA EndFacts ==
  ASSUME IInv, NEW g \in GLBC, Book(g), Ends(g)
  PROVE  /\ pc[g] # "idle" /\ pc'[g] = "idle" /\ mode'[g] = "deploy" /\ on'[g] = None
         /\ UNCHANGED <<spec, fresh, left>> /\ (~Crash(g) => UNCHANGED loose)
         /\ ~Finish(g) => st'[g].pools = st[g].pools /\ st'[g].lis = st[g].lis
         /\ Finish(g) => /\ pc[g] = "finish" /\ mode[g] = "deploy"
                         /\ st'[g].lb = st[g].lb /\ st'[g].lis = {task[g].spec.port}
                         /\ st'[g].pools = [p \in Pool |-> IF p = task[g].spec.pool THEN seen[g] ELSE None]
         /\ \/ phase'[g] = phase[g]
            \/ NothingToDelete(g) \/ IsEmpty(g) \/ (DeleteLb(g) /\ mode[g] = "delete")
         /\ ~Attach(g) /\ ~FindByName(g) => st'[g].lb = st[g].lb
         /\ ~DeleteLb(g) => UNCHANGED cloud
<1>1. StatusOK /\ RunOK
  BY Parts
<1>2. /\ pc[g] # "idle" /\ Return(g) /\ UNCHANGED <<spec, fresh, left>> /\ (~Crash(g) => UNCHANGED loose)
      /\ ~DeleteLb(g) => UNCHANGED cloud
  BY DEF Ends, Ensure, Attach, FindByName, NothingToDelete, NotFound, Crash, Finish, IsEmpty, DeleteLb, Gone, status, history
<1>3. pc'[g] = "idle" /\ mode'[g] = "deploy" /\ on'[g] = None
  BY <1>1, <1>2, ReturnRun
<1>4. \/ phase'[g] = phase[g]
      \/ NothingToDelete(g) \/ IsEmpty(g) \/ (DeleteLb(g) /\ mode[g] = "delete")
  BY DEF Ends, Ensure, Attach, FindByName, NotFound, Crash, Finish, DeleteLb, status
<1>5. CASE Finish(g)
  <2> DEFINE ls == {task[g].spec.port}
             ps == [p \in Pool |-> IF p = task[g].spec.pool THEN seen[g] ELSE None]
  <2>1. st' = [st EXCEPT ![g].lis = ls, ![g].pools = ps] /\ pc[g] = "finish"
    BY <1>5 DEF Finish
  <2>2. ls \in SUBSET Port /\ ps \in [Pool -> (SUBSET Member) \cup {None}]
    BY <1>1, <1>2, TaskType DEF RunOK
  <2> HIDE DEF ls, ps
  <2>3. st'[g].lb = st[g].lb /\ st'[g].lis = ls /\ st'[g].pools = ps
    BY <1>1, <2>1, <2>2 DEF StatusOK, Status
  <2>4. mode[g] = "deploy"
    BY <2>1 DEF Book, Takes
  <2> QED
    BY <1>2, <1>3, <1>4, <1>5, <2>1, <2>3, <2>4 DEF ls, ps
<1>6. CASE Attach(g) \/ FindByName(g)
  <2>1. \E x \in LB \cup {None} : SetLb(g, x) \/ UNCHANGED st
    BY <1>2, <1>6, TaskType DEF Attach, FindByName, Named
  <2>2. st'[g].pools = st[g].pools /\ st'[g].lis = st[g].lis
    BY <1>1, <2>1, StatusType
  <2>3. ~Finish(g)
    BY <1>6 DEF Finish, Attach, FindByName
  <2> QED
    BY <1>2, <1>3, <1>4, <1>6, <2>2, <2>3
<1>7. CASE ~Finish(g) /\ ~Attach(g) /\ ~FindByName(g)
  <2>1. UNCHANGED st
    BY <1>7 DEF Ends, Ensure, NothingToDelete, NotFound, Crash, IsEmpty, DeleteLb, status
  <2> QED
    BY <1>2, <1>3, <1>4, <1>7, <2>1
<1> QED
  BY <1>5, <1>6, <1>7

-----------------------------------------------------------------------------
(* The books. *)

LEMMA LedgerOther ==
  ASSUME NEW j \in GLBC, Ledger(j), Untouched(j), phase'[j] = phase[j]
  PROVE  Ledger(j)'
<1>1. Creating(j)' <=> Creating(j)
  BY DEF Untouched, Creating
<1> QED
  BY <1>1 DEF Untouched, Ledger

LEMMA LedgerOwn ==
  ASSUME IInv, NEW g \in GLBC, Book(g), Ledger(g), Reconcile(g) \/ Crash(g)
  PROVE  Ledger(g)'
<1>1. StatusOK /\ RunOK
  BY Parts
<1>2. CASE Begin(g)
  <2>1. ~Creating(g)' /\ on'[g] = st[g].lb /\ st' = st
    BY <1>2, BeginBook
  <2>2. task'[g] = [spec |-> spec[g], st |-> st[g]]
    BY <1>1, <1>2 DEF Begin, RunOK
  <2>3. task'[g].st = st[g]
    BY <2>2
  <2>4. phase' = phase /\ phase[g] # "gone"
    BY <1>2 DEF Begin, status
  <2> QED
    BY <2>1, <2>3, <2>4 DEF Ledger
<1>3. CASE Ends(g)
  <2>1. /\ pc[g] # "idle" /\ pc'[g] = "idle" /\ mode'[g] = "deploy"
        /\ ~Finish(g) => st'[g].pools = st[g].pools
        /\ Finish(g) => st'[g].pools = [p \in Pool |-> IF p = task[g].spec.pool THEN seen[g] ELSE None]
    BY <1>3, EndFacts
  <2>2. \A p \in Pool : st'[g].pools[p] # None => \E w \in Wanted[g] : w.pool = p
    <3>1. CASE ~Finish(g)
      BY <2>1, <3>1 DEF Ledger
    <3>2. CASE Finish(g)
      <4>1. task[g].spec \in Wanted[g]
        BY <2>1 DEF Book
      <4> QED
        BY <2>1, <3>2, <4>1
    <3> QED
      BY <3>1, <3>2
  <2>3. ~Creating(g)'
    BY <2>1 DEF Creating
  <2> QED
    BY <2>1, <2>2, <2>3 DEF Ledger
<1>4. CASE Moves(g)
  <2>1. /\ pc[g] \notin {"idle", "recordLb", "wait", "deleteLb", "find", "attach", "finish"}
        /\ pc'[g] \notin {"idle", "recordLb", "wait", "ensure", "find"}
        /\ pc'[g] = "deleteLb" => mode[g] # "deploy"
        /\ UNCHANGED <<mode, task, on, phase>>
        /\ \/ ClearStatus(g) /\ mode[g] # "deploy" /\ pc'[g] = "attach" /\ st'[g].lis = {} /\ st'[g].pools = NoPools
           \/ /\ pc'[g] # "attach" /\ (mode[g] # "deploy" => st'[g] = st[g])
              /\ st'[g].lis \subseteq st[g].lis \cup {task[g].spec.port}
              /\ \A p \in Pool \ {task[g].spec.pool} : st'[g].pools[p] = st[g].pools[p]
    BY <1>4, MoveFacts
  <2>2. Book(g)' /\ (Creating(g)' <=> Creating(g)) /\ st'[g].lb = st[g].lb
    BY <1>4, MoveStepBook DEF Moves
  <2>3. Creating(g) => mode[g] = "deploy"
    BY DEF Book
  <2>4. task[g].spec \in Wanted[g]
    BY <2>1 DEF Book
  <2>5. \A p \in Pool : st'[g].pools[p] # None => \E w \in Wanted[g] : w.pool = p
    BY <2>1, <2>4 DEF Ledger, NoPools
  <2>6. on'[g] = st'[g].lb /\ ~(Creating(g)' /\ pc'[g] \in {"recordLb", "deleteLb"})
    BY <2>1, <2>2, <2>3 DEF Ledger
  <2>7. phase'[g] # "gone" /\ (mode'[g] # "deploy" /\ pc'[g] # "attach" => task'[g].st = st'[g])
    BY <2>1 DEF Ledger
  <2>8. mode'[g] = "deploy" =>
          /\ \A p \in Pool \ {task'[g].spec.pool} : task'[g].st.pools[p] = st'[g].pools[p]
          /\ st'[g].lis \subseteq task'[g].st.lis \cup {task'[g].spec.port}
    BY <2>1 DEF Ledger
  <2> QED
    BY <2>5, <2>6, <2>7, <2>8 DEF Ledger
<1>5. CASE CreateLb(g)
  <2>1. Creating(g)' /\ st' = st /\ pc'[g] = "recordLb" /\ UNCHANGED <<mode, task>>
    BY <1>5, CreateBook, CreateLbType
  <2>2. pc[g] = "find" /\ phase' = phase
    BY <1>5 DEF CreateLb, status
  <2>3. on[g] = None /\ ~Creating(g) /\ st[g].pools = NoPools /\ mode[g] = "deploy"
    BY <2>2 DEF Book, Takes
  <2>4. st[g].lb = None
    BY <2>2, <2>3 DEF Ledger
  <2> QED
    BY <2>1, <2>2, <2>3, <2>4 DEF Ledger
<1>6. CASE StatusAddLb(g) \/ WaitLb(g)
  <2>1. Creating(g)' /\ Creating(g) /\ on' = on /\ task' = task
    BY <1>6, RecordBook
  <2>2. /\ pc[g] \in {"recordLb", "wait"} /\ UNCHANGED <<mode, phase>> /\ on[g] \in LB
    BY <1>6 DEF StatusAddLb, WaitLb, work, IInv, Run
  <2>3. \/ pc'[g] = "wait" /\ SetLb(g, on[g])
        \/ pc'[g] = "pools" /\ st' = st /\ pc[g] = "wait"
        \/ pc'[g] = "deleteLb" /\ SetLb(g, None)
    BY <1>1, <1>6 DEF StatusAddLb, WaitLb, Goto, RunOK
  <2>4. /\ st'[g].pools = st[g].pools /\ st'[g].lis = st[g].lis
        /\ \/ pc'[g] = "wait" /\ st'[g].lb = on[g]
           \/ pc'[g] = "pools" /\ st' = st /\ pc[g] = "wait"
           \/ pc'[g] = "deleteLb" /\ st'[g].lb = None
    <3>1. st \in [GLBC -> Status] /\ st[g] \in Status
      BY <1>1 DEF StatusOK
    <3> QED
      BY <2>2, <2>3, <3>1 DEF SetLb, Status
  <2>5. mode[g] = "deploy" /\ st[g].pools = NoPools
    BY <2>1, <2>2 DEF Book
  <2>6. on'[g] = st'[g].lb \/ pc'[g] = "deleteLb"
    BY <2>1, <2>2, <2>4 DEF Ledger
  <2> QED
    BY <2>1, <2>2, <2>4, <2>5, <2>6 DEF Ledger
<1> QED
  BY <1>2, <1>3, <1>4, <1>5, <1>6, StepCases

LEMMA InitLedger == Init => LedgerInv
<1> SUFFICES ASSUME Init PROVE LedgerInv
  OBVIOUS
<1>1. /\ \A g \in GLBC : st[g] = NoStatus /\ pc[g] = "idle" /\ mode[g] = "deploy"
      /\ fresh = {x \in LB : Brought[x] = None}
  BY DEF Init, Each
<1>2. NoStatus.pools = NoPools /\ \A p \in Pool : NoPools[p] = None
  BY DEF NoStatus, NoPools
<1> QED
  BY <1>1, <1>2 DEF LedgerInv, Ledger, Creating

LEMMA NextLedger == IInv /\ SiblingInv /\ LedgerInv /\ [Next]_vars => LedgerInv'
<1> SUFFICES ASSUME IInv, SiblingInv, LedgerInv, [Next]_vars PROVE LedgerInv'
  OBVIOUS
<1>1. ASSUME NEW g \in GLBC, Reconcile(g) \/ Crash(g) PROVE LedgerInv'
  <2>1. \A j \in GLBC \ {g} : Ledger(j)'
    BY <1>1, OthersUntouched, OthersAside, LedgerOther DEF LedgerInv
  <2>2. Ledger(g)'
    BY <1>1, LedgerOwn DEF LedgerInv, SiblingInv
  <2>3. fresh' \subseteq fresh
    BY <1>1, CloudStep
  <2> QED
    BY <2>1, <2>2, <2>3 DEF LedgerInv
<1>2. CASE UNCHANGED <<fresh, st, phase, pc, mode, task, on>>
  BY <1>2 DEF LedgerInv, Ledger, Creating
<1>3. ASSUME NEW g \in GLBC, Delete(g) PROVE LedgerInv'
  <2>1. UNCHANGED <<fresh, st, pc, mode, task, on>> /\ \A j \in GLBC : phase'[j] = "gone" => phase[j] = "gone"
    BY <1>3 DEF Delete, run, IInv, TypeOK
  <2> QED
    BY <2>1 DEF LedgerInv, Ledger, Creating
<1> QED
  BY <1>1, <1>2, <1>3 DEF Next, Edit, Provision, AddByHand, vars, status, run

-----------------------------------------------------------------------------
(* What a step does to the load balancers. *)

\* A new pool has one group.
LEMMA CreatePoolGroups ==
  ASSUME IInv, NEW g \in GLBC, CreatePool(g), ~UNCHANGED cloud
  PROVE  /\ cloud'[on[g]].pools[task[g].spec.pool] = GroupOf(g, task[g].spec.members)
         /\ GroupOf(g, task[g].spec.members) # None /\ task[g].spec.pool \in Pool
         /\ GroupOf(g, task[g].spec.members)[g] # {}
         /\ \A k \in Group \ {g} : GroupOf(g, task[g].spec.members)[k] = {}
<1> DEFINE w == task[g].spec
           b == WithPool(Lb(g), w.pool, GroupOf(g, w.members))
<1>1. pc[g] = "pools" /\ There(g) /\ Call(on[g], b)
  BY DEF CreatePool
<1>2. /\ Lb(g) \in Balancer /\ on[g] \in LB /\ w.pool \in Pool /\ w.members \in SUBSET Member /\ w.members # {}
  BY <1>1, ThereType, TaskType DEF Lb
<1>3. /\ GroupOf(g, w.members) \in Groups /\ GroupOf(g, w.members)[g] = w.members
      /\ \A k \in Group \ {g} : GroupOf(g, w.members)[k] = {}
  BY <1>2, GroupOfType
<1>4. b \in Balancer /\ b.pools = [Lb(g).pools EXCEPT ![w.pool] = GroupOf(g, w.members)]
  BY <1>2, <1>3, WithPoolType
<1> HIDE DEF b
<1>5. cloud'[on[g]] = b
  BY <1>1, <1>2, <1>4, Parts, CallCloud
<1>6. b.pools[w.pool] = GroupOf(g, w.members)
  BY <1>2, <1>4 DEF Balancer
<1> QED
  BY <1>2, <1>3, <1>5, <1>6, Nones

\* A load balancer that comes up new.
LEMMA CreateLbGroups ==
  ASSUME IInv, NEW g \in GLBC, CreateLb(g)
  PROVE  \E x \in fresh :
           /\ on'[g] = x /\ cloud'[x] # None /\ \A y \in LB \ {x} : cloud'[y] = cloud[y]
           /\ cloud'[x].lis = [q \in Port |-> IF q = task[g].spec.port THEN task[g].spec.pool ELSE None]
           /\ \A p \in Pool \ {task[g].spec.pool} : cloud'[x].pools[p] = None
           /\ cloud'[x].pools[task[g].spec.pool] # None /\ cloud'[x].pools[task[g].spec.pool][g] # {}
           /\ \A k \in Group \ {g} : cloud'[x].pools[task[g].spec.pool][k] = {}
<1>1. PICK x \in fresh : /\ \A y \in LB \ {x} : cloud'[y] = cloud[y]
                         /\ cloud'[x] = NewBalancer(g, task[g].spec) /\ on'[g] = x
  BY CreateLbType
<1> DEFINE w == task[g].spec
           b == NewBalancer(g, w)
<1>2. w \in Want /\ w.port \in Port /\ w.pool \in Pool /\ w.members \in SUBSET Member /\ w.members # {}
  BY TaskType DEF CreateLb
<1>3. /\ b \in Balancer
      /\ b.lis = [r \in Port |-> IF r = w.port THEN w.pool ELSE None]
      /\ b.pools = [p \in Pool |-> IF p = w.pool THEN GroupOf(g, w.members) ELSE None]
  BY <1>2, NewBalancerType
<1>4. /\ GroupOf(g, w.members) \in Groups /\ GroupOf(g, w.members)[g] = w.members
      /\ \A k \in Group \ {g} : GroupOf(g, w.members)[k] = {}
  BY <1>2, GroupOfType
<1> HIDE DEF b
<1>5. /\ b.pools[w.pool] = GroupOf(g, w.members) /\ b # None
      /\ \A p \in Pool \ {w.pool} : b.pools[p] = None
  BY <1>2, <1>3, Nones
<1>6. cloud'[x] = b
  BY <1>1 DEF b
<1> QED
  BY <1>1, <1>2, <1>3, <1>4, <1>5, <1>6, Nones

\* A step neither makes nor changes the groups of others; it may delete them.
LEMMA GroupsOfOthers ==
  ASSUME IInv, SiblingInv, NEW g \in GLBC, Reconcile(g) \/ Crash(g), NEW j \in Group \ {g},
         NEW x \in LB, NEW p \in Pool,
         cloud'[x] # None, cloud'[x].pools[p] # None, cloud'[x].pools[p][j] # {}
  PROVE  cloud[x] # None /\ cloud[x].pools[p] # None /\ cloud'[x].pools[p][j] = cloud[x].pools[p][j]
<1>1. CASE cloud'[x] = cloud[x]
  BY <1>1
<1>2. CASE CreateLb(g) /\ cloud'[x] # cloud[x]
  <2>1. PICK y \in fresh :
          /\ \A z \in LB \ {y} : cloud'[z] = cloud[z]
          /\ \A r \in Pool \ {task[g].spec.pool} : cloud'[y].pools[r] = None
          /\ \A k \in Group \ {g} : cloud'[y].pools[task[g].spec.pool][k] = {}
    BY <1>2, CreateLbGroups
  <2>2. x = y
    BY <1>2, <2>1
  <2> QED
    BY <2>1, <2>2
<1>3. CASE CreatePool(g) /\ cloud'[x] # cloud[x]
  <2>1. /\ Called(g) /\ cloud[on[g]].pools[task[g].spec.pool] = None
        /\ \A r \in Pool \ {task[g].spec.pool} : cloud'[on[g]].pools[r] = cloud[on[g]].pools[r]
    BY <1>3, CreatePoolEffect
  <2>2. x = on[g] /\ cloud[x] # None
    BY <1>3, <2>1, Nones DEF Called
  <2>3. \A k \in Group \ {g} : cloud'[x].pools[task[g].spec.pool][k] = {}
    BY <1>3, <2>2, CreatePoolGroups
  <2> QED
    BY <2>1, <2>2, <2>3
<1>4. CASE (PatchMembers(g) \/ TrimPool(g)) /\ cloud'[x] # cloud[x]
  <2>1. PICK r, ms : Regrouped(g, r, ms)
    BY <1>4, PatchEffect, TrimPoolEffect
  <2>2. x = on[g] /\ cloud[x] # None
    BY <1>4, <2>1, Nones DEF Regrouped, Called
  <2> QED
    BY <2>1, <2>2 DEF Regrouped
<1>5. CASE (DeployListener(g) \/ DeleteListener(g)) /\ cloud'[x] # cloud[x]
  <2>1. Called(g) /\ cloud'[on[g]].pools = cloud[on[g]].pools
    BY <1>5, ListenerEffect
  <2> QED
    BY <1>5, <2>1, Nones DEF Called
<1>6. CASE DeletePool(g) /\ cloud'[x] # cloud[x]
  <2>1. Called(g) /\ victim[g] \in Pool /\ cloud'[on[g]].pools = [cloud[on[g]].pools EXCEPT ![victim[g]] = None]
    BY <1>6, DeletePoolEffect
  <2>2. x = on[g] /\ cloud[x] # None /\ cloud[x].pools \in [Pool -> Groups \cup {None}]
    BY <1>6, <2>1, Nones DEF Called, Balancer
  <2> QED
    BY <2>1, <2>2
<1>7. CASE DeleteLb(g)
  <2>1. on[g] \in LB /\ Call(on[g], None)
    BY <1>7, ThereType DEF DeleteLb
  <2>2. cloud'[on[g]] = None /\ \A y \in LB \ {on[g]} : cloud'[y] = cloud[y]
    BY <2>1, Parts, CallCloud
  <2> QED
    BY <1>1, <2>2
<1>8. CASE ~Calls(g)
  BY <1>1, <1>8, NoCall
<1> QED
  BY <1>1, <1>2, <1>3, <1>4, <1>5, <1>6, <1>7, <1>8 DEF Calls

\* The name and the state of a load balancer.
LEMMA NameKept ==
  ASSUME IInv, SiblingInv, NEW g \in GLBC, Reconcile(g) \/ Crash(g), NEW x \in LB,
         cloud[x] # None, cloud'[x] # None
  PROVE  cloud'[x].name = cloud[x].name /\ cloud'[x].state = cloud[x].state
<1>1. CASE cloud'[x] = cloud[x]
  BY <1>1
<1>2. CASE CreateLb(g)
  <2>1. PICK y \in fresh : \A z \in LB \ {y} : cloud'[z] = cloud[z]
    BY <1>2, CreateLbGroups
  <2>2. cloud[y] = None
    BY DEF SiblingInv, Sealed
  <2> QED
    BY <1>1, <2>1, <2>2
<1>3. CASE /\ CreatePool(g) \/ PatchMembers(g) \/ TrimPool(g) \/ DeployListener(g) \/ DeleteListener(g) \/ DeletePool(g)
           /\ cloud'[x] # cloud[x]
  <2>1. UNCHANGED cloud \/ Called(g)
    BY <1>3, CreatePoolEffect, PatchEffect, TrimPoolEffect, ListenerEffect, DeletePoolEffect DEF Regrouped
  <2>2. x = on[g] /\ cloud'[x].state = cloud[x].state /\ cloud[x] \in Balancer
    BY <1>3, <2>1 DEF Called
  <2>3. PICK b : Call(x, b) /\ b.name = cloud[x].name
    <3>1. CASE CreatePool(g)
      BY <1>3, <2>2, <3>1 DEF CreatePool, WithPool, Balancer, Lb
    <3>2. CASE PatchMembers(g)
      BY <1>3, <2>2, <3>2 DEF PatchMembers, WithGroup, Balancer, Lb
    <3>3. CASE TrimPool(g)
      BY <1>3, <2>2, <3>3 DEF TrimPool, WithGroup, Balancer, Lb
    <3>4. CASE DeployListener(g) \/ DeleteListener(g)
      BY <1>3, <2>2, <3>4 DEF DeployListener, DeleteListener, WithListener, WithoutListener, Balancer, Lb
    <3>5. CASE DeletePool(g)
      <4> DEFINE ls == [q \in Port |-> IF cloud[x].lis[q] = victim[g] THEN None ELSE cloud[x].lis[q]]
                 b == [cloud[x] EXCEPT !.pools[victim[g]] = None, !.lis = ls]
      <4>1. Call(x, b)
        BY <2>2, <3>5 DEF DeletePool, WithoutPool, Lb
      <4>2. b.name = cloud[x].name
        <5> HIDE DEF ls
        <5> QED
          BY <2>2 DEF Balancer
      <4> QED
        BY <4>1, <4>2
    <3> QED
      BY <1>3, <3>1, <3>2, <3>3, <3>4, <3>5
  <2>4. cloud'[x] = b
    BY <2>3 DEF Call, IInv, TypeOK
  <2> QED
    BY <2>2, <2>3, <2>4
<1>4. CASE DeleteLb(g)
  <2>1. on[g] \in LB /\ Call(on[g], None)
    BY <1>4, ThereType DEF DeleteLb
  <2>2. cloud'[on[g]] = None /\ \A y \in LB \ {on[g]} : cloud'[y] = cloud[y]
    BY <2>1, Parts, CallCloud
  <2> QED
    BY <1>1, <2>2
<1>5. CASE ~Calls(g)
  BY <1>1, <1>5, NoCall
<1> QED
  BY <1>1, <1>2, <1>3, <1>4, <1>5 DEF Calls

\* Two states of a load balancer that differ in the members of g alone, who has
\* some where it had some.
Alike(g, b, c) ==
  /\ b # None /\ c # None /\ c.lis = b.lis
  /\ \A p \in Pool :
       /\ c.pools[p] = None <=> b.pools[p] = None
       /\ b.pools[p] # None => /\ \A k \in Group \ {g} : c.pools[p][k] = b.pools[p][k]
                               /\ c.pools[p][g] = {} <=> b.pools[p][g] = {}

\* The creator of a load balancer changes its own members, or deletes all of it.
LEMMA CreatorGentle ==
  ASSUME IInv, SiblingInv, NEW g \in GLBC, Creating(g), Reconcile(g) \/ Crash(g),
         cloud[on[g]] # None, ~DeleteLb(g)
  PROVE  cloud'[on[g]] = cloud[on[g]] \/ Alike(g, cloud[on[g]], cloud'[on[g]])
<1> DEFINE x == on[g]
           q == task[g].spec.port
           p == task[g].spec.pool
<1>1. x \in LB /\ x \notin fresh /\ q \in Port /\ p \in Pool /\ pc[g] # "idle" /\ Book(g) /\ Born(g)
  BY CreatingLb DEF SiblingInv
<1>2. pc[g] \notin {"deleteListener", "deletePool", "trimPool", "find"}
  BY <1>1 DEF Book
<1>3. Serves(g, cloud[x], q, p)
  BY <1>1 DEF Born
<1>4. CASE PatchMembers(g) /\ cloud'[x] # cloud[x]
  <2>1. PICK ms \in SUBSET Member : task[g].spec.members \subseteq ms /\ Regrouped(g, p, ms)
    BY <1>4, PatchEffect
  <2>2. ms # {}
    BY <1>1, <2>1, TaskType
  <2>3. /\ cloud'[x] # None /\ cloud[x].pools[p] # None /\ cloud'[x].pools[p] # None
        /\ cloud'[x].lis = cloud[x].lis
        /\ \A r \in Pool \ {p} : cloud'[x].pools[r] = cloud[x].pools[r]
        /\ cloud'[x].pools[p][g] = ms
        /\ \A k \in Group \ {g} : cloud'[x].pools[p][k] = cloud[x].pools[p][k]
    BY <2>1, Nones DEF Regrouped, Called
  <2>4. cloud[x].pools[p][g] # {}
    BY <1>3 DEF Serves
  <2> QED
    BY <2>2, <2>3, <2>4 DEF Alike
<1>5. CASE CreatePool(g) /\ cloud'[x] # cloud[x]
  <2>1. cloud[x].pools[p] = None
    BY <1>5, CreatePoolEffect
  <2> QED
    BY <1>3, <2>1 DEF Serves
<1>6. CASE DeployListener(g) /\ cloud'[x] # cloud[x]
  <2>1. cloud[x].lis[q] # p
    BY <1>6 DEF DeployListener, Lb
  <2> QED
    BY <1>3, <2>1 DEF Serves
<1>7. CASE ~Calls(g)
  BY <1>7, NoCall
<1>8. ~DeleteListener(g) /\ ~DeletePool(g) /\ ~TrimPool(g) /\ ~CreateLb(g)
  BY <1>2 DEF DeleteListener, DeletePool, TrimPool, CreateLb
<1> QED
  BY <1>4, <1>5, <1>6, <1>7, <1>8 DEF Calls

-----------------------------------------------------------------------------
(* A step leaves the others in order. *)

\* A pass has members nowhere but where it works; one that has created its load
\* balancer, in no pool but its own.
LEMMA HasHere ==
  ASSUME IInv, NEW g \in GLBC, Book(g), Ledger(g), Tended(g), pc[g] # "idle",
         NEW x \in LB, NEW p \in Pool, Has(g, cloud[x], p)
  PROVE  on[g] = x /\ (Creating(g) => p = task[g].spec.pool) /\ phase[g] # "gone"
<1>1. Booked(g, x, p)
  BY DEF Tended
<1>2. x # None
  BY Nones
<1>3. ~(Recording(g) /\ on[g] = x /\ p = task[g].spec.pool) =>
        st[g].lb = x /\ st[g].pools[p] # None
  BY <1>1 DEF Booked
<1>4. on[g] = x
  BY <1>2, <1>3 DEF Ledger
<1>5. Creating(g) /\ p # task[g].spec.pool => st[g].pools[p] = None
  BY DEF Book, Ledger, NoPools
<1> QED
  BY <1>1, <1>3, <1>4, <1>5 DEF Booked, Book

\* On the load balancer of another pass that has not created it, a step changes
\* its own members at most.
LEMMA Around ==
  ASSUME IInv, SiblingInv, LedgerInv, NEW g \in GLBC, Reconcile(g) \/ Crash(g),
         NEW j \in GLBC \ {g}, Exclusive(g, j), on[j] # None, ~Creating(j)
  PROVE  cloud'[on[j]] = cloud[on[j]] \/ Alike(g, cloud[on[j]], cloud'[on[j]])
<1> DEFINE x == on[j]
<1>1. x \in LB /\ x \notin fresh /\ Book(g) /\ Born(g) /\ Ledger(j)
  BY DEF SiblingInv, LedgerInv, Sealed, IInv, TypeOK
<1>2. CASE on[g] # x
  BY <1>1, <1>2, CloudStep
<1>3. CASE on[g] = x
  <2>1. Creating(g)
    BY <1>3 DEF Exclusive
  <2>2. CASE cloud[x] = None
    BY <1>1, <2>2, CloudStep
  <2>3. CASE cloud[x] # None
    <3>1. pc[j] # "idle"
      BY DEF IInv, Run
    <3>2. st[j].lb = x
      BY <1>1, <3>1 DEF Ledger
    <3>3. cloud[x].state = "ACTIVE"
      BY <1>1, <1>3, <2>1, <2>3, <3>2 DEF Born
    <3>4. ~DeleteLb(g)
      <4>1. pc[g] = "deleteLb" => cloud[x].state = "ERROR"
        BY <1>1, <1>3, <2>1, <2>3 DEF Born
      <4> QED
        BY <3>3, <4>1 DEF DeleteLb
    <3> QED
      BY <1>3, <2>1, <2>3, <3>4, CreatorGentle
  <2> QED
    BY <2>2, <2>3
<1> QED
  BY <1>2, <1>3

\* The load balancer of a pass that has created it stays, with its listener and
\* its members.
LEMMA CreatorKept ==
  ASSUME PortsApart, IInv, SiblingInv, NEW g \in GLBC, Reconcile(g) \/ Crash(g),
         NEW j \in GLBC \ {g}, Creating(j), cloud[on[j]] # None
  PROVE  /\ cloud'[on[j]] # None
         /\ cloud'[on[j]].lis[task[j].spec.port] = task[j].spec.pool
         /\ cloud'[on[j]].pools[task[j].spec.pool] # None
         /\ cloud'[on[j]].pools[task[j].spec.pool][j] # {}
         /\ cloud'[on[j]].pools[task[j].spec.pool][j] = cloud[on[j]].pools[task[j].spec.pool][j]
<1> DEFINE x == on[j]
           p == task[j].spec.pool
<1>1. x \in LB /\ x \notin fresh /\ p \in Pool /\ Born(j)
  BY CreatingLb DEF SiblingInv
<1>2. Born(j)' /\ Untouched(j)
  BY BornOther, OthersUntouched
<1>3. Creating(j)' /\ on'[j] = x /\ task'[j] = task[j]
  BY <1>2 DEF Untouched, Creating
<1>4. cloud'[x] # None
  <2>1. CASE on[g] # x
    BY <1>1, <2>1, CloudStep
  <2>2. CASE on[g] = x
    <3>1. ~DeleteLb(g)
      BY <1>1, <2>2 DEF Born, DeleteLb
    <3>2. CASE CreateLb(g)
      BY <1>1, <3>2, CreateLbGroups
    <3>3. CASE CreatePool(g) \/ PatchMembers(g) \/ TrimPool(g) \/ DeployListener(g) \/ DeleteListener(g) \/ DeletePool(g)
      <4>1. UNCHANGED cloud \/ Called(g)
        BY <3>3, CreatePoolEffect, PatchEffect, TrimPoolEffect, ListenerEffect, DeletePoolEffect DEF Regrouped
      <4> QED
        BY <2>2, <4>1, Nones DEF Called
    <3>4. CASE ~Calls(g)
      BY <3>4, NoCall
    <3> QED
      BY <3>1, <3>2, <3>3, <3>4 DEF Calls
  <2> QED
    BY <2>1, <2>2
<1>5. Serves(j, cloud'[x], task[j].spec.port, p)
  BY <1>2, <1>3, <1>4 DEF Born
<1>6. j \in Group \ {g}
  BY Nones
<1>7. cloud'[x].pools[p][j] = cloud[x].pools[p][j]
  BY <1>1, <1>4, <1>5, <1>6, GroupsOfOthers DEF Serves
<1> QED
  BY <1>4, <1>5, <1>7 DEF Serves

\* What another GLBC has it had before, and it is on its books still.
LEMMA OtherBooked ==
  ASSUME IInv, SiblingInv, NEW g \in GLBC, Reconcile(g) \/ Crash(g),
         NEW j \in GLBC \ {g}, Tended(j), NEW x \in LB, NEW p \in Pool, Has(j, cloud'[x], p)
  PROVE  Has(j, cloud[x], p) /\ Booked(j, x, p)'
<1>1. j \in Group \ {g}
  BY Nones
<1>2. cloud[x] # None /\ cloud[x].pools[p] # None /\ cloud'[x].pools[p][j] = cloud[x].pools[p][j]
  BY <1>1, GroupsOfOthers DEF Has
<1>3. Has(j, cloud[x], p)
  BY <1>2 DEF Has
<1>4. Booked(j, x, p)
  BY <1>3 DEF Tended
<1>5. Untouched(j) /\ phase'[j] = phase[j]
  BY OthersUntouched, OthersAside
<1> QED
  BY <1>2, <1>3, <1>4, <1>5 DEF Booked, Untouched, Recording

LEMMA OtherStanding ==
  ASSUME PortsApart, IInv, SiblingInv, LedgerInv, NEW g \in GLBC, Reconcile(g) \/ Crash(g),
         NEW j \in GLBC \ {g}, Exclusive(g, j), Standing(j)
  PROVE  Standing(j)'
<1>1. Untouched(j) /\ seen'[j] = seen[j]
  BY OthersUntouched, OthersAside
<1>2. Recording(j)' <=> Recording(j)
  BY <1>1 DEF Untouched, Recording
<1> SUFFICES ASSUME Recording(j) PROVE Standing(j)'
  BY <1>2 DEF Standing
<1> DEFINE x == on[j]
           w == task[j].spec
<1>3. pc[j] # "idle" /\ Book(j) /\ Ledger(j) /\ cloud[x] # None
  BY DEF Recording, SiblingInv, LedgerInv, Standing
<1>4. w.pool \in Pool
  BY <1>3, TaskType
<1>5. /\ cloud'[x] # None
      /\ cloud[x].pools[w.pool] # None =>
           cloud'[x].pools[w.pool] # None /\ cloud'[x].pools[w.pool][j] = cloud[x].pools[w.pool][j]
      /\ cloud[x].lis[w.port] = w.pool => cloud'[x].lis[w.port] = w.pool
  <2>1. CASE Creating(j)
    BY <1>3, <2>1, CreatorKept
  <2>2. CASE ~Creating(j)
    <3>1. x # None
      BY <1>3, <2>2 DEF Book, Ledger, Recording
    <3>2. cloud'[x] = cloud[x] \/ Alike(g, cloud[x], cloud'[x])
      BY <2>2, <3>1, Around
    <3>3. j \in Group \ {g}
      BY Nones
    <3> QED
      BY <1>3, <1>4, <3>2, <3>3 DEF Alike
  <2> QED
    BY <2>1, <2>2
<1>6. pc'[j] = pc[j] /\ on'[j] = x /\ task'[j].spec = w
  BY <1>1 DEF Untouched
<1>7. Standing(j)
  OBVIOUS
<1> QED
  BY <1>1, <1>5, <1>6, <1>7 DEF Standing, Placed

LEMMA OtherSweeping ==
  ASSUME PortsApart, IInv, SiblingInv, LedgerInv, NEW g \in GLBC, Reconcile(g) \/ Crash(g),
         NEW j \in GLBC \ {g}, Exclusive(g, j), Tended(j)
  PROVE  Sweeping(j)'
<1> DEFINE x == on[j]
           v == victim[j]
<1>1. Untouched(j) /\ left \subseteq left' /\ Sweeping(j) /\ Book(j) /\ Ledger(j)
  BY OthersUntouched, OthersAside DEF SiblingInv, LedgerInv, Tended
<1>2. pc'[j] = pc[j] /\ on'[j] = x /\ victim'[j] = v /\ KeptPools(j)' = KeptPools(j) /\ KeptPorts(j)' = KeptPorts(j)
  BY <1>1 DEF Untouched, KeptPools, KeptPorts
<1>3. x \in LB \cup {None}
  BY DEF IInv, TypeOK
<1>4. \A y \in LB, p \in Pool : Has(j, cloud'[y], p) => Has(j, cloud[y], p)
  BY OtherBooked
<1>5. pc[j] \in {"attach", "find"} => \A y \in LB, p \in Pool : ~Has(j, cloud'[y], p)
  BY <1>1, <1>4 DEF Sweeping
<1>6. pc[j] = "attach" /\ x # None => x \in left' \/ cloud'[x] = None
  <2>1. x # None => x \notin fresh
    BY <1>3 DEF SiblingInv, Sealed
  <2> QED
    BY <1>1, <1>3, <2>1, CloudStep DEF Sweeping
<1>7. x # None /\ pc[j] \in {"finish", "clear", "isEmpty"} => \A p \in Pool \ KeptPools(j) : ~Has(j, cloud'[x], p)
  BY <1>1, <1>3, <1>4 DEF Sweeping
<1>8. ASSUME x # None, pc[j] \in {"redundantPools", "deletePool", "trimPool"},
             NEW p \in Pool \ KeptPools(j), Has(j, cloud'[x], p), InUse(cloud'[x], p)
      PROVE  ~Alone(j, cloud'[x], p)
  <2>1. Has(j, cloud[x], p) /\ x \in LB
    BY <1>3, <1>4, <1>8
  <2>2. ~Creating(j)
    <3>1. Creating(j) => p = task[j].spec.pool /\ mode[j] = "deploy"
      BY <1>1, <1>8, <2>1, HasHere DEF Book
    <3> QED
      BY <3>1 DEF KeptPools
  <2>3. cloud'[x] = cloud[x] \/ Alike(g, cloud[x], cloud'[x])
    BY <1>8, <2>2, Around
  <2>4. InUse(cloud[x], p)
    BY <1>8, <2>3 DEF InUse, Alike
  <2>5. ~Alone(j, cloud[x], p)
    BY <1>1, <1>8, <2>1, <2>4 DEF Sweeping
  <2>6. cloud[x].pools[p] # None
    BY <2>1 DEF Has
  <2> QED
    BY <2>3, <2>5, <2>6 DEF Alone, Alike
<1>9. pc[j] = "trimPool" => /\ x # None /\ cloud'[x] # None /\ cloud'[x].pools[v] # None
                            /\ ~Alone(j, cloud'[x], v)
  <2> SUFFICES ASSUME pc[j] = "trimPool"
               PROVE  /\ x # None /\ cloud'[x] # None /\ cloud'[x].pools[v] # None
                      /\ ~Alone(j, cloud'[x], v)
    OBVIOUS
  <2>1. x # None /\ cloud[x] # None /\ cloud[x].pools[v] # None /\ ~Alone(j, cloud[x], v)
    BY <1>1 DEF Sweeping
  <2>2. ~Creating(j) /\ v \in Pool
    BY <1>1 DEF Book, IInv, Run
  <2>3. cloud'[x] = cloud[x] \/ Alike(g, cloud[x], cloud'[x])
    BY <2>1, <2>2, Around
  <2> QED
    BY <2>1, <2>2, <2>3 DEF Alone, Alike
<1>10. /\ pc[j] = "deleteListener" => v \notin KeptPorts(j) /\ ~UserPort(x, v)
       /\ pc[j] \in {"deletePool", "trimPool"} => v \notin KeptPools(j)
       /\ pc[j] = "deletePool" => ~UserPool(x, v)
  BY <1>1 DEF Sweeping
<1> HIDE DEF x, v
<1> QED
  BY <1>2, <1>5, <1>6, <1>7, <1>8, <1>9, <1>10 DEF Sweeping, UserPort, UserPool

LEMMA OtherTended ==
  ASSUME PortsApart, IInv, SiblingInv, LedgerInv, NEW g \in GLBC, Reconcile(g) \/ Crash(g),
         NEW j \in GLBC \ {g}, Exclusive(g, j), Tended(j)
  PROVE  Tended(j)'
<1>1. Standing(j)' /\ Sweeping(j)'
  BY OtherStanding, OtherSweeping DEF Tended
<1>2. Untouched(j) /\ Filed(j)
  BY OthersUntouched DEF Tended
<1>3. Filed(j)'
  BY <1>2 DEF Untouched, Filed, Recording
<1>4. \A x \in LB, p \in Pool : Has(j, cloud'[x], p) => Booked(j, x, p)'
  BY OtherBooked
<1> QED
  BY <1>1, <1>3, <1>4 DEF Tended

-----------------------------------------------------------------------------
(* A step keeps its own GLBC in order: the steps that go on. *)

LEMMA MoveFiled ==
  ASSUME IInv, NEW g \in GLBC, Book(g), Ledger(g), Tended(g), Moves(g)
  PROVE  Filed(g)'
<1>1. /\ pc'[g] \notin {"idle", "recordLb", "wait", "ensure", "find"}
      /\ UNCHANGED <<mode, task>>
      /\ \/ ClearStatus(g) /\ mode[g] # "deploy" /\ pc'[g] = "attach" /\ st'[g].lis = {} /\ st'[g].pools = NoPools
         \/ /\ pc'[g] # "attach" /\ (mode[g] # "deploy" => st'[g] = st[g])
            /\ st[g].lis \subseteq st'[g].lis
            /\ \A p \in Pool \ {task[g].spec.pool} : st'[g].pools[p] = st[g].pools[p]
  BY MoveFacts
<1>2. Filed(g)
  BY DEF Tended
<1>3. CASE ClearStatus(g) /\ st'[g].pools = NoPools
  BY <1>3 DEF Filed, NoPools
<1>4. CASE mode[g] # "deploy" /\ st'[g] = st[g]
  BY <1>1, <1>2, <1>4 DEF Filed, Recording
<1>5. CASE mode[g] = "deploy"
  <2>1. Recording(g)' /\ pc'[g] # "attach"
    BY <1>1, <1>5 DEF Recording
  <2> QED
    BY <1>1, <1>2, <1>5, <2>1 DEF Filed
<1> QED
  BY <1>1, <1>3, <1>4, <1>5

\* Members come to the group of the pass in the pool it deploys, and nowhere else.
LEMMA MoveGroups ==
  ASSUME IInv, NEW g \in GLBC, Book(g), Moves(g), NEW x \in LB, NEW p \in Pool, Has(g, cloud'[x], p)
  PROVE  \/ mode[g] = "deploy" /\ x = on[g] /\ p = task[g].spec.pool
         \/ Has(g, cloud[x], p) /\ cloud'[x].pools[p][g] = cloud[x].pools[p][g]
<1>1. CASE cloud'[x] = cloud[x]
  BY <1>1
<1>2. CASE (CreatePool(g) \/ PatchMembers(g)) /\ cloud'[x] # cloud[x]
  <2>1. mode[g] = "deploy"
    BY <1>2 DEF CreatePool, PatchMembers, Book, Takes
  <2>2. /\ Called(g) /\ \A r \in Pool \ {task[g].spec.pool} : cloud'[on[g]].pools[r] = cloud[on[g]].pools[r]
    BY <1>2, CreatePoolEffect, PatchEffect DEF Regrouped
  <2>3. x = on[g] /\ cloud[x] # None
    BY <1>2, <2>2, Nones DEF Called
  <2> QED
    BY <2>1, <2>2, <2>3 DEF Has
<1>3. CASE (DeployListener(g) \/ DeleteListener(g)) /\ cloud'[x] # cloud[x]
  <2>1. Called(g) /\ cloud'[on[g]].pools = cloud[on[g]].pools
    BY <1>3, ListenerEffect
  <2> QED
    BY <1>3, <2>1, Nones DEF Called, Has
<1>4. CASE DeletePool(g) /\ cloud'[x] # cloud[x]
  <2>1. Called(g) /\ victim[g] \in Pool /\ cloud'[on[g]].pools = [cloud[on[g]].pools EXCEPT ![victim[g]] = None]
    BY <1>4, DeletePoolEffect
  <2>2. x = on[g] /\ cloud[x] # None /\ cloud[x].pools \in [Pool -> Groups \cup {None}]
    BY <1>4, <2>1, Nones DEF Called, Balancer
  <2> QED
    BY <2>1, <2>2 DEF Has
<1>5. CASE TrimPool(g) /\ cloud'[x] # cloud[x]
  <2>1. Regrouped(g, victim[g], {})
    BY <1>5, TrimPoolEffect
  <2>2. x = on[g] /\ cloud[x] # None
    BY <1>5, <2>1, Nones DEF Regrouped, Called
  <2> QED
    BY <2>1, <2>2 DEF Regrouped, Has
<1>6. CASE ~(CreatePool(g) \/ PatchMembers(g) \/ DeployListener(g) \/ DeleteListener(g) \/ DeletePool(g) \/ TrimPool(g))
  <2>1. UNCHANGED cloud
    BY <1>6 DEF Moves, Ensure, ClearStatus, StatusAddPool, ListMembers, StatusAddMembers, StatusAddListener, ReadListeners,
       ReadPools, ReadWhole, IsEmpty
  <2> QED
    BY <1>1, <2>1
<1> QED
  BY <1>1, <1>2, <1>3, <1>4, <1>5, <1>6

LEMMA MoveBooked ==
  ASSUME IInv, NEW g \in GLBC, Book(g), Ledger(g), Tended(g), Moves(g),
         NEW x \in LB, NEW p \in Pool, Has(g, cloud'[x], p)
  PROVE  Booked(g, x, p)'
<1>1. /\ pc[g] # "idle" /\ pc[g] # "attach"
      /\ pc'[g] \notin {"idle", "recordLb", "wait", "ensure", "find"}
      /\ UNCHANGED <<mode, task, on, phase>>
      /\ \/ ClearStatus(g) /\ mode[g] # "deploy" /\ pc'[g] = "attach" /\ st'[g].lis = {} /\ st'[g].pools = NoPools
         \/ /\ pc'[g] # "attach" /\ (mode[g] # "deploy" => st'[g] = st[g])
            /\ \A r \in Pool \ {task[g].spec.pool} : st'[g].pools[r] = st[g].pools[r]
  BY MoveFacts
<1>2. st'[g].lb = st[g].lb
  BY MoveStepBook DEF Moves
<1>3. phase'[g] # "gone" /\ (mode[g] = "deploy" => Recording(g)')
  BY <1>1 DEF Ledger, Recording
<1>4. CASE mode[g] = "deploy" /\ x = on[g] /\ p = task[g].spec.pool
  BY <1>1, <1>3, <1>4 DEF Booked
<1>5. CASE ~(mode[g] = "deploy" /\ x = on[g] /\ p = task[g].spec.pool)
  <2>1. Has(g, cloud[x], p) /\ cloud'[x].pools[p][g] = cloud[x].pools[p][g]
    BY <1>5, MoveGroups
  <2>2. on[g] = x /\ Booked(g, x, p)
    BY <1>1, <2>1, HasHere DEF Tended
  <2>3. ~ClearStatus(g)
    <3>1. SUFFICES ASSUME ClearStatus(g) PROVE FALSE
      OBVIOUS
    <3>2. pc[g] = "clear" /\ on[g] # None
      BY <2>2, <3>1, Nones DEF ClearStatus
    <3>3. mode[g] # "deploy"
      BY <3>2 DEF Book
    <3> QED
      BY <2>1, <2>2, <3>2, <3>3 DEF Tended, Sweeping, KeptPools
  <2>4. st[g].lb = x /\ st[g].pools[p] \notin {None, {}} /\ cloud[x].pools[p][g] \subseteq st[g].pools[p]
    BY <1>5, <2>2 DEF Booked, Recording
  <2>5. st'[g].pools[p] = st[g].pools[p]
    BY <1>1, <1>5, <2>2, <2>3
  <2> QED
    BY <1>2, <1>3, <2>1, <2>4, <2>5 DEF Booked
<1> QED
  BY <1>4, <1>5

\* What is deployed stays put up to the end of the pass.
LEMMA DeployStanding ==
  ASSUME IInv, NEW g \in GLBC, Book(g), Standing(g),
         \/ Ensure(g) /\ Active(on[g])
         \/ CreatePool(g) \/ StatusAddPool(g) \/ ListMembers(g) \/ PatchMembers(g)
         \/ StatusAddMembers(g) \/ DeployListener(g) \/ StatusAddListener(g)
  PROVE  Standing(g)'
<1> DEFINE x == on[g]
           w == task[g].spec
<1>1. RunOK /\ Moves(g)
  BY Parts DEF Moves
<1>2. UNCHANGED <<mode, task, on>> /\ pc[g] # "idle"
  BY <1>1, MoveFacts
<1>3. mode[g] = "deploy" /\ pc[g] \in {"ensure", "pools", "recordPool", "members", "patch", "relist",
                                         "recordMembers", "listeners", "recordListener"}
  BY DEF Ensure, CreatePool, StatusAddPool, ListMembers, PatchMembers,
     StatusAddMembers, DeployListener, StatusAddListener, Book, Takes
<1>4. pc[g] # "ensure" => Recording(g)
  BY <1>3 DEF Recording
<1>5. w.pool \in Pool /\ w.port \in Port /\ w.members # {} /\ seen[g] \in SUBSET Member
  BY <1>1, <1>2, TaskType DEF RunOK
<1>6. CASE Ensure(g) /\ Active(on[g])
  <2>1. pc'[g] = "pools" /\ cloud' = cloud /\ cloud[x] # None
    BY <1>1, <1>6 DEF Ensure, Active, Goto, RunOK
  <2> QED
    BY <1>2, <2>1 DEF Standing, Placed
<1>7. CASE CreatePool(g)
  <2>1. CASE UNCHANGED cloud /\ PoolNow(g) # None
    <3>1. pc'[g] = "members" /\ There(g)
      BY <1>1, <1>7, <2>1 DEF CreatePool, Goto, RunOK
    <3> QED
      BY <1>2, <2>1, <3>1 DEF Standing, Placed, There, PoolNow, Lb
  <2>2. CASE ~UNCHANGED cloud
    <3>1. pc'[g] = "recordPool" /\ Called(g)
      BY <1>1, <1>7, <2>2, CreatePoolEffect DEF CreatePool, Goto, RunOK
    <3>2. cloud'[x].pools[w.pool] # None
      BY <1>7, <2>2, CreatePoolGroups
    <3>3. cloud'[x] # None
      BY <3>1, Nones DEF Called
    <3> QED
      BY <1>2, <3>1, <3>2, <3>3 DEF Standing, Placed
  <2>3. CASE PoolNow(g) = None /\ UNCHANGED cloud
    <3> DEFINE gs == GroupOf(g, w.members)
               b == WithPool(cloud[x], w.pool, gs)
    <3>1. There(g) /\ Call(x, b)
      BY <1>7, <2>3 DEF CreatePool, Lb
    <3>2. cloud[x] \in Balancer /\ x \in LB /\ w.members \in SUBSET Member
      BY <1>2, <3>1, ThereType, TaskType
    <3>3. gs \in Groups
      BY <3>2, GroupOfType
    <3>4. b.pools = [cloud[x].pools EXCEPT ![w.pool] = gs]
      BY <1>5, <3>2, <3>3, WithPoolType
    <3>5. cloud'[x] = b
      BY <3>1, <3>2 DEF Call, IInv, TypeOK
    <3> HIDE DEF b, gs
    <3>6. b.pools[w.pool] = gs /\ gs # None
      BY <1>5, <3>2, <3>3, <3>4, Nones DEF Balancer
    <3>7. cloud[x].pools[w.pool] = gs
      BY <2>3, <3>5, <3>6
    <3> QED
      BY <2>3, <3>6, <3>7 DEF PoolNow, Lb
  <2> QED
    BY <2>1, <2>2, <2>3
<1>8. CASE StatusAddPool(g)
  <2>1. pc[g] = "recordPool" /\ pc'[g] = "members" /\ cloud' = cloud
    BY <1>1, <1>8 DEF StatusAddPool, Goto, RunOK
  <2> QED
    BY <1>2, <1>4, <2>1 DEF Standing, Placed
<1>9. CASE ListMembers(g)
  <2>1. /\ cloud' = cloud /\ cloud[x] # None /\ cloud[x].pools[w.pool] # None
        /\ seen'[g] = cloud[x].pools[w.pool][g]
        /\ \/ pc[g] = "members" /\ pc'[g] = "patch"
           \/ pc[g] = "relist" /\ pc'[g] = "recordMembers"
    BY <1>1, <1>9 DEF ListMembers, Goto, RunOK, There, PoolNow, Lb
  <2> QED
    BY <1>2, <1>4, <2>1 DEF Standing, Placed
<1>10. CASE PatchMembers(g)
  <2>1. pc[g] = "patch" /\ cloud[x].pools[w.pool] # None /\ cloud[x] # None /\ seen' = seen
    BY <1>10 DEF PatchMembers, There, PoolNow, Lb
  <2>2. seen[g] = cloud[x].pools[w.pool][g]
    BY <1>4, <2>1 DEF Standing
  <2>3. w.members \subseteq Merge(g, seen[g])
    BY <1>2, <1>5, MergeType
  <2>4. CASE Merge(g, seen[g]) = seen[g]
    <3>1. pc'[g] = "recordMembers" /\ cloud' = cloud
      BY <1>1, <1>10, <2>4 DEF PatchMembers, Goto, RunOK
    <3> QED
      BY <1>2, <1>5, <2>1, <2>2, <2>3, <2>4, <3>1 DEF Standing, Placed
  <2>5. CASE Merge(g, seen[g]) # seen[g]
    <3>1. pc'[g] = "relist" /\ Call(x, WithGroup(Lb(g), w.pool, g, Merge(g, seen[g])))
      BY <1>1, <1>10, <2>5 DEF PatchMembers, Goto, RunOK
    <3>2. x \in LB /\ cloud[x] \in Balancer /\ Lb(g) = cloud[x]
      BY <1>10, ThereType DEF PatchMembers, Lb
    <3>3. Merge(g, seen[g]) \in SUBSET Member
      BY <1>2, <1>5, MergeType
    <3>4. LET b == WithGroup(cloud[x], w.pool, g, Merge(g, seen[g]))
          IN b \in Balancer /\ b.pools[w.pool] # None /\ b.pools[w.pool][g] = Merge(g, seen[g])
      BY <1>5, <2>1, <3>2, <3>3, WithGroupEffect
    <3>5. cloud'[x] = WithGroup(cloud[x], w.pool, g, Merge(g, seen[g]))
      BY <3>1, <3>2 DEF Call, IInv, TypeOK
    <3>6. cloud'[x] # None /\ cloud'[x].pools[w.pool] # None /\ cloud'[x].pools[w.pool][g] # {}
      BY <1>5, <2>3, <3>4, <3>5, Nones
    <3> QED
      BY <1>2, <3>1, <3>6 DEF Standing, Placed
  <2> QED
    BY <2>4, <2>5
<1>11. CASE StatusAddMembers(g)
  <2>1. pc[g] = "recordMembers" /\ pc'[g] = "listeners" /\ cloud' = cloud /\ seen' = seen
    BY <1>1, <1>11 DEF StatusAddMembers, Goto, RunOK
  <2> QED
    BY <1>2, <1>4, <2>1 DEF Standing, Placed
<1>12. CASE DeployListener(g)
  <2>1. pc[g] = "listeners" /\ There(g) /\ seen' = seen
    BY <1>12 DEF DeployListener
  <2>2. /\ cloud[x] # None /\ cloud[x].pools[w.pool] # None
        /\ seen[g] = cloud[x].pools[w.pool][g] /\ cloud[x].pools[w.pool][g] # {}
    BY <1>4, <2>1 DEF Standing, Placed
  <2>3. CASE Lb(g).lis[w.port] = w.pool
    <3>1. pc'[g] = "redundantListeners" /\ cloud' = cloud
      BY <1>1, <1>12, <2>3 DEF DeployListener, Goto, RunOK
    <3> QED
      BY <1>2, <2>1, <2>2, <2>3, <3>1 DEF Standing, Placed, Lb
  <2>4. CASE Lb(g).lis[w.port] # w.pool
    <3>1. pc'[g] = "recordListener" /\ Call(x, WithListener(Lb(g), w.port, w.pool))
      BY <1>1, <1>12, <2>4 DEF DeployListener, Goto, RunOK
    <3>2. x \in LB /\ cloud[x] \in Balancer /\ Lb(g) = cloud[x]
      BY <2>1, ThereType DEF Lb
    <3> DEFINE b == WithListener(cloud[x], w.port, w.pool)
    <3>3. /\ b \in Balancer /\ b.pools = cloud[x].pools
          /\ b.lis = [cloud[x].lis EXCEPT ![w.port] = w.pool]
      BY <1>5, <3>2, WithListenerType DEF WithListener
    <3>4. cloud'[x] = b
      BY <3>1, <3>2 DEF Call, IInv, TypeOK
    <3> HIDE DEF b
    <3>5. b.lis[w.port] = w.pool /\ b # None
      BY <1>5, <3>2, <3>3, Nones DEF Balancer
    <3> QED
      BY <1>2, <2>1, <2>2, <3>1, <3>3, <3>4, <3>5 DEF Standing, Placed
  <2> QED
    BY <2>3, <2>4
<1>13. CASE StatusAddListener(g)
  <2>1. pc[g] = "recordListener" /\ pc'[g] = "redundantListeners" /\ cloud' = cloud /\ seen' = seen
    BY <1>1, <1>13 DEF StatusAddListener, Goto, RunOK
  <2> QED
    BY <1>2, <1>4, <2>1 DEF Standing, Placed
<1> QED
  BY <1>6, <1>7, <1>8, <1>9, <1>10, <1>11, <1>12, <1>13

LEMMA SweepStanding ==
  ASSUME IInv, NEW g \in GLBC, Book(g), Standing(g), Sweeping(g),
         ReadListeners(g) \/ DeleteListener(g) \/ ReadPools(g) \/ DeletePool(g) \/ TrimPool(g)
  PROVE  Standing(g)'
<1>1. RunOK /\ Moves(g)
  BY Parts DEF Moves
<1>2. UNCHANGED <<mode, task, on>> /\ pc[g] # "idle"
  BY <1>1, MoveFacts
<1> SUFFICES ASSUME mode[g] = "deploy" PROVE Standing(g)'
  BY <1>2 DEF Standing, Recording
<1> DEFINE x == on[g]
           w == task[g].spec
<1>3. w.pool \in Pool /\ w.port \in Port
  BY <1>2, TaskType
<1>4. There(g) /\ seen' = seen /\ pc[g] \in Placed /\ Recording(g)
      /\ pc[g] \in {"redundantListeners", "deleteListener", "redundantPools", "deletePool", "trimPool"}
  BY DEF ReadListeners, DeleteListener, ReadPools, DeletePool, TrimPool, Placed, Recording
<1>5. /\ cloud[x] # None /\ cloud[x].pools[w.pool] # None /\ seen[g] = cloud[x].pools[w.pool][g]
      /\ cloud[x].pools[w.pool][g] # {}
      /\ pc[g] \in {"redundantListeners", "deleteListener"} => cloud[x].lis[w.port] = w.pool
  BY <1>4 DEF Standing
<1>6. KeptPools(g) = {w.pool} /\ KeptPorts(g) = {w.port} /\ x \in LB
  BY <1>4, ThereType DEF KeptPools, KeptPorts
<1>7. /\ cloud'[x] # None /\ cloud'[x].pools[w.pool] = cloud[x].pools[w.pool]
      /\ pc'[g] \in {"redundantListeners", "deleteListener", "redundantPools", "deletePool", "trimPool", "finish"}
      /\ pc'[g] \in {"redundantListeners", "deleteListener"} => cloud'[x].lis[w.port] = w.pool
  <2>1. CASE ReadListeners(g)
    <3>1. cloud' = cloud /\ pc[g] = "redundantListeners" /\ pc'[g] \in {"redundantPools", "deleteListener"}
      BY <1>1, <2>1 DEF ReadListeners, Goto, RunOK
    <3> QED
      BY <1>5, <3>1
  <2>2. CASE DeleteListener(g)
    <3>1. pc[g] = "deleteListener" /\ pc'[g] = "redundantListeners"
      BY <1>1, <2>2 DEF DeleteListener, Goto, RunOK
    <3>2. victim[g] # w.port
      BY <1>6, <3>1 DEF Sweeping
    <3>3. \/ UNCHANGED cloud
          \/ /\ Called(g) /\ cloud'[x].pools = cloud[x].pools
             /\ cloud'[x].lis = [cloud[x].lis EXCEPT ![victim[g]] = None]
      BY <2>2, <3>1, ListenerEffect
    <3>4. CASE UNCHANGED cloud
      BY <1>5, <3>1, <3>4
    <3>5. CASE ~UNCHANGED cloud
      <4>1. cloud'[x] # None /\ cloud[x].lis \in [Port -> Pool \cup {None}]
        BY <3>3, <3>5, Nones DEF Called, Balancer
      <4>2. cloud'[x].lis[w.port] = cloud[x].lis[w.port]
        BY <1>3, <3>2, <3>3, <3>5, <4>1
      <4> QED
        BY <1>5, <3>1, <3>3, <3>5, <4>1, <4>2
    <3> QED
      BY <3>4, <3>5
  <2>3. CASE ReadPools(g)
    <3>1. cloud' = cloud /\ pc'[g] \in {"deletePool", "trimPool", "finish"}
      BY <1>1, <2>3 DEF ReadPools, Goto, RunOK, AfterPools
    <3> QED
      BY <1>5, <3>1
  <2>4. CASE DeletePool(g)
    <3>1. pc[g] = "deletePool" /\ pc'[g] = "redundantPools"
      BY <1>1, <2>4 DEF DeletePool, Goto, RunOK
    <3>2. victim[g] # w.pool
      BY <1>6, <3>1 DEF Sweeping
    <3>3. Called(g) /\ cloud'[x].pools = [cloud[x].pools EXCEPT ![victim[g]] = None]
      BY <2>4, DeletePoolEffect
    <3>4. cloud'[x] # None /\ cloud[x].pools \in [Pool -> Groups \cup {None}]
      BY <3>3, Nones DEF Called, Balancer
    <3> QED
      BY <1>3, <3>1, <3>2, <3>3, <3>4
  <2>5. CASE TrimPool(g)
    <3>1. pc[g] = "trimPool" /\ pc'[g] = "redundantPools"
      BY <1>1, <2>5 DEF TrimPool, Goto, RunOK
    <3>2. victim[g] # w.pool
      BY <1>6, <3>1 DEF Sweeping
    <3>3. Regrouped(g, victim[g], {})
      BY <2>5, TrimPoolEffect
    <3> QED
      BY <1>3, <3>1, <3>2, <3>3, Nones DEF Regrouped, Called
  <2> QED
    BY <2>1, <2>2, <2>3, <2>4, <2>5
<1> QED
  BY <1>2, <1>4, <1>5, <1>7 DEF Standing, Placed

LEMMA MoveStanding ==
  ASSUME IInv, NEW g \in GLBC, Book(g), Tended(g), Moves(g)
  PROVE  Standing(g)'
<1>1. Standing(g) /\ Sweeping(g)
  BY DEF Tended
<1>2. CASE ClearStatus(g) \/ ReadWhole(g) \/ IsEmpty(g)
  <2>1. mode[g] # "deploy"
    BY <1>2 DEF ClearStatus, ReadWhole, IsEmpty, Book
  <2>2. mode' = mode
    BY MoveFacts
  <2> QED
    BY <2>1, <2>2 DEF Standing, Recording
<1>3. CASE ReadListeners(g) \/ DeleteListener(g) \/ ReadPools(g) \/ DeletePool(g) \/ TrimPool(g)
  BY <1>1, <1>3, SweepStanding
<1>4. CASE \/ Ensure(g) /\ Active(on[g])
           \/ CreatePool(g) \/ StatusAddPool(g) \/ ListMembers(g) \/ PatchMembers(g)
           \/ StatusAddMembers(g) \/ DeployListener(g) \/ StatusAddListener(g)
  BY <1>1, <1>4, DeployStanding
<1> QED
  BY <1>2, <1>3, <1>4 DEF Moves

\* What a pass has read of a pool it does not deploy is what the status says.
LEMMA RecordedNow ==
  ASSUME NEW g \in GLBC, Ledger(g), pc[g] \notin {"idle", "attach"}, NEW p \in Pool \ KeptPools(g)
  PROVE  Recorded(g, p) = st[g].pools[p]
BY DEF Ledger, Recorded, KeptPools

\* A pool that is recorded and the user's has members of his.
LEMMA UserShares ==
  ASSUME UsersOwn, NEW g \in GLBC, Ledger(g), NEW x \in LB, Intact(x), cloud[x] # None,
         NEW p \in Pool, st[g].pools[p] # None, UserPool(x, p)
  PROVE  cloud[x].pools[p] # None /\ ~Alone(g, cloud[x], p)
<1>1. PICK w \in Wanted[g] : w.pool = p
  BY DEF Ledger
<1>2. Brought[x].pools[p][User] # {}
  BY <1>1 DEF UsersOwn, UserPool
<1>3. cloud[x].pools[p] # None /\ cloud[x].pools[p][User] = Brought[x].pools[p][User]
  BY DEF Intact, PoolsIntact
<1>4. User \in Group \ {g}
  BY Nones
<1> QED
  BY <1>2, <1>3, <1>4 DEF Alone

\* The user's listener has the user's pool behind it.
LEMMA UserBehind ==
  ASSUME UsersOwn, NEW x \in LB, Intact(x), cloud[x] # None, NEW q \in Port, UserPort(x, q)
  PROVE  UserPool(x, cloud[x].lis[q])
BY DEF UsersOwn, UserPort, UserPool, Intact, PortsIntact

\* A pool that is the pass's alone loses its listeners before it is looked at.
LEMMA ListenersFirst ==
  ASSUME OnePort, UsersOwn, IInv, NEW g \in GLBC, Book(g), Ledger(g), Tended(g), Intact(on[g]),
         pc[g] = "redundantListeners", There(g), NEW p \in Pool \ KeptPools(g),
         Has(g, cloud[on[g]], p), InUse(cloud[on[g]], p), Alone(g, cloud[on[g]], p)
  PROVE  \E q \in task[g].st.lis \ KeptPorts(g) :
           Lb(g).lis[q] # None /\ CanDeleteListener(g, Lb(g), q)
<1> DEFINE x == on[g]
           w == task[g].spec
<1>1. x \in LB /\ Filed(g) /\ Standing(g)
  BY ThereType DEF Tended
<1>2. Booked(g, x, p)
  BY <1>1 DEF Tended
<1>3. ~(Recording(g) /\ p = w.pool)
  BY DEF Recording, KeptPools
<1>4. st[g].pools[p] # None /\ cloud[x].pools[p][g] \subseteq st[g].pools[p]
  BY <1>2, <1>3 DEF Booked
<1>5. PICK q \in Port : cloud[x].lis[q] = p
  BY DEF InUse
<1>6. ~UserPool(x, p)
  BY <1>1, <1>4, UserShares DEF There
<1>7. ~UserPort(x, q)
  BY <1>1, <1>5, <1>6, UserBehind DEF There
<1>8. PICK h \in GLBC : \E v \in Wanted[h] : v.port = q /\ v.pool = p
  BY <1>1, <1>5, <1>7, Nones DEF Intact, PortsIntact, There
<1>9. PICK u \in Wanted[g] : u.pool = p /\ u.port \in st[g].lis
  BY <1>1, <1>3, <1>4 DEF Filed
<1>10. q \in st[g].lis
  BY <1>8, <1>9 DEF OnePort
<1>11. q \in task[g].st.lis /\ q \notin KeptPorts(g)
  <2>1. CASE mode[g] = "deploy"
    <3>1. Recording(g)
      BY <2>1 DEF Recording
    <3>2. cloud[x].lis[w.port] = w.pool
      BY <1>1, <3>1 DEF Standing
    <3>3. q # w.port
      BY <1>3, <1>5, <3>1, <3>2
    <3> QED
      BY <1>10, <2>1, <3>3 DEF Ledger, KeptPorts
  <2>2. CASE mode[g] # "deploy"
    BY <1>10, <2>2 DEF Ledger, KeptPorts
  <2> QED
    BY <2>1, <2>2
<1>12. Recorded(g, p) = st[g].pools[p]
  BY RecordedNow
<1>13. CanDeleteListener(g, Lb(g), q)
  BY <1>4, <1>5, <1>12 DEF CanDeleteListener, Owned, Alone, Lb
<1> QED
  BY <1>5, <1>11, <1>13, Nones DEF Lb

LEMMA ReadListenersSweeping ==
  ASSUME OnePort, UsersOwn, IInv, NEW g \in GLBC, Book(g), Ledger(g), Tended(g), Intact(on[g]), ReadListeners(g)
  PROVE  Sweeping(g)'
<1> DEFINE x == on[g]
           gone == {q \in task[g].st.lis \ KeptPorts(g) :
                      Lb(g).lis[q] # None /\ CanDeleteListener(g, Lb(g), q)}
<1>1. /\ pc[g] = "redundantListeners" /\ There(g) /\ cloud' = cloud /\ RunOK
      /\ \/ gone = {} /\ pc'[g] = "redundantPools"
         \/ victim'[g] \in gone /\ pc'[g] = "deleteListener"
  <2>1. RunOK
    BY Parts
  <2> QED
    BY <2>1 DEF ReadListeners, Goto, RunOK
<1>2. UNCHANGED <<mode, task, on>>
  BY MoveFacts DEF Moves
<1>3. KeptPools(g)' = KeptPools(g) /\ KeptPorts(g)' = KeptPorts(g) /\ x \in LB
  BY <1>1, <1>2, ThereType DEF KeptPools, KeptPorts
<1>4. CASE gone = {} /\ pc'[g] = "redundantPools"
  <2>1. \A p \in Pool \ KeptPools(g) : Has(g, cloud[x], p) /\ InUse(cloud[x], p) => ~Alone(g, cloud[x], p)
    BY <1>1, <1>4, ListenersFirst
  <2> QED
    BY <1>1, <1>2, <1>3, <1>4, <2>1 DEF Sweeping
<1>5. CASE victim'[g] \in gone /\ pc'[g] = "deleteListener"
  <2> DEFINE v == victim'[g]
             p == cloud[x].lis[v]
  <2>1. v \in task[g].st.lis /\ v \notin KeptPorts(g) /\ p # None /\ CanDeleteListener(g, cloud[x], v)
    BY <1>5 DEF Lb
  <2>2. v \in Port /\ cloud[x] \in Balancer
    BY <1>1, <2>1, TaskType, ThereType
  <2>3. p \in Pool
    BY <2>1, <2>2 DEF Balancer
  <2>4. p \notin KeptPools(g) /\ Recorded(g, p) # None /\ (cloud[x].pools[p] # None => Alone(g, cloud[x], p))
    BY <2>1 DEF CanDeleteListener, Owned, Alone
  <2>5. st[g].pools[p] # None
    BY <1>1, <2>3, <2>4, RecordedNow
  <2>6. ~UserPool(x, p)
    BY <1>1, <1>3, <2>3, <2>4, <2>5, UserShares DEF There
  <2>7. ~UserPort(x, v)
    BY <1>1, <1>3, <2>2, <2>6, UserBehind DEF There
  <2> QED
    BY <1>2, <1>3, <1>5, <2>1, <2>7 DEF Sweeping, UserPort
<1> QED
  BY <1>1, <1>4, <1>5

LEMMA ReadPoolsSweeping ==
  ASSUME UsersOwn, IInv, NEW g \in GLBC, Book(g), Ledger(g), Tended(g), Intact(on[g]), ReadPools(g)
  PROVE  Sweeping(g)'
<1> DEFINE x == on[g]
<1>1. /\ pc[g] = "redundantPools" /\ There(g) /\ cloud' = cloud
      /\ \/ Deletable(g, cloud[x]) \cup Trimmable(g, cloud[x]) = {} /\ pc'[g] \in {"finish", "clear", "isEmpty"}
         \/ victim'[g] \in Deletable(g, cloud[x]) /\ pc'[g] = "deletePool"
         \/ victim'[g] \in Trimmable(g, cloud[x]) /\ pc'[g] = "trimPool"
  <2>1. RunOK
    BY Parts
  <2> QED
    BY <2>1 DEF ReadPools, Goto, RunOK, AfterPools, Lb
<1>2. UNCHANGED <<mode, task, on>>
  BY MoveFacts DEF Moves
<1>3. KeptPools(g)' = KeptPools(g) /\ x \in LB /\ x # None
  BY <1>1, <1>2, ThereType, Nones DEF KeptPools
<1>4. \A p \in Pool \ KeptPools(g) : Has(g, cloud[x], p) /\ InUse(cloud[x], p) => ~Alone(g, cloud[x], p)
  BY <1>1, <1>3 DEF Tended, Sweeping
<1>5. CASE Deletable(g, cloud[x]) \cup Trimmable(g, cloud[x]) = {} /\ pc'[g] \in {"finish", "clear", "isEmpty"}
  <2>1. ASSUME NEW p \in Pool \ KeptPools(g), Has(g, cloud[x], p) PROVE FALSE
    <3>1. Booked(g, x, p)
      BY <1>3, <2>1 DEF Tended
    <3>2. st[g].pools[p] # None /\ st[g].pools[p] # {}
      BY <3>1 DEF Booked, Recording, KeptPools
    <3>3. Recorded(g, p) # None /\ Recorded(g, p) # {}
      BY <1>1, <3>2, RecordedNow
    <3>4. cloud[x].pools[p] # None /\ OwnGroup(g, cloud[x], p)
      BY <2>1, <3>3 DEF Has, OwnGroup
    <3>5. p \in Deletable(g, cloud[x]) \/ p \in Trimmable(g, cloud[x])
      BY <1>4, <2>1, <3>3, <3>4 DEF Deletable, Trimmable, Stale
    <3> QED
      BY <1>5, <3>5
  <2> QED
    BY <1>1, <1>2, <1>3, <1>5, <2>1 DEF Sweeping
<1>6. CASE victim'[g] \in Deletable(g, cloud[x]) /\ pc'[g] = "deletePool"
  <2> DEFINE v == victim'[g]
  <2>1. v \in Pool \ KeptPools(g) /\ Recorded(g, v) # None /\ Alone(g, cloud[x], v)
    BY <1>6 DEF Deletable
  <2>2. st[g].pools[v] # None
    BY <1>1, <2>1, RecordedNow
  <2>3. ~UserPool(x, v)
    BY <1>1, <1>3, <2>1, <2>2, UserShares DEF There
  <2> QED
    BY <1>1, <1>2, <1>3, <1>4, <1>6, <2>1, <2>3 DEF Sweeping, UserPool
<1>7. CASE victim'[g] \in Trimmable(g, cloud[x]) /\ pc'[g] = "trimPool"
  <2>1. victim'[g] \in Pool \ KeptPools(g) /\ cloud[x].pools[victim'[g]] # None /\ ~Alone(g, cloud[x], victim'[g])
    BY <1>7 DEF Trimmable
  <2> QED
    BY <1>1, <1>2, <1>3, <1>4, <1>7, <2>1 DEF Sweeping, There
<1> QED
  BY <1>1, <1>5, <1>6, <1>7

LEMMA TakePoolSweeping ==
  ASSUME IInv, NEW g \in GLBC, Book(g), Tended(g), DeletePool(g) \/ TrimPool(g)
  PROVE  Sweeping(g)'
<1> DEFINE x == on[g]
           v == victim[g]
<1>1. pc[g] \in {"deletePool", "trimPool"} /\ There(g) /\ pc'[g] = "redundantPools"
  <2>1. RunOK
    BY Parts
  <2> QED
    BY <2>1 DEF DeletePool, TrimPool, Goto, RunOK
<1>2. UNCHANGED <<mode, task, on>>
  BY MoveFacts DEF Moves
<1>3. KeptPools(g)' = KeptPools(g) /\ x \in LB /\ x # None
  BY <1>1, <1>2, ThereType, Nones DEF KeptPools
<1>4. \A p \in Pool \ KeptPools(g) : Has(g, cloud[x], p) /\ InUse(cloud[x], p) => ~Alone(g, cloud[x], p)
  BY <1>1, <1>3 DEF Tended, Sweeping
<1>5. /\ cloud[x] # None
      /\ \A p \in Pool : Has(g, cloud'[x], p) => cloud'[x].pools[p] = cloud[x].pools[p]
      /\ \A q \in Port : cloud'[x].lis[q] \in {cloud[x].lis[q], None}
  <2>1. CASE DeletePool(g)
    <3>1. /\ Called(g) /\ v \in Pool /\ cloud'[x].pools = [cloud[x].pools EXCEPT ![v] = None]
          /\ \A q \in Port : cloud'[x].lis[q] = IF cloud[x].lis[q] = v THEN None ELSE cloud[x].lis[q]
      BY <2>1, DeletePoolEffect
    <3>2. cloud[x].pools \in [Pool -> Groups \cup {None}] /\ cloud[x] # None
      BY <3>1, Nones DEF Called, Balancer
    <3> QED
      BY <3>1, <3>2 DEF Has
  <2>2. CASE TrimPool(g)
    <3>1. Regrouped(g, v, {})
      BY <2>2, TrimPoolEffect
    <3> QED
      BY <3>1, Nones DEF Regrouped, Called, Has
  <2> QED
    BY <2>1, <2>2
<1>6. ASSUME NEW p \in Pool \ KeptPools(g), Has(g, cloud'[x], p), InUse(cloud'[x], p)
      PROVE  ~Alone(g, cloud'[x], p)
  <2>1. cloud'[x].pools[p] = cloud[x].pools[p]
    BY <1>5, <1>6
  <2>2. Has(g, cloud[x], p) /\ InUse(cloud[x], p)
    BY <1>5, <1>6, <2>1, Nones DEF Has, InUse
  <2> QED
    BY <1>4, <1>6, <2>1, <2>2 DEF Alone
<1> QED
  BY <1>1, <1>2, <1>3, <1>6 DEF Sweeping

LEMMA MoveSweeping ==
  ASSUME OnePort, UsersOwn, IInv, NEW g \in GLBC, Book(g), Ledger(g), Tended(g),
         on[g] # None => Intact(on[g]), Moves(g)
  PROVE  Sweeping(g)'
<1>1. RunOK /\ pc[g] # "idle" /\ UNCHANGED <<mode, task, on>>
  BY Parts, MoveFacts
<1>2. CASE ClearStatus(g)
  <2>1. pc[g] = "clear" /\ pc'[g] = "attach" /\ left' = left \cup {on[g]} /\ cloud' = cloud
    BY <1>1, <1>2 DEF ClearStatus, Goto, RunOK
  <2>2. on[g] \in LB /\ mode[g] # "deploy"
    BY <2>1 DEF Book, IInv, Run
  <2>3. \A p \in Pool : ~Has(g, cloud[on[g]], p)
    BY <2>1, <2>2, Nones DEF Tended, Sweeping, KeptPools
  <2>4. \A x \in LB, p \in Pool : ~Has(g, cloud[x], p)
    BY <1>1, <2>3, HasHere
  <2> QED
    BY <1>1, <2>1, <2>2, <2>4 DEF Sweeping
<1>3. CASE ReadListeners(g)
  BY <1>3, ReadListenersSweeping DEF ReadListeners, There
<1>4. CASE ReadPools(g)
  BY <1>4, ReadPoolsSweeping DEF ReadPools, There
<1>5. CASE DeletePool(g) \/ TrimPool(g)
  BY <1>5, TakePoolSweeping
<1>6. CASE ~(ClearStatus(g) \/ ReadListeners(g) \/ ReadPools(g) \/ DeletePool(g) \/ TrimPool(g))
  <2>1. pc'[g] \in {"pools", "recordPool", "members", "patch", "relist", "recordMembers", "listeners",
                    "recordListener", "redundantListeners", "deleteLb"}
    BY <1>1, <1>6 DEF Moves, Ensure, StatusAddPool, ListMembers, StatusAddMembers, StatusAddListener, ReadWhole,
       IsEmpty, CreatePool, PatchMembers, DeployListener, DeleteListener, Goto, RunOK
  <2> QED
    BY <2>1 DEF Sweeping
<1> QED
  BY <1>2, <1>3, <1>4, <1>5, <1>6

LEMMA MoveTended ==
  ASSUME OnePort, UsersOwn, IInv, NEW g \in GLBC, Book(g), Ledger(g), Tended(g),
         on[g] # None => Intact(on[g]), Moves(g)
  PROVE  Tended(g)'
<1>1. Filed(g)' /\ Standing(g)' /\ Sweeping(g)'
  BY MoveFiled, MoveStanding, MoveSweeping
<1>2. \A x \in LB, p \in Pool : Has(g, cloud'[x], p) => Booked(g, x, p)'
  BY MoveBooked
<1> QED
  BY <1>1, <1>2 DEF Tended

-----------------------------------------------------------------------------
(* The steps that begin a pass or make the load balancer. *)

LEMMA RecordTended ==
  ASSUME IInv, NEW g \in GLBC, Book(g), Ledger(g), Tended(g), StatusAddLb(g) \/ WaitLb(g)
  PROVE  Tended(g)'
<1>1. Creating(g) /\ on' = on /\ task' = task
  BY RecordBook
<1>2. mode[g] = "deploy" /\ pc[g] \in {"recordLb", "wait"} /\ st[g].pools = NoPools
  BY <1>1 DEF StatusAddLb, WaitLb, Book
<1>3. UNCHANGED <<cloud, mode, phase>> /\ pc'[g] \in {"wait", "pools", "deleteLb"}
  BY DEF StatusAddLb, WaitLb, work, Goto, IInv, TypeOK
<1>4. st'[g].pools = st[g].pools
  BY DEF StatusAddLb, WaitLb, SetLb, IInv, TypeOK, Status
<1>5. Recording(g) /\ Recording(g)'
  BY <1>2, <1>3 DEF Recording
<1>6. Filed(g)'
  BY <1>2, <1>4 DEF Filed, NoPools
<1>7. Standing(g)'
  <2>1. cloud[on[g]] # None
    BY <1>5 DEF Tended, Standing
  <2> QED
    BY <1>1, <1>3, <2>1 DEF Standing, Placed
<1>8. Sweeping(g)'
  BY <1>3 DEF Sweeping
<1>9. ASSUME NEW x \in LB, NEW p \in Pool, Has(g, cloud'[x], p) PROVE Booked(g, x, p)'
  <2>1. on[g] = x /\ p = task[g].spec.pool /\ phase[g] # "gone"
    BY <1>1, <1>2, <1>3, <1>9, HasHere
  <2> QED
    BY <1>1, <1>3, <1>5, <2>1 DEF Booked
<1> QED
  BY <1>6, <1>7, <1>8, <1>9 DEF Tended

LEMMA CreateTended ==
  ASSUME IInv, NEW g \in GLBC, Book(g), Ledger(g), Tended(g), CreateLb(g)
  PROVE  Tended(g)'
<1>1. pc[g] = "find" /\ mode[g] = "deploy" /\ st[g].pools = NoPools /\ phase[g] # "gone"
  BY DEF CreateLb, Book, Takes, Ledger
<1>2. /\ pc'[g] = "recordLb" /\ UNCHANGED <<mode, task, st, phase>>
  BY CreateLbType DEF CreateLb, status
<1>3. PICK x \in fresh :
        /\ on'[g] = x /\ cloud'[x] # None /\ \A y \in LB \ {x} : cloud'[y] = cloud[y]
        /\ cloud'[x].lis = [q \in Port |-> IF q = task[g].spec.port THEN task[g].spec.pool ELSE None]
        /\ \A p \in Pool \ {task[g].spec.pool} : cloud'[x].pools[p] = None
        /\ cloud'[x].pools[task[g].spec.pool] # None /\ cloud'[x].pools[task[g].spec.pool][g] # {}
        /\ \A k \in Group \ {g} : cloud'[x].pools[task[g].spec.pool][k] = {}
  BY CreateLbGroups
<1>4. Recording(g)'
  BY <1>1, <1>2 DEF Recording
<1>5. Filed(g)'
  BY <1>1, <1>2 DEF Filed, NoPools
<1>6. Standing(g)'
  BY <1>2, <1>3 DEF Standing, Placed
<1>7. Sweeping(g)'
  BY <1>2 DEF Sweeping
<1>8. ASSUME NEW y \in LB, NEW p \in Pool, Has(g, cloud'[y], p) PROVE Booked(g, y, p)'
  <2>1. ~Has(g, cloud[y], p)
    BY <1>1 DEF Tended, Sweeping
  <2>2. y = x /\ p = task[g].spec.pool
    BY <1>3, <1>8, <2>1 DEF Has
  <2> QED
    BY <1>1, <1>2, <1>3, <1>4, <2>2 DEF Booked
<1> QED
  BY <1>5, <1>6, <1>7, <1>8 DEF Tended

LEMMA BeginTended ==
  ASSUME IInv, NEW g \in GLBC, Book(g), Tended(g), Begin(g)
  PROVE  Tended(g)'
<1>1. pc[g] = "idle" /\ UNCHANGED <<cloud, st, phase>>
  BY DEF Begin, status
<1>2. on'[g] = st[g].lb
  BY BeginBook
<1>3. /\ mode'[g] = "deploy" => pc'[g] \in {"ensure", "attach", "find"}
      /\ pc'[g] \in {"delete", "redundantListeners", "ensure", "attach", "find"}
      /\ pc'[g] = "attach" => st[g].lb = None \/ cloud[st[g].lb] = None
      /\ pc'[g] = "find" => st[g].lb = None
  BY DEF Begin, Goto, IInv, TypeOK
<1>4. ~Recording(g) /\ ~Recording(g)'
  BY <1>1, <1>3 DEF Recording
<1>5. Filed(g)' /\ Standing(g)'
  BY <1>1, <1>4 DEF Tended, Filed, Standing
<1>6. ASSUME NEW x \in LB, NEW p \in Pool, Has(g, cloud[x], p)
      PROVE  Booked(g, x, p)' /\ st[g].lb = x
  <2>1. Booked(g, x, p)
    BY <1>6 DEF Tended
  <2> QED
    BY <1>1, <1>4, <2>1 DEF Booked
<1>7. Sweeping(g)'
  <2>1. pc'[g] \in {"attach", "find"} => \A x \in LB, p \in Pool : ~Has(g, cloud[x], p)
    BY <1>3, <1>6, Nones DEF Has
  <2> QED
    BY <1>1, <1>2, <1>3, <2>1 DEF Sweeping
<1> QED
  BY <1>1, <1>5, <1>6, <1>7 DEF Tended

-----------------------------------------------------------------------------
(* The steps that end a pass. *)

\* A pass that deploys ends with its work done, or with its own load balancer
\* deleted, unless it leaves something loose.
LEMMA EndsRecorded ==
  ASSUME IInv, NEW g \in GLBC, Book(g), Ledger(g), Tended(g), Ends(g), ~loose',
         Recording(g), ~Finish(g)
  PROVE  DeleteLb(g) /\ st[g].pools = NoPools
<1>1. /\ pc[g] \notin {"idle", "ensure", "attach", "find"} /\ mode[g] = "deploy" /\ cloud[on[g]] # None
      /\ Standing(g) /\ Sweeping(g)
  BY DEF Recording, Tended, Standing
<1>2. ~Crash(g)
  BY DEF Crash
<1>3. ~NotFound(g)
  <2> SUFFICES ASSUME NotFound(g) PROVE FALSE
    OBVIOUS
  <2>1. on[g] # None
    BY <1>1 DEF Book, Ledger, NotFound
  <2>2. There(g)
    BY <1>1, <2>1 DEF There
  <2>3. pc[g] \in {"members", "patch", "relist"} => PoolNow(g) # None
    BY <1>1 DEF Standing, PoolNow, Lb
  <2>4. pc[g] = "trimPool" => Lb(g).pools[victim[g]] # None
    BY <1>1 DEF Sweeping, Lb
  <2>5. pc[g] = "relist" => PoolNow(g)[g] # {}
    BY <1>1 DEF Standing, PoolNow, Lb
  <2> QED
    BY <2>2, <2>3, <2>4, <2>5 DEF NotFound
<1>4. ~Ensure(g) /\ ~Attach(g) /\ ~FindByName(g) /\ ~NothingToDelete(g) /\ ~IsEmpty(g)
  BY <1>1 DEF Ensure, Attach, FindByName, NothingToDelete, IsEmpty, Book
<1>5. DeleteLb(g)
  BY <1>2, <1>3, <1>4 DEF Ends
<1>6. pc[g] = "deleteLb" /\ Creating(g)
  BY <1>1, <1>5 DEF DeleteLb, Book
<1> QED
  BY <1>5, <1>6 DEF Ledger

LEMMA EndBooked ==
  ASSUME IInv, NEW g \in GLBC, Book(g), Ledger(g), Tended(g), Ends(g), ~loose',
         NEW x \in LB, NEW p \in Pool, Has(g, cloud'[x], p)
  PROVE  Booked(g, x, p)'
<1>1. /\ pc[g] # "idle" /\ (~DeleteLb(g) => UNCHANGED cloud)
      /\ ~Finish(g) => st'[g].pools = st[g].pools
      /\ ~Attach(g) /\ ~FindByName(g) => st'[g].lb = st[g].lb
      /\ phase'[g] = phase[g] \/ NothingToDelete(g) \/ IsEmpty(g) \/ DeleteLb(g)
  BY EndFacts
<1>2. ~DeleteLb(g)
  <2> SUFFICES ASSUME DeleteLb(g) PROVE FALSE
    OBVIOUS
  <2>1. on[g] \in LB /\ Call(on[g], None)
    BY ThereType DEF DeleteLb
  <2>2. cloud'[on[g]] = None /\ \A y \in LB \ {on[g]} : cloud'[y] = cloud[y]
    BY <2>1, Parts, CallCloud
  <2>3. x # on[g] /\ Has(g, cloud[x], p)
    BY <2>2 DEF Has
  <2> QED
    BY <1>1, <2>3, HasHere
<1>3. cloud' = cloud /\ Has(g, cloud[x], p)
  BY <1>1, <1>2
<1>4. on[g] = x /\ phase[g] # "gone" /\ on[g] # None /\ cloud[x] # None
  BY <1>1, <1>3, HasHere, Nones DEF Has
<1>5. Booked(g, x, p) /\ Standing(g) /\ Sweeping(g)
  BY <1>3 DEF Tended
<1>6. ~NothingToDelete(g)
  BY <1>4 DEF NothingToDelete, There
<1>7. ~IsEmpty(g)
  <2>1. IsEmpty(g) => pc[g] = "isEmpty" /\ KeptPools(g) = {}
    BY DEF IsEmpty, Book, KeptPools
  <2> QED
    BY <1>3, <1>4, <1>5, <2>1 DEF Sweeping
<1>8. ~Attach(g) /\ ~FindByName(g)
  BY <1>3, <1>5 DEF Sweeping, Attach, FindByName
<1>9. st'[g].lb = st[g].lb /\ phase'[g] = phase[g]
  BY <1>1, <1>2, <1>6, <1>7, <1>8
<1>10. CASE Finish(g)
  <2>1. /\ pc[g] = "finish" /\ mode[g] = "deploy"
        /\ st'[g].pools = [r \in Pool |-> IF r = task[g].spec.pool THEN seen[g] ELSE None]
    BY <1>10, EndFacts
  <2>2. Recording(g) /\ KeptPools(g) = {task[g].spec.pool}
    BY <2>1 DEF Recording, KeptPools
  <2>3. p = task[g].spec.pool
    BY <1>3, <1>4, <1>5, <2>1, <2>2 DEF Sweeping
  <2>4. seen[g] = cloud[x].pools[p][g] /\ cloud[x].pools[p][g] # {}
    BY <1>4, <1>5, <2>1, <2>2, <2>3 DEF Standing, Placed
  <2>5. seen[g] # None
    BY Nones DEF IInv, TypeOK
  <2>6. st[g].lb = x
    BY <1>4, <2>1 DEF Ledger
  <2>7. st'[g].pools[p] = seen[g]
    BY <2>1, <2>3
  <2> QED
    BY <1>3, <1>4, <1>9, <2>4, <2>5, <2>6, <2>7 DEF Booked
<1>11. CASE ~Finish(g)
  <2>1. ~Recording(g)
    BY <1>2, <1>11, EndsRecorded
  <2> QED
    BY <1>1, <1>3, <1>5, <1>9, <1>11, <2>1 DEF Booked
<1> QED
  BY <1>10, <1>11

LEMMA EndFiled ==
  ASSUME IInv, NEW g \in GLBC, Book(g), Ledger(g), Tended(g), Ends(g), ~loose'
  PROVE  Filed(g)'
<1>1. /\ pc[g] # "idle" /\ pc'[g] = "idle"
      /\ ~Finish(g) => st'[g].pools = st[g].pools /\ st'[g].lis = st[g].lis
  BY EndFacts
<1>2. CASE Finish(g)
  <2>1. /\ pc[g] = "finish" /\ mode[g] = "deploy" /\ st'[g].lis = {task[g].spec.port}
        /\ st'[g].pools = [r \in Pool |-> IF r = task[g].spec.pool THEN seen[g] ELSE None]
    BY <1>2, EndFacts
  <2>2. Recording(g)
    BY <2>1 DEF Recording
  <2>3. seen[g] # {}
    BY <2>1, <2>2 DEF Tended, Standing, Placed
  <2>4. task[g].spec \in Wanted[g]
    BY <1>1 DEF Book
  <2> QED
    BY <2>1, <2>3, <2>4 DEF Filed
<1>3. CASE ~Finish(g)
  <2>1. CASE Recording(g)
    <3>1. st'[g].pools = NoPools
      BY <1>1, <1>3, <2>1, EndsRecorded
    <3> QED
      BY <3>1 DEF Filed, NoPools
  <2>2. CASE ~Recording(g)
    BY <1>1, <1>3, <2>2 DEF Tended, Filed
  <2> QED
    BY <2>1, <2>2
<1> QED
  BY <1>2, <1>3

LEMMA EndTended ==
  ASSUME IInv, NEW g \in GLBC, Book(g), Ledger(g), Tended(g), Ends(g), ~loose'
  PROVE  Tended(g)'
<1>1. pc'[g] = "idle"
  BY EndFacts
<1>2. Standing(g)' /\ Sweeping(g)'
  BY <1>1 DEF Standing, Sweeping, Recording
<1>3. \A x \in LB, p \in Pool : Has(g, cloud'[x], p) => Booked(g, x, p)'
  BY EndBooked
<1> QED
  BY <1>2, <1>3, EndFiled DEF Tended

-----------------------------------------------------------------------------
(* The mutex. *)

LEMMA ExclusiveOthers ==
  ASSUME IInv, NEW g \in GLBC, Reconcile(g) \/ Crash(g), NEW i \in GLBC \ {g}, NEW j \in GLBC \ {g}, Exclusive(i, j)
  PROVE  Exclusive(i, j)'
<1>1. Untouched(i) /\ Untouched(j)
  BY OthersUntouched
<1>2. /\ on'[i] = on[i] /\ on'[j] = on[j] /\ (Creating(i)' <=> Creating(i)) /\ (Creating(j)' <=> Creating(j))
      /\ \A x \in LB : (lock'[x] = i <=> lock[x] = i) /\ (lock'[x] = j <=> lock[x] = j)
  BY <1>1 DEF Untouched, Creating
<1>3. on[i] \in LB \cup {None}
  BY DEF IInv, TypeOK
<1> QED
  BY <1>2, <1>3 DEF Exclusive

\* A pass that begins where another is has the mutex, and the other none.
LEMMA BeginExclusive ==
  ASSUME IInv, SiblingInv, NEW g \in GLBC, Begin(g), ~loose', NEW j \in GLBC \ {g},
         st[g].lb # None, on[j] = st[g].lb
  PROVE  Creating(j) /\ lock'[on[j]] = g
<1> DEFINE x == st[g].lb
<1>1. x \in LB /\ lock \in [LB -> GLBC \cup {None}] /\ Book(j) /\ pc[j] # "idle"
  BY DEF IInv, TypeOK, Status, SiblingInv, Run
<1>2. spec[g].pin \in {None, x} /\ ~Uncovered(x)
  BY DEF Begin
<1>3. LockOf(g) = x
  BY <1>2 DEF LockOf
<1>4. lock[x] = None /\ lock' = [lock EXCEPT ![x] = g]
  BY <1>3 DEF Begin
<1>5. lock[x] # j
  BY <1>4, Nones
<1>6. mode[j] = "deploy"
  BY <1>2, <1>5 DEF Uncovered
<1> QED
  BY <1>1, <1>4, <1>5, <1>6 DEF Book

LEMMA ExclusiveOwn ==
  ASSUME IInv, SiblingInv, NEW g \in GLBC, Reconcile(g) \/ Crash(g), ~loose', NEW j \in GLBC \ {g}, Exclusive(g, j)
  PROVE  Exclusive(g, j)'
<1>1. /\ Untouched(j) /\ Book(g)
  BY OthersUntouched DEF SiblingInv
<1>2. on'[j] = on[j] /\ (Creating(j)' <=> Creating(j))
  BY <1>1 DEF Untouched, Creating
<1>3. CASE Begin(g)
  <2>1. on'[g] = st[g].lb
    BY <1>1, <1>3, BeginBook
  <2>2. st[g].lb # None /\ on[j] = st[g].lb => Creating(j) /\ lock'[on[j]] = g
    BY <1>3, BeginExclusive
  <2>3. on'[g] # None /\ on'[g] = on'[j] => Creating(j)' /\ lock'[on'[g]] = g
    BY <1>2, <2>1, <2>2
  <2> QED
    BY <2>3 DEF Exclusive
<1>4. CASE CreateLb(g)
  <2>1. PICK x \in fresh : on'[g] = x
    BY <1>1, <1>4, CreateBook
  <2>2. on[j] # x
    BY DEF SiblingInv, Sealed
  <2> QED
    BY <1>2, <2>1, <2>2 DEF Exclusive
<1>5. CASE Ends(g)
  BY <1>1, <1>5, EndFacts DEF Exclusive
<1>6. CASE Moves(g)
  <2>1. (Creating(g)' <=> Creating(g)) /\ on' = on
    BY <1>1, <1>6, MoveStepBook DEF Moves
  <2>2. lock' = lock
    BY <1>1, <1>6, MoveFacts
  <2> QED
    BY <1>2, <2>1, <2>2 DEF Exclusive
<1>7. CASE StatusAddLb(g) \/ WaitLb(g)
  <2>1. Creating(g)' /\ Creating(g) /\ on' = on
    BY <1>1, <1>7, RecordBook
  <2>2. lock' = lock
    BY <1>7 DEF StatusAddLb, WaitLb, work
  <2> QED
    BY <1>2, <2>1, <2>2 DEF Exclusive
<1> QED
  BY <1>3, <1>4, <1>5, <1>6, <1>7, StepCases

LEMMA ExclusiveStep ==
  ASSUME IInv, SiblingInv, NEW g \in GLBC, Reconcile(g) \/ Crash(g), ~loose',
         \A i \in GLBC : \A j \in GLBC \ {i} : Exclusive(i, j)
  PROVE  \A i \in GLBC : \A j \in GLBC \ {i} : Exclusive(i, j)'
<1> SUFFICES ASSUME NEW i \in GLBC, NEW j \in GLBC \ {i} PROVE Exclusive(i, j)'
  OBVIOUS
<1>1. CASE i # g /\ j # g
  BY <1>1, ExclusiveOthers
<1>2. CASE i = g
  BY <1>2, ExclusiveOwn
<1>3. CASE j = g
  <2>1. Exclusive(g, i)'
    BY <1>3, ExclusiveOwn
  <2> QED
    BY <1>3, <2>1 DEF Exclusive
<1> QED
  BY <1>1, <1>2, <1>3

-----------------------------------------------------------------------------
(* What the user has brought. *)

LEMMA IntactNext ==
  ASSUME IInv, SiblingInv, NEW g \in GLBC, Reconcile(g) \/ Crash(g), NEW x \in LB, Intact(x), cloud[x] # None,
         cloud'[x] # None => PoolsIntact(x, cloud'[x]) /\ PortsIntact(x, cloud'[x])
  PROVE  Intact(x)'
<1> SUFFICES ASSUME cloud'[x] # None PROVE Intact(x)'
  BY DEF Intact
<1>1. cloud'[x].name = cloud[x].name /\ cloud'[x].state = cloud[x].state
  BY NameKept
<1>2. Brought[x] # None => cloud'[x].name = Brought[x].name /\ cloud'[x].state = Brought[x].state
  BY <1>1 DEF Intact
<1>3. PoolsIntact(x, cloud'[x]) /\ PortsIntact(x, cloud'[x])
  OBVIOUS
<1> QED
  BY <1>2, <1>3 DEF Intact, PoolsIntact, PortsIntact, UserPool, UserPort

LEMMA CreatePoolIntact ==
  ASSUME IInv, NEW g \in GLBC, CreatePool(g), ~UNCHANGED cloud, Intact(on[g]), cloud[on[g]] # None
  PROVE  PoolsIntact(on[g], cloud'[on[g]]) /\ PortsIntact(on[g], cloud'[on[g]])
<1> DEFINE x == on[g]
           w == task[g].spec
<1>1. /\ Called(g) /\ cloud[x].pools[w.pool] = None
      /\ cloud'[x].lis = cloud[x].lis
      /\ \A p \in Pool \ {w.pool} : cloud'[x].pools[p] = cloud[x].pools[p]
  BY CreatePoolEffect
<1>2. x \in LB
  BY <1>1 DEF Called
<1>3. /\ cloud'[x].pools[w.pool] # None /\ w.pool \in Pool
      /\ cloud'[x].pools[w.pool][g] # {} /\ cloud'[x].pools[w.pool][User] = {}
  <2>1. User \in Group \ {g}
    BY Nones
  <2> QED
    BY <2>1, CreatePoolGroups
<1>4. PoolsIntact(x, cloud[x]) /\ PortsIntact(x, cloud[x])
  BY <1>2 DEF Intact
<1>5. PoolsIntact(x, cloud'[x])
  <2>1. ~UserPool(x, w.pool)
    BY <1>1, <1>3, <1>4 DEF PoolsIntact
  <2>2. \E k \in GLBC : cloud'[x].pools[w.pool][k] # {}
    BY <1>3
  <2> HIDE DEF w
  <2> QED
    BY <1>1, <1>3, <1>4, <2>1, <2>2 DEF PoolsIntact
<1>6. PortsIntact(x, cloud'[x])
  <2>1. \A q \in Port : cloud[x].lis[q] \in Pool \cup {None}
    BY <1>1 DEF Called, Balancer
  <2>2. \A q \in Port : cloud[x].lis[q] # None /\ cloud[x].pools[cloud[x].lis[q]] # None =>
                          cloud'[x].pools[cloud[x].lis[q]] # None
    BY <1>1, <1>3, <2>1
  <2> QED
    BY <1>1, <1>4, <2>2 DEF PortsIntact
<1> QED
  BY <1>5, <1>6

\* The members of one group are replaced, and some group of a GLBC is there still.
LEMMA RegroupIntact ==
  ASSUME IInv, NEW g \in GLBC, NEW p \in Pool, NEW ms, Regrouped(g, p, ms), Intact(on[g]),
         ms # {} \/ ~Alone(g, cloud[on[g]], p)
  PROVE  PoolsIntact(on[g], cloud'[on[g]]) /\ PortsIntact(on[g], cloud'[on[g]])
<1> DEFINE x == on[g]
<1>1. /\ Called(g) /\ cloud[x].pools[p] # None /\ cloud'[x].pools[p] # None
      /\ cloud'[x].lis = cloud[x].lis
      /\ \A q \in Pool \ {p} : cloud'[x].pools[q] = cloud[x].pools[q]
      /\ cloud'[x].pools[p][g] = ms
      /\ \A k \in Group \ {g} : cloud'[x].pools[p][k] = cloud[x].pools[p][k]
  BY DEF Regrouped
<1>2. x \in LB /\ cloud[x] # None /\ User \in Group \ {g}
  BY <1>1, Nones DEF Called
<1>3. PoolsIntact(x, cloud[x]) /\ PortsIntact(x, cloud[x])
  BY <1>2 DEF Intact
<1>4. cloud'[x].pools[p][User] = cloud[x].pools[p][User]
  BY <1>1, <1>2
<1>5. ~UserPool(x, p) => \E k \in GLBC : cloud'[x].pools[p][k] # {}
  <2>1. CASE ms # {}
    BY <1>1, <2>1
  <2>2. CASE ~Alone(g, cloud[x], p)
    <3>1. PICK k \in Group \ {g} : cloud[x].pools[p][k] # {}
      BY <2>2 DEF Alone
    <3>2. ~UserPool(x, p) => k # User
      BY <1>1, <1>3, <3>1 DEF PoolsIntact
    <3> QED
      BY <1>1, <3>1, <3>2 DEF Group
  <2> QED
    BY <2>1, <2>2
<1>6. PoolsIntact(x, cloud'[x])
  BY <1>1, <1>3, <1>4, <1>5 DEF PoolsIntact
<1>7. PortsIntact(x, cloud'[x])
  <2>1. \A q \in Port : cloud[x].lis[q] \in Pool \cup {None}
    BY <1>1 DEF Called, Balancer
  <2>2. \A q \in Port : cloud[x].lis[q] # None /\ cloud[x].pools[cloud[x].lis[q]] # None =>
                          cloud'[x].pools[cloud[x].lis[q]] # None
    BY <1>1, <2>1
  <2> QED
    BY <1>1, <1>3, <2>2 DEF PortsIntact
<1> QED
  BY <1>6, <1>7

LEMMA ListenerIntact ==
  ASSUME UsersOwn, IInv, NEW g \in GLBC, Book(g), Tended(g), DeployListener(g) \/ DeleteListener(g),
         ~UNCHANGED cloud, Intact(on[g])
  PROVE  PoolsIntact(on[g], cloud'[on[g]]) /\ PortsIntact(on[g], cloud'[on[g]])
<1> DEFINE x == on[g]
           w == task[g].spec
<1>1. /\ Called(g) /\ cloud'[x].pools = cloud[x].pools
      /\ \/ pc[g] = "listeners" /\ cloud'[x].lis = [cloud[x].lis EXCEPT ![w.port] = w.pool]
         \/ pc[g] = "deleteListener" /\ cloud'[x].lis = [cloud[x].lis EXCEPT ![victim[g]] = None]
  BY ListenerEffect
<1>2. x \in LB /\ cloud[x] # None /\ cloud[x].lis \in [Port -> Pool \cup {None}]
  BY <1>1, Nones DEF Called, Balancer
<1>3. PoolsIntact(x, cloud[x]) /\ PortsIntact(x, cloud[x])
  BY <1>2 DEF Intact
<1>4. PoolsIntact(x, cloud'[x])
  BY <1>1, <1>3 DEF PoolsIntact
<1>5. CASE pc[g] = "listeners" /\ cloud'[x].lis = [cloud[x].lis EXCEPT ![w.port] = w.pool]
  <2>1. w \in Wanted[g] /\ w.port \in Port /\ w.pool \in Pool
    BY <1>5, TaskType DEF Book
  <2>2. mode[g] = "deploy"
    BY <1>5 DEF Book, Takes
  <2>3. Recording(g) /\ pc[g] \in Placed
    BY <1>5, <2>2 DEF Recording, Placed
  <2>4. cloud[x].pools[w.pool] # None
    BY <2>3 DEF Tended, Standing
  <2>5. /\ UserPort(x, w.port) => Brought[x].lis[w.port] = w.pool
        /\ UserPool(x, w.pool) => UserPort(x, w.port)
    BY <1>2, <2>1, Nones DEF UsersOwn, UserPort, UserPool
  <2>6. /\ cloud'[x].lis[w.port] = w.pool
        /\ \A q \in Port \ {w.port} : cloud'[x].lis[q] = cloud[x].lis[q]
    BY <1>2, <1>5, <2>1
  <2>7. PortsIntact(x, cloud'[x])
    <3> SUFFICES ASSUME NEW q \in Port
                 PROVE  /\ UserPort(x, q) => cloud'[x].lis[q] = Brought[x].lis[q]
                        /\ ~UserPort(x, q) /\ cloud'[x].lis[q] # None =>
                             /\ cloud'[x].pools[cloud'[x].lis[q]] # None /\ ~UserPool(x, cloud'[x].lis[q])
                             /\ \E k \in GLBC : \E u \in Wanted[k] : u.port = q /\ u.pool = cloud'[x].lis[q]
      BY DEF PortsIntact
    <3>1. CASE q = w.port
      BY <1>1, <2>1, <2>4, <2>5, <2>6, <3>1
    <3>2. CASE q # w.port
      <4>1. cloud'[x].lis[q] = cloud[x].lis[q]
        BY <2>6, <3>2
      <4> QED
        BY <1>1, <1>3, <4>1 DEF PortsIntact
    <3> QED
      BY <3>1, <3>2
  <2> QED
    BY <1>4, <2>7
<1>6. CASE pc[g] = "deleteListener" /\ cloud'[x].lis = [cloud[x].lis EXCEPT ![victim[g]] = None]
  <2>1. ~UserPort(x, victim[g])
    BY <1>6 DEF Tended, Sweeping
  <2>2. /\ victim[g] \in Port => cloud'[x].lis[victim[g]] = None
        /\ \A q \in Port \ {victim[g]} : cloud'[x].lis[q] = cloud[x].lis[q]
    BY <1>2, <1>6
  <2> QED
    BY <1>1, <1>3, <1>4, <2>1, <2>2 DEF PortsIntact
<1> QED
  BY <1>1, <1>5, <1>6

LEMMA DeletePoolIntact ==
  ASSUME UsersOwn, IInv, NEW g \in GLBC, Tended(g), DeletePool(g), Intact(on[g])
  PROVE  PoolsIntact(on[g], cloud'[on[g]]) /\ PortsIntact(on[g], cloud'[on[g]])
<1> DEFINE x == on[g]
           v == victim[g]
<1>1. /\ Called(g) /\ v \in Pool /\ cloud'[x].pools = [cloud[x].pools EXCEPT ![v] = None]
      /\ \A q \in Port : cloud'[x].lis[q] = IF cloud[x].lis[q] = v THEN None ELSE cloud[x].lis[q]
  BY DeletePoolEffect
<1>2. /\ x \in LB /\ cloud[x] # None
      /\ cloud[x].lis \in [Port -> Pool \cup {None}] /\ cloud[x].pools \in [Pool -> Groups \cup {None}]
  BY <1>1, Nones DEF Called, Balancer
<1>3. PoolsIntact(x, cloud[x]) /\ PortsIntact(x, cloud[x])
  BY <1>2 DEF Intact
<1>4. ~UserPool(x, v)
  BY DEF Tended, Sweeping, DeletePool
<1>5. cloud'[x].pools[v] = None /\ \A p \in Pool \ {v} : cloud'[x].pools[p] = cloud[x].pools[p]
  BY <1>1, <1>2
<1>6. PoolsIntact(x, cloud'[x])
  BY <1>3, <1>4, <1>5 DEF PoolsIntact
<1>7. PortsIntact(x, cloud'[x])
  <2>1. \A q \in Port : UserPort(x, q) => cloud'[x].lis[q] = cloud[x].lis[q]
    BY <1>1, <1>2, <1>4, UserBehind
  <2>2. \A q \in Port : cloud'[x].lis[q] # None =>
          /\ cloud'[x].lis[q] = cloud[x].lis[q] /\ cloud[x].lis[q] \in Pool \ {v}
    BY <1>1, <1>2
  <2>3. \A q \in Port : cloud'[x].lis[q] # None => cloud'[x].pools[cloud[x].lis[q]] = cloud[x].pools[cloud[x].lis[q]]
    BY <1>5, <2>2
  <2> QED
    BY <1>3, <2>1, <2>2, <2>3 DEF PortsIntact
<1> QED
  BY <1>6, <1>7

LEMMA CreateIntact ==
  ASSUME IInv, LedgerInv, NEW g \in GLBC, Book(g), CreateLb(g), NEW x \in LB, cloud'[x] # cloud[x]
  PROVE  Intact(x)'
<1>1. PICK y \in fresh :
        /\ on'[g] = y /\ cloud'[y] # None /\ \A z \in LB \ {y} : cloud'[z] = cloud[z]
        /\ cloud'[y].lis = [q \in Port |-> IF q = task[g].spec.port THEN task[g].spec.pool ELSE None]
        /\ \A p \in Pool \ {task[g].spec.pool} : cloud'[y].pools[p] = None
        /\ cloud'[y].pools[task[g].spec.pool] # None /\ cloud'[y].pools[task[g].spec.pool][g] # {}
        /\ \A k \in Group \ {g} : cloud'[y].pools[task[g].spec.pool][k] = {}
  BY CreateLbGroups
<1>2. x = y /\ Brought[x] = None
  BY <1>1 DEF LedgerInv
<1>3. task[g].spec \in Wanted[g]
  BY DEF CreateLb, Book
<1>4. cloud'[x].pools[task[g].spec.pool][User] = {}
  BY <1>1, <1>2, Nones
<1>5. \A p \in Pool : cloud'[x].pools[p] # None => cloud'[x].pools[p][User] = {} /\ \E k \in GLBC : cloud'[x].pools[p][k] # {}
  BY <1>1, <1>2, <1>4
<1>6. \A q \in Port : cloud'[x].lis[q] # None => q = task[g].spec.port /\ cloud'[x].lis[q] = task[g].spec.pool
  BY <1>1, <1>2
<1> QED
  BY <1>1, <1>2, <1>3, <1>5, <1>6 DEF Intact, PoolsIntact, PortsIntact, UserPool, UserPort

LEMMA IntactStep ==
  ASSUME UsersOwn, IInv, SiblingInv, LedgerInv, NEW g \in GLBC, Reconcile(g) \/ Crash(g), Tended(g),
         NEW x \in LB, Intact(x)
  PROVE  Intact(x)'
<1>1. CASE cloud'[x] = cloud[x]
  BY <1>1 DEF Intact, PoolsIntact, PortsIntact
<1>2. Book(g)
  BY DEF SiblingInv
<1>3. CASE CreateLb(g) /\ cloud'[x] # cloud[x]
  BY <1>2, <1>3, CreateIntact
<1>4. CASE CreatePool(g) /\ cloud'[x] # cloud[x]
  <2>1. Called(g)
    BY <1>4, CreatePoolEffect
  <2>2. x = on[g] /\ cloud[x] # None
    BY <1>4, <2>1, Nones DEF Called
  <2> QED
    BY <1>4, <2>2, CreatePoolIntact, IntactNext
<1>5. CASE PatchMembers(g) /\ cloud'[x] # cloud[x]
  <2>1. PICK ms \in SUBSET Member : task[g].spec.members \subseteq ms /\ Regrouped(g, task[g].spec.pool, ms)
    BY <1>5, PatchEffect
  <2>2. x = on[g] /\ cloud[x] # None
    BY <1>5, <2>1, Nones DEF Regrouped, Called
  <2>3. ms # {} /\ task[g].spec.pool \in Pool
    BY <1>5, <2>1, TaskType DEF PatchMembers
  <2>4. PoolsIntact(x, cloud'[x]) /\ PortsIntact(x, cloud'[x])
    BY <2>1, <2>2, <2>3, RegroupIntact
  <2> QED
    BY <2>2, <2>4, IntactNext
<1>6. CASE TrimPool(g) /\ cloud'[x] # cloud[x]
  <2>1. victim[g] \in Pool /\ Regrouped(g, victim[g], {})
    BY <1>6, TrimPoolEffect
  <2>2. x = on[g] /\ cloud[x] # None
    BY <1>6, <2>1, Nones DEF Regrouped, Called
  <2>3. ~Alone(g, cloud[on[g]], victim[g])
    BY <1>6 DEF TrimPool, Tended, Sweeping
  <2>4. PoolsIntact(x, cloud'[x]) /\ PortsIntact(x, cloud'[x])
    BY <2>1, <2>2, <2>3, RegroupIntact
  <2> QED
    BY <2>2, <2>4, IntactNext
<1>7. CASE (DeployListener(g) \/ DeleteListener(g)) /\ cloud'[x] # cloud[x]
  <2>1. Called(g)
    BY <1>7, ListenerEffect
  <2>2. x = on[g] /\ cloud[x] # None
    BY <1>7, <2>1, Nones DEF Called
  <2> QED
    BY <1>2, <1>7, <2>2, ListenerIntact, IntactNext
<1>8. CASE DeletePool(g) /\ cloud'[x] # cloud[x]
  <2>1. Called(g)
    BY <1>8, DeletePoolEffect
  <2>2. x = on[g] /\ cloud[x] # None
    BY <1>8, <2>1, Nones DEF Called
  <2> QED
    BY <1>8, <2>2, DeletePoolIntact, IntactNext
<1>9. CASE DeleteLb(g)
  <2>1. on[g] \in LB /\ Call(on[g], None)
    BY <1>9, ThereType DEF DeleteLb
  <2>2. cloud'[on[g]] = None /\ \A y \in LB \ {on[g]} : cloud'[y] = cloud[y]
    BY <2>1, Parts, CallCloud
  <2> QED
    BY <1>1, <2>2 DEF Intact
<1>10. CASE ~Calls(g)
  BY <1>1, <1>10, NoCall
<1> QED
  BY <1>1, <1>3, <1>4, <1>5, <1>6, <1>7, <1>8, <1>9, <1>10 DEF Calls

-----------------------------------------------------------------------------
(* Whose a load balancer is. *)

LEMMA MindsOther ==
  ASSUME IInv, NEW g \in GLBC, Reconcile(g) \/ Crash(g), NEW j \in GLBC \ {g}, NEW x \in LB, Minds(j, x)
  PROVE  Minds(j, x)'
<1>1. Untouched(j) /\ phase'[j] = phase[j]
  BY OthersUntouched, OthersAside
<1> QED
  BY <1>1 DEF Minds, Untouched, Creating

\* Members of a GLBC are on a load balancer it minds.
LEMMA BookedMinds ==
  ASSUME NEW j \in GLBC, Ledger(j), NEW x \in LB, NEW p \in Pool, Booked(j, x, p)
  PROVE  Minds(j, x)
BY DEF Booked, Minds, Ledger, Recording

\* What is not empty is somebody's.
LEMMA NotEmptyMinded ==
  ASSUME IInv, LedgerInv, NEW x \in LB, cloud[x] # None, Brought[x] = None, Intact(x),
         \A h \in GLBC : Tended(h), NEW g \in GLBC, \A p \in Pool : ~Has(g, cloud[x], p),
         ~(cloud[x].lis = [q \in Port |-> None] /\ cloud[x].pools = NoPools)
  PROVE  \E h \in GLBC \ {g} : Minds(h, x)
<1>1. cloud[x].lis \in [Port -> Pool \cup {None}] /\ cloud[x].pools \in [Pool -> Groups \cup {None}]
  BY DEF IInv, TypeOK, Balancer
<1>2. PICK p \in Pool : cloud[x].pools[p] # None
  <2>1. CASE cloud[x].lis # [q \in Port |-> None]
    <3>1. PICK q \in Port : cloud[x].lis[q] # None
      BY <1>1, <2>1
    <3>2. cloud[x].lis[q] \in Pool /\ cloud[x].pools[cloud[x].lis[q]] # None
      BY <1>1, <3>1 DEF Intact, PoolsIntact, PortsIntact, UserPort
    <3> QED
      BY <3>2
  <2>2. CASE cloud[x].pools # NoPools
    BY <1>1, <2>2 DEF NoPools
  <2> QED
    BY <2>1, <2>2
<1>3. PICK h \in GLBC : cloud[x].pools[p][h] # {}
  BY <1>2 DEF Intact, PoolsIntact, PortsIntact, UserPool
<1>4. Has(h, cloud[x], p)
  BY <1>2, <1>3 DEF Has
<1>5. h # g
  BY <1>4
<1>6. Booked(h, x, p) /\ Ledger(h)
  BY <1>4 DEF Tended, LedgerInv
<1> QED
  BY <1>5, <1>6, BookedMinds

LEMMA EndMinds ==
  ASSUME IInv, LedgerInv, NEW g \in GLBC, Book(g), \A h \in GLBC : Tended(h), Ends(g), ~loose',
         NEW x \in LB, cloud[x] # None, cloud'[x] # None, Brought[x] = None, Intact(x), x \notin left, Minds(g, x)
  PROVE  Minds(g, x)' \/ \E h \in GLBC \ {g} : Minds(h, x)
<1>1. /\ Ledger(g) /\ Tended(g) /\ Standing(g) /\ Sweeping(g) /\ phase[g] # "gone" /\ x # None
  BY Nones DEF LedgerInv, Tended, Minds
<1>2. /\ pc[g] # "idle" /\ (~DeleteLb(g) => UNCHANGED cloud)
      /\ ~Attach(g) /\ ~FindByName(g) => st'[g].lb = st[g].lb
      /\ phase'[g] = phase[g] \/ NothingToDelete(g) \/ IsEmpty(g) \/ DeleteLb(g)
  BY EndFacts
<1>3. on[g] = x
  BY <1>1, <1>2 DEF Minds, Ledger
<1>4. ~DeleteLb(g)
  <2>1. DeleteLb(g) => Call(x, None)
    BY <1>3 DEF DeleteLb
  <2> QED
    BY <2>1, Parts, CallCloud
<1>5. st[g].lb = x
  <2>1. CASE Creating(g) /\ pc[g] \in {"recordLb", "deleteLb"}
    <3>1. Recording(g)
      BY <2>1 DEF Recording, Book
    <3>2. ~Finish(g)
      BY <2>1 DEF Finish
    <3> QED
      BY <1>1, <1>4, <3>1, <3>2, EndsRecorded
  <2>2. CASE ~(Creating(g) /\ pc[g] \in {"recordLb", "deleteLb"})
    BY <1>1, <1>2, <1>3, <2>2 DEF Ledger
  <2> QED
    BY <2>1, <2>2
<1>6. ~Attach(g)
  BY <1>1, <1>3 DEF Attach, Sweeping
<1>7. ~FindByName(g)
  BY <1>1, <1>3 DEF FindByName, Book
<1>8. ~NothingToDelete(g)
  BY <1>1, <1>3 DEF NothingToDelete, There
<1>9. CASE IsEmpty(g)
  <2>1. pc[g] = "isEmpty" /\ mode[g] # "deploy"
    BY <1>9 DEF IsEmpty, Book
  <2>2. \A p \in Pool : ~Has(g, cloud[x], p)
    BY <1>1, <1>3, <2>1 DEF Sweeping, KeptPools
  <2>3. pc'[g] = "idle"
    BY EndFacts
  <2>4. ~(cloud[x].lis = [q \in Port |-> None] /\ cloud[x].pools = NoPools)
    <3>1. Goto(g, "deleteLb") => pc'[g] = "deleteLb"
      BY DEF Goto, IInv, TypeOK
    <3> QED
      BY <1>3, <1>9, <2>3, <3>1 DEF IsEmpty, Lb
  <2> QED
    BY <2>2, <2>4, NotEmptyMinded
<1>10. CASE ~IsEmpty(g)
  BY <1>1, <1>2, <1>4, <1>5, <1>6, <1>7, <1>8, <1>10 DEF Minds
<1> QED
  BY <1>9, <1>10

\* A load balancer that was not there before.
LEMMA MadeMinded ==
  ASSUME IInv, SiblingInv, LedgerInv, NEW g \in GLBC, Reconcile(g) \/ Crash(g),
         NEW x \in LB, cloud[x] = None, cloud'[x] # None
  PROVE  Minds(g, x)'
<1>1. Book(g) /\ Ledger(g) /\ x \in fresh
  BY CloudStep DEF SiblingInv, LedgerInv
<1>2. CreateLb(g)
  <2>1. on[g] # x
    BY <1>1 DEF SiblingInv, Sealed
  <2> QED
    BY <2>1, CloudStep
<1>3. PICK y \in fresh : (\A z \in LB \ {y} : cloud'[z] = cloud[z]) /\ fresh' = fresh \ {y} /\ on'[g] = y
  BY <1>2, CloudStep
<1>4. on'[g] = x
  BY <1>3
<1>5. Creating(g)'
  BY <1>1, <1>2, CreateBook
<1>6. phase'[g] # "gone"
  BY <1>1, <1>2 DEF CreateLb, status, Ledger
<1> QED
  BY <1>4, <1>5, <1>6 DEF Minds

LEMMA OwnMinds ==
  ASSUME IInv, SiblingInv, LedgerInv, NEW g \in GLBC, \A h \in GLBC : Tended(h), Reconcile(g) \/ Crash(g), ~loose',
         NEW x \in LB, cloud[x] # None, cloud'[x] # None, Brought[x] = None, Intact(x), x \notin left, Minds(g, x)
  PROVE  Minds(g, x)' \/ \E h \in GLBC \ {g} : Minds(h, x)
<1>1. Book(g) /\ Ledger(g) /\ phase[g] # "gone" /\ x # None
  BY Nones DEF SiblingInv, LedgerInv, Minds
<1>2. CASE Begin(g) \/ CreateLb(g)
  <2>1. UNCHANGED <<st, phase>> /\ ~Creating(g)
    BY <1>1, <1>2 DEF Begin, CreateLb, status, Creating, Book
  <2> QED
    BY <2>1 DEF Minds
<1>3. CASE StatusAddLb(g) \/ WaitLb(g)
  <2>1. Creating(g) /\ Creating(g)' /\ on' = on
    BY <1>1, <1>3, RecordBook
  <2>2. phase' = phase /\ pc[g] \in {"recordLb", "wait"}
    BY <1>3 DEF StatusAddLb, WaitLb
  <2>3. on[g] = x
    BY <1>1, <2>1, <2>2 DEF Ledger, Minds
  <2> QED
    BY <1>1, <2>1, <2>2, <2>3 DEF Minds
<1>4. CASE Moves(g)
  <2>1. (Creating(g)' <=> Creating(g)) /\ on' = on /\ st'[g].lb = st[g].lb
    BY <1>1, <1>4, MoveStepBook DEF Moves
  <2>2. phase' = phase
    BY <1>1, <1>4, MoveFacts
  <2> QED
    BY <2>1, <2>2 DEF Minds
<1>5. CASE Ends(g)
  BY <1>1, <1>5, EndMinds
<1> QED
  BY <1>2, <1>3, <1>4, <1>5, StepCases

LEMMA MindedStep ==
  ASSUME IInv, SiblingInv, LedgerInv, NEW g \in GLBC, \A h \in GLBC : Tended(h), Reconcile(g) \/ Crash(g), ~loose',
         NEW x \in LB, Intact(x), Minded(x)
  PROVE  Minded(x)'
<1> SUFFICES ASSUME cloud'[x] # None, Brought[x] = None
             PROVE  x \in left' \/ \E k \in GLBC : Minds(k, x)'
  BY DEF Minded
<1>1. CASE cloud[x] = None
  BY <1>1, MadeMinded
<1>2. CASE cloud[x] # None /\ x \in left
  BY <1>2, OthersAside
<1>3. CASE cloud[x] # None /\ x \notin left
  <2>1. PICK k \in GLBC : Minds(k, x)
    BY <1>3 DEF Minded
  <2>2. CASE k = g
    <3>1. Minds(g, x)' \/ \E h \in GLBC \ {g} : Minds(h, x)
      BY <1>3, <2>1, <2>2, OwnMinds
    <3> QED
      BY <3>1, MindsOther
  <2>3. CASE k # g
    BY <2>1, <2>3, MindsOther
  <2> QED
    BY <2>2, <2>3
<1> QED
  BY <1>1, <1>2, <1>3

-----------------------------------------------------------------------------
(* The order is kept. *)

LEMMA ReconcileOrder ==
  ASSUME PortsApart, OnePort, UsersOwn, IInv, SiblingInv, LedgerInv, Order,
         NEW g \in GLBC, Reconcile(g) \/ Crash(g), ~loose'
  PROVE  Order'
<1>1. /\ Book(g) /\ Ledger(g) /\ Tended(g) /\ (on[g] # None => Intact(on[g]))
      /\ \A h \in GLBC : Tended(h) /\ \A j \in GLBC \ {h} : Exclusive(h, j)
      /\ \A x \in LB : Intact(x) /\ Minded(x)
  BY DEF SiblingInv, LedgerInv, Order, IInv, TypeOK
<1>2. Tended(g)'
  <2>1. CASE Begin(g)
    BY <1>1, <2>1, BeginTended
  <2>2. CASE Ends(g)
    BY <1>1, <2>2, EndTended
  <2>3. CASE Moves(g)
    BY <1>1, <2>3, MoveTended
  <2>4. CASE CreateLb(g)
    BY <1>1, <2>4, CreateTended
  <2>5. CASE StatusAddLb(g) \/ WaitLb(g)
    BY <1>1, <2>5, RecordTended
  <2> QED
    BY <2>1, <2>2, <2>3, <2>4, <2>5, StepCases
<1>3. \A j \in GLBC \ {g} : Tended(j)'
  BY <1>1, OtherTended
<1>4. \A i \in GLBC : \A j \in GLBC \ {i} : Exclusive(i, j)'
  BY <1>1, ExclusiveStep
<1>5. \A x \in LB : Intact(x)'
  BY <1>1, IntactStep
<1>6. \A x \in LB : Minded(x)'
  BY <1>1, MindedStep
<1> QED
  BY <1>2, <1>3, <1>4, <1>5, <1>6 DEF Order

\* The load balancer is the same, but may have come up if it was made here.
Steady(x) ==
  /\ cloud'[x] = None <=> cloud[x] = None
  /\ cloud[x] # None => /\ cloud'[x].lis = cloud[x].lis /\ cloud'[x].pools = cloud[x].pools
                        /\ cloud'[x].name = cloud[x].name
                        /\ Brought[x] # None => cloud'[x].state = cloud[x].state

LEMMA OrderFrame ==
  ASSUME IInv, SiblingInv, LedgerInv, Order, UNCHANGED <<st, pc, mode, task, on, seen, victim, lock, left>>,
         \A g \in GLBC : phase'[g] = "gone" <=> phase[g] = "gone", \A x \in LB : Steady(x)
  PROVE  Order'
<1>1. \A g \in GLBC, x \in LB, p \in Pool : Has(g, cloud'[x], p) <=> Has(g, cloud[x], p)
  BY DEF Has, Steady
<1>2. ASSUME NEW g \in GLBC PROVE Tended(g)'
  <2>1. /\ Tended(g) /\ Book(g) /\ Ledger(g) /\ Run(g) /\ (on[g] # None => on[g] \in LB /\ Steady(on[g]))
        /\ (Recording(g)' <=> Recording(g)) /\ KeptPools(g)' = KeptPools(g) /\ KeptPorts(g)' = KeptPorts(g)
    BY DEF Order, SiblingInv, LedgerInv, IInv, TypeOK, Recording, KeptPools, KeptPorts
  <2>2. Filed(g)'
    BY <2>1 DEF Tended, Filed
  <2>3. Standing(g)'
    <3> SUFFICES ASSUME Recording(g) PROVE Standing(g)'
      BY <2>1 DEF Standing
    <3>1. on[g] # None
      BY <2>1 DEF Recording, Book, Ledger
    <3>2. cloud[on[g]] # None /\ Standing(g)
      BY <2>1 DEF Tended, Standing
    <3>3. cloud'[on[g]] # None /\ cloud'[on[g]].lis = cloud[on[g]].lis /\ cloud'[on[g]].pools = cloud[on[g]].pools
      BY <2>1, <3>1, <3>2 DEF Steady
    <3> QED
      BY <2>1, <3>2, <3>3 DEF Standing
  <2>4. Sweeping(g)'
    <3>1. Sweeping(g)
      BY <2>1 DEF Tended
    <3>2. on[g] # None /\ cloud[on[g]] # None =>
            \A p \in Pool : /\ InUse(cloud'[on[g]], p) <=> InUse(cloud[on[g]], p)
                            /\ Alone(g, cloud'[on[g]], p) <=> Alone(g, cloud[on[g]], p)
      BY <2>1 DEF InUse, Alone, Steady
    <3>3. on[g] # None /\ pc[g] \in {"redundantPools", "deletePool", "trimPool"} =>
            \A p \in Pool \ KeptPools(g) :
              Has(g, cloud'[on[g]], p) /\ InUse(cloud'[on[g]], p) => ~Alone(g, cloud'[on[g]], p)
      BY <1>1, <2>1, <3>1, <3>2 DEF Sweeping, Has
    <3>4. pc[g] = "trimPool" =>
            /\ on[g] # None /\ cloud'[on[g]] # None /\ cloud'[on[g]].pools[victim[g]] # None
            /\ ~Alone(g, cloud'[on[g]], victim[g])
      BY <2>1, <3>1, <3>2 DEF Sweeping, Steady, Run
    <3>5. on[g] # None /\ pc[g] \in {"finish", "clear", "isEmpty"} =>
            \A p \in Pool \ KeptPools(g) : ~Has(g, cloud'[on[g]], p)
      BY <1>1, <2>1, <3>1 DEF Sweeping
    <3>6. /\ pc[g] \in {"attach", "find"} => \A x \in LB, p \in Pool : ~Has(g, cloud'[x], p)
          /\ pc[g] = "attach" /\ on[g] # None => on[g] \in left \/ cloud'[on[g]] = None
      BY <1>1, <2>1, <3>1 DEF Sweeping, Steady
    <3> QED
      BY <2>1, <3>1, <3>3, <3>4, <3>5, <3>6 DEF Sweeping, UserPort, UserPool
  <2>5. ASSUME NEW x \in LB, NEW p \in Pool, Has(g, cloud'[x], p) PROVE Booked(g, x, p)'
    <3>1. Has(g, cloud[x], p) /\ Booked(g, x, p)
      BY <1>1, <2>1, <2>5 DEF Tended
    <3>2. cloud'[x].pools = cloud[x].pools
      BY <3>1 DEF Has, Steady
    <3> QED
      BY <2>1, <3>1, <3>2 DEF Booked
  <2> QED
    BY <2>2, <2>3, <2>4, <2>5 DEF Tended
<1>3. \A g \in GLBC : \A k \in GLBC \ {g} : Exclusive(g, k)'
  BY DEF Order, Exclusive, Creating
<1>4. ASSUME NEW x \in LB PROVE Intact(x)' /\ Minded(x)'
  <2>1. Intact(x) /\ Minded(x) /\ Steady(x)
    BY DEF Order
  <2>2. Intact(x)'
    BY <2>1 DEF Intact, PoolsIntact, PortsIntact, Steady, UserPool, UserPort
  <2>3. Minded(x)'
    BY <2>1 DEF Minded, Minds, Steady, Creating
  <2> QED
    BY <2>2, <2>3
<1> QED
  BY <1>2, <1>3, <1>4 DEF Order

LEMMA ProvisionSteady ==
  ASSUME UsersOwn, IInv, NEW y \in LB, Provision(y), NEW x \in LB, Intact(x)
  PROVE  Steady(x)
<1>1. cloud[y] \in Balancer /\ cloud[y].state = "BUILD" /\ cloud[y] # None
  BY Nones DEF Provision, IInv, TypeOK
<1>2. PICK s \in {"BUILD", "ACTIVE", "ERROR"} : Call(y, [cloud[y] EXCEPT !.state = s])
  BY DEF Provision
<1> DEFINE n == [cloud[y] EXCEPT !.state = s]
<1>3. n \in Balancer /\ n.pools = cloud[y].pools /\ n.lis = cloud[y].lis /\ n.name = cloud[y].name
  BY <1>1, WithStateType
<1>4. cloud'[y] = n /\ \A z \in LB \ {y} : cloud'[z] = cloud[z]
  <2>1. n \in Balancer \cup {None}
    BY <1>3
  <2> QED
    BY <1>2, <2>1, Parts, CallCloud
<1> HIDE DEF n
<1>5. CASE x # y
  BY <1>4, <1>5 DEF Steady
<1>6. CASE x = y
  <2>1. Brought[x] = None
    BY <1>1, <1>6 DEF UsersOwn, Intact
  <2> QED
    BY <1>1, <1>3, <1>4, <1>6, <2>1, Nones DEF Steady
<1> QED
  BY <1>5, <1>6

LEMMA InitOrder == ASSUME UsersOwn PROVE Init => Order
<1> SUFFICES ASSUME Init PROVE Order
  OBVIOUS
<1>1. /\ \A g \in GLBC : st[g] = NoStatus /\ pc[g] = "idle" /\ mode[g] = "deploy" /\ on[g] = None
      /\ cloud = Brought
  BY DEF Init, Each
<1>2. \A g \in GLBC, x \in LB, p \in Pool : ~Has(g, cloud[x], p)
  BY <1>1 DEF UsersOwn, Has
<1>3. \A g \in GLBC : st[g].pools = NoPools
  BY <1>1 DEF NoStatus
<1>4. ASSUME NEW g \in GLBC PROVE Tended(g)
  <2>1. Filed(g)
    BY <1>3 DEF Filed, NoPools
  <2>2. Standing(g) /\ Sweeping(g)
    BY <1>1 DEF Standing, Sweeping, Recording
  <2> QED
    BY <1>2, <2>1, <2>2 DEF Tended
<1>5. \A g \in GLBC : \A k \in GLBC \ {g} : Exclusive(g, k)
  BY <1>1 DEF Exclusive
<1>6. \A x \in LB : Intact(x) /\ Minded(x)
  BY <1>1 DEF Intact, PoolsIntact, PortsIntact, Minded, UserPool, UserPort
<1> QED
  BY <1>4, <1>5, <1>6 DEF Order

LEMMA NextOrder ==
  ASSUME PortsApart, OnePort, UsersOwn
  PROVE  IInv /\ SiblingInv /\ ReclaimInv /\ [Next]_vars => ReclaimInv'
<1> SUFFICES ASSUME IInv, SiblingInv, ReclaimInv, [Next]_vars PROVE ReclaimInv'
  OBVIOUS
<1>1. LedgerInv /\ LedgerInv'
  BY NextLedger DEF ReclaimInv
<1> SUFFICES ASSUME ~loose' PROVE Order'
  BY <1>1 DEF ReclaimInv
<1>2. ASSUME NEW g \in GLBC, Reconcile(g) \/ Crash(g) PROVE Order'
  <2>1. ~loose
    BY <1>2, OthersAside
  <2> QED
    BY <1>1, <1>2, <2>1, ReconcileOrder DEF ReclaimInv
<1>3. ASSUME ~loose, UNCHANGED <<st, pc, mode, task, on, seen, victim, lock, left>>,
             \A g \in GLBC : phase'[g] = "gone" <=> phase[g] = "gone", \A x \in LB : Intact(x) => Steady(x)
      PROVE  Order'
  <2>1. Order /\ \A x \in LB : Steady(x)
    BY <1>3 DEF ReclaimInv, Order
  <2> QED
    BY <1>1, <1>3, <2>1, OrderFrame
<1>4. UNCHANGED cloud => \A x \in LB : Steady(x)
  BY DEF Steady
<1>5. CASE UNCHANGED vars
  BY <1>3, <1>4, <1>5 DEF vars, status, run, history
<1>6. ASSUME NEW g \in GLBC, Edit(g) \/ Delete(g) PROVE Order'
  <2>1. UNCHANGED <<cloud, st, pc, mode, task, on, seen, victim, lock, left>> /\ ~loose
    BY <1>6 DEF Edit, Delete, run, history
  <2>2. \A k \in GLBC : phase'[k] = "gone" <=> phase[k] = "gone"
    BY <1>6 DEF Edit, Delete, IInv, TypeOK
  <2> QED
    BY <1>3, <1>4, <2>1, <2>2
<1>7. ASSUME NEW y \in LB, Provision(y) PROVE Order'
  <2>1. UNCHANGED <<st, phase, pc, mode, task, on, seen, victim, lock, left>> /\ ~loose
    BY <1>7 DEF Provision, status, run, history
  <2>2. \A x \in LB : Intact(x) => Steady(x)
    BY <1>7, ProvisionSteady
  <2> QED
    BY <1>3, <2>1, <2>2
<1>8. ASSUME NEW x \in LB, NEW p \in Pool, NEW g \in GLBC, NEW m \in Hand, AddByHand(x, p, g, m) PROVE FALSE
  BY <1>8 DEF AddByHand
<1> QED
  BY <1>2, <1>5, <1>6, <1>7, <1>8 DEF Next

\* With every GLBC gone nobody has members anywhere, and what is left is the user's.
LEMMA OrderReclaims ==
  ASSUME UsersOwn, IInv, ReclaimInv
  PROVE  Reclaimed
<1> SUFFICES ASSUME \A g \in GLBC : phase[g] = "gone", ~loose, NEW x \in LB, cloud[x] # None
             PROVE  \/ cloud[x] = Brought[x]
                    \/ /\ x \in left /\ cloud[x].pools = NoPools
                       /\ \A q \in Port : cloud[x].lis[q] = None
  BY DEF Reclaimed
<1>1. Intact(x) /\ Minded(x) /\ \A g \in GLBC : Tended(g)
  BY DEF ReclaimInv, Order
<1>2. /\ cloud[x] \in Balancer
      /\ cloud[x].pools \in [Pool -> Groups \cup {None}] /\ cloud[x].lis \in [Port -> Pool \cup {None}]
  BY DEF IInv, TypeOK, Balancer
<1>3. \A g \in GLBC, p \in Pool : ~Has(g, cloud[x], p)
  BY <1>1 DEF Tended, Booked
<1>4. \A p \in Pool : ~UserPool(x, p) => cloud[x].pools[p] = None
  BY <1>1, <1>3 DEF Intact, PoolsIntact, Has
<1>5. \A q \in Port : ~UserPort(x, q) => cloud[x].lis[q] = None
  BY <1>1, <1>2, <1>4 DEF Intact, PortsIntact
<1>6. CASE Brought[x] = None
  <2>1. cloud[x].pools = NoPools
    BY <1>2, <1>4, <1>6 DEF UserPool, NoPools
  <2>2. \A q \in Port : cloud[x].lis[q] = None
    BY <1>5, <1>6 DEF UserPort
  <2>3. x \in left
    BY <1>1, <1>6 DEF Minded, Minds
  <2> QED
    BY <2>1, <2>2, <2>3
<1>7. CASE Brought[x] # None
  <2>1. /\ Brought[x] \in Balancer
        /\ Brought[x].pools \in [Pool -> Groups \cup {None}] /\ Brought[x].lis \in [Port -> Pool \cup {None}]
    BY <1>7, GlobalAssumption DEF Balancer
  <2>2. ASSUME NEW p \in Pool, UserPool(x, p) PROVE cloud[x].pools[p] = Brought[x].pools[p]
    <3>1. cloud[x].pools[p] # None /\ cloud[x].pools[p][User] = Brought[x].pools[p][User]
      BY <1>1, <2>2 DEF Intact, PoolsIntact
    <3>2. cloud[x].pools[p] \in [Group -> SUBSET Member] /\ Brought[x].pools[p] \in [Group -> SUBSET Member]
      BY <1>2, <2>1, <2>2, <3>1 DEF Groups, UserPool
    <3>3. \A g \in GLBC : cloud[x].pools[p][g] = {} /\ Brought[x].pools[p][g] = {}
      BY <1>3, <2>2, <3>1 DEF Has, UsersOwn, UserPool
    <3>4. \A k \in Group : cloud[x].pools[p][k] = Brought[x].pools[p][k]
      BY <3>1, <3>3 DEF Group
    <3> QED
      BY <3>2, <3>4
  <2>3. \A p \in Pool : cloud[x].pools[p] = Brought[x].pools[p]
    BY <1>4, <1>7, <2>2 DEF UserPool
  <2>4. \A q \in Port : cloud[x].lis[q] = Brought[x].lis[q]
    BY <1>1, <1>5, <1>7 DEF Intact, PortsIntact, UserPort
  <2>5. cloud[x].pools = Brought[x].pools /\ cloud[x].lis = Brought[x].lis
    BY <1>2, <2>1, <2>3, <2>4
  <2>6. cloud[x].name = Brought[x].name /\ cloud[x].state = Brought[x].state
    BY <1>1, <1>7 DEF Intact
  <2> QED
    BY <1>2, <2>1, <2>5, <2>6 DEF Balancer
<1> QED
  BY <1>6, <1>7

\* deleteLoadBalancerWhenNotEmpty: where GLBCs that ask for one pool agree on its
\* port and meet the user in his own pools alone, nothing of theirs is left once
\* all of them are gone, whatever the order of their passes, but for an empty
\* load balancer that was made here and then migrated away from.
THEOREM GlobalReclaimed == ASSUME PortsApart, OnePort, UsersOwn PROVE Spec => []Reclaimed
<1>1. Init => IInv /\ SiblingInv /\ ReclaimInv
  BY InitIInv, InitSibling, InitLedger, InitOrder DEF ReclaimInv
<1>2. IInv /\ SiblingInv /\ ReclaimInv /\ [Next]_vars => (IInv /\ SiblingInv /\ ReclaimInv)'
  BY NextIInv, NextSibling, NextOrder
<1>3. IInv /\ SiblingInv /\ ReclaimInv => Reclaimed
  BY OrderReclaims
<1> QED
  BY <1>1, <1>2, <1>3, PTL DEF Spec

=============================================================================
