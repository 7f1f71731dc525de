---------------------- MODULE NodeSecurityGroupProofs ----------------------
(***************************************************************************)
(* For any number of NSGs on any servers, with failures and crashes        *)
(* anywhere: a security group attached by hand stays on its server; NSGs   *)
(* that are gone have left no group on a server but those an entry lost    *)
(* sight of (loose), and no security group of their own but those status   *)
(* lost sight of (orphan).  Nothing is assumed of the faults.              *)
(*                                                                         *)
(* The arguments: what a reconcile takes off a server is what status says  *)
(* the NSG attached, and status only ever holds groups of specs and        *)
(* created ones (Clean), so a hand-attached group that was read is written *)
(* back; and it was read, because it was there (Ready).  What is attached  *)
(* and not by hand is in the status of an NSG that is there to take it     *)
(* off, in the write it is about to note, or loose (Attributed).  A group  *)
(* that bears an NSG's name is the only one, and is an orphan, on record   *)
(* or known to the reconcile that runs (Managed); when its turn comes it   *)
(* is attached nowhere but where it is loose (Written, Cleared).           *)
(***************************************************************************)
EXTENDS NodeSecurityGroup, TLAPS

\* A status that claims no group attached by hand.
Clean(s) == \A x \in Server : s.ids[x] \cap Hand = {}

\* What the reconcile of an NSG relies on at p: which server it is at, and that
\* the groups it has read hold the ones attached by hand.
Ready(t, p) ==
  /\ p \in {"update", "note"} => t.cur \in Server
  /\ p = "update" => hand[t.cur] \subseteq t.read

\* The servers, groups and specs, which several NSGs share.
World ==
  /\ up \subseteq Server /\ att \in [Server -> SUBSET SG]
  /\ name \in [Made -> NSG \cup {None}] /\ used \subseteq Made
  /\ rules \in [Made -> SUBSET Rule]
  /\ spec \in [NSG -> SpecType] /\ sel \in [NSG -> SUBSET Server]
  /\ phase \in [NSG -> {"live", "deleting", "gone"}]
  /\ edits \in Nat /\ faults \in Nat
  /\ hand \in [Server -> SUBSET Hand] /\ HandAttachedKept

\* The status and the reconcile of every NSG.
Own ==
  /\ st \in [NSG -> StatusType] /\ pc \in [NSG -> PC] /\ task \in [NSG -> TaskType]
  /\ \A n \in NSG :
       Clean(st[n]) /\ Clean(task[n].old) /\ Ready(task[n], pc[n])

IInv == World /\ Own

-----------------------------------------------------------------------------
\* The empty status and the empty task are well formed.
LEMMA Empties ==
  /\ NoStatus \in StatusType /\ Clean(NoStatus)
  /\ NoTask \in TaskType /\ NoTask.old = NoStatus /\ NoTask.cur = None
<1>1. NoStatus \in StatusType /\ Clean(NoStatus)
  BY DEF NoStatus, StatusType, Clean
<1> QED
  BY <1>1 DEF NoTask, TaskType, SpecType

\* A step of one NSG's reconcile keeps Own if the task, place and status it
\* leaves are as Own wants them.
LEMMA OwnStep ==
  ASSUME Own, UNCHANGED hand, NEW n \in NSG, NEW t \in TaskType, NEW p \in PC, NEW s \in StatusType,
         task' = [task EXCEPT ![n] = t], pc' = [pc EXCEPT ![n] = p],
         st' = [st EXCEPT ![n] = s],
         Clean(s), Clean(t.old), Ready(t, p)
  PROVE  Own'
<1>1. st' \in [NSG -> StatusType] /\ pc' \in [NSG -> PC] /\ task' \in [NSG -> TaskType]
  BY DEF Own
<1>2. ASSUME NEW k \in NSG
      PROVE  Clean(st'[k]) /\ Clean(task'[k].old) /\ Ready(task'[k], pc'[k])
  BY DEF Own
<1> QED
  BY <1>1, <1>2 DEF Own, Clean, Ready

\* The same for a step that leaves status alone.
LEMMA OwnStepSameStatus ==
  ASSUME Own, UNCHANGED hand, NEW n \in NSG, NEW t \in TaskType, NEW p \in PC,
         task' = [task EXCEPT ![n] = t], pc' = [pc EXCEPT ![n] = p],
         UNCHANGED st, Clean(t.old), Ready(t, p)
  PROVE  Own'
<1>1. st[n] \in StatusType /\ Clean(st[n]) /\ st' = [st EXCEPT ![n] = st[n]]
  BY DEF Own
<1> QED
  BY <1>1, OwnStep

\* And for a step that leaves the task alone too.
LEMMA OwnStepGoto ==
  ASSUME Own, UNCHANGED hand, NEW n \in NSG, NEW p \in PC,
         UNCHANGED <<task, st>>, pc' = [pc EXCEPT ![n] = p], Ready(task[n], p)
  PROVE  Own'
<1>1. task[n] \in TaskType /\ Clean(task[n].old) /\ task' = [task EXCEPT ![n] = task[n]]
  BY DEF Own
<1> QED
  BY <1>1, OwnStepSameStatus

\* A reconcile that returns, whatever it does to status.managedSecurityGroup.
LEMMA OwnStepReturn ==
  ASSUME Own, UNCHANGED hand, NEW n \in NSG, Return(n),
         UNCHANGED st \/ \E m \in Made \cup {None} : SetManaged(n, m)
  PROVE  Own'
<1>1. NoTask \in TaskType /\ Clean(NoTask.old) /\ Ready(NoTask, "idle") /\ "idle" \in PC
  BY Empties DEF Ready, PC
<1>2. CASE UNCHANGED st
  BY <1>1, <1>2, OwnStepSameStatus DEF Return, Goto
<1>3. ASSUME NEW m \in Made \cup {None}, SetManaged(n, m)
      PROVE  Own'
  <2> DEFINE s == [st[n] EXCEPT !.managed = m]
  <2>1. s \in StatusType /\ s.ids = st[n].ids
    BY DEF Own, StatusType
  <2>2. Clean(s)
    BY <2>1 DEF Own, Clean
  <2>3. st' = [st EXCEPT ![n] = s]
    BY <1>3 DEF SetManaged
  <2> QED
    BY <1>1, <2>1, <2>2, <2>3, OwnStep DEF Return, Goto
<1> QED
  BY <1>2, <1>3

\* The merge of ensureSecgroupForInstance keeps what was attached by hand and
\* asks for security groups only.
LEMMA MergedKeepsHand ==
  ASSUME NEW t \in TaskType, t.cur \in Server, Clean(t.old), NEW H \in SUBSET Hand, H \subseteq t.read
  PROVE  Merged(t) \in SUBSET SG /\ H \subseteq Merged(t)
<1>1. Wanted(t) \subseteq SG
  BY NsgAssumption DEF Wanted, TaskType, SpecType, SG
<1>2. t.old.ids[t.cur] \cap Hand = {} /\ t.read \in SUBSET SG
  BY DEF Clean, TaskType
<1> QED
  BY <1>1, <1>2 DEF Merged, MergeStringArray

\* What is wanted on a server is never a group attached by hand.
LEMMA WantedClean ==
  ASSUME NEW t \in TaskType
  PROVE  Wanted(t) \in SUBSET SG /\ Wanted(t) \cap Hand = {}
  BY NsgAssumption DEF Wanted, TaskType, SpecType, SG

-----------------------------------------------------------------------------
\* World is kept by a step that touches nothing in it but bounds.
LEMMA WorldSame ==
  ASSUME World, UNCHANGED <<cloud, object, edits, hand>>, faults' \in Nat
  PROVE  World'
  BY DEF World, cloud, object, HandAttachedKept

\* The initial states satisfy the invariant.
LEMMA InitIInv == Init => IInv
<1> SUFFICES ASSUME Init PROVE IInv
  OBVIOUS
<1>1. World
  BY NsgAssumption DEF Init, World, HandAttachedKept, SG
<1>2. st \in [NSG -> StatusType] /\ task \in [NSG -> TaskType] /\ pc \in [NSG -> PC]
  BY Empties DEF Init, PC
<1>3. ASSUME NEW n \in NSG
      PROVE  Clean(st[n]) /\ Clean(task[n].old) /\ Ready(task[n], pc[n])
  BY Empties DEF Init, Ready
<1> QED
  BY <1>1, <1>2, <1>3 DEF IInv, Own

\* Begin preserves the invariant.
LEMMA BeginStep ==
  ASSUME IInv, NEW n \in NSG, Begin(n), UNCHANGED hand
  PROVE  IInv'
<1>1. World'
  BY WorldSame DEF Begin, IInv, bounds, World
<1> DEFINE t == [NoTask EXCEPT !.spec = spec[n], !.old = st[n]]
           d == [t EXCEPT !.del = TRUE, !.drop = st[n].recs]
<1>2. /\ t \in TaskType /\ t.old = st[n]
      /\ d \in TaskType /\ d.old = st[n]
  BY Empties DEF IInv, World, Own, TaskType, StatusType
<1>3. Clean(t.old) /\ Clean(d.old)
  BY <1>2 DEF IInv, Own
<1>4. \/ pc' = [pc EXCEPT ![n] = "find"] /\ task' = [task EXCEPT ![n] = t]
      \/ pc' = [pc EXCEPT ![n] = "next"] /\ task' = [task EXCEPT ![n] = d]
  BY DEF Begin, Goto
<1>5. UNCHANGED st
  BY DEF Begin
<1> HIDE DEF t, d
<1>6. Ready(t, "find") /\ Ready(d, "next") /\ "find" \in PC /\ "next" \in PC
  BY DEF Ready, PC
<1>7. Own'
  BY <1>2, <1>3, <1>4, <1>5, <1>6, OwnStepSameStatus DEF IInv
<1> QED
  BY <1>1, <1>7 DEF IInv

\* Find preserves the invariant.
LEMMA FindStep ==
  ASSUME IInv, NEW n \in NSG, Find(n), UNCHANGED hand
  PROVE  IInv'
<1>1. World' /\ UNCHANGED st
  BY WorldSame DEF Find, IInv, bounds, World
<1>2. "rules" \in PC /\ "create" \in PC
  BY DEF PC
<1>3. CASE UNCHANGED task
  BY <1>1, <1>2, <1>3, OwnStepGoto DEF IInv, Find, Goto, Ready
<1>4. ASSUME NEW m \in Made, task' = [task EXCEPT ![n].id = m], Goto(n, "rules")
      PROVE  Own'
  <2> DEFINE t == [task[n] EXCEPT !.id = m]
  <2>1. t \in TaskType /\ t.old = task[n].old
    BY DEF IInv, Own, TaskType
  <2>2. Clean(t.old)
    BY <2>1 DEF IInv, Own
  <2> QED
    BY <1>1, <1>2, <1>4, <2>1, <2>2, OwnStepSameStatus DEF IInv, Goto, Ready
<1> QED
  BY <1>1, <1>3, <1>4 DEF IInv, Find

\* The service's next id is a new one, and World is kept.
LEMMA CreateSecurityGroupStep ==
  ASSUME World, NEW n \in NSG, CreateSecurityGroup(n), UNCHANGED object,
         UNCHANGED <<edits, hand>>, faults' \in Nat
  PROVE  Fresh \in Made /\ World'
<1>1. Fresh \in Made \ used
  BY DEF World, CreateSecurityGroup, Fresh
<1>2. /\ rules' \in [Made -> SUBSET Rule] /\ name' \in [Made -> NSG \cup {None}]
      /\ used' \subseteq Made
  BY <1>1 DEF World, CreateSecurityGroup
<1> QED
  BY <1>1, <1>2 DEF World, CreateSecurityGroup, object, HandAttachedKept

\* Create preserves the invariant.
LEMMA CreateStep ==
  ASSUME IInv, NEW n \in NSG, Create(n), UNCHANGED hand
  PROVE  IInv'
<1>1. Fresh \in Made /\ World'
  BY CreateSecurityGroupStep DEF Create, IInv, World, bounds
<1> DEFINE t == [task[n] EXCEPT !.id = Fresh]
<1>2. t \in TaskType /\ t.old = task[n].old
  BY <1>1 DEF IInv, Own, TaskType
<1>3. Clean(t.old) /\ Ready(t, "rules") /\ "rules" \in PC
  BY <1>2 DEF IInv, Own, Ready, PC
<1>4. task' = [task EXCEPT ![n] = t] /\ pc' = [pc EXCEPT ![n] = "rules"] /\ UNCHANGED st
  BY DEF Create, Goto
<1> QED
  BY <1>1, <1>2, <1>3, <1>4, OwnStepSameStatus DEF IInv

\* ChangeRule preserves the invariant.
LEMMA ChangeRuleStep ==
  ASSUME IInv, NEW n \in NSG, ChangeRule(n), UNCHANGED hand
  PROVE  IInv'
<1>1. rules' \in [Made -> SUBSET Rule]
  BY SMTT(20) DEF ChangeRule, NeedDelete, NeedCreate, IInv, World, Own, TaskType, SpecType
<1>2. World'
  BY <1>1 DEF ChangeRule, IInv, World, object, bounds, HandAttachedKept
<1>3. Own'
  BY DEF ChangeRule, IInv, Own, run, Clean, Ready
<1> QED
  BY <1>2, <1>3 DEF IInv

\* PatchManaged preserves the invariant.
LEMMA PatchManagedStep ==
  ASSUME IInv, NEW n \in NSG, PatchManaged(n), UNCHANGED hand
  PROVE  IInv'
<1>1. World'
  BY WorldSame DEF PatchManaged, IInv, bounds, World
<1> DEFINE s == [st[n] EXCEPT !.managed = task[n].id]
<1>2. s \in StatusType /\ s.ids = st[n].ids
  <2>1. st[n] \in StatusType /\ task[n].id \in Made \cup {None}
    BY DEF IInv, Own, TaskType
  <2> QED
    BY <2>1 DEF StatusType
<1>3. Clean(s) /\ task[n] \in TaskType /\ Clean(task[n].old)
  BY <1>2 DEF IInv, Own, Clean
<1>4. Ready(task[n], "select") /\ "select" \in PC
  BY DEF Ready, PC
<1>5. /\ st' = [st EXCEPT ![n] = s] /\ pc' = [pc EXCEPT ![n] = "select"]
      /\ task' = [task EXCEPT ![n] = task[n]]
  BY DEF PatchManaged, SetManaged, Goto, IInv, Own
<1> HIDE DEF s
<1> QED
  BY <1>1, <1>2, <1>3, <1>4, <1>5, OwnStep DEF IInv

\* SelectNodes preserves the invariant.
LEMMA SelectNodesStep ==
  ASSUME IInv, NEW n \in NSG, SelectNodes(n), UNCHANGED hand
  PROVE  IInv'
<1>1. World'
  BY WorldSame DEF SelectNodes, IInv, bounds, World
<1> DEFINE recs == task[n].old.recs
           t == [task[n] EXCEPT !.drop = recs \ sel[n], !.keep = recs \cap sel[n],
                                !.add = sel[n] \ recs]
<1>2. task[n] \in TaskType /\ recs \subseteq Server /\ sel[n] \subseteq Server
  BY DEF IInv, World, Own, TaskType, StatusType
<1>3. t \in TaskType /\ t.old = task[n].old
  BY <1>2 DEF TaskType
<1>4. task' = [task EXCEPT ![n] = t] /\ pc' = [pc EXCEPT ![n] = "next"] /\ UNCHANGED st
  BY DEF SelectNodes, Goto
<1> HIDE DEF t
<1>5. Clean(t.old) /\ Ready(t, "next") /\ "next" \in PC
  BY <1>3 DEF IInv, Own, Ready, PC
<1> QED
  BY <1>1, <1>3, <1>4, <1>5, OwnStepSameStatus DEF IInv

\* The servers a reconcile has to do are servers.
LEMMA TodoServers ==
  ASSUME NEW t \in TaskType, NEW s \in Todo(t)
  PROVE  s \in Server
  BY DEF Todo, TaskType

\* Get preserves the invariant: what it reads of a server that exists holds the
\* groups attached by hand.
LEMMA GetStep ==
  ASSUME IInv, NEW n \in NSG, Get(n), UNCHANGED hand
  PROVE  IInv'
<1>1. World' /\ UNCHANGED st
  BY WorldSame DEF Get, IInv, bounds, World
<1>2. PICK s \in Todo(task[n]) : Get(n)!2!(s)
  BY DEF Get
<1>3. s \in Server /\ task[n] \in TaskType /\ Clean(task[n].old)
  BY TodoServers DEF IInv, Own
<1> DEFINE t == [task[n] EXCEPT !.cur = s, !.read = att[s]]
           e == [t EXCEPT !.err = (s \notin t.drop)]
<1>4. /\ t \in TaskType /\ t.old = task[n].old /\ t.cur = s /\ t.read = att[s]
      /\ e \in TaskType /\ e.old = task[n].old /\ e.cur = s
  BY <1>3 DEF IInv, World, TaskType
<1>5. \/ /\ s \in up /\ task' = [task EXCEPT ![n] = t]
         /\ pc' = [pc EXCEPT ![n] = "note"] \/ pc' = [pc EXCEPT ![n] = "update"]
      \/ pc' = [pc EXCEPT ![n] = "note"] /\ task' = [task EXCEPT ![n] = e]
  BY <1>2 DEF Goto
<1> HIDE DEF t, e
<1>6. s \in up => hand[s] \subseteq t.read
  BY <1>4 DEF IInv, World, HandAttachedKept
<1>7. /\ "note" \in PC /\ "update" \in PC /\ Clean(t.old) /\ Clean(e.old)
      /\ Ready(t, "note") /\ Ready(e, "note") /\ (s \in up => Ready(t, "update"))
  BY <1>3, <1>4, <1>6 DEF PC, Ready
<1>8. Own'
  BY <1>1, <1>4, <1>5, <1>7, OwnStepSameStatus DEF IInv
<1> QED
  BY <1>1, <1>8 DEF IInv

\* A server's groups replaced by the merge: World is kept.
LEMMA ReplaceStep ==
  ASSUME IInv, NEW n \in NSG, pc[n] = "update",
         UNCHANGED att \/ att' = [att EXCEPT ![task[n].cur] = Merged(task[n])],
         UNCHANGED <<up, name, used, rules, object, edits, hand>>, faults' \in Nat
  PROVE  World'
<1>1. Merged(task[n]) \in SUBSET SG /\ hand[task[n].cur] \subseteq Merged(task[n])
  <2>1. /\ task[n] \in TaskType /\ task[n].cur \in Server /\ Clean(task[n].old)
        /\ hand[task[n].cur] \in SUBSET Hand /\ hand[task[n].cur] \subseteq task[n].read
    BY DEF IInv, World, Own, Ready
  <2> QED
    BY <2>1, MergedKeepsHand
<1>2. att' \in [Server -> SUBSET SG]
  BY <1>1 DEF IInv, World
<1>3. \A s \in up' : hand'[s] \subseteq att'[s]
  BY <1>1 DEF IInv, World, HandAttachedKept
<1> QED
  BY <1>2, <1>3 DEF IInv, World, HandAttachedKept, object

\* A reconcile that goes on to the note with or without an error.
LEMMA ToNote ==
  ASSUME Own, UNCHANGED hand, NEW n \in NSG, pc[n] = "update", Goto(n, "note"), UNCHANGED st,
         UNCHANGED task \/ task' = [task EXCEPT ![n].err = TRUE]
  PROVE  Own'
<1>1. "note" \in PC /\ task[n] \in TaskType /\ task[n].cur \in Server /\ Clean(task[n].old)
  BY DEF Own, Ready, PC
<1>2. CASE UNCHANGED task
  BY <1>1, <1>2, OwnStepGoto DEF Goto, Ready
<1>3. CASE task' = [task EXCEPT ![n].err = TRUE]
  <2> DEFINE t == [task[n] EXCEPT !.err = TRUE]
  <2>1. t \in TaskType /\ t.old = task[n].old /\ t.cur = task[n].cur
    BY <1>1 DEF TaskType
  <2>2. task' = [task EXCEPT ![n] = t]
    BY <1>3
  <2> HIDE DEF t
  <2> QED
    BY <1>1, <2>1, <2>2, OwnStepSameStatus DEF Goto, Ready
<1> QED
  BY <1>2, <1>3

\* Update preserves the invariant.
LEMMA UpdateStep ==
  ASSUME IInv, NEW n \in NSG, Update(n), UNCHANGED hand
  PROVE  IInv'
<1>1. World'
  BY ReplaceStep DEF Update, IInv, World, bounds, object
<1>2. Own'
  BY ToNote DEF Update, IInv
<1> QED
  BY <1>1, <1>2 DEF IInv

\* The task after a server is done.
LEMMA DoneTask ==
  ASSUME NEW t \in TaskType
  PROVE  Done(t) \in TaskType /\ Done(t).old = t.old
  BY DEF Done, TaskType

\* What a status has become after a server claims no group attached by hand.
LEMMA NotedClean ==
  ASSUME NEW e \in StatusType, NEW t \in TaskType, Clean(e), t.cur \in Server
  PROVE  Noted(e, t) \in StatusType /\ Clean(Noted(e, t))
<1> DEFINE s == t.cur
           gone == RemoveEntry(e, s)
           new == UpdateEntry(e, s, Wanted(t))
<1>1. Wanted(t) \in SUBSET SG /\ Wanted(t) \cap Hand = {}
  BY WantedClean
<1>2. gone \in StatusType /\ gone.ids = [e.ids EXCEPT ![s] = {}]
  BY DEF StatusType, RemoveEntry
<1>3. new \in StatusType /\ new.ids = [e.ids EXCEPT ![s] = Wanted(t)]
  BY <1>1 DEF StatusType, UpdateEntry
<1>4. Noted(e, t) \in {e, gone, new}
  BY DEF Noted
<1> HIDE DEF gone, new
<1>5. Clean(gone) /\ Clean(new)
  BY <1>1, <1>2, <1>3 DEF Clean, StatusType
<1> QED
  BY <1>2, <1>3, <1>4, <1>5

\* Note preserves the invariant.
LEMMA NoteStep ==
  ASSUME IInv, NEW n \in NSG, Note(n), UNCHANGED hand
  PROVE  IInv'
<1>1. World'
  BY WorldSame DEF Note, IInv, bounds, World
<1>2. /\ task[n] \in TaskType /\ task[n].cur \in Server
      /\ st[n] \in StatusType /\ Clean(st[n])
  BY DEF Note, IInv, Own, Ready
<1>3. Noted(st[n], task[n]) \in StatusType /\ Clean(Noted(st[n], task[n]))
  BY <1>2, NotedClean
<1>4. /\ Done(task[n]) \in TaskType /\ Clean(Done(task[n]).old)
      /\ Ready(Done(task[n]), "next") /\ "next" \in PC
  BY <1>2, DoneTask DEF IInv, Own, Ready, PC
<1>5. Own'
  BY <1>3, <1>4, OwnStep DEF IInv, Note, Goto
<1> QED
  BY <1>1, <1>5 DEF IInv

\* AllDone preserves the invariant.
LEMMA AllDoneStep ==
  ASSUME IInv, NEW n \in NSG, AllDone(n), UNCHANGED hand
  PROVE  IInv'
<1>1. World' /\ UNCHANGED st
  BY WorldSame DEF AllDone, IInv, bounds, World
<1>2. \/ Return(n)
      \/ UNCHANGED task /\ \E p \in {"retire", "finish"} : Goto(n, p)
  BY DEF AllDone
<1>3. {"retire", "finish"} \subseteq PC
  BY DEF PC
<1>4. Own'
  BY <1>1, <1>2, <1>3, OwnStepReturn, OwnStepGoto DEF IInv, Goto, Ready
<1> QED
  BY <1>1, <1>4 DEF IInv

\* The end of deleteManagedSecurityGroupIfUnused, well or not, keeps Own.
LEMMA AfterRetireStep ==
  ASSUME Own, UNCHANGED hand, NEW n \in NSG, (AfterRetire(n) /\ UNCHANGED st) \/ RetireFails(n)
  PROVE  Own'
<1>1. task[n].old.managed \in Made \cup {None} /\ "finish" \in PC
  BY DEF Own, TaskType, StatusType, PC
<1>2. \/ UNCHANGED <<task, st>> /\ Goto(n, "finish")
      \/ Return(n) /\ UNCHANGED st
      \/ Return(n) /\ SetManaged(n, task[n].old.managed)
  BY DEF AfterRetire, RetireFails
<1> QED
  BY <1>1, <1>2, OwnStepReturn, OwnStepGoto DEF Goto, Ready

\* Retire preserves the invariant.
LEMMA RetireStep ==
  ASSUME IInv, NEW n \in NSG, Retire(n), UNCHANGED hand
  PROVE  IInv'
<1>1. World' /\ UNCHANGED st
  BY WorldSame DEF Retire, IInv, bounds, World
<1>2. AfterRetire(n) \/ (UNCHANGED task /\ Goto(n, "deleteSg"))
  BY DEF Retire
<1>3. "deleteSg" \in PC
  BY DEF PC
<1>4. Own'
  BY <1>1, <1>2, <1>3, AfterRetireStep, OwnStepGoto DEF IInv, Goto, Ready
<1> QED
  BY <1>1, <1>4 DEF IInv

\* DeleteSecurityGroup preserves the invariant.
LEMMA DeleteSecurityGroupStep ==
  ASSUME IInv, NEW n \in NSG, DeleteSecurityGroup(n), UNCHANGED hand
  PROVE  IInv'
<1>1. name' \in [Made -> NSG \cup {None}] /\ rules' \in [Made -> SUBSET Rule]
  BY DEF DeleteSecurityGroup, IInv, World
<1>2. World'
  BY <1>1 DEF DeleteSecurityGroup, IInv, World, object, bounds, HandAttachedKept
<1>3. (AfterRetire(n) /\ UNCHANGED st) \/ RetireFails(n)
  BY DEF DeleteSecurityGroup
<1> QED
  BY <1>2, <1>3, AfterRetireStep DEF IInv

\* Finish preserves the invariant.
LEMMA FinishStep ==
  ASSUME IInv, NEW n \in NSG, Finish(n), UNCHANGED hand
  PROVE  IInv'
<1>1. World'
  BY DEF Finish, IInv, World, cloud, bounds, HandAttachedKept
<1>2. Own'
  BY OwnStepReturn DEF Finish, IInv
<1> QED
  BY <1>1, <1>2 DEF IInv

-----------------------------------------------------------------------------
\* A failing call preserves the invariant.
LEMMA ErrorStep ==
  ASSUME IInv, NEW n \in NSG, Error(n), UNCHANGED hand
  PROVE  IInv'
<1>1. faults' \in Nat /\ UNCHANGED <<object, edits>>
  BY DEF Error, IInv, World
<1>2. World /\ Own /\ task[n] \in TaskType
  BY DEF IInv, Own
<1>3. CASE ManagedError(n)
  <2>1. task[n].id \in Made \cup {None}
    BY <1>2 DEF TaskType
  <2>2. World'
    BY <1>1, <1>2, <1>3, WorldSame DEF ManagedError
  <2>3. Own'
    BY <1>2, <1>3, <2>1, OwnStepReturn DEF ManagedError
  <2> QED
    BY <2>2, <2>3 DEF IInv
<1>4. CASE CreateUnanswered(n)
  <2>1. World'
    BY <1>1, <1>2, <1>4, CreateSecurityGroupStep DEF CreateUnanswered
  <2>2. Own'
    BY <1>2, <1>4, OwnStepReturn DEF CreateUnanswered
  <2> QED
    BY <2>1, <2>2 DEF IInv
<1>5. CASE GetError(n)
  <2>1. World' /\ UNCHANGED st
    BY <1>1, <1>2, <1>5, WorldSame DEF GetError
  <2>2. PICK s \in Todo(task[n]) :
          task' = [task EXCEPT ![n] = [task[n] EXCEPT !.cur = s, !.err = TRUE]]
    BY <1>5 DEF GetError
  <2> DEFINE t == [task[n] EXCEPT !.cur = s, !.err = TRUE]
  <2>3. s \in Server
    BY <1>2, TodoServers
  <2>4. t \in TaskType /\ t.old = task[n].old /\ t.cur = s
    BY <1>2, <2>3 DEF TaskType
  <2>5. pc' = [pc EXCEPT ![n] = "note"] /\ "note" \in PC
    BY <1>5 DEF GetError, Goto, PC
  <2> HIDE DEF t
  <2>6. Clean(t.old) /\ Ready(t, "note")
    BY <1>2, <2>3, <2>4 DEF Own, Ready
  <2>7. task' = [task EXCEPT ![n] = t]
    BY <2>2 DEF t
  <2> QED
    BY <1>2, <2>1, <2>4, <2>5, <2>6, <2>7, OwnStepSameStatus DEF IInv
<1>6. CASE UpdateError(n)
  <2>1. World'
    BY <1>1, <1>6, ReplaceStep DEF UpdateError
  <2>2. Own'
    BY <1>2, <1>6, ToNote DEF UpdateError
  <2> QED
    BY <2>1, <2>2 DEF IInv
<1>7. CASE NoteError(n)
  <2>1. World'
    BY <1>1, <1>2, <1>7, WorldSame DEF NoteError
  <2>2. /\ Done(task[n]) \in TaskType /\ Clean(Done(task[n]).old)
        /\ Ready(Done(task[n]), "next") /\ "next" \in PC
    BY <1>2, DoneTask DEF Own, Ready, PC
  <2>3. Own'
    BY <1>2, <1>7, <2>2, OwnStepSameStatus DEF NoteError, Goto
  <2> QED
    BY <2>1, <2>3 DEF IInv
<1>8. CASE OtherError(n)
  <2>1. World'
    BY <1>1, <1>2, <1>8, WorldSame DEF OtherError
  <2>2. Own'
    BY <1>2, <1>8, OwnStepReturn, AfterRetireStep DEF OtherError
  <2> QED
    BY <2>1, <2>2 DEF IInv
<1> QED
  BY <1>3, <1>4, <1>5, <1>6, <1>7, <1>8 DEF Error

\* A crash of the controller preserves the invariant.
LEMMA CrashStep ==
  ASSUME IInv, Crash, UNCHANGED hand
  PROVE  IInv'
<1>1. World'
  BY WorldSame DEF Crash, IInv, World
<1>2. st' \in [NSG -> StatusType] /\ task' \in [NSG -> TaskType] /\ pc' \in [NSG -> PC]
  BY Empties DEF Crash, IInv, Own, PC
<1>3. ASSUME NEW n \in NSG
      PROVE  Clean(st'[n]) /\ Clean(task'[n].old) /\ Ready(task'[n], pc'[n])
  BY Empties DEF Crash, IInv, Own, Ready
<1> QED
  BY <1>1, <1>2, <1>3 DEF IInv, Own, Clean, Ready

\* The owners, the nodes, the servers and the user preserve the invariant.
LEMMA WorldStep ==
  ASSUME IInv, Edit \/ \E n \in NSG : Delete(n)
  PROVE  IInv'
<1>1. CASE \E n \in NSG : Delete(n)
  BY <1>1 DEF Delete, IInv, World, Own, run, cloud, bounds, history, Clean, Ready, HandAttachedKept
<1>2. CASE Edit
  <2>1. edits' \in Nat /\ faults' \in Nat /\ UNCHANGED <<st, pc, task>>
    BY <1>2 DEF Edit, IInv, World, run
  <2>2. CASE UNCHANGED hand /\ ((\E n \in NSG : EditSpec(n) \/ Select(n)) \/ \E s \in Server : ServerGone(s))
    <3>0. Own'
      BY <2>1, <2>2 DEF IInv, Own, Clean, Ready
    <3>1. ASSUME NEW n \in NSG, EditSpec(n) PROVE World'
      <4>1. spec' \in [NSG -> SpecType]
        BY <3>1, NsgAssumption DEF EditSpec, IInv, World
      <4> QED
        BY <2>1, <2>2, <3>1, <4>1 DEF EditSpec, IInv, World, cloud, HandAttachedKept
    <3>2. ASSUME NEW n \in NSG, Select(n) PROVE World'
      <4>1. sel' \in [NSG -> SUBSET Server]
        BY <3>2 DEF Select, IInv, World
      <4> QED
        BY <2>1, <2>2, <3>2, <4>1 DEF Select, IInv, World, cloud, HandAttachedKept
    <3>3. ASSUME NEW s \in Server, ServerGone(s) PROVE World'
      BY <2>1, <2>2, <3>3 DEF ServerGone, IInv, World, object, HandAttachedKept
    <3> QED
      BY <2>2, <3>0, <3>1, <3>2, <3>3 DEF IInv
  <2>3. ASSUME NEW s \in Server, AttachByHand(s) PROVE IInv'
    <3>1. PICK g \in Hand :
            /\ att' = [att EXCEPT ![s] = @ \cup {g}]
            /\ \/ hand' = hand
               \/ /\ hand' = [hand EXCEPT ![s] = @ \cup {g}]
                  /\ \A n \in NSG : pc[n] = "update" => task[n].cur # s
      BY <2>3 DEF AttachByHand
    <3>2. att \in [Server -> SUBSET SG] /\ hand \in [Server -> SUBSET Hand] /\ Hand \subseteq SG
      BY DEF IInv, World, SG
    <3>3. att' \in [Server -> SUBSET SG] /\ hand' \in [Server -> SUBSET Hand]
      BY <3>1, <3>2
    <3>4. HandAttachedKept'
      BY <2>3, <3>1, <3>2 DEF AttachByHand, IInv, World, HandAttachedKept
    <3>5. World'
      BY <2>1, <2>3, <3>3, <3>4 DEF AttachByHand, IInv, World, object
    <3>6. ASSUME NEW n \in NSG PROVE Ready(task[n], pc[n])'
      <4>1. Ready(task[n], pc[n])
        BY DEF IInv, Own
      <4>2. pc[n] = "update" => hand'[task[n].cur] = hand[task[n].cur]
        BY <3>1, <3>2, <4>1 DEF Ready
      <4> QED
        BY <2>1, <4>1, <4>2 DEF Ready
    <3>7. Own'
      BY <2>1, <3>6 DEF IInv, Own, Clean
    <3> QED
      BY <3>5, <3>7 DEF IInv
  <2> QED
    BY <1>2, <2>2, <2>3 DEF Edit
<1> QED
  BY <1>1, <1>2

\* Every step preserves the invariant.
LEMMA NextIInv == IInv /\ [Next]_vars => IInv'
<1> SUFFICES ASSUME IInv, [Next]_vars PROVE IInv'
  OBVIOUS
<1>1. CASE UNCHANGED vars
  BY <1>1 DEF vars, cloud, object, run, bounds, history, IInv, World, Own, Clean, Ready,
     HandAttachedKept
<1>2. ASSUME NEW n \in NSG, Pass(n) PROVE IInv'
  <2>1. Reconcile(n) /\ UNCHANGED hand
    BY <1>2 DEF Pass, Track
  <2> QED
    BY <2>1, BeginStep, FindStep, CreateStep, ChangeRuleStep, PatchManagedStep,
       SelectNodesStep, GetStep, UpdateStep, NoteStep, AllDoneStep, RetireStep,
       DeleteSecurityGroupStep, FinishStep DEF Reconcile
<1>3. ASSUME NEW n \in NSG, Error(n), Track(n, TRUE) PROVE IInv'
  BY <1>3, ErrorStep DEF Track
<1>4. CASE Crash /\ (UNCHANGED history \/ \E n \in Running : Track(n, TRUE))
  BY <1>4, CrashStep DEF Track, history
<1> QED
  BY <1>1, <1>2, <1>3, <1>4, WorldStep DEF Next

\* The history is one of groups.
Past == loose \in [Server -> SUBSET SG] /\ orphan \subseteq Made

\* Every step keeps it so.
LEMMA NextPast == IInv /\ Past /\ [Next]_vars => Past'
<1> SUFFICES ASSUME IInv, Past, [Next]_vars PROVE Past'
  OBVIOUS
<1>1. CASE UNCHANGED <<loose, orphan>>
  BY <1>1 DEF Past
<1>2. ASSUME NEW n \in NSG, NEW f \in BOOLEAN, Track(n, f) PROVE Past'
  <2>1. ASSUME NEW s \in Server PROVE Loosened(n, s) \in SUBSET SG
    BY DEF Loosened, Past, IInv, World
  <2>2. Lost(n) \subseteq Made /\ Held(n) \subseteq Made
    BY DEF Lost, Held
  <2> QED
    BY <1>2, <2>1, <2>2 DEF Track, Past
<1>3. CASE \E n \in NSG : Pass(n)
  <2>1. PICK n \in NSG : Pass(n)
    BY <1>3
  <2>2. task[n].failed \in BOOLEAN
    BY DEF IInv, Own, TaskType
  <2> QED
    BY <1>2, <2>1, <2>2 DEF Pass
<1> QED
  BY <1>1, <1>2, <1>3 DEF Next, vars, history, Running, Delete, Edit

-----------------------------------------------------------------------------
\* Every reachable state of any number of NSGs on any servers is well formed.
THEOREM NsgTypeCorrect == Spec => []TypeOK
<1>1. Init => Past
  BY DEF Init, Past
<1>2. IInv /\ Past => TypeOK
  BY DEF IInv, World, Own, Past, TypeOK
<1> QED
  BY InitIInv, NextIInv, NextPast, <1>1, <1>2, PTL DEF Spec

\* ensureSecgroupForInstance never loses a group attached by hand, before or
\* while NSGs work on the server and wherever their calls fail, but for one that
\* comes between the read and the write.
THEOREM HandSafe == Spec => []HandAttachedKept
<1>1. IInv => HandAttachedKept
  BY DEF IInv, World
<1> QED
  BY InitIInv, NextIInv, <1>1, PTL DEF Spec

-----------------------------------------------------------------------------
(* What is attached is on the books: by hand, in the status of an NSG or in    *)
(* the write it is about to note, or among the loose ones.  The controller's    *)
(* one worker is why nobody writes back what another has taken off.             *)

\* No two reconciles at a time.
OneWorker == \A k, n \in NSG : pc[k] # "idle" /\ pc[n] # "idle" => k = n

\* A group that was created for n, and may be deleted by now.
Of(n, m) == m \in used /\ name[m] \in {n, None}

\* Created groups that have a name, and all that are attached, exist.
Groups ==
  /\ \A m \in Made : name[m] # None => m \in used
  /\ \A s \in up : att[s] \subseteq Attachable

\* The created groups that n knows of are its own.
Mine(n) ==
  /\ \A m \in Made : m \in {st[n].managed, task[n].old.managed, task[n].id} => Of(n, m)
  /\ \A s \in Server, m \in Made : m \in st[n].ids[s] \cup task[n].old.ids[s] => Of(n, m)
  /\ task[n].id # None => name[task[n].id] = n

Servers(t) == t.drop \cup t.keep \cup t.add

\* The entries of the servers that are still to be done are as they were read.
Entries(n) ==
  LET t == task[n] IN
  /\ \A s \in Server : s \notin st[n].recs => st[n].ids[s] = {}
  /\ \A s \in Servers(t) : st[n].ids[s] = t.old.ids[s]
  /\ pc[n] \in {"find", "create", "rules", "select"} =>
       t.old.ids = st[n].ids /\ t.old.recs = st[n].recs

\* Where the reconcile of n is in its loop.
Place(n) ==
  LET t == task[n] IN
  /\ pc[n] \in {"idle", "find", "create", "rules", "select", "retire", "deleteSg", "finish"} =>
       Servers(t) = {}
  /\ pc[n] \in {"update", "note"} => t.cur \in Todo(t)
  /\ pc[n] = "update" /\ t.cur \in up =>
       t.read \subseteq att[t.cur] /\ att[t.cur] \subseteq t.read \cup Hand
  /\ t.err => pc[n] = "note"
  /\ t.del => pc[n] \in {"next", "update", "note", "retire", "deleteSg", "finish"}
              /\ t.keep = {} /\ t.add = {} /\ t.id = None /\ phase[n] = "deleting"
  /\ t.failed => pc[n] \in {"next", "update", "note"}
  /\ pc[n] = "finish" => t.del
  /\ phase[n] = "gone" => pc[n] = "idle"

\* What n has on s, by its status or by the write it is about to note; nothing
\* where it is done with the server for good.
Owes(n, s) ==
  LET t == task[n] IN
  IF phase[n] = "gone" \/ (t.del /\ ~t.failed /\ s \notin t.drop) THEN {}
  ELSE IF pc[n] = "note" /\ t.cur = s
  THEN Wanted(t) \cup (IF t.err THEN st[n].ids[s] ELSE {})
  ELSE st[n].ids[s]

Attributed ==
  \A s \in up : \A g \in att[s] :
    g \in Hand \/ g \in loose[s] \/ \E n \in NSG : g \in Owes(n, s)

BookInv ==
  OneWorker /\ Groups /\ Attributed /\ \A n \in NSG : Mine(n) /\ Entries(n) /\ Place(n)

\* A step of one NSG.
Turn(n) == Reconcile(n) \/ Error(n)

Quiet == UNCHANGED <<up, att, name, used>>
Makes(n) ==
  /\ pc[n] = "create" /\ Fresh \in Made \ used /\ UNCHANGED <<up, att>>
  /\ name' = [name EXCEPT ![Fresh] = n] /\ used' = used \cup {Fresh}
Writes(n) ==
  /\ pc[n] = "update" /\ task[n].cur \in up /\ Merged(task[n]) \subseteq Attachable
  /\ att' = [att EXCEPT ![task[n].cur] = Merged(task[n])] /\ UNCHANGED <<up, name, used>>
Removes(n) ==
  /\ pc[n] = "deleteSg" /\ \A s \in up : task[n].old.managed \notin att[s]
  /\ name' = [name EXCEPT ![task[n].old.managed] = None] /\ UNCHANGED <<up, att, used>>

\* A reconcile takes its steps while no other runs.
LEMMA Alone ==
  ASSUME IInv, OneWorker, NEW n \in NSG, Turn(n)
  PROVE  OneWorker' /\ \A k \in NSG : k # n => pc[k] = "idle" /\ pc'[k] = "idle"
<1>0. pc \in [NSG -> PC]
  BY DEF IInv, Own
<1>1. Begin(n) \/ pc[n] # "idle"
  BY DEF Turn, Reconcile, Find, Create, ChangeRule, PatchManaged, SelectNodes, Get, Update, Note,
     AllDone, Retire, DeleteSecurityGroup, Finish, Error, ManagedError, CreateUnanswered, GetError,
     UpdateError, NoteError, OtherError
<1>2. \A k \in NSG : k # n => pc[k] = "idle"
  BY <1>1 DEF Begin, OneWorker
<1>3. \A k \in NSG : k # n => pc'[k] = pc[k]
  <2>1. CASE Error(n)
    BY <1>0, <2>1 DEF Error, ManagedError, CreateUnanswered, GetError, UpdateError, NoteError,
       OtherError, RetireFails, Return, Goto
  <2> QED
    BY <1>0, <2>1 DEF Turn, Reconcile, Begin, Find, Create, ChangeRule, PatchManaged, SelectNodes,
       Get, Update, Note, AllDone, Retire, DeleteSecurityGroup, Finish, AfterRetire, RetireFails,
       Return, Goto, run
<1> QED
  BY <1>2, <1>3 DEF OneWorker

\* What a step does to the servers and the groups.
LEMMA Effects ==
  ASSUME IInv, NEW n \in NSG, Turn(n)
  PROVE  Quiet \/ Makes(n) \/ Writes(n) \/ Removes(n)
<1>f. used # Made => Fresh \in Made \ used
  BY DEF IInv, World, Fresh
<1>1. CASE Create(n)
  BY <1>1, <1>f DEF Create, CreateSecurityGroup, Makes
<1>2. CASE Update(n)
  BY <1>2 DEF Update, Writes, Quiet
<1>3. CASE DeleteSecurityGroup(n)
  BY <1>3 DEF DeleteSecurityGroup, Removes, Quiet
<1>4. CASE Error(n)
  <2>1. CASE CreateUnanswered(n)
    BY <1>f, <2>1 DEF CreateUnanswered, CreateSecurityGroup, Makes
  <2>2. CASE UpdateError(n)
    BY <2>2 DEF UpdateError, Writes, Quiet
  <2> QED
    BY <1>4, <2>1, <2>2 DEF Error, ManagedError, GetError, NoteError, OtherError, cloud, Quiet
<1> QED
  BY <1>1, <1>2, <1>3, <1>4 DEF Turn, Reconcile, Begin, Find, ChangeRule, PatchManaged,
     SelectNodes, Get, Note, AllDone, Retire, Finish, cloud, Quiet

\* What a step of n leaves of the others.
LEMMA Frames ==
  ASSUME IInv, NEW n \in NSG, Turn(n), NEW k \in NSG, k # n
  PROVE  st'[k] = st[k] /\ pc'[k] = pc[k] /\ task'[k] = task[k] /\ phase'[k] = phase[k]
<1>0. /\ st \in [NSG -> StatusType] /\ pc \in [NSG -> PC] /\ task \in [NSG -> TaskType]
      /\ phase \in [NSG -> {"live", "deleting", "gone"}]
  BY DEF IInv, World, Own
<1>1. pc'[k] = pc[k] /\ task'[k] = task[k]
  <2>1. CASE Error(n)
    BY <1>0, <2>1 DEF Error, ManagedError, CreateUnanswered, GetError, UpdateError, NoteError,
       OtherError, RetireFails, Return, Goto
  <2> QED
    BY <1>0, <2>1 DEF Turn, Reconcile, Begin, Find, Create, ChangeRule, PatchManaged, SelectNodes,
       Get, Update, Note, AllDone, Retire, DeleteSecurityGroup, Finish, AfterRetire, RetireFails,
       Return, Goto, run
<1>2. st'[k] = st[k]
  <2>1. CASE Error(n)
    BY <1>0, <2>1 DEF Error, ManagedError, CreateUnanswered, GetError, UpdateError, NoteError,
       OtherError, RetireFails, SetManaged
  <2> QED
    BY <1>0, <2>1 DEF Turn, Reconcile, Begin, Find, Create, ChangeRule, PatchManaged, SelectNodes,
       Get, Update, Note, AllDone, Retire, DeleteSecurityGroup, Finish, RetireFails, SetManaged
<1>3. phase'[k] = phase[k]
  BY <1>0 DEF Turn, Reconcile, Error, Begin, Find, Create, ChangeRule, PatchManaged, SelectNodes,
     Get, Update, Note, AllDone, Retire, DeleteSecurityGroup, Finish, object
<1> QED
  BY <1>1, <1>2, <1>3

\* What a step of n leaves of what is n's, or another's, of the created groups.
LEMMA OfStays ==
  ASSUME IInv, Groups, NEW n \in NSG, Mine(n), Turn(n), NEW k \in NSG, NEW m \in Made, Of(k, m)
  PROVE  /\ Of(k, m)'
         /\ name'[m] = name[m] \/ (name'[m] = None /\ Removes(n) /\ m = task[n].old.managed)
<1>0. name \in [Made -> NSG \cup {None}]
  BY DEF IInv, World
<1>1. CASE Quiet \/ Writes(n)
  BY <1>1 DEF Quiet, Writes, Of
<1>2. CASE Makes(n)
  BY <1>0, <1>2 DEF Makes, Of
<1>3. CASE Removes(n)
  BY <1>0, <1>3 DEF Removes, Of
<1> QED
  BY <1>1, <1>2, <1>3, Effects

\* A step of n leaves what the books say of another NSG.
LEMMA OthersBooks ==
  ASSUME IInv, OneWorker, Groups, NEW n \in NSG, Mine(n), Turn(n), NEW k \in NSG, k # n,
         Mine(k), Entries(k), Place(k)
  PROVE  /\ Mine(k)' /\ Entries(k)' /\ Place(k)'
         /\ \A s \in Server : Owes(k, s)' = Owes(k, s)
<1>1. st'[k] = st[k] /\ pc'[k] = pc[k] /\ task'[k] = task[k] /\ phase'[k] = phase[k]
  BY Frames
<1>2. Mine(k)'
  <2>1. \A m \in Made : Of(k, m) => Of(k, m)'
    BY OfStays
  <2>2. task[k].id # None => name'[task[k].id] = k
    <3> SUFFICES ASSUME task[k].id # None PROVE name'[task[k].id] = k
      OBVIOUS
    <3>1. task[k].id \in Made /\ None \notin NSG /\ None \notin Made
      BY NsgAssumption DEF IInv, Own, TaskType
    <3>2. Of(k, task[k].id) /\ name[task[k].id] = k
      BY <3>1 DEF Mine
    <3>3. ~(Removes(n) /\ task[k].id = task[n].old.managed)
      BY <3>1, <3>2 DEF Mine, Of
    <3> QED
      BY <3>1, <3>2, <3>3, OfStays
  <2> QED
    BY <1>1, <2>1, <2>2 DEF Mine
<1>3. Entries(k)'
  BY <1>1 DEF Entries
<1>4. Place(k)'
  <2>1. up' = up
    BY Effects DEF Quiet, Makes, Writes, Removes
  <2>2. pc[k] # "update"
    BY Alone
  <2> QED
    BY <1>1, <2>1, <2>2 DEF Place
<1>5. \A s \in Server : Owes(k, s)' = Owes(k, s)
  BY <1>1 DEF Owes
<1> QED
  BY <1>2, <1>3, <1>4, <1>5

Books(n) == Mine(n) /\ Entries(n) /\ Place(n)

\* What is on a server after a step of n and was n's before is still n's.
Pays(n) ==
  \A s \in up : \A g \in att'[s] :
    (g \in att[s] /\ g \notin Owes(n, s)) \/ g \in Owes(n, s)' \/ g \in loose'[s]

\* A step of one NSG keeps Groups: what it attaches exists, and what it deletes is
\* attached nowhere.
LEMMA GroupsStep == ASSUME IInv, Groups, NEW n \in NSG, Turn(n) PROVE Groups'
<1>0. name \in [Made -> NSG \cup {None}] /\ att \in [Server -> SUBSET SG] /\ up \subseteq Server
      /\ None \notin NSG
  BY NsgAssumption DEF IInv, World
<1>1. CASE Quiet
  BY <1>1 DEF Quiet, Groups, Attachable
<1>2. CASE Makes(n)
  <2>1. \A m \in Made : name'[m] # None => m \in used'
    BY <1>0, <1>2 DEF Makes, Groups
  <2>2. \A m \in Made : name[m] # None => name'[m] # None
    BY <1>0, <1>2 DEF Makes
  <2>3. \A s \in up' : att'[s] \subseteq Attachable'
    BY <1>2, <2>2 DEF Makes, Groups, Attachable
  <2> QED
    BY <2>1, <2>3 DEF Groups
<1>3. CASE Writes(n)
  BY <1>0, <1>3 DEF Writes, Groups, Attachable
<1>4. CASE Removes(n)
  <2>1. \A m \in Made : name'[m] = name[m] \/ (name'[m] = None /\ m = task[n].old.managed)
    BY <1>0, <1>4 DEF Removes
  <2>2. \A s \in up' : att'[s] \subseteq Attachable'
    BY <1>4, <2>1 DEF Removes, Groups, Attachable
  <2> QED
    BY <1>4, <2>1, <2>2 DEF Removes, Groups
<1> QED
  BY <1>1, <1>2, <1>3, <1>4, Effects

\* n knows of no groups but its own if what a step of it writes down comes from
\* what it knew.
LEMMA MineStep ==
  ASSUME IInv, Groups, NEW n \in NSG, Turn(n), Mine(n),
         st'[n].managed \in {None, st[n].managed, task[n].old.managed, task[n].id},
         task'[n].old.managed \in {None, st[n].managed, task[n].old.managed},
         \A s \in Server : task'[n].old.ids[s] \subseteq st[n].ids[s] \cup task[n].old.ids[s],
         \A s \in Server : st'[n].ids[s] \subseteq st[n].ids[s] \cup Wanted(task[n]),
         \/ task'[n].id = None
         \/ task'[n].id = task[n].id /\ ~Removes(n)
         \/ task'[n].id \in used' /\ name'[task'[n].id] = n
  PROVE  Mine(n)'
<1>0. None \notin Made /\ None \notin NSG /\ task[n] \in TaskType
  BY NsgAssumption DEF IInv, Own
<1>1. \A m \in Made : Of(n, m) => Of(n, m)'
  BY OfStays
<1>2. task'[n].id # None => name'[task'[n].id] = n /\ task'[n].id \in used'
  <2>1. CASE task'[n].id = task[n].id /\ ~Removes(n) /\ task[n].id # None
    <3>1. task[n].id \in Made /\ Of(n, task[n].id) /\ name[task[n].id] = n
      BY <1>0, <2>1 DEF Mine, TaskType
    <3>2. name'[task[n].id] = n
      BY <2>1, <3>1, OfStays
    <3> QED
      BY <1>0, <1>1, <2>1, <3>1, <3>2 DEF Of
  <2> QED
    BY <2>1
<1>3. \A m \in Made : m \in {st'[n].managed, task'[n].old.managed, task'[n].id} => Of(n, m)'
  <2>1. \A m \in Made : m \in {st[n].managed, task[n].old.managed, task[n].id} => Of(n, m)'
    BY <1>1 DEF Mine
  <2>2. \A m \in Made : m = task'[n].id => Of(n, m)'
    BY <1>0, <1>2 DEF Of
  <2> QED
    BY <1>0, <2>1, <2>2
<1>4. ASSUME NEW s \in Server, NEW m \in Made, m \in st'[n].ids[s] \cup task'[n].old.ids[s]
      PROVE  Of(n, m)'
  <2>1. CASE m \in Wanted(task[n])
    <3>1. m = task[n].id
      BY <1>0, <2>1, NsgAssumption DEF Wanted, TaskType, SpecType
    <3> QED
      BY <1>1, <3>1 DEF Mine
  <2>2. CASE m \in st[n].ids[s] \cup task[n].old.ids[s]
    BY <1>1, <2>2 DEF Mine
  <2> QED
    BY <1>4, <2>1, <2>2
<1> QED
  BY <1>2, <1>3, <1>4 DEF Mine

\* The fields of the empty task and the empty status.
LEMMA NoTaskFields ==
  /\ NoTask.id = None /\ NoTask.del = FALSE /\ NoTask.drop = {} /\ NoTask.keep = {}
  /\ NoTask.add = {} /\ NoTask.err = FALSE /\ NoTask.failed = FALSE
  /\ NoTask.old.managed = None /\ NoTask.old.recs = {} /\ NoTask.cur = None
  /\ \A s \in Server : NoTask.old.ids[s] = {}
BY DEF NoTask, NoStatus

\* A pass that ends, with an error or without, leaves the entries in order.
LEMMA ReturnBooks ==
  ASSUME IInv, Groups, NEW n \in NSG, Turn(n), Books(n), Return(n), pc[n] # "note",
         att' = att, phase'[n] = phase[n], phase[n] # "gone",
         st'[n].recs = st[n].recs, st'[n].ids = st[n].ids,
         st'[n].managed \in {None, st[n].managed, task[n].old.managed, task[n].id}
  PROVE  Books(n)' /\ Pays(n)
<1>1. pc'[n] = "idle" /\ task'[n] = NoTask
  BY DEF Return, Goto, IInv, Own
<1>2. Mine(n)'
  BY <1>1, NoTaskFields, MineStep DEF Books
<1>3. Entries(n)'
  BY <1>1, NoTaskFields DEF Books, Entries, Servers
<1>4. Place(n)'
  BY <1>1, NoTaskFields DEF Books, Place, Servers
<1>5. Pays(n)
  <2>1. \A s \in Server : Owes(n, s)' = st[n].ids[s]
    BY <1>1, NoTaskFields DEF Owes
  <2>2. \A s \in Server : Owes(n, s) \in {{}, st[n].ids[s]}
    BY DEF Owes
  <2> QED
    BY <2>1, <2>2 DEF Pays, IInv, World
<1> QED
  BY <1>2, <1>3, <1>4, <1>5 DEF Books

\* A pass that goes on with what it knows.
LEMMA GotoBooks ==
  ASSUME IInv, Groups, NEW n \in NSG, Turn(n), Books(n), NEW p \in PC, Goto(n, p), task'[n] = task[n],
         pc[n] \notin {"idle", "update", "note"}, p \notin {"idle", "update", "note"},
         att' = att, phase'[n] = phase[n],
         st'[n].recs = st[n].recs, st'[n].ids = st[n].ids,
         st'[n].managed \in {None, st[n].managed, task[n].old.managed, task[n].id},
         task[n].id = None \/ ~Removes(n),
         pc[n] = "next" => Todo(task[n]) = {} /\ ~task[n].failed,
         p \in {"find", "create", "rules", "select"} =>
           pc[n] \in {"find", "create", "rules", "select"} /\ ~task[n].del,
         p = "finish" => task[n].del
  PROVE  Books(n)' /\ Pays(n)
<1>1. pc'[n] = p
  BY DEF Goto, IInv, Own
<1>t. PICK t : t = task[n]
  OBVIOUS
<1>2. Mine(n)'
  BY MineStep DEF Books
<1>3. Entries(n)'
  BY <1>1 DEF Books, Entries
<1>4. Place(n)'
  <2>1. Servers(t) = {}
    BY <1>t DEF Books, Place, Servers, Todo, IInv, Own, PC
  <2>2. ~t.err /\ ~t.failed /\ phase[n] # "gone"
    BY <1>t DEF Books, Place
  <2>3. t.del => p \in {"next", "retire", "deleteSg", "finish"}
    BY <1>t, <1>1 DEF Books, Place, IInv, Own, PC
  <2> QED
    BY <1>t, <1>1, <2>1, <2>2, <2>3 DEF Books, Place
<1>5. Pays(n)
  <2>1. \A s \in Server : Owes(n, s)' = Owes(n, s)
    BY <1>1 DEF Owes
  <2> QED
    BY <2>1 DEF Pays, IInv, World
<1> QED
  BY <1>2, <1>3, <1>4, <1>5 DEF Books

-----------------------------------------------------------------------------
\* The step of each action.

\* The types a step of n relies on.
LEMMA TurnFacts ==
  ASSUME IInv, NEW n \in NSG
  PROVE  /\ st[n] \in StatusType /\ task[n] \in TaskType /\ pc[n] \in PC
         /\ st \in [NSG -> StatusType] /\ pc \in [NSG -> PC] /\ task \in [NSG -> TaskType]
         /\ up \subseteq Server /\ att \in [Server -> SUBSET SG]
         /\ name \in [Made -> NSG \cup {None}]
BY DEF IInv, World, Own

\* The books of n after each of its steps, one lemma per operation.  The object is
\* read.
LEMMA BeginBooks ==
  ASSUME IInv, Groups, NEW n \in NSG, Books(n), Begin(n) PROVE Books(n)' /\ Pays(n)
<1>0. Turn(n) /\ att' = att /\ st' = st /\ phase' = phase
  BY DEF Turn, Reconcile, Begin, cloud, object
<1>d. Servers(task[n]) = {} /\ pc[n] = "idle" /\ phase[n] # "gone" /\ ~task[n].del /\ ~task[n].err
  BY DEF Books, Place, Begin
<1>1. /\ task'[n].old = st[n] /\ task'[n].id = None /\ task'[n].keep = {} /\ task'[n].add = {}
      /\ task'[n].err = FALSE /\ task'[n].failed = FALSE /\ task'[n].cur = None
      /\ \/ pc'[n] = "find" /\ task'[n].del = FALSE /\ task'[n].drop = {}
         \/ /\ pc'[n] = "next" /\ task'[n].del = TRUE /\ task'[n].drop = st[n].recs
            /\ phase[n] = "deleting"
  <2>1. PICK u \in TaskType : u = NoTask
    BY Empties
  <2>2. PICK d : d = [u EXCEPT !.spec = spec[n], !.old = st[n]]
    OBVIOUS
  <2>3. /\ d.old = st[n] /\ d.id = u.id /\ d.keep = u.keep /\ d.add = u.add /\ d.drop = u.drop
        /\ d.err = u.err /\ d.failed = u.failed /\ d.cur = u.cur /\ d.del = u.del
    BY <2>2 DEF TaskType
  <2>4. CASE pc'[n] = "find" /\ task'[n] = d
    BY <2>1, <2>3, <2>4, NoTaskFields
  <2>5. CASE pc'[n] = "next" /\ task'[n] = [d EXCEPT !.del = TRUE, !.drop = st[n].recs] /\ phase[n] = "deleting"
    <3>1. d \in TaskType
      BY <2>2, TurnFacts DEF TaskType, IInv, World
    <3>2. /\ task'[n].old = d.old /\ task'[n].id = d.id /\ task'[n].keep = d.keep
          /\ task'[n].add = d.add /\ task'[n].drop = st[n].recs /\ task'[n].err = d.err
          /\ task'[n].failed = d.failed /\ task'[n].cur = d.cur /\ task'[n].del = TRUE
      BY <2>5, <3>1 DEF TaskType
    <3> QED
      BY <2>1, <2>3, <2>5, <3>2, NoTaskFields
  <2> QED
    BY <2>1, <2>2, <2>4, <2>5, TurnFacts DEF Begin, Goto
<1>2. Mine(n)'
  BY <1>0, <1>1, MineStep DEF Books
<1>3. Entries(n)'
  BY <1>0, <1>1 DEF Books, Entries, Servers
<1>4. Place(n)'
  BY <1>0, <1>1, <1>d DEF Books, Place, Servers
<1>5. Pays(n)
  <2>1. \A s \in Server : Owes(n, s) = st[n].ids[s]
    BY <1>d DEF Owes
  <2>2. \A s \in Server : Owes(n, s)' = st[n].ids[s]
    <3>1. CASE pc'[n] = "find"
      BY <1>0, <1>1, <1>d, <3>1 DEF Owes
    <3>2. CASE pc'[n] = "next"
      BY <1>0, <1>1, <1>d, <3>2 DEF Owes, Books, Entries
    <3> QED
      BY <1>1, <3>1, <3>2
  <2> QED
    BY <1>0, <2>1, <2>2, TurnFacts DEF Pays
<1> QED
  BY <1>2, <1>3, <1>4, <1>5 DEF Books

\* The managed group that was found or made, before any server is done.
LEMMA IdBooks ==
  ASSUME IInv, Groups, NEW n \in NSG, Books(n), Turn(n), pc[n] \in {"find", "create"}, ~task[n].del,
         NEW m \in Made, task' = [task EXCEPT ![n].id = m], Goto(n, "rules"),
         m \in used', name'[m] = n, att' = att, st' = st, phase' = phase
  PROVE  Books(n)' /\ Pays(n)
<1>1. PICK t \in TaskType : t = task[n]
  BY TurnFacts
<1>2. task'[n] = [t EXCEPT !.id = m] /\ pc'[n] = "rules"
  BY <1>1, TurnFacts DEF Goto
<1>3. /\ task'[n].old = t.old /\ task'[n].id = m /\ task'[n].drop = t.drop /\ task'[n].keep = t.keep
      /\ task'[n].add = t.add /\ task'[n].err = t.err /\ task'[n].failed = t.failed
      /\ task'[n].del = t.del
  BY <1>2 DEF TaskType
<1>d. /\ Servers(t) = {} /\ ~t.err /\ ~t.failed /\ phase[n] # "gone"
  BY <1>1 DEF Books, Place
<1>4. Mine(n)'
  BY <1>1, <1>3, MineStep DEF Books
<1>5. Entries(n)'
  BY <1>1, <1>2, <1>3 DEF Books, Entries, Servers
<1>6. Place(n)'
  BY <1>1, <1>2, <1>3, <1>d DEF Books, Place, Servers
<1>7. Pays(n)
  <2>1. \A s \in Server : Owes(n, s)' = st[n].ids[s] /\ Owes(n, s) = st[n].ids[s]
    BY <1>1, <1>2, <1>3, <1>d DEF Owes
  <2> QED
    BY <2>1, TurnFacts DEF Pays
<1> QED
  BY <1>4, <1>5, <1>6, <1>7 DEF Books

\* The managed group is looked up by its name.
LEMMA FindBooks ==
  ASSUME IInv, Groups, NEW n \in NSG, Books(n), Find(n) PROVE Books(n)' /\ Pays(n)
<1>0. /\ Turn(n) /\ att' = att /\ st' = st /\ phase' = phase /\ used' = used /\ name' = name
      /\ pc[n] = "find" /\ "create" \in PC /\ "rules" \in PC
  BY DEF Turn, Reconcile, Find, cloud, object, PC
<1>d. ~task[n].del
  BY <1>0 DEF Books, Place
<1>1. CASE task' = task
  <2>1. PICK p \in {"rules", "create"} : Goto(n, p)
    BY <1>1 DEF Find
  <2>2. ~Removes(n)
    BY <1>0 DEF Removes
  <2> QED
    BY <1>0, <1>1, <1>d, <2>1, <2>2, GotoBooks
<1>2. ASSUME NEW m \in Made, name[m] = n, task' = [task EXCEPT ![n].id = m], Goto(n, "rules")
      PROVE  Books(n)' /\ Pays(n)
  <2>1. m \in used
    BY <1>2, NsgAssumption DEF Groups
  <2> QED
    BY <1>0, <1>2, <1>d, <2>1, IdBooks
<1> QED
  BY <1>1, <1>2 DEF Find

\* The managed group is created.
LEMMA CreateBooks ==
  ASSUME IInv, Groups, NEW n \in NSG, Books(n), Create(n) PROVE Books(n)' /\ Pays(n)
<1>f. used # Made => Fresh \in Made
  BY DEF IInv, World, Fresh
<1>0. /\ Turn(n) /\ att' = att /\ st' = st /\ phase' = phase /\ pc[n] = "create"
      /\ Fresh \in Made /\ Fresh \in used' /\ name' = [name EXCEPT ![Fresh] = n]
  BY <1>f DEF Turn, Reconcile, Create, CreateSecurityGroup, object
<1>1. name'[Fresh] = n
  BY <1>0, TurnFacts
<1>d. ~task[n].del
  BY <1>0 DEF Books, Place
<1>2. PICK m \in Made : m = Fresh
  BY <1>0
<1> QED
  BY <1>0, <1>1, <1>2, <1>d, IdBooks DEF Create

\* A rule of it changes.
LEMMA ChangeRuleBooks ==
  ASSUME IInv, Groups, NEW n \in NSG, Books(n), ChangeRule(n) PROVE Books(n)' /\ Pays(n)
<1>0. UNCHANGED <<up, att, name, used, st, pc, task, phase>>
  BY DEF ChangeRule, object, run
<1>1. Books(n)'
  BY <1>0 DEF Books, Mine, Of, Entries, Place
<1>2. \A s \in Server : Owes(n, s)' = Owes(n, s)
  BY <1>0 DEF Owes
<1> QED
  BY <1>0, <1>1, <1>2, TurnFacts DEF Pays

\* Its id goes to status.
LEMMA PatchManagedBooks ==
  ASSUME IInv, Groups, NEW n \in NSG, Books(n), PatchManaged(n) PROVE Books(n)' /\ Pays(n)
<1>0. /\ Turn(n) /\ att' = att /\ task' = task /\ phase' = phase /\ pc[n] = "rules"
      /\ "select" \in PC /\ Goto(n, "select")
  BY DEF Turn, Reconcile, PatchManaged, cloud, object, PC
<1>d. ~task[n].del /\ ~Removes(n)
  BY <1>0 DEF Books, Place, Removes
<1>1. PICK e \in StatusType : e = st[n]
  BY TurnFacts
<1>2. st'[n] = [e EXCEPT !.managed = task[n].id]
  BY <1>1, TurnFacts DEF PatchManaged, SetManaged
<1>3. st'[n].managed = task[n].id /\ st'[n].recs = e.recs /\ st'[n].ids = e.ids
  BY <1>2 DEF StatusType
<1> QED
  BY <1>0, <1>d, <1>1, <1>3, GotoBooks

\* The servers to leave, to look after and to enter are found.
LEMMA SelectNodesBooks ==
  ASSUME IInv, Groups, NEW n \in NSG, Books(n), SelectNodes(n) PROVE Books(n)' /\ Pays(n)
<1>0. Turn(n) /\ att' = att /\ st' = st /\ phase' = phase /\ pc[n] = "select"
  BY DEF Turn, Reconcile, SelectNodes, cloud, object
<1>1. PICK t \in TaskType : t = task[n]
  BY TurnFacts
<1>d. /\ ~t.err /\ ~t.failed /\ ~t.del /\ phase[n] # "gone" /\ ~Removes(n)
      /\ t.old.ids = st[n].ids
  BY <1>0, <1>1 DEF Books, Place, Entries, Removes
<1>2. PICK d, k, a : task'[n] = [t EXCEPT !.drop = d, !.keep = k, !.add = a] /\ pc'[n] = "next"
  BY <1>1, TurnFacts DEF SelectNodes, Goto
<1>3. /\ task'[n].old = t.old /\ task'[n].id = t.id /\ task'[n].err = t.err
      /\ task'[n].failed = t.failed /\ task'[n].del = t.del
  BY <1>2 DEF TaskType
<1>4. Mine(n)'
  BY <1>0, <1>1, <1>3, <1>d, MineStep DEF Books
<1>5. Entries(n)'
  BY <1>0, <1>1, <1>2, <1>3, <1>d DEF Books, Entries
<1>6. Place(n)'
  BY <1>0, <1>2, <1>3, <1>d DEF Books, Place
<1>7. Pays(n)
  <2>1. \A s \in Server : Owes(n, s)' = st[n].ids[s] /\ Owes(n, s) = st[n].ids[s]
    BY <1>0, <1>1, <1>2, <1>3, <1>d DEF Owes
  <2> QED
    BY <1>0, <2>1, TurnFacts DEF Pays
<1> QED
  BY <1>4, <1>5, <1>6, <1>7 DEF Books

\* The next server is taken up.
LEMMA TakeBooks ==
  ASSUME IInv, Groups, NEW n \in NSG, Books(n), Turn(n), pc[n] = "next",
         NEW t \in TaskType, t = task[n], NEW s \in Todo(t), NEW u, u = task'[n],
         u.spec = t.spec, u.old = t.old, u.id = t.id, u.del = t.del, u.drop = t.drop,
         u.keep = t.keep, u.add = t.add, u.failed = t.failed, u.cur = s,
         pc'[n] \in {"update", "note"}, pc'[n] = "update" => u.read = att[s],
         u.err => pc'[n] = "note",
         pc'[n] = "note" /\ ~u.err /\ s \in up =>
           \A g \in att[s] \cap t.old.ids[s] : g \in Wanted(t),
         st' = st, att' = att, up' = up, phase' = phase
  PROVE  Books(n)' /\ Pays(n)
<1>s. s \in Server
  BY TodoServers
<1>w. Wanted(u) = Wanted(t) /\ Todo(u) = Todo(t) /\ Servers(u) = Servers(t)
  BY DEF Wanted, Todo, Servers
<1>d. /\ phase[n] # "gone" /\ ~t.err /\ s \in Servers(t)
      /\ t.del => s \in t.drop
  BY DEF Books, Place, Todo, Servers
<1>1. Mine(n)'
  <2>1. ~Removes(n)
    BY DEF Removes
  <2> QED
    BY <2>1, MineStep DEF Books
<1>2. Entries(n)'
  BY <1>w DEF Books, Entries
<1>3. Place(n)'
  BY <1>w, <1>d DEF Books, Place
<1>4. Pays(n)
  <2> SUFFICES ASSUME NEW x \in up, NEW g \in att[x], g \in Owes(n, x) PROVE g \in Owes(n, x)'
    BY DEF Pays
  <2>x. x \in Server
    BY TurnFacts
  <2>1. CASE x # s
    <3>1. Owes(n, x)' = Owes(n, x)
      BY <1>d, <2>1 DEF Owes
    <3> QED
      BY <3>1
  <2>2. CASE x = s
    <3>1. Owes(n, x) = st[n].ids[s] /\ st[n].ids[s] = t.old.ids[s]
      BY <1>d, <2>2 DEF Owes, Books, Entries
    <3>2. Owes(n, x)' = IF pc'[n] = "note"
                        THEN Wanted(t) \cup (IF u.err THEN st[n].ids[s] ELSE {})
                        ELSE st[n].ids[s]
      BY <1>d, <1>w, <2>2 DEF Owes
    <3> QED
      BY <2>2, <3>1, <3>2
  <2> QED
    BY <2>1, <2>2
<1> QED
  BY <1>1, <1>2, <1>3, <1>4 DEF Books

\* A server is read.
LEMMA GetBooks ==
  ASSUME IInv, Groups, NEW n \in NSG, Books(n), Get(n) PROVE Books(n)' /\ Pays(n)
<1>0. Turn(n) /\ att' = att /\ st' = st /\ phase' = phase /\ up' = up /\ pc[n] = "next"
  BY DEF Turn, Reconcile, Get, cloud, object
<1>1. PICK t \in TaskType : t = task[n]
  BY TurnFacts
<1>2. PICK s \in Todo(t) : Get(n)!2!(s)
  BY <1>1 DEF Get
<1>3. PICK u : u = [t EXCEPT !.cur = s, !.read = att[s]]
  OBVIOUS
<1>4. /\ u.spec = t.spec /\ u.old = t.old /\ u.id = t.id /\ u.del = t.del /\ u.drop = t.drop
      /\ u.keep = t.keep /\ u.add = t.add /\ u.failed = t.failed /\ u.cur = s /\ u.read = att[s]
      /\ u.err = t.err
  BY <1>3 DEF TaskType
<1>e. ~t.err
  BY <1>0, <1>1 DEF Books, Place
<1>5. CASE s \in up
  <2>1. /\ task'[n] = u /\ pc'[n] \in {"note", "update"}
        /\ pc'[n] = "note" => Merged(u) = u.read
    BY <1>1, <1>2, <1>3, <1>5, TurnFacts DEF Goto
  <2>2. pc'[n] = "note" => \A g \in att[s] \cap t.old.ids[s] : g \in Wanted(t)
    <3>1. Wanted(u) = Wanted(t)
      BY <1>4 DEF Wanted
    <3> QED
      BY <1>4, <2>1, <3>1 DEF Merged, MergeStringArray
  <2> QED
    BY <1>0, <1>1, <1>2, <1>4, <1>e, <2>1, <2>2, TakeBooks
<1>6. CASE s \notin up
  <2>1. task'[n] = [u EXCEPT !.err = (s \notin u.drop)] /\ pc'[n] = "note"
    BY <1>1, <1>2, <1>3, <1>6, TurnFacts DEF Goto
  <2>2. u \in TaskType
    <3>1. s \in Server /\ att[s] \in SUBSET SG
      BY TodoServers, TurnFacts
    <3> QED
      BY <1>3, <3>1 DEF TaskType
  <2>3. PICK v : v = task'[n]
    OBVIOUS
  <2>4. /\ v.spec = u.spec /\ v.old = u.old /\ v.id = u.id /\ v.del = u.del /\ v.drop = u.drop
        /\ v.keep = u.keep /\ v.add = u.add /\ v.failed = u.failed /\ v.cur = u.cur
    BY <2>1, <2>2, <2>3 DEF TaskType
  <2>5. /\ v.spec = t.spec /\ v.old = t.old /\ v.id = t.id /\ v.del = t.del /\ v.drop = t.drop
        /\ v.keep = t.keep /\ v.add = t.add /\ v.failed = t.failed /\ v.cur = s
    BY <1>4, <2>4
  <2> QED
    BY <1>0, <1>1, <1>2, <1>6, <2>1, <2>3, <2>5, TakeBooks
<1> QED
  BY <1>5, <1>6

\* The read of a server fails.
LEMMA GetErrorBooks ==
  ASSUME IInv, Groups, NEW n \in NSG, Books(n), Error(n), GetError(n)
  PROVE  Books(n)' /\ Pays(n)
<1>0. Turn(n) /\ att' = att /\ st' = st /\ phase' = phase /\ up' = up /\ pc[n] = "next"
  BY DEF Turn, Error, GetError, cloud, object
<1>1. PICK t \in TaskType : t = task[n]
  BY TurnFacts
<1>2. PICK s \in Todo(t) : task' = [task EXCEPT ![n] = [@ EXCEPT !.cur = s, !.err = TRUE]]
  BY <1>1 DEF GetError
<1>3. PICK u : u = task'[n]
  OBVIOUS
<1>4. u = [t EXCEPT !.cur = s, !.err = TRUE] /\ pc'[n] = "note"
  BY <1>1, <1>2, <1>3, TurnFacts DEF GetError, Goto
<1>5. /\ u.spec = t.spec /\ u.old = t.old /\ u.id = t.id /\ u.del = t.del /\ u.drop = t.drop
      /\ u.keep = t.keep /\ u.add = t.add /\ u.failed = t.failed /\ u.cur = s /\ u.err = TRUE
  BY <1>4 DEF TaskType
<1> QED
  BY <1>0, <1>1, <1>2, <1>3, <1>4, <1>5, TakeBooks

\* The write is sent, and may have been carried out.
LEMMA WriteBooks ==
  ASSUME IInv, Groups, NEW n \in NSG, Books(n), Turn(n), pc[n] = "update", pc'[n] = "note",
         NEW t \in TaskType, t = task[n], NEW u, u = task'[n],
         u.spec = t.spec, u.old = t.old, u.id = t.id, u.del = t.del, u.drop = t.drop,
         u.keep = t.keep, u.add = t.add, u.failed = t.failed, u.cur = t.cur,
         \/ t.cur \in up /\ att' = [att EXCEPT ![t.cur] = Merged(t)]
         \/ u.err /\ att' = att,
         st' = st, up' = up, phase' = phase
  PROVE  Books(n)' /\ Pays(n)
<1>w. Wanted(u) = Wanted(t) /\ Todo(u) = Todo(t) /\ Servers(u) = Servers(t)
  BY DEF Wanted, Todo, Servers
<1>d. /\ phase[n] # "gone" /\ ~t.err /\ t.cur \in Servers(t) /\ t.cur \in Todo(t)
      /\ t.del => t.cur \in t.drop
  BY DEF Books, Place, Todo, Servers
<1>s. t.cur \in Server
  BY <1>d, TodoServers
<1>1. Mine(n)'
  <2>1. ~Removes(n)
    BY DEF Removes
  <2> QED
    BY <2>1, MineStep DEF Books
<1>2. Entries(n)'
  BY <1>w DEF Books, Entries
<1>3. Place(n)'
  BY <1>w, <1>d DEF Books, Place
<1>4. Pays(n)
  <2> SUFFICES ASSUME NEW x \in up, NEW g \in att'[x]
               PROVE  (g \in att[x] /\ g \notin Owes(n, x)) \/ g \in Owes(n, x)'
    BY DEF Pays
  <2>x. x \in Server
    BY TurnFacts
  <2>1. CASE x # t.cur
    <3>1. Owes(n, x)' = Owes(n, x)
      BY <2>1 DEF Owes
    <3>2. att'[x] = att[x]
      BY <2>1, <2>x, TurnFacts
    <3> QED
      BY <3>1, <3>2
  <2>2. CASE x = t.cur
    <3>1. Owes(n, x) = st[n].ids[x] /\ st[n].ids[x] = t.old.ids[x]
      BY <1>d, <2>2 DEF Owes, Books, Entries
    <3>2. Owes(n, x)' = Wanted(t) \cup (IF u.err THEN st[n].ids[x] ELSE {})
      BY <1>d, <1>w, <2>2 DEF Owes
    <3>3. CASE u.err /\ att' = att
      BY <3>1, <3>2, <3>3
    <3>4. CASE att' = [att EXCEPT ![t.cur] = Merged(t)]
      <4>1. att'[x] = Merged(t) /\ t.read \subseteq att[x]
        BY <2>2, <2>x, <3>4, TurnFacts DEF Books, Place
      <4>2. g \in Wanted(t) \/ (g \in att[x] /\ g \notin t.old.ids[x])
        BY <2>2, <4>1 DEF Merged, MergeStringArray
      <4> QED
        BY <3>1, <3>2, <4>2
    <3> QED
      BY <3>3, <3>4
  <2> QED
    BY <2>1, <2>2
<1> QED
  BY <1>1, <1>2, <1>3, <1>4 DEF Books

\* The write of a server's groups.
LEMMA UpdateBooks ==
  ASSUME IInv, Groups, NEW n \in NSG, Books(n), Update(n) PROVE Books(n)' /\ Pays(n)
<1>0. Turn(n) /\ st' = st /\ phase' = phase /\ up' = up /\ pc[n] = "update"
  BY DEF Turn, Reconcile, Update, object
<1>p. pc'[n] = "note"
  BY TurnFacts DEF Update, Goto
<1>1. PICK t \in TaskType : t = task[n]
  BY TurnFacts
<1>e. ~t.err
  BY <1>0, <1>1 DEF Books, Place
<1>2. CASE task' = task /\ task[n].cur \in up /\ att' = [att EXCEPT ![task[n].cur] = Merged(task[n])]
  <2>1. PICK u : u = task'[n]
    OBVIOUS
  <2>2. u = t
    BY <1>1, <1>2, <2>1
  <2> QED
    BY <1>0, <1>p, <1>1, <1>2, <1>e, <2>1, <2>2, WriteBooks
<1>3. CASE task' = [task EXCEPT ![n].err = TRUE] /\ att' = att
  <2>1. PICK u : u = task'[n]
    OBVIOUS
  <2>2. u = [t EXCEPT !.err = TRUE]
    BY <1>1, <1>3, <2>1, TurnFacts
  <2>3. /\ u.spec = t.spec /\ u.old = t.old /\ u.id = t.id /\ u.del = t.del /\ u.drop = t.drop
        /\ u.keep = t.keep /\ u.add = t.add /\ u.failed = t.failed /\ u.cur = t.cur /\ u.err = TRUE
    BY <2>2 DEF TaskType
  <2>4. \/ t.cur \in up /\ att' = [att EXCEPT ![t.cur] = Merged(t)]
        \/ u.err /\ att' = att
    BY <1>1, <1>3, <2>3
  <2> QED
    BY <1>0, <1>p, <1>1, <2>1, <2>3, <2>4, WriteBooks
<1> QED
  BY <1>0, <1>2, <1>3 DEF Update

\* The write fails, whether or not it was carried out.
LEMMA UpdateErrorBooks ==
  ASSUME IInv, Groups, NEW n \in NSG, Books(n), Error(n), UpdateError(n)
  PROVE  Books(n)' /\ Pays(n)
<1>0. Turn(n) /\ st' = st /\ phase' = phase /\ up' = up /\ pc[n] = "update"
  BY DEF Turn, Error, UpdateError, object
<1>p. pc'[n] = "note"
  BY TurnFacts DEF UpdateError, Goto
<1>1. PICK t \in TaskType : t = task[n]
  BY TurnFacts
<1>2. PICK u : u = task'[n]
  OBVIOUS
<1>3. u = [t EXCEPT !.err = TRUE]
  BY <1>1, <1>2, TurnFacts DEF UpdateError
<1>4. /\ u.spec = t.spec /\ u.old = t.old /\ u.id = t.id /\ u.del = t.del /\ u.drop = t.drop
      /\ u.keep = t.keep /\ u.add = t.add /\ u.failed = t.failed /\ u.cur = t.cur /\ u.err = TRUE
  BY <1>3 DEF TaskType
<1>6. \/ t.cur \in up /\ att' = [att EXCEPT ![t.cur] = Merged(t)]
      \/ att' = att
  BY <1>1 DEF UpdateError
<1> QED
  BY <1>0, <1>p, <1>1, <1>2, <1>4, <1>6, WriteBooks

\* The fields of a task that is done with its server.
LEMMA DoneFields ==
  ASSUME NEW t \in TaskType
  PROVE  /\ Done(t).spec = t.spec /\ Done(t).old = t.old /\ Done(t).id = t.id /\ Done(t).del = t.del
         /\ Done(t).drop = t.drop \ {t.cur} /\ Done(t).keep = t.keep \ {t.cur}
         /\ Done(t).add = t.add \ {t.cur}
         /\ Done(t).failed <=> (t.failed \/ t.err)
         /\ ~Done(t).err
BY DEF Done, TaskType

\* A server is done with, and the entry of it patched or not.
LEMMA EntryBooks ==
  ASSUME IInv, Groups, NEW n \in NSG, Books(n), Turn(n), pc[n] = "note", pc'[n] = "next",
         NEW t \in TaskType, t = task[n], task'[n] = Done(t),
         att' = att, up' = up, phase' = phase,
         st'[n].managed = st[n].managed,
         \A s \in Server \ {t.cur} :
           st'[n].ids[s] = st[n].ids[s] /\ (s \in st[n].recs => s \in st'[n].recs),
         t.cur \notin st'[n].recs => st'[n].ids[t.cur] = {},
         st'[n].ids[t.cur] \subseteq st[n].ids[t.cur] \cup Wanted(t),
         t.drop # {} /\ t.err => st'[n].ids[t.cur] = st[n].ids[t.cur],
         NEW f, Track(n, f)
  PROVE  Books(n)' /\ Pays(n)
<1>d. /\ phase[n] # "gone" /\ t.cur \in Todo(t)
      /\ t.del => t.cur \in t.drop /\ t.keep = {} /\ t.add = {} /\ t.id = None /\ phase[n] = "deleting"
  BY DEF Books, Place, Todo
<1>s. t.cur \in Server
  BY <1>d, TodoServers
<1>1. Mine(n)'
  <2>1. ~Removes(n)
    BY DEF Removes
  <2>2. task'[n].old = t.old /\ task'[n].id = t.id
    BY DoneFields
  <2>3. \A s \in Server : st'[n].ids[s] \subseteq st[n].ids[s] \cup Wanted(t)
    OBVIOUS
  <2> QED
    BY <2>1, <2>2, <2>3, MineStep DEF Books
<1>2. Entries(n)'
  <2>1. \A s \in Server : s \notin st'[n].recs => st'[n].ids[s] = {}
    BY DEF Books, Entries
  <2>2. \A s \in Servers(task'[n]) : s \in Servers(t) /\ s # t.cur /\ s \in Server
    BY DoneFields DEF Servers, TaskType
  <2>3. \A s \in Servers(task'[n]) : st'[n].ids[s] = task'[n].old.ids[s]
    BY <2>2, DoneFields DEF Books, Entries
  <2> QED
    BY <2>1, <2>3 DEF Entries
<1>3. Place(n)'
  BY <1>d, DoneFields DEF Books, Place
<1>4. Pays(n)
  <2> SUFFICES ASSUME NEW x \in up, NEW g \in att[x], g \in Owes(n, x)
               PROVE  g \in Owes(n, x)' \/ g \in loose'[x]
    BY DEF Pays
  <2>x. x \in Server
    BY TurnFacts
  <2>1. CASE x # t.cur
    <3>1. Owes(n, x) = IF t.del /\ ~t.failed /\ x \notin t.drop THEN {} ELSE st[n].ids[x]
      BY <1>d, <2>1 DEF Owes
    <3>2. Owes(n, x)' = IF t.del /\ ~(t.failed \/ t.err) /\ x \notin t.drop THEN {} ELSE st[n].ids[x]
      BY <1>d, <2>1, <2>x, DoneFields DEF Owes
    <3> QED
      BY <3>1, <3>2
  <2>2. CASE x = t.cur /\ t.drop = {}
    <3>1. ~t.del
      BY <1>d, <2>2
    <3>2. g \in Wanted(t) \cup st[n].ids[x]
      BY <2>2 DEF Owes
    <3>3. Owes(n, x)' = st'[n].ids[x]
      BY <1>d, <3>1, DoneFields DEF Owes
    <3>4. loose'[x] = (loose[x] \cup (att[x] \cap (Wanted(t) \cup st[n].ids[x]))) \ st'[n].ids[x]
      BY <2>2, <2>x, <3>1 DEF Track, Loosened, Leaves
    <3> QED
      BY <3>2, <3>3, <3>4
  <2>3. CASE x = t.cur /\ t.drop # {}
    <3>1. Wanted(t) = {}
      BY <2>3 DEF Wanted
    <3>2. t.err /\ g \in st[n].ids[x]
      BY <2>3, <3>1 DEF Owes
    <3>3. Owes(n, x)' = st'[n].ids[x]
      BY <1>d, <3>2, DoneFields DEF Owes
    <3> QED
      BY <2>3, <3>2, <3>3
  <2> QED
    BY <2>1, <2>2, <2>3
<1> QED
  BY <1>1, <1>2, <1>3, <1>4 DEF Books

\* The entry of the server in status.
LEMMA NoteBooks ==
  ASSUME IInv, Groups, NEW n \in NSG, Books(n), Note(n), NEW f, Track(n, f) PROVE Books(n)' /\ Pays(n)
<1>0. Turn(n) /\ att' = att /\ phase' = phase /\ up' = up /\ pc[n] = "note"
  BY DEF Turn, Reconcile, Note, cloud, object
<1>1. PICK t \in TaskType : t = task[n]
  BY TurnFacts
<1>2. PICK e \in StatusType : e = st[n]
  BY TurnFacts
<1>3. task'[n] = Done(t) /\ pc'[n] = "next" /\ st'[n] = Noted(e, t)
  BY <1>1, <1>2, TurnFacts DEF Note, Goto
<1>d. t.cur \in Server /\ (t.del => t.drop # {})
  <2>1. t.cur \in Todo(t) /\ (t.del => t.keep = {} /\ t.add = {})
    BY <1>0, <1>1 DEF Books, Place
  <2> QED
    BY <2>1, TodoServers DEF Todo
<1>4. CASE t.del \/ (t.drop # {} /\ t.err)
  <2>1. st'[n] = e
    BY <1>3, <1>4 DEF Noted
  <2>2. \A s \in Server : s \notin e.recs => e.ids[s] = {}
    BY <1>2 DEF Books, Entries
  <2> QED
    BY <1>0, <1>1, <1>2, <1>3, <1>4, <1>d, <2>1, <2>2, EntryBooks
<1>5. CASE ~t.del /\ t.drop # {} /\ ~t.err
  <2>1. st'[n] = RemoveEntry(e, t.cur)
    BY <1>3, <1>5 DEF Noted
  <2>2. /\ st'[n].managed = e.managed /\ st'[n].recs = e.recs \ {t.cur}
        /\ st'[n].ids = [e.ids EXCEPT ![t.cur] = {}]
    BY <2>1 DEF RemoveEntry, StatusType
  <2>3. /\ \A s \in Server \ {t.cur} : st'[n].ids[s] = e.ids[s]
        /\ st'[n].ids[t.cur] = {}
    BY <1>d, <2>2 DEF StatusType
  <2>4. /\ st'[n].managed = st[n].managed
        /\ \A s \in Server \ {t.cur} :
             st'[n].ids[s] = st[n].ids[s] /\ (s \in st[n].recs => s \in st'[n].recs)
    BY <1>2, <2>2, <2>3
  <2>5. st'[n].ids[t.cur] \subseteq st[n].ids[t.cur] \cup Wanted(t)
    BY <2>3
  <2>6. /\ t.cur \notin st'[n].recs => st'[n].ids[t.cur] = {}
        /\ t.drop # {} /\ t.err => st'[n].ids[t.cur] = st[n].ids[t.cur]
    BY <1>5, <2>3
  <2> QED
    BY <1>0, <1>1, <1>3, <2>4, <2>5, <2>6, EntryBooks
<1>6. CASE t.drop = {}
  <2>1. st'[n] = UpdateEntry(e, t.cur, Wanted(t))
    BY <1>3, <1>6, <1>d DEF Noted
  <2>2. /\ st'[n].managed = e.managed /\ st'[n].recs = e.recs \cup {t.cur}
        /\ st'[n].ids = [e.ids EXCEPT ![t.cur] = Wanted(t)]
    BY <2>1 DEF UpdateEntry, StatusType
  <2>3. /\ \A s \in Server \ {t.cur} : st'[n].ids[s] = e.ids[s]
        /\ st'[n].ids[t.cur] = Wanted(t)
    BY <1>d, <2>2 DEF StatusType
  <2>4. /\ st'[n].managed = st[n].managed
        /\ \A s \in Server \ {t.cur} :
             st'[n].ids[s] = st[n].ids[s] /\ (s \in st[n].recs => s \in st'[n].recs)
    BY <1>2, <2>2, <2>3
  <2>5. /\ t.cur \in st'[n].recs
        /\ st'[n].ids[t.cur] \subseteq st[n].ids[t.cur] \cup Wanted(t)
    BY <2>2, <2>3
  <2>6. /\ t.cur \notin st'[n].recs => st'[n].ids[t.cur] = {}
        /\ t.drop # {} /\ t.err => st'[n].ids[t.cur] = st[n].ids[t.cur]
    BY <1>6, <2>3, <2>5
  <2> QED
    BY <1>0, <1>1, <1>3, <2>4, <2>5, <2>6, EntryBooks
<1> QED
  BY <1>4, <1>5, <1>6

\* Its patch fails.
LEMMA NoteErrorBooks ==
  ASSUME IInv, Groups, NEW n \in NSG, Books(n), Error(n), NoteError(n), NEW f, Track(n, f)
  PROVE  Books(n)' /\ Pays(n)
<1>0. Turn(n) /\ att' = att /\ phase' = phase /\ up' = up /\ pc[n] = "note" /\ st' = st
  BY DEF Turn, Error, NoteError, cloud, object
<1>1. PICK t \in TaskType : t = task[n]
  BY TurnFacts
<1>2. task'[n] = Done(t) /\ pc'[n] = "next"
  BY <1>1, TurnFacts DEF NoteError, Goto
<1>3. t.cur \in Todo(t)
  BY <1>0, <1>1 DEF Books, Place
<1>4. t.cur \in Server
  BY <1>3, TodoServers
<1>5. t.cur \notin st[n].recs => st[n].ids[t.cur] = {}
  BY <1>4 DEF Books, Entries
<1> QED
  BY <1>0, <1>1, <1>2, <1>4, <1>5, EntryBooks

-----------------------------------------------------------------------------
\* A patch of the managed group leaves the entries of the servers.
LEMMA ManagedFields ==
  ASSUME IInv, NEW n \in NSG, NEW m, SetManaged(n, m)
  PROVE  st'[n].managed = m /\ st'[n].recs = st[n].recs /\ st'[n].ids = st[n].ids
<1>1. PICK e \in StatusType : e = st[n]
  BY TurnFacts
<1>2. st'[n] = [e EXCEPT !.managed = m]
  BY <1>1, TurnFacts DEF SetManaged
<1> QED
  BY <1>1, <1>2 DEF StatusType

\* A pass is under way: the object is not gone.
LEMMA Present ==
  ASSUME NEW n \in NSG, Books(n), pc[n] # "idle" PROVE phase[n] # "gone"
BY DEF Books, Place

\* The loop is over.
LEMMA AllDoneBooks ==
  ASSUME IInv, Groups, NEW n \in NSG, Books(n), AllDone(n) PROVE Books(n)' /\ Pays(n)
<1>0. /\ Turn(n) /\ att' = att /\ phase' = phase /\ pc[n] = "next" /\ st' = st /\ ~Removes(n)
      /\ Todo(task[n]) = {} /\ "retire" \in PC /\ "finish" \in PC
  BY DEF Turn, Reconcile, AllDone, cloud, object, Removes, PC
<1>1. CASE Return(n)
  BY <1>0, <1>1, Present, ReturnBooks
<1>2. CASE ~task[n].failed /\ task' = task /\ Goto(n, "retire")
  BY <1>0, <1>2, GotoBooks
<1>3. CASE ~task[n].failed /\ task' = task /\ Goto(n, "finish") /\ task[n].del
  BY <1>0, <1>3, GotoBooks
<1> QED
  BY <1>1, <1>2, <1>3 DEF AllDone

\* deleteManagedSecurityGroupIfUnused is over.
LEMMA RetiredBooks ==
  ASSUME IInv, Groups, NEW n \in NSG, Books(n), Turn(n), att' = att, phase' = phase,
         pc[n] \in {"retire", "deleteSg"},
         (AfterRetire(n) /\ st' = st) \/ RetireFails(n)
  PROVE  Books(n)' /\ Pays(n)
<1>d. task[n].del => task[n].id = None
  BY DEF Books, Place
<1>1. CASE Return(n)
  <2>1. st' = st \/ SetManaged(n, task[n].old.managed)
    BY DEF RetireFails
  <2> QED
    BY <1>1, <2>1, Present, ManagedFields, ReturnBooks
<1>2. CASE task[n].del /\ st' = st /\ task' = task /\ Goto(n, "finish")
  <2>1. "finish" \in PC
    BY DEF PC
  <2> QED
    BY <1>2, <1>d, <2>1, GotoBooks
<1> QED
  BY <1>1, <1>2 DEF AfterRetire, RetireFails

\* The managed group is looked at and deleted.
LEMMA RetireBooks ==
  ASSUME IInv, Groups, NEW n \in NSG, Books(n), Retire(n) \/ DeleteSecurityGroup(n)
  PROVE  Books(n)' /\ Pays(n)
<1>0. /\ Turn(n) /\ att' = att /\ phase' = phase /\ pc[n] \in {"retire", "deleteSg"}
      /\ "deleteSg" \in PC
  BY DEF Turn, Reconcile, Retire, DeleteSecurityGroup, cloud, object, PC
<1>1. CASE Goto(n, "deleteSg") /\ task' = task /\ st' = st /\ pc[n] = "retire"
  <2>1. ~Removes(n)
    BY <1>1 DEF Removes
  <2> QED
    BY <1>0, <1>1, <2>1, GotoBooks
<1>2. CASE (AfterRetire(n) /\ st' = st) \/ RetireFails(n)
  BY <1>0, <1>2, RetiredBooks
<1> QED
  BY <1>1, <1>2 DEF Retire, DeleteSecurityGroup

\* The finalizer comes off: there is nothing left that n owes.
LEMMA FinishBooks ==
  ASSUME IInv, Groups, NEW n \in NSG, Books(n), Finish(n) PROVE Books(n)' /\ Pays(n)
<1>0. /\ Turn(n) /\ att' = att /\ st' = st /\ pc[n] = "finish" /\ phase'[n] = "gone"
  BY DEF Turn, Reconcile, Finish, cloud, IInv, World
<1>1. pc'[n] = "idle" /\ task'[n] = NoTask
  BY TurnFacts DEF Finish, Return, Goto
<1>2. Mine(n)'
  BY <1>0, <1>1, NoTaskFields, MineStep DEF Books
<1>3. Entries(n)'
  BY <1>0, <1>1, NoTaskFields DEF Books, Entries, Servers
<1>4. Place(n)'
  BY <1>0, <1>1, NoTaskFields DEF Place, Servers
<1>5. Pays(n)
  <2>1. task[n].del /\ ~task[n].failed /\ task[n].drop = {}
    BY <1>0 DEF Books, Place, Servers
  <2>2. \A s \in Server : Owes(n, s) = {}
    BY <2>1 DEF Owes
  <2> QED
    BY <1>0, <2>2, TurnFacts DEF Pays
<1> QED
  BY <1>2, <1>3, <1>4, <1>5 DEF Books

\* Any call that may fail fails.
LEMMA ErrorBooks ==
  ASSUME IInv, Groups, NEW n \in NSG, Books(n), Error(n), NEW f, Track(n, f)
  PROVE  Books(n)' /\ Pays(n)
<1>0. Turn(n) /\ phase' = phase
  BY DEF Turn, Error, object
<1>1. CASE ManagedError(n) \/ CreateUnanswered(n)
  <2>1. /\ Return(n) /\ att' = att /\ pc[n] \in {"find", "create", "rules"}
        /\ st' = st \/ SetManaged(n, task[n].id) \/ SetManaged(n, None)
    BY <1>1 DEF ManagedError, CreateUnanswered, CreateSecurityGroup, cloud
  <2> QED
    BY <1>0, <2>1, Present, ManagedFields, ReturnBooks
<1>2. CASE OtherError(n)
  <2>1. att' = att
    BY <1>2 DEF OtherError, cloud
  <2>2. CASE pc[n] \in {"select", "finish"} /\ Return(n) /\ st' = st
    BY <1>0, <2>1, <2>2, Present, ReturnBooks
  <2>3. CASE pc[n] \in {"retire", "deleteSg"} /\ RetireFails(n)
    BY <1>0, <2>1, <2>3, RetiredBooks
  <2> QED
    BY <1>2, <2>2, <2>3 DEF OtherError
<1> QED
  BY <1>1, <1>2, GetErrorBooks, UpdateErrorBooks, NoteErrorBooks DEF Error

\* What is loose stays so, or is in the entry again.
LEMMA LooseStays ==
  ASSUME IInv, NEW n \in NSG, Books(n), Turn(n), NEW f, Track(n, f), NEW s \in Server,
         NEW g \in loose[s]
  PROVE  g \in loose'[s] \/ g \in Owes(n, s)'
<1>1. CASE Leaves(n, s)
  <2>1. pc[n] = "note" /\ ~task[n].del
    BY <1>1 DEF Leaves
  <2>2. pc'[n] = "next" /\ task'[n] = Done(task[n]) /\ phase' = phase
    BY <1>1, <2>1, TurnFacts DEF Turn, Reconcile, Begin, Find, Create, ChangeRule, PatchManaged,
       SelectNodes, Get, Update, Note, AllDone, Retire, DeleteSecurityGroup, Finish, Error,
       ManagedError, CreateUnanswered, GetError, UpdateError, NoteError, OtherError, Goto, object
  <2>3. ~task'[n].del /\ phase[n] # "gone"
    BY <2>1, <2>2, DoneFields, TurnFacts DEF Books, Place
  <2>4. Owes(n, s)' = st'[n].ids[s]
    BY <2>2, <2>3 DEF Owes
  <2> QED
    BY <1>1, <2>4 DEF Track, Loosened
<1>2. CASE ~Leaves(n, s)
  BY <1>2 DEF Track, Loosened
<1> QED
  BY <1>1, <1>2

\* The books after a step of one NSG.
LEMMA TurnBooks ==
  ASSUME IInv, BookInv, NEW n \in NSG, Turn(n), NEW f, Track(n, f)
  PROVE  BookInv'
<1>0. OneWorker /\ Groups /\ Attributed /\ \A k \in NSG : Books(k)
  BY DEF BookInv, Books
<1>1. Books(n)' /\ Pays(n)
  BY <1>0, BeginBooks, FindBooks, CreateBooks, ChangeRuleBooks, PatchManagedBooks, SelectNodesBooks,
     GetBooks, UpdateBooks, NoteBooks, AllDoneBooks, RetireBooks, FinishBooks, ErrorBooks
     DEF Turn, Reconcile
<1>2. ASSUME NEW k \in NSG, k # n
      PROVE  Mine(k)' /\ Entries(k)' /\ Place(k)' /\ \A s \in Server : Owes(k, s)' = Owes(k, s)
  BY <1>0, <1>2, OthersBooks DEF Books
<1>3. Groups'
  BY <1>0, GroupsStep
<1>4. up' = up /\ up \subseteq Server
  BY Effects, TurnFacts DEF Quiet, Makes, Writes, Removes
<1>5. ASSUME NEW s \in up, NEW g \in att'[s], g \notin Hand, g \notin loose'[s]
      PROVE  \E k \in NSG : g \in Owes(k, s)'
  <2>1. CASE g \in Owes(n, s)'
    BY <2>1
  <2>3. CASE g \in loose[s]
    BY <1>0, <1>4, <1>5, <2>1, <2>3, LooseStays
  <2>2. CASE g \in att[s] /\ g \notin Owes(n, s) /\ g \notin loose[s]
    <3>1. PICK k \in NSG : g \in Owes(k, s)
      BY <1>0, <1>5, <2>2 DEF Attributed
    <3>2. k # n /\ s \in Server
      BY <1>4, <2>2, <3>1
    <3>3. g \in Owes(k, s)'
      BY <1>2, <3>1, <3>2
    <3> QED
      BY <3>3
  <2> QED
    BY <1>1, <1>5, <2>1, <2>2, <2>3 DEF Pays
<1>6. Attributed'
  BY <1>4, <1>5 DEF Attributed
<1> QED
  BY <1>0, <1>1, <1>2, <1>3, <1>6, Alone DEF BookInv, Books

\* A server that goes takes what is attached to it along.
LEMMA ServerGoneBooks ==
  ASSUME IInv, BookInv, NEW x \in Server, ServerGone(x), UNCHANGED <<st, run, loose>>
  PROVE  BookInv'
<1>1. /\ up' = up \ {x} /\ up \subseteq Server /\ \A s \in up' : att'[s] = att[s]
      /\ UNCHANGED <<name, used, phase, st, pc, task, loose>>
  BY DEF ServerGone, run, object, IInv, World
<1>2. Groups'
  BY <1>1 DEF BookInv, Groups, Attachable
<1>3. \A n \in NSG : Mine(n)' /\ Entries(n)'
  BY <1>1 DEF BookInv, Mine, Of, Entries
<1>4. ASSUME NEW n \in NSG PROVE Place(n)'
  <2>1. Place(n)
    BY DEF BookInv
  <2> QED
    BY <1>1, <2>1 DEF Place
<1>5. \A n \in NSG, s \in Server : Owes(n, s)' = Owes(n, s)
  BY <1>1 DEF Owes
<1>6. Attributed'
  BY <1>1, <1>5 DEF BookInv, Attributed
<1> QED
  BY <1>1, <1>2, <1>3, <1>4, <1>6 DEF BookInv, OneWorker

\* A group the user attaches is by hand.
LEMMA AttachByHandBooks ==
  ASSUME IInv, BookInv, NEW x \in Server, AttachByHand(x), UNCHANGED <<st, run, loose>>
  PROVE  BookInv'
<1>1. PICK g \in Hand : att' = [att EXCEPT ![x] = @ \cup {g}]
  BY DEF AttachByHand
<1>2. UNCHANGED <<up, name, used, phase, st, pc, task, loose>> /\ up \subseteq Server
  BY DEF AttachByHand, run, object, IInv, World
<1>3. \A s \in Server : att[s] \subseteq att'[s] /\ att'[s] \subseteq att[s] \cup Hand
  BY <1>1 DEF IInv, World
<1>4. Groups'
  BY <1>2, <1>3 DEF BookInv, Groups, Attachable
<1>5. \A n \in NSG : Mine(n)' /\ Entries(n)'
  BY <1>2 DEF BookInv, Mine, Of, Entries
<1>6. ASSUME NEW n \in NSG PROVE Place(n)'
  <2>1. Place(n)
    BY DEF BookInv
  <2>2. pc[n] = "update" /\ task[n].cur \in up =>
          /\ task[n].read \subseteq att'[task[n].cur]
          /\ att'[task[n].cur] \subseteq task[n].read \cup Hand
    BY <1>2, <1>3, <2>1 DEF Place
  <2> QED
    BY <1>2, <2>1, <2>2 DEF Place
<1>7. \A n \in NSG, s \in Server : Owes(n, s)' = Owes(n, s)
  BY <1>2 DEF Owes
<1>8. Attributed'
  BY <1>2, <1>3, <1>7 DEF BookInv, Attributed
<1> QED
  BY <1>2, <1>4, <1>5, <1>6, <1>8 DEF BookInv, OneWorker

\* A crash cuts off the one reconcile that runs: what it was about to note is
\* loose.
LEMMA CrashBooks ==
  ASSUME IInv, BookInv, Crash,
         \/ Running = {} /\ UNCHANGED loose
         \/ \E n \in Running : Track(n, TRUE)
  PROVE  BookInv'
<1>1. /\ UNCHANGED <<up, att, name, used, phase, st>> /\ up \subseteq Server
      /\ \A n \in NSG : pc'[n] = "idle" /\ task'[n] = NoTask
  BY DEF Crash, cloud, object, IInv, World
<1>2. Groups' /\ OneWorker'
  BY <1>1 DEF BookInv, Groups, Attachable, OneWorker
<1>3. \A n \in NSG : Mine(n)'
  BY <1>1, NoTaskFields, NsgAssumption DEF BookInv, Mine, Of
<1>4. \A n \in NSG : Entries(n)' /\ Place(n)'
  BY <1>1, NoTaskFields DEF BookInv, Entries, Place, Servers
<1>5. ASSUME NEW n \in NSG, NEW s \in Server
      PROVE  Owes(n, s)' = IF phase[n] = "gone" THEN {} ELSE st[n].ids[s]
  BY <1>1, NoTaskFields DEF Owes
<1>6. ASSUME NEW s \in up, NEW g \in att[s], g \notin Hand, g \notin loose'[s]
      PROVE  \E k \in NSG : g \in Owes(k, s)'
  <2>s. s \in Server
    BY <1>1
  <2>1. ASSUME NEW n \in NSG, Leaves(n, s), Track(n, TRUE)
        PROVE  \E k \in NSG : g \in Owes(k, s)'
    <3>1. phase[n] # "gone"
      BY <2>1 DEF Leaves, BookInv, Place
    <3>2. loose'[s] = (loose[s] \cup (att[s] \cap (Wanted(task[n]) \cup st[n].ids[s]))) \ st[n].ids[s]
      BY <1>1, <2>1, <2>s DEF Track, Loosened
    <3>3. CASE g \in st[n].ids[s]
      BY <1>5, <2>s, <3>1, <3>3
    <3>4. CASE g \notin st[n].ids[s]
      <4>1. g \notin loose[s] /\ g \notin Wanted(task[n])
        BY <1>6, <3>2, <3>4
      <4>2. PICK k \in NSG : g \in Owes(k, s)
        BY <1>6, <4>1 DEF BookInv, Attributed
      <4>3. k # n
        BY <3>4, <4>1, <4>2 DEF Owes
      <4>4. pc[k] = "idle" /\ ~task[k].del
        BY <2>1, <4>3 DEF BookInv, OneWorker, Leaves, Place
      <4>5. phase[k] # "gone" /\ g \in st[k].ids[s]
        BY <4>2, <4>4 DEF Owes
      <4> QED
        BY <1>5, <2>s, <4>5
    <3> QED
      BY <3>3, <3>4
  <2>2. CASE loose'[s] = loose[s] /\ \A n \in NSG : ~Leaves(n, s)
    <3>1. PICK k \in NSG : g \in Owes(k, s)
      BY <1>6, <2>2 DEF BookInv, Attributed
    <3>2. phase[k] # "gone"
      BY <3>1 DEF Owes
    <3>3. g \in st[k].ids[s]
      <4>1. CASE pc[k] = "note" /\ task[k].cur = s
        <5>1. task[k].del \/ task[k].drop # {}
          BY <1>1, <2>2, <4>1 DEF Leaves
        <5>2. task[k].cur \in Todo(task[k]) /\ (task[k].del => task[k].keep = {} /\ task[k].add = {})
          BY <4>1 DEF BookInv, Place
        <5>3. task[k].drop # {}
          BY <5>1, <5>2 DEF Todo
        <5>4. Wanted(task[k]) = {}
          BY <5>3 DEF Wanted
        <5> QED
          BY <3>1, <4>1, <5>4 DEF Owes
      <4>2. CASE ~(pc[k] = "note" /\ task[k].cur = s)
        BY <3>1, <4>2 DEF Owes
      <4> QED
        BY <4>1, <4>2
    <3> QED
      BY <1>5, <2>s, <3>2, <3>3
  <2>3. CASE \E n \in Running : Track(n, TRUE)
    <3>1. PICK n \in NSG : pc[n] # "idle" /\ Track(n, TRUE)
      BY <2>3 DEF Running
    <3>2. CASE Leaves(n, s)
      BY <2>1, <3>1, <3>2
    <3>3. CASE ~Leaves(n, s)
      <4>1. loose'[s] = loose[s]
        BY <2>s, <3>1, <3>3 DEF Track, Loosened
      <4>2. \A k \in NSG : ~Leaves(k, s)
        BY <3>1, <3>3 DEF Leaves, BookInv, OneWorker
      <4> QED
        BY <2>2, <4>1, <4>2
    <3> QED
      BY <3>2, <3>3
  <2>4. CASE Running = {} /\ UNCHANGED loose
    BY <2>2, <2>4 DEF Running, Leaves
  <2> QED
    BY <2>3, <2>4
<1>7. Attributed'
  BY <1>1, <1>6 DEF Attributed
<1> QED
  BY <1>2, <1>3, <1>4, <1>7 DEF BookInv

\* A spec, a selection and the wish to delete are nothing the books are about.
LEMMA WishBooks ==
  ASSUME IInv, BookInv, UNCHANGED <<up, att, name, used, st, pc, task, loose>>,
         phase' \in [NSG -> {"live", "deleting", "gone"}],
         \A n \in NSG : phase'[n] = phase[n] \/ (phase[n] = "live" /\ phase'[n] = "deleting")
  PROVE  BookInv'
<1>2. Groups'
  BY DEF BookInv, Groups, Attachable
<1>3. \A n \in NSG : Mine(n)' /\ Entries(n)'
  BY DEF BookInv, Mine, Of, Entries
<1>4. ASSUME NEW n \in NSG PROVE Place(n)'
  <2>1. Place(n)
    BY DEF BookInv
  <2> QED
    BY <2>1 DEF Place
<1>5. \A n \in NSG, s \in Server : Owes(n, s)' = Owes(n, s)
  BY DEF Owes
<1>6. Attributed'
  <2>1. up \subseteq Server
    BY DEF IInv, World
  <2> QED
    BY <1>5, <2>1 DEF BookInv, Attributed
<1> QED
  BY <1>2, <1>3, <1>4, <1>6 DEF BookInv, OneWorker

\* Nothing is attached but by hand to begin with.
LEMMA InitBooks == ASSUME Init PROVE BookInv
<1>1. /\ \A n \in NSG : /\ st[n] = NoStatus /\ task[n] = NoTask /\ pc[n] = "idle"
                        /\ phase[n] \in {"live", "gone"}
      /\ up \subseteq Server /\ \A s \in Server : att[s] \subseteq Hand
      /\ \A m \in Made : name[m] = None
  <2>1. PICK c \in Scenes : /\ up = c.servers
                           /\ phase = [n \in NSG |-> IF n \in c.nsgs THEN "live" ELSE "gone"]
    BY DEF Init
  <2>2. c.servers \subseteq Server
    BY NsgAssumption
  <2>3. hand \in [Server -> SUBSET Hand] /\ att = hand
    BY DEF Init
  <2> QED
    BY <2>1, <2>2, <2>3 DEF Init
<1>2. /\ NoStatus.managed = None /\ NoStatus.recs = {} /\ \A s \in Server : NoStatus.ids[s] = {}
      /\ NoTask.old = NoStatus /\ NoTask.id = None /\ NoTask.del = FALSE /\ NoTask.err = FALSE
      /\ NoTask.failed = FALSE /\ NoTask.drop = {} /\ NoTask.keep = {} /\ NoTask.add = {}
  BY DEF NoTask, NoStatus
<1>3. Groups
  BY <1>1 DEF Groups, Attachable
<1>4. Attributed
  BY <1>1 DEF Attributed
<1>5. ASSUME NEW n \in NSG PROVE Mine(n) /\ Entries(n) /\ Place(n)
  <2>1. Mine(n)
    BY <1>1, <1>2, NsgAssumption DEF Mine
  <2>2. Entries(n)
    BY <1>1, <1>2 DEF Entries, Servers
  <2>3. Place(n)
    BY <1>1, <1>2 DEF Place, Servers
  <2> QED
    BY <2>1, <2>2, <2>3
<1> QED
  BY <1>1, <1>3, <1>4, <1>5 DEF BookInv, OneWorker

\* Every step keeps the books.
LEMMA NextBooks == IInv /\ BookInv /\ [Next]_vars => BookInv'
<1> SUFFICES ASSUME IInv, BookInv, [Next]_vars PROVE BookInv'
  OBVIOUS
<1>0. phase \in [NSG -> {"live", "deleting", "gone"}]
  BY DEF IInv, World
<1>1. CASE UNCHANGED vars
  BY <1>0, <1>1, WishBooks DEF vars, cloud, object, run, history
<1>2. ASSUME NEW n \in NSG, Pass(n) \/ (Error(n) /\ Track(n, TRUE)) PROVE BookInv'
  BY <1>2, TurnBooks DEF Turn, Pass
<1>3. ASSUME NEW n \in NSG, Delete(n) PROVE BookInv'
  <2>1. /\ phase' \in [NSG -> {"live", "deleting", "gone"}]
        /\ \A k \in NSG : phase'[k] = phase[k] \/ (phase[k] = "live" /\ phase'[k] = "deleting")
    BY <1>0, <1>3 DEF Delete
  <2> QED
    BY <1>3, <2>1, WishBooks DEF Delete, cloud, run, history
<1>4. CASE Edit
  <2>1. CASE \E s \in Server : ServerGone(s)
    BY <1>4, <2>1, ServerGoneBooks DEF Edit
  <2>2. CASE \E n \in NSG : EditSpec(n) \/ Select(n)
    BY <1>0, <1>4, <2>2, WishBooks DEF Edit, EditSpec, Select, cloud, run
  <2>3. CASE \E s \in Server : AttachByHand(s)
    BY <1>4, <2>3, AttachByHandBooks DEF Edit
  <2> QED
    BY <1>4, <2>1, <2>2, <2>3 DEF Edit
<1>5. CASE Crash /\ (IF Running = {} THEN UNCHANGED history ELSE \E n \in Running : Track(n, TRUE))
  BY <1>5, CrashBooks DEF history
<1> QED
  BY <1>1, <1>2, <1>3, <1>4, <1>5 DEF Next

\* Whatever fails, and wherever the controller stops, NSGs that are gone have left
\* nothing on any server but what the entry of a server lost sight of when its
\* attachment or its patch failed: everything else that is attached is in the
\* status of an NSG that is there to take it off, or in the write it is about to
\* note there.
THEOREM NsgAllDetached == Spec => []AllDetached
<1>1. Init => BookInv
  BY InitBooks
<1>2. IInv /\ BookInv => AllDetached
  <2> SUFFICES ASSUME IInv, BookInv, \A n \in NSG : phase[n] = "gone", NEW s \in up
               PROVE  att[s] \subseteq Hand \cup loose[s]
    BY DEF AllDetached
  <2>1. \A n \in NSG : Owes(n, s) = {}
    BY DEF Owes
  <2> QED
    BY <2>1 DEF BookInv, Attributed
<1> QED
  BY InitIInv, NextIInv, NextBooks, <1>1, <1>2, PTL DEF Spec

-----------------------------------------------------------------------------
(* The group an NSG creates: it is the only one of its name, and is among the  *)
(* orphans, in status, or known to the reconcile that runs.  The one that is   *)
(* to be deleted is on no server but where it is loose: a server that is done  *)
(* without an error has lost what the entry said (Written), and before that no *)
(* other NSG could have put it there (Holder).                                 *)

\* The groups that bear the name of n, and what n knows of them.
Managed(n) ==
  LET t == task[n] IN
  /\ \A m \in Made : name[m] = n =>
       \/ m \in orphan \/ m = st[n].managed
       \/ pc[n] = "rules" /\ m = t.id
       \/ pc[n] # "idle" /\ ~t.del /\ m = t.old.managed
  /\ \A m, o \in Made : name[m] = n /\ name[o] = n => m = o
  /\ pc[n] = "create" => \A m \in Made : name[m] # n
  /\ pc[n] \in {"find", "create", "rules"} => st[n].managed = t.old.managed
  /\ ~t.del /\ pc[n] \in {"select", "next", "update", "note", "retire", "deleteSg"} =>
       st[n].managed = t.id
  /\ t.del => t.old.managed = st[n].managed
  /\ pc[n] \in {"retire", "deleteSg"} => t.old.managed # None /\ (t.del \/ t.old.managed # t.id)
  /\ pc[n] = "deleteSg" => name[t.old.managed] = n
  /\ pc[n] = "finish" \/ phase[n] = "gone" => \A m \in Made : name[m] = n => m \in orphan

\* A server that was written to without an error has lost what the entry said.
Written(n) ==
  LET t == task[n] IN
  pc[n] = "note" /\ ~t.err /\ t.cur \in up =>
    att[t.cur] \cap t.old.ids[t.cur] \subseteq Wanted(t)

\* The old group is on no server that an ensure is done with, but where it is loose.
Cleared(n) ==
  LET t == task[n] IN
  /\ ~t.del /\ ~t.failed /\ pc[n] \in {"next", "update", "note", "retire"}
  /\ t.old.managed # None /\ t.old.managed # t.id /\ name[t.old.managed] = n
  => \A s \in up \ Servers(t) : t.old.managed \in att[s] => t.old.managed \in loose[s]

ManInv == \A n \in NSG : Managed(n) /\ Written(n) /\ Cleared(n)

\* A group of n that is on a server, and is not loose there, is what n owes.
LEMMA Holder ==
  ASSUME IInv, BookInv, NEW n \in NSG, NEW m \in Made, name[m] = n, NEW s \in up,
         m \in att[s], m \notin loose[s]
  PROVE  m \in Owes(n, s)
<1>1. m \notin Hand /\ m \notin Group /\ None \notin NSG /\ s \in Server
  BY NsgAssumption, TurnFacts
<1>2. PICK k \in NSG : m \in Owes(k, s)
  BY <1>1 DEF BookInv, Attributed
<1>3. m \in st[k].ids[s] \/ m \in Wanted(task[k])
  BY <1>2 DEF Owes
<1>4. m \in st[k].ids[s] \/ m = task[k].id
  BY <1>1, <1>3, TurnFacts DEF Wanted, TaskType, SpecType
<1>5. Of(k, m)
  BY <1>1, <1>4 DEF BookInv, Mine
<1>6. k = n
  BY <1>1, <1>5 DEF Of
<1> QED
  BY <1>2, <1>6

\* A step of n gives and takes no name but its own.
LEMMA NamesStay ==
  ASSUME IInv, Groups, NEW n \in NSG, Mine(n), Turn(n), NEW k \in NSG, k # n, NEW m \in Made
  PROVE  name'[m] = k <=> name[m] = k
<1>0. name \in [Made -> NSG \cup {None}] /\ None \notin NSG /\ None \notin Made
  BY NsgAssumption DEF IInv, World
<1>1. CASE Makes(n)
  BY <1>0, <1>1 DEF Makes, Groups
<1>2. CASE Removes(n)
  <2>1. m = task[n].old.managed => name[m] # k
    BY <1>0 DEF Mine, Of
  <2> QED
    BY <1>0, <1>2, <2>1 DEF Removes
<1> QED
  BY <1>1, <1>2, Effects DEF Quiet, Writes

\* An orphan stays one, unless it is in status again.
LEMMA OrphanStays ==
  ASSUME NEW n \in NSG, NEW f, Track(n, f), NEW m \in orphan
  PROVE  m \in orphan' \/ (~task[n].del /\ m = st'[n].managed)
BY DEF Track

\* A step of n, or a crash while it runs, takes no orphan of another NSG.
LEMMA OthersOrphans ==
  ASSUME NEW n \in NSG, Mine(n)', NEW f, Track(n, f), NEW k \in NSG, k # n,
         NEW m \in Made, name'[m] = k, m \in orphan
  PROVE  m \in orphan'
<1>1. m = st'[n].managed => name'[m] \in {n, None}
  BY DEF Mine, Of
<1> QED
  BY <1>1, OrphanStays, NsgAssumption

\* A step of n leaves what another NSG knows of its own group.
LEMMA OthersManaged ==
  ASSUME IInv, BookInv, NEW n \in NSG, Mine(n)', Turn(n), NEW f, Track(n, f),
         NEW k \in NSG, k # n, Managed(k)
  PROVE  Managed(k)' /\ Written(k)' /\ Cleared(k)'
<1>0. Groups /\ Mine(n) /\ OneWorker
  BY DEF BookInv
<1>1. st'[k] = st[k] /\ task'[k] = task[k] /\ phase'[k] = phase[k]
  BY Frames
<1>2. pc[k] = "idle" /\ pc'[k] = "idle"
  BY <1>0, Alone
<1>3. \A m \in Made : name'[m] = k <=> name[m] = k
  BY <1>0, NamesStay
<1>4. \A m \in Made : name[m] = k /\ m \in orphan => m \in orphan'
  BY <1>3, OthersOrphans
<1>5. Managed(k)'
  BY <1>1, <1>2, <1>3, <1>4 DEF Managed
<1> QED
  BY <1>2, <1>5 DEF Written, Cleared

\* A reconcile that returns with every group among the orphans or in status.
LEMMA EndManaged ==
  ASSUME IInv, NEW n \in NSG, pc'[n] = "idle", task'[n] = NoTask, phase'[n] # "gone",
         \A m, o \in Made : name'[m] = n /\ name'[o] = n => m = o,
         \A m \in Made : name'[m] = n => m \in orphan' \/ m = st'[n].managed
  PROVE  Managed(n)' /\ Written(n)' /\ Cleared(n)'
<1>1. NoTask.del = FALSE
  BY NoTaskFields
<1> QED
  BY <1>1 DEF Managed, Written, Cleared

\* One that fails, or is cut off.
LEMMA FailManaged ==
  ASSUME IInv, NEW n \in NSG, Managed(n), pc[n] # "idle", pc'[n] = "idle", task'[n] = NoTask,
         phase[n] # "gone", phase'[n] = phase[n], Track(n, TRUE),
         task[n].del => st'[n].managed = st[n].managed,
         \A m \in Made : name'[m] = n => name[m] = n \/ (pc[n] = "create" /\ ~task[n].del),
         \A m, o \in Made : name'[m] = n /\ name'[o] = n => m = o,
         task[n].del => pc[n] # "rules"
  PROVE  Managed(n)' /\ Written(n)' /\ Cleared(n)'
<1>1. ASSUME NEW m \in Made, name'[m] = n, m # st'[n].managed PROVE m \in orphan'
  <2>1. CASE task[n].del
    <3>1. name[m] = n
      BY <1>1, <2>1
    <3>2. m \in orphan
      BY <1>1, <2>1, <3>1 DEF Managed
    <3> QED
      BY <2>1, <3>2, OrphanStays
  <2>2. CASE ~task[n].del
    <3>1. m \in Lost(n)
      BY <1>1, <2>2 DEF Lost
    <3> QED
      BY <1>1, <2>2, <3>1 DEF Track
  <2> QED
    BY <2>1, <2>2
<1> QED
  BY <1>1, EndManaged

\* The steps of the loop over the servers.
Loop(n) ==
  \/ Get(n) \/ Update(n) \/ Note(n)
  \/ Error(n) /\ (GetError(n) \/ UpdateError(n) \/ NoteError(n))

\* What they leave of the groups and of the task.
LEMMA LoopFields ==
  ASSUME IInv, NEW n \in NSG, Loop(n)
  PROVE  /\ UNCHANGED <<name, used, up, phase>> /\ st'[n].managed = st[n].managed
         /\ task'[n].spec = task[n].spec /\ task'[n].old = task[n].old
         /\ task'[n].id = task[n].id /\ task'[n].del = task[n].del
         /\ \/ /\ pc[n] \in {"next", "update"} /\ pc'[n] \in {"update", "note"} /\ st' = st
               /\ pc[n] = "next" => att' = att
               /\ Servers(task'[n]) = Servers(task[n]) /\ task'[n].failed = task[n].failed
               /\ Wanted(task'[n]) = Wanted(task[n])
            \/ /\ pc[n] = "note" /\ pc'[n] = "next" /\ task'[n] = Done(task[n]) /\ att' = att
               /\ Note(n) \/ st' = st
<1>1. PICK t \in TaskType : t = task[n]
  BY TurnFacts
<1>2. PICK e \in StatusType : e = st[n]
  BY TurnFacts
<1>3. UNCHANGED <<name, used, up, phase>>
  BY DEF Loop, Get, Update, Note, Error, GetError, UpdateError, NoteError, cloud, object
<1>4. CASE Get(n)
  <2>0. pc[n] = "next" /\ att' = att /\ st' = st
    BY <1>4 DEF Get, cloud
  <2>1. PICK s \in Todo(t) :
          \/ task' = [task EXCEPT ![n] = [t EXCEPT !.cur = s, !.read = att[s]]]
          \/ task' = [task EXCEPT ![n] =
               [[t EXCEPT !.cur = s, !.read = att[s]] EXCEPT !.err = (s \notin t.drop)]]
    BY <1>1, <1>4 DEF Get, TaskType
  <2>2. pc'[n] \in {"update", "note"}
    BY <1>4, TurnFacts DEF Get, Goto
  <2>3. /\ task'[n].spec = t.spec /\ task'[n].old = t.old /\ task'[n].id = t.id
        /\ task'[n].del = t.del /\ task'[n].failed = t.failed
        /\ task'[n].drop = t.drop /\ task'[n].keep = t.keep /\ task'[n].add = t.add
    <3>2. CASE task' = [task EXCEPT ![n] = [t EXCEPT !.cur = s, !.read = att[s]]]
      BY <3>2, TurnFacts DEF TaskType
    <3>3. CASE task' = [task EXCEPT ![n] =
                 [[t EXCEPT !.cur = s, !.read = att[s]] EXCEPT !.err = (s \notin t.drop)]]
      BY <3>3, TurnFacts DEF TaskType
    <3> QED
      BY <2>1, <3>2, <3>3
  <2> QED
    BY <1>1, <1>3, <2>0, <2>2, <2>3 DEF Servers, Wanted
<1>5. CASE Update(n) \/ UpdateError(n)
  <2>0. pc[n] = "update" /\ st' = st /\ pc'[n] = "note"
    BY <1>5, TurnFacts DEF Update, UpdateError, Goto
  <2>1. task'[n] = t \/ task'[n] = [t EXCEPT !.err = TRUE]
    BY <1>1, <1>5, TurnFacts DEF Update, UpdateError
  <2>2. /\ task'[n].spec = t.spec /\ task'[n].old = t.old /\ task'[n].id = t.id
        /\ task'[n].del = t.del /\ task'[n].failed = t.failed
        /\ task'[n].drop = t.drop /\ task'[n].keep = t.keep /\ task'[n].add = t.add
    BY <2>1 DEF TaskType
  <2> QED
    BY <1>1, <1>3, <2>0, <2>2 DEF Servers, Wanted
<1>6. CASE GetError(n)
  <2>0. pc[n] = "next" /\ att' = att /\ st' = st /\ pc'[n] = "note"
    BY <1>6, TurnFacts DEF GetError, cloud, Goto
  <2>1. PICK s \in Todo(t) : task'[n] = [t EXCEPT !.cur = s, !.err = TRUE]
    BY <1>1, <1>6, TurnFacts DEF GetError
  <2>2. /\ task'[n].spec = t.spec /\ task'[n].old = t.old /\ task'[n].id = t.id
        /\ task'[n].del = t.del /\ task'[n].failed = t.failed
        /\ task'[n].drop = t.drop /\ task'[n].keep = t.keep /\ task'[n].add = t.add
    BY <2>1 DEF TaskType
  <2> QED
    BY <1>1, <1>3, <2>0, <2>2 DEF Servers, Wanted
<1>7. CASE Note(n) \/ NoteError(n)
  <2>0. /\ pc[n] = "note" /\ att' = att /\ pc'[n] = "next" /\ task'[n] = Done(t)
        /\ Note(n) \/ st' = st
    BY <1>1, <1>7, TurnFacts DEF Note, NoteError, cloud, Goto
  <2>1. st'[n].managed = e.managed
    <3>1. CASE Note(n)
      <4>1. st'[n] = Noted(e, t)
        BY <1>1, <1>2, <3>1, TurnFacts DEF Note
      <4> QED
        BY <4>1 DEF Noted, RemoveEntry, UpdateEntry, StatusType
    <3> QED
      BY <1>2, <2>0, <3>1
  <2> QED
    BY <1>1, <1>2, <1>3, <2>0, <2>1, DoneFields
<1> QED
  BY <1>4, <1>5, <1>6, <1>7 DEF Loop

\* A step that leaves what n knows of its groups alone.
LEMMA SameManaged ==
  ASSUME IInv, NEW n \in NSG, Managed(n), phase[n] # "gone", name' = name, phase' = phase,
         st'[n].managed = st[n].managed,
         task'[n].old = task[n].old, task'[n].id = task[n].id, task'[n].del = task[n].del,
         NEW f, Track(n, f), pc[n] # "idle", pc'[n] # "idle",
         \/ pc'[n] = pc[n] /\ pc[n] # "finish"
         \/ pc[n] \in {"select", "next", "update", "note"} /\ pc'[n] \in {"next", "update", "note"}
  PROVE  Managed(n)'
<1>1. \A m \in Made : m \in orphan => m \in orphan' \/ m = st'[n].managed
  BY OrphanStays
<1> QED
  BY <1>1 DEF Managed

\* The loop over the servers keeps what n knows of its groups.
LEMMA LoopManaged ==
  ASSUME IInv, NEW n \in NSG, Books(n), Managed(n), Loop(n), NEW f, Track(n, f) PROVE Managed(n)'
<1>1. pc[n] \in {"next", "update", "note"} /\ pc'[n] \in {"next", "update", "note"}
  BY LoopFields
<1> QED
  BY <1>1, Present, LoopFields, SameManaged

\* What a server holds after it was written to.
LEMMA LoopWritten ==
  ASSUME IInv, NEW n \in NSG, Books(n), Loop(n) PROVE Written(n)'
<1>1. PICK t \in TaskType : t = task[n]
  BY TurnFacts
<1>2. CASE Get(n)
  <2>0. pc[n] = "next" /\ att' = att /\ up' = up
    BY <1>2 DEF Get, cloud
  <2>1. PICK s \in Todo(t) : Get(n)!2!(s)
    BY <1>1, <1>2 DEF Get
  <2>2. PICK u : u = [t EXCEPT !.cur = s, !.read = att[s]]
    OBVIOUS
  <2>3. u.old = t.old /\ u.cur = s /\ u.read = att[s]
    BY <2>2 DEF TaskType
  <2>4. CASE s \in up
    <3>1. task'[n] = u /\ (pc'[n] = "note" => Merged(u) = u.read)
      BY <1>1, <2>1, <2>2, <2>4, TurnFacts DEF Goto
    <3> QED
      BY <2>0, <2>3, <3>1 DEF Written, Merged, MergeStringArray
  <2>5. CASE s \notin up
    <3>1. task'[n] = [u EXCEPT !.err = (s \notin u.drop)]
      BY <1>1, <2>1, <2>2, <2>5, TurnFacts
    <3>2. s \in Server /\ att[s] \in SUBSET SG
      BY TodoServers, TurnFacts
    <3>3. u \in TaskType
      BY <2>2, <3>2 DEF TaskType
    <3>4. task'[n].cur = s
      BY <2>3, <3>1, <3>3 DEF TaskType
    <3> QED
      BY <2>0, <2>5, <3>4 DEF Written
  <2> QED
    BY <2>4, <2>5
<1>3. CASE Update(n)
  <2>0. pc[n] = "update" /\ up' = up /\ t.cur \in Server
    BY <1>1, <1>3 DEF Update, IInv, Own, Ready
  <2>1. CASE task' = task /\ att' = [att EXCEPT ![t.cur] = Merged(t)]
    <3>1. att'[t.cur] = (t.read \ t.old.ids[t.cur]) \cup Wanted(t)
      BY <2>0, <2>1, TurnFacts DEF Merged, MergeStringArray
    <3> QED
      BY <1>1, <2>1, <3>1 DEF Written
  <2>2. CASE task' = [task EXCEPT ![n].err = TRUE]
    <3>1. task'[n].err = TRUE
      BY <1>1, <2>2, TurnFacts DEF TaskType
    <3> QED
      BY <3>1 DEF Written
  <2> QED
    BY <1>1, <1>3, <2>1, <2>2 DEF Update
<1>4. CASE UpdateError(n)
  <2>1. task'[n].err = TRUE
    BY <1>1, <1>4, TurnFacts DEF UpdateError, TaskType
  <2> QED
    BY <2>1 DEF Written
<1>5. CASE GetError(n)
  <2>1. PICK s \in Todo(t) : task'[n] = [t EXCEPT !.cur = s, !.err = TRUE]
    BY <1>1, <1>5, TurnFacts DEF GetError
  <2>2. task'[n].err = TRUE
    BY <2>1 DEF TaskType
  <2> QED
    BY <2>2 DEF Written
<1>6. CASE Note(n) \/ NoteError(n)
  <2>1. pc'[n] = "next"
    BY <1>6, TurnFacts DEF Note, NoteError, Goto
  <2> QED
    BY <2>1 DEF Written
<1> QED
  BY <1>2, <1>3, <1>4, <1>5, <1>6 DEF Loop

\* The old group is on no server that the loop is done with, but where it is loose.
LEMMA LoopCleared ==
  ASSUME IInv, BookInv, NEW n \in NSG, Written(n), Cleared(n), Loop(n), NEW f, Track(n, f)
  PROVE  Cleared(n)'
<1>1. PICK t \in TaskType : t = task[n]
  BY TurnFacts
<1> DEFINE m == t.old.managed
<1> SUFFICES ASSUME ~task'[n].del, ~task'[n].failed, m # None, m # t.id, name[m] = n,
                    NEW s \in up, s \notin Servers(task'[n]), m \in att'[s]
             PROVE  m \in loose'[s]
  BY <1>1, LoopFields DEF Cleared
<1>2. m \in Made /\ m \notin Hand /\ m \notin Group /\ s \in Server /\ ~t.del /\ None \notin NSG
  BY <1>1, TurnFacts, LoopFields, NsgAssumption DEF TaskType, StatusType
<1>3. /\ Books(n) /\ att \in [Server -> SUBSET SG]
      /\ pc[n] \in {"next", "update", "note"}
  BY LoopFields, TurnFacts DEF BookInv, Books
<1>w. m \notin Wanted(t)
  BY <1>2 DEF Wanted, TaskType, SpecType
<1>4. CASE pc[n] \in {"next", "update"}
  <2>1. ~t.failed /\ s \notin Servers(t) /\ pc'[n] # "next"
    BY <1>1, <1>4, LoopFields
  <2>2. att'[s] = att[s]
    <3>1. CASE Update(n) \/ UpdateError(n)
      <4>1. t.cur \in Todo(t)
        BY <1>1, <1>3, <3>1 DEF Update, UpdateError, Books, Place
      <4>2. t.cur # s
        BY <2>1, <4>1 DEF Todo, Servers
      <4> QED
        BY <1>1, <1>2, <1>3, <3>1, <4>2 DEF Update, UpdateError
    <3> QED
      BY <1>4, <3>1 DEF Loop, Get, Note, GetError, NoteError, cloud
  <2>3. m \in loose[s]
    BY <1>1, <1>2, <1>4, <2>1, <2>2 DEF Cleared
  <2>4. ~Leaves(n, s)
    BY <1>4 DEF Leaves
  <2> QED
    BY <1>2, <2>3, <2>4 DEF Track, Loosened
<1>5. CASE pc[n] = "note"
  <2>1. /\ pc'[n] = "next" /\ task'[n] = Done(t) /\ att' = att /\ ~t.failed /\ ~t.err
        /\ Note(n) \/ st' = st
    BY <1>1, <1>5, LoopFields, DoneFields
  <2>2. CASE s # t.cur
    <3>1. s \notin Servers(t)
      BY <2>1, <2>2, DoneFields DEF Servers
    <3>2. m \in loose[s]
      BY <1>1, <1>2, <1>5, <2>1, <3>1 DEF Cleared
    <3>3. ~Leaves(n, s)
      BY <1>1, <2>2 DEF Leaves
    <3> QED
      BY <1>2, <3>2, <3>3 DEF Track, Loosened
  <2>3. CASE s = t.cur
    <3>1. m \in loose[s]
      <4> SUFFICES ASSUME m \notin loose[s] PROVE FALSE
        OBVIOUS
      <4>1. m \in Owes(n, s)
        BY <1>2, <2>1, Holder
      <4> QED
        BY <1>1, <1>2, <1>5, <1>w, <2>1, <2>3, <4>1 DEF Owes
    <3>2. st[n].ids[s] = t.old.ids[s] /\ t.cur \in Todo(t)
      BY <1>1, <1>3, <1>5, <2>3 DEF Books, Place, Entries, Todo, Servers
    <3>3. m \notin t.old.ids[s]
      BY <1>1, <1>5, <1>w, <2>1, <2>3 DEF Written
    <3>4. m \notin st'[n].ids[s]
      <4>1. CASE Note(n)
        <5>1. PICK e \in StatusType : e = st[n]
          BY TurnFacts
        <5>2. st'[n] = Noted(e, t)
          BY <1>1, <4>1, <5>1, TurnFacts DEF Note
        <5>3. Noted(e, t).ids[s] \in {e.ids[s], {}, Wanted(t)}
          BY <1>2, <2>3 DEF Noted, RemoveEntry, UpdateEntry, StatusType
        <5> QED
          BY <1>w, <3>2, <3>3, <5>1, <5>2, <5>3
      <4> QED
        BY <2>1, <3>2, <3>3, <4>1
    <3> QED
      BY <1>2, <3>1, <3>4 DEF Track, Loosened
  <2> QED
    BY <2>2, <2>3
<1> QED
  BY <1>3, <1>4, <1>5

\* A step outside of the loop after which the other two say nothing.
LEMMA Elsewhere ==
  ASSUME NEW n \in NSG, pc'[n] \notin {"next", "update", "note", "retire"}
  PROVE  Written(n)' /\ Cleared(n)'
BY DEF Written, Cleared

\* A reconcile begins with the spec and the status.
LEMMA BeginManaged ==
  ASSUME IInv, NEW n \in NSG, Books(n), Managed(n), Begin(n), NEW f, Track(n, f)
  PROVE  Managed(n)' /\ Written(n)' /\ Cleared(n)'
<1>0. /\ name' = name /\ phase' = phase /\ st' = st /\ pc[n] = "idle" /\ phase[n] # "gone"
      /\ ~task[n].del
  BY DEF Begin, cloud, object, Books, Place
<1>1. \/ phase[n] = "live" /\ pc'[n] = "find" /\ task'[n].del = FALSE /\ task'[n].old = st[n]
      \/ phase[n] = "deleting" /\ pc'[n] = "next" /\ task'[n].del = TRUE /\ task'[n].old = st[n]
  <2>1. PICK u \in TaskType : u = NoTask
    BY Empties
  <2>2. PICK d : d = [u EXCEPT !.spec = spec[n], !.old = st[n]]
    OBVIOUS
  <2>3. d.old = st[n] /\ d.del = u.del /\ d \in TaskType
    BY <2>2, TurnFacts DEF TaskType, IInv, World
  <2>4. CASE phase[n] = "live" /\ pc'[n] = "find" /\ task'[n] = d
    BY <2>1, <2>3, <2>4, NoTaskFields
  <2>5. CASE /\ phase[n] = "deleting" /\ pc'[n] = "next"
             /\ task'[n] = [d EXCEPT !.del = TRUE, !.drop = st[n].recs]
    BY <2>3, <2>5 DEF TaskType
  <2> QED
    BY <2>1, <2>2, <2>4, <2>5, TurnFacts DEF Begin, Goto
<1>2. \A m \in Made : name[m] = n => m \in orphan' \/ m = st[n].managed
  BY <1>0, OrphanStays DEF Managed
<1>3. \A m, o \in Made : name[m] = n /\ name[o] = n => m = o
  BY DEF Managed
<1>4. Managed(n)'
  BY <1>0, <1>1, <1>2, <1>3 DEF Managed
<1> QED
  BY <1>1, <1>4 DEF Written, Cleared

\* Before the record is patched: the group is found, or made and found.
LEMMA FindManaged ==
  ASSUME IInv, NEW n \in NSG, Books(n), Managed(n), Find(n), NEW f, Track(n, f)
  PROVE  Managed(n)' /\ Written(n)' /\ Cleared(n)'
<1>0. /\ name' = name /\ phase' = phase /\ st' = st /\ pc[n] = "find" /\ ~task[n].del
      /\ phase[n] # "gone"
  BY DEF Find, cloud, object, Books, Place
<1>1. PICK t \in TaskType : t = task[n]
  BY TurnFacts
<1>2. \A m \in Made : name[m] = n => m \in orphan' \/ m = st[n].managed
  BY <1>0, OrphanStays DEF Managed
<1>3. (\A m, o \in Made : name[m] = n /\ name[o] = n => m = o) /\ st[n].managed = t.old.managed
  BY <1>0, <1>1 DEF Managed
<1>4. CASE \E m \in Made : task' = [task EXCEPT ![n].id = m] /\ Goto(n, "rules")
  <2>1. PICK m \in Made : task' = [task EXCEPT ![n].id = m] /\ Goto(n, "rules")
    BY <1>4
  <2>2. task'[n].id = m /\ task'[n].old = t.old /\ task'[n].del = t.del /\ pc'[n] = "rules"
    BY <1>1, <2>1, TurnFacts DEF TaskType, Goto
  <2>3. Managed(n)'
    BY <1>0, <1>1, <1>2, <1>3, <2>2 DEF Managed
  <2> QED
    BY <2>2, <2>3, Elsewhere
<1>5. CASE task' = task /\ Goto(n, "rules")
  <2>1. pc'[n] = "rules"
    BY <1>5, TurnFacts DEF Goto
  <2>2. Managed(n)'
    BY <1>0, <1>1, <1>2, <1>3, <1>5, <2>1 DEF Managed
  <2> QED
    BY <2>1, <2>2, Elsewhere
<1>6. CASE (\A m \in Made : name[m] # n) /\ task' = task /\ Goto(n, "create")
  <2>1. pc'[n] = "create"
    BY <1>6, TurnFacts DEF Goto
  <2>2. Managed(n)'
    BY <1>0, <1>1, <1>3, <1>6, <2>1 DEF Managed
  <2> QED
    BY <2>1, <2>2, Elsewhere
<1> QED
  BY <1>1, <1>4, <1>5, <1>6 DEF Find

\* The group is made: there was none of its name.
LEMMA CreateManaged ==
  ASSUME IInv, NEW n \in NSG, Books(n), Managed(n), Create(n)
  PROVE  Managed(n)' /\ Written(n)' /\ Cleared(n)'
<1>0. /\ phase' = phase /\ st' = st /\ pc[n] = "create" /\ ~task[n].del /\ phase[n] # "gone"
      /\ name \in [Made -> NSG \cup {None}]
  BY DEF Create, object, Books, Place, IInv, World
<1>1. PICK t \in TaskType : t = task[n]
  BY TurnFacts
<1>2. PICK g \in Made : g = Fresh
  BY DEF Create, CreateSecurityGroup, Fresh, IInv, World
<1>3. /\ task'[n].id = g /\ task'[n].old = t.old /\ task'[n].del = t.del /\ pc'[n] = "rules"
  BY <1>1, <1>2, TurnFacts DEF Create, Goto, TaskType
<1>4. \A m \in Made : name'[m] = IF m = g THEN n ELSE name[m]
  BY <1>0, <1>2 DEF Create, CreateSecurityGroup
<1>5. (\A m \in Made : name[m] # n) /\ st[n].managed = t.old.managed
  BY <1>0, <1>1 DEF Managed
<1>6. Managed(n)'
  BY <1>0, <1>1, <1>3, <1>4, <1>5 DEF Managed
<1> QED
  BY <1>3, <1>6, Elsewhere

\* The group, or that there is none, goes on record; the old one is known to the
\* reconcile alone from now on.
LEMMA PatchManagedManaged ==
  ASSUME IInv, NEW n \in NSG, Books(n), Managed(n), PatchManaged(n), NEW f, Track(n, f)
  PROVE  Managed(n)' /\ Written(n)' /\ Cleared(n)'
<1>0. /\ name' = name /\ phase' = phase /\ pc[n] = "rules" /\ ~task[n].del /\ task' = task
      /\ phase[n] # "gone"
  BY Present DEF PatchManaged, cloud, object, Books, Place
<1>1. st'[n].managed = task[n].id /\ pc'[n] = "select"
  BY ManagedFields, TurnFacts DEF PatchManaged, Goto
<1>2. \A m \in Made : name[m] = n =>
        m \in orphan' \/ m = task[n].id \/ m = task[n].old.managed
  BY <1>0, <1>1, OrphanStays DEF Managed
<1>3. \A m, o \in Made : name[m] = n /\ name[o] = n => m = o
  BY DEF Managed
<1>4. Managed(n)'
  BY <1>0, <1>1, <1>2, <1>3 DEF Managed
<1> QED
  BY <1>1, <1>4, Elsewhere

\* A rule changes.
LEMMA ChangeRuleManaged ==
  ASSUME IInv, NEW n \in NSG, Books(n), Managed(n), ChangeRule(n), NEW f, Track(n, f)
  PROVE  Managed(n)' /\ Written(n)' /\ Cleared(n)'
<1>1. UNCHANGED <<name, phase, st, pc, task>> /\ pc[n] = "rules"
  BY DEF ChangeRule, object, run
<1> QED
  BY <1>1, Present, SameManaged, Elsewhere

\* Of the servers that no entry and no selection names none can hold the old group,
\* but where it is loose.
LEMMA SelectManaged ==
  ASSUME IInv, BookInv, NEW n \in NSG, Managed(n), SelectNodes(n), NEW f, Track(n, f)
  PROVE  Managed(n)' /\ Written(n)' /\ Cleared(n)'
<1>0. UNCHANGED <<up, att, name, phase, st>> /\ pc[n] = "select" /\ Books(n)
  BY DEF SelectNodes, cloud, object, BookInv, Books
<1>1. PICK t \in TaskType : t = task[n]
  BY TurnFacts
<1> DEFINE d == t.old.recs \ sel[n]
           k == t.old.recs \cap sel[n]
<1>2. /\ task'[n] = [t EXCEPT !.drop = d, !.keep = k, !.add = sel[n] \ t.old.recs]
      /\ pc'[n] = "next"
  BY <1>1, TurnFacts DEF SelectNodes, Goto
<1>3. /\ task'[n].old = t.old /\ task'[n].id = t.id /\ task'[n].failed = t.failed
      /\ task'[n].del = t.del /\ task'[n].drop = d /\ task'[n].keep = k
  BY <1>2 DEF TaskType
<1>4. Managed(n)'
  BY <1>0, <1>1, <1>2, <1>3, Present, SameManaged
<1>5. Cleared(n)'
  <2> DEFINE m == t.old.managed
  <2> SUFFICES ASSUME m # None, name[m] = n, NEW s \in up, s \notin Servers(task'[n]), m \in att[s]
               PROVE  m \in loose'[s]
    BY <1>0, <1>1, <1>3 DEF Cleared
  <2>1. m \in Made /\ s \in Server
    BY <1>1, TurnFacts DEF TaskType, StatusType
  <2>2. /\ t.old.recs = st[n].recs /\ ~t.del /\ phase[n] # "gone"
        /\ (s \notin st[n].recs => st[n].ids[s] = {})
    BY <1>0, <1>1, <2>1 DEF Books, Entries, Place
  <2>3. st[n].ids[s] = {}
    BY <1>2, <1>3, <2>2 DEF Servers
  <2>4. Owes(n, s) = {}
    BY <1>0, <1>1, <2>2, <2>3 DEF Owes
  <2>5. m \in loose[s]
    BY <2>1, <2>4, Holder
  <2>6. ~Leaves(n, s)
    BY <1>0 DEF Leaves
  <2> QED
    BY <2>1, <2>5, <2>6 DEF Track, Loosened
<1> QED
  BY <1>2, <1>4, <1>5 DEF Written

\* The end of the loop.
LEMMA AllDoneManaged ==
  ASSUME IInv, NEW n \in NSG, Books(n), Managed(n), Cleared(n), AllDone(n),
         NEW f, f = task[n].failed, Track(n, f)
  PROVE  Managed(n)' /\ Written(n)' /\ Cleared(n)'
<1>0. /\ UNCHANGED <<name, phase, st, up, att>> /\ pc[n] = "next" /\ phase[n] # "gone"
      /\ Todo(task[n]) = {}
  BY Present DEF AllDone, cloud, object
<1>1. PICK t \in TaskType : t = task[n]
  BY TurnFacts
<1>2. \A m \in Made : name[m] = n =>
        m \in orphan' \/ m = st[n].managed \/ (~t.del /\ m = t.old.managed)
  BY <1>0, <1>1, OrphanStays DEF Managed
<1>3. /\ \A m, o \in Made : name[m] = n /\ name[o] = n => m = o
      /\ t.del => t.old.managed = st[n].managed
      /\ ~t.del => st[n].managed = t.id
  BY <1>0, <1>1 DEF Managed
<1>r. Return(n) => pc'[n] = "idle" /\ task'[n] = NoTask
  BY TurnFacts DEF Return, Goto
<1>4. CASE t.failed /\ Return(n)
  <2>1. Track(n, TRUE)
    BY <1>1, <1>4 DEF Track
  <2> QED
    BY <1>0, <1>3, <1>4, <1>r, <2>1, FailManaged
<1>5. CASE Return(n) /\ ~t.del /\ (t.old.managed = None \/ t.old.managed = t.id)
  <2>1. \A m \in Made : name[m] = n => m \in orphan' \/ m = st[n].managed
    BY <1>2, <1>3, <1>5, NsgAssumption
  <2> QED
    BY <1>0, <1>3, <1>5, <1>r, <2>1, EndManaged
<1>6. CASE /\ ~t.failed /\ task' = task /\ Goto(n, "retire") /\ t.old.managed # None
           /\ t.del \/ t.old.managed # t.id
  <2>1. pc'[n] = "retire"
    BY <1>6, TurnFacts DEF Goto
  <2>2. Managed(n)'
    BY <1>0, <1>1, <1>2, <1>3, <1>6, <2>1 DEF Managed
  <2>3. \A s \in Server : loose'[s] = loose[s]
    BY <1>0 DEF Track, Loosened, Leaves
  <2>4. Cleared(n)'
    BY <1>0, <1>1, <1>6, <2>1, <2>3, TurnFacts DEF Cleared
  <2> QED
    BY <2>1, <2>2, <2>4 DEF Written
<1>7. CASE task' = task /\ Goto(n, "finish") /\ t.del /\ t.old.managed = None
  <2>1. pc'[n] = "finish"
    BY <1>7, TurnFacts DEF Goto
  <2>2. \A m \in Made : name[m] = n => m \in orphan'
    BY <1>2, <1>3, <1>7, NsgAssumption
  <2>3. Managed(n)'
    BY <1>0, <1>1, <1>3, <1>7, <2>1, <2>2 DEF Managed
  <2> QED
    BY <2>1, <2>3, Elsewhere
<1> QED
  BY <1>1, <1>4, <1>5, <1>6, <1>7 DEF AllDone

\* The old group is on a server, when it is to be deleted: there it is loose.
LEMMA StillLoose ==
  ASSUME IInv, BookInv, NEW n \in NSG, Managed(n), Cleared(n), pc[n] = "retire",
         NEW m \in Made, m = task[n].old.managed, name[m] = n, NEW s \in up, m \in att[s]
  PROVE  m \in loose[s]
<1>1. ~task[n].failed /\ task[n].drop = {} /\ Servers(task[n]) = {} /\ m # None
  BY NsgAssumption DEF BookInv, Place, Servers
<1>2. CASE task[n].del
  <2>1. Owes(n, s) = {}
    BY <1>1, <1>2 DEF Owes
  <2> QED
    BY <2>1, Holder
<1>3. CASE ~task[n].del
  BY <1>1, <1>3 DEF Cleared, Managed
<1> QED
  BY <1>2, <1>3

\* deleteManagedSecurityGroupIfUnused.
LEMMA RetireManaged ==
  ASSUME IInv, BookInv, NEW n \in NSG, Managed(n), Cleared(n), Retire(n) \/ DeleteSecurityGroup(n),
         NEW f, Track(n, f)
  PROVE  Managed(n)' /\ Written(n)' /\ Cleared(n)'
<1>0. /\ phase' = phase /\ pc[n] \in {"retire", "deleteSg"} /\ phase[n] # "gone" /\ Books(n)
      /\ None \notin Made /\ None \notin NSG /\ name \in [Made -> NSG \cup {None}]
  BY NsgAssumption DEF Retire, DeleteSecurityGroup, object, BookInv, Books, Place, IInv, World
<1>1. PICK m \in Made : m = task[n].old.managed
  <2>1. task[n].old.managed \in Made \cup {None} /\ task[n].old.managed # None
    BY <1>0, TurnFacts DEF TaskType, StatusType, Managed
  <2> QED
    BY <2>1
<1>2. /\ task[n].del => st[n].managed = m
      /\ ~task[n].del => st[n].managed = task[n].id /\ m # task[n].id
      /\ \A q, o \in Made : name[q] = n /\ name[o] = n => q = o
  BY <1>0, <1>1 DEF Managed
<1>3. \A o \in Made : name[o] = n => o \in orphan \/ o = st[n].managed \/ o = m
  BY <1>0, <1>1 DEF Managed
<1>4. \A o \in Made : name'[o] = n => name[o] = n
  BY <1>0, <1>1 DEF Retire, DeleteSecurityGroup, cloud
<1>a. ASSUME st' = st, AfterRetire(n), \A o \in Made : name'[o] = n => o # m \/ o \in orphan'
      PROVE  Managed(n)' /\ Written(n)' /\ Cleared(n)'
  <2>1. CASE task[n].del
    <3>1. pc'[n] = "finish" /\ task' = task
      BY <1>a, <2>1, TurnFacts DEF AfterRetire, Goto
    <3>2. \A o \in Made : name'[o] = n => o \in orphan'
      BY <1>2, <1>3, <1>4, <1>a, <2>1, OrphanStays
    <3>3. Managed(n)'
      BY <1>0, <1>1, <1>2, <1>4, <1>a, <2>1, <3>1, <3>2 DEF Managed
    <3> QED
      BY <3>1, <3>3, Elsewhere
  <2>2. CASE ~task[n].del
    <3>1. pc'[n] = "idle" /\ task'[n] = NoTask
      BY <1>a, <2>2, TurnFacts DEF AfterRetire, Return, Goto
    <3>2. \A o \in Made : name'[o] = n => o \in orphan' \/ o = st'[n].managed
      BY <1>3, <1>4, <1>a, OrphanStays
    <3> QED
      BY <1>0, <1>2, <1>4, <3>1, <3>2, EndManaged
  <2> QED
    BY <2>1, <2>2
<1>5. CASE Retire(n)
  <2>0. name' = name /\ st' = st /\ pc[n] = "retire"
    BY <1>5 DEF Retire, cloud
  <2>1. CASE name[m] = None \/ \E s \in up : m \in att[s]
    <3>1. AfterRetire(n)
      BY <1>1, <1>5, <2>1 DEF Retire
    <3>2. name[m] = n => m \in orphan'
      <4> SUFFICES ASSUME name[m] = n PROVE m \in orphan'
        OBVIOUS
      <4>1. PICK s \in up : m \in att[s]
        BY <1>0, <2>1
      <4>2. m \in att[s] \cap loose[s]
        BY <1>1, <2>0, <4>1, StillLoose
      <4>3. pc'[n] # "retire"
        BY <3>1, TurnFacts DEF AfterRetire, Return, Goto
      <4>4. m \in Held(n)
        BY <1>1, <2>0, <4>2, <4>3 DEF Held
      <4> QED
        BY <4>4 DEF Track
    <3> QED
      BY <1>a, <2>0, <3>1, <3>2
  <2>2. CASE ~(name[m] = None \/ \E s \in up : m \in att[s])
    <3>1. pc'[n] = "deleteSg" /\ task' = task
      BY <1>1, <1>5, <2>2, TurnFacts DEF Retire, Goto
    <3>2. name[m] = n
      BY <1>0, <1>1, <2>2 DEF Books, Mine, Of
    <3>3. \A o \in Made : name[o] = n => o \in orphan' \/ o = st[n].managed \/ o = m
      BY <1>3, <2>0, OrphanStays
    <3>4. task[n].del \/ task[n].old.managed # task[n].id
      BY <1>1, <1>2
    <3>5. Managed(n)'
      BY <1>0, <1>1, <1>2, <2>0, <3>1, <3>2, <3>3, <3>4 DEF Managed
    <3> QED
      BY <3>1, <3>5, Elsewhere
  <2> QED
    BY <2>1, <2>2
<1>6. CASE DeleteSecurityGroup(n)
  <2>0. pc[n] = "deleteSg" /\ name[m] = n
    BY <1>1, <1>6 DEF DeleteSecurityGroup, Managed
  <2>1. CASE ~\E s \in up : m \in att[s]
    <3>1. st' = st /\ AfterRetire(n) /\ name' = [name EXCEPT ![m] = None]
      BY <1>1, <1>6, <2>1 DEF DeleteSecurityGroup
    <3>2. \A o \in Made : name'[o] = n => o # m
      BY <1>0, <3>1
    <3> QED
      BY <1>a, <3>1, <3>2
  <2>2. CASE \E s \in up : m \in att[s]
    <3>1. RetireFails(n) /\ name' = name
      BY <1>1, <1>6, <2>2 DEF DeleteSecurityGroup
    <3>2. pc'[n] = "idle" /\ task'[n] = NoTask
      BY <3>1, TurnFacts DEF RetireFails, Return, Goto
    <3>3. st'[n].managed = m
      BY <1>1, <1>2, <3>1, ManagedFields DEF RetireFails
    <3>4. \A o \in Made : name'[o] = n => o = st'[n].managed
      BY <1>2, <2>0, <3>1, <3>3
    <3> QED
      BY <1>0, <1>2, <3>1, <3>2, <3>4, EndManaged
  <2> QED
    BY <2>1, <2>2
<1> QED
  BY <1>5, <1>6

\* The finalizer comes off.
LEMMA FinishManaged ==
  ASSUME IInv, NEW n \in NSG, Books(n), Managed(n), Finish(n), NEW f, Track(n, f)
  PROVE  Managed(n)' /\ Written(n)' /\ Cleared(n)'
<1>1. /\ pc'[n] = "idle" /\ task'[n] = NoTask /\ name' = name /\ st' = st /\ pc[n] = "finish"
      /\ task[n].del /\ NoTask.del = FALSE
  BY TurnFacts, NoTaskFields DEF Finish, Return, Goto, cloud, Books, Place
<1>2. \A m \in Made : name[m] = n => m \in orphan'
  BY <1>1, OrphanStays DEF Managed
<1>3. \A m, o \in Made : name[m] = n /\ name[o] = n => m = o
  BY DEF Managed
<1>4. Managed(n)'
  BY <1>1, <1>2, <1>3 DEF Managed
<1> QED
  BY <1>1, <1>4, Elsewhere

\* A failing call outside of the loop ends the reconcile.
LEMMA ErrorManaged ==
  ASSUME IInv, NEW n \in NSG, Books(n), Managed(n), Error(n), Track(n, TRUE),
         ManagedError(n) \/ CreateUnanswered(n) \/ OtherError(n)
  PROVE  Managed(n)' /\ Written(n)' /\ Cleared(n)'
<1>1. /\ pc[n] # "idle" /\ Return(n) /\ phase' = phase
      /\ pc[n] \in {"find", "create", "rules", "select", "finish", "retire", "deleteSg"}
  BY DEF ManagedError, CreateUnanswered, OtherError, RetireFails, Error, object
<1>2. pc'[n] = "idle" /\ task'[n] = NoTask /\ phase[n] # "gone"
  BY <1>1, Present, TurnFacts DEF Return, Goto
<1>3. task[n].del => pc[n] \notin {"find", "create", "rules", "select"}
  BY DEF Books, Place
<1>4. task[n].del => st'[n].managed = st[n].managed
  BY <1>3 DEF ManagedError, CreateUnanswered, OtherError, RetireFails
<1>5. /\ \A m, o \in Made : name[m] = n /\ name[o] = n => m = o
      /\ pc[n] = "create" => \A m \in Made : name[m] # n
  BY DEF Managed
<1>6. CASE CreateUnanswered(n)
  <2>1. pc[n] = "create" /\ ~task[n].del /\ name' = [name EXCEPT ![Fresh] = n]
    BY <1>3, <1>6 DEF CreateUnanswered, CreateSecurityGroup
  <2>2. \A m, o \in Made : name'[m] = n /\ name'[o] = n => m = o
    BY <1>5, <2>1, TurnFacts
  <2> QED
    BY <1>1, <1>2, <1>3, <1>4, <2>1, <2>2, FailManaged
<1>7. CASE name' = name
  BY <1>1, <1>2, <1>3, <1>4, <1>5, <1>7, FailManaged
<1> QED
  BY <1>6, <1>7 DEF ManagedError, OtherError, cloud

\* A step of one NSG.
LEMMA TurnManaged ==
  ASSUME IInv, BookInv, BookInv', ManInv, NEW n \in NSG,
         Pass(n) \/ (Error(n) /\ Track(n, TRUE))
  PROVE  ManInv'
<1>0. /\ Books(n) /\ Mine(n)' /\ Groups /\ Managed(n) /\ Written(n) /\ Cleared(n) /\ Turn(n)
  BY DEF BookInv, Books, ManInv, Turn, Pass
<1>1. PICK f \in BOOLEAN : Track(n, f) /\ (f = task[n].failed \/ (f = TRUE /\ Error(n)))
  <2>1. task[n].failed \in BOOLEAN
    BY TurnFacts DEF TaskType
  <2> QED
    BY <2>1 DEF Pass
<1>2. Managed(n)' /\ Written(n)' /\ Cleared(n)'
  <2>1. CASE Loop(n)
    <3>1. Managed(n)'
      BY <1>0, <1>1, <2>1, LoopManaged
    <3>2. Written(n)'
      BY <1>0, <2>1, LoopWritten
    <3>3. Cleared(n)'
      BY <1>0, <1>1, <2>1, LoopCleared
    <3> QED
      BY <3>1, <3>2, <3>3
  <2>2. CASE Error(n) /\ Track(n, TRUE) /\ ~Loop(n)
    <3>1. ManagedError(n) \/ CreateUnanswered(n) \/ OtherError(n)
      BY <2>2 DEF Error, Loop
    <3> QED
      BY <1>0, <2>2, <3>1, ErrorManaged
  <2>3. CASE Pass(n) /\ ~Loop(n)
    <3>1. CASE Begin(n) \/ Find(n) \/ Create(n)
      BY <1>0, <1>1, <3>1, BeginManaged, FindManaged, CreateManaged
    <3>2. CASE ChangeRule(n) \/ PatchManaged(n) \/ SelectNodes(n)
      BY <1>0, <1>1, <3>2, ChangeRuleManaged, PatchManagedManaged, SelectManaged
    <3>3. CASE AllDone(n)
      <4>1. Track(n, task[n].failed)
        BY <2>3 DEF Pass
      <4>2. PICK e : e = task[n].failed
        OBVIOUS
      <4>3. Track(n, e)
        BY <4>1, <4>2
      <4> QED
        BY <1>0, <3>3, <4>2, <4>3, AllDoneManaged
    <3>4. CASE Retire(n) \/ DeleteSecurityGroup(n) \/ Finish(n)
      BY <1>0, <1>1, <3>4, RetireManaged, FinishManaged
    <3> QED
      BY <2>3, <3>1, <3>2, <3>3, <3>4 DEF Pass, Reconcile, Loop
  <2> QED
    BY <2>1, <2>2, <2>3
<1>3. ASSUME NEW k \in NSG, k # n PROVE Managed(k)' /\ Written(k)' /\ Cleared(k)'
  <2>1. Managed(k)
    BY DEF ManInv
  <2> QED
    BY <1>0, <1>1, <1>3, <2>1, OthersManaged
<1> QED
  BY <1>2, <1>3 DEF ManInv

\* A crash cuts off the one that runs.
LEMMA CrashManaged ==
  ASSUME IInv, BookInv, BookInv', ManInv, Crash,
         \/ Running = {} /\ UNCHANGED orphan
         \/ \E n \in Running : Track(n, TRUE)
  PROVE  ManInv'
<1>1. /\ UNCHANGED <<name, phase, st>>
      /\ \A k \in NSG : pc'[k] = "idle" /\ task'[k] = NoTask
  BY DEF Crash, cloud, object
<1>e. NoTask.del = FALSE
  BY NoTaskFields
<1>2. ASSUME NEW k \in NSG, pc[k] = "idle",
             \A m \in Made : name[m] = k /\ m \in orphan => m \in orphan'
      PROVE  Managed(k)' /\ Written(k)' /\ Cleared(k)'
  <2>1. Managed(k)
    BY DEF ManInv
  <2>2. Managed(k)'
    BY <1>1, <1>2, <1>e, <2>1 DEF Managed
  <2> QED
    BY <1>1, <2>2, Elsewhere
<1>3. CASE Running = {} /\ UNCHANGED orphan
  BY <1>2, <1>3 DEF Running, ManInv
<1>4. ASSUME NEW n \in NSG, pc[n] # "idle", Track(n, TRUE) PROVE ManInv'
  <2>0. Books(n) /\ Managed(n) /\ Mine(n)'
    BY DEF BookInv, Books, ManInv
  <2>1. phase[n] # "gone" /\ (task[n].del => pc[n] # "rules")
    BY <1>4, <2>0 DEF Books, Place
  <2>2. \A m, o \in Made : name[m] = n /\ name[o] = n => m = o
    BY <2>0 DEF Managed
  <2>3. Managed(n)' /\ Written(n)' /\ Cleared(n)'
    BY <1>1, <1>4, <2>0, <2>1, <2>2, FailManaged
  <2>4. ASSUME NEW k \in NSG, k # n PROVE Managed(k)' /\ Written(k)' /\ Cleared(k)'
    <3>1. pc[k] = "idle"
      BY <1>4, <2>4 DEF BookInv, OneWorker
    <3>2. \A m \in Made : name[m] = k /\ m \in orphan => m \in orphan'
      BY <1>1, <1>4, <2>0, <2>4, OthersOrphans
    <3> QED
      BY <1>2, <3>1, <3>2
  <2> QED
    BY <2>3, <2>4 DEF ManInv
<1> QED
  BY <1>3, <1>4 DEF Running

\* The owners, the nodes, the servers and the user.
LEMMA WorldManaged ==
  ASSUME IInv, ManInv, UNCHANGED <<name, st, pc, task, loose, orphan>>, up' \subseteq up,
         \A s \in up' : att[s] \subseteq att'[s] /\ att'[s] \subseteq att[s] \cup Hand,
         \A k \in NSG : phase'[k] = phase[k] \/ (phase[k] = "live" /\ phase'[k] = "deleting")
  PROVE  ManInv'
<1> SUFFICES ASSUME NEW n \in NSG PROVE Managed(n)' /\ Written(n)' /\ Cleared(n)'
  BY DEF ManInv
<1>0. Managed(n) /\ Written(n) /\ Cleared(n)
  BY DEF ManInv
<1>1. Managed(n)'
  BY <1>0 DEF Managed
<1>2. Written(n)'
  <2>1. pc[n] = "note" => task[n].old.ids[task[n].cur] \cap Hand = {}
    BY DEF IInv, Own, Clean, Ready
  <2>2. Wanted(task[n])' = Wanted(task[n])
    BY DEF Wanted
  <2> QED
    BY <1>0, <2>1, <2>2 DEF Written
<1>3. Cleared(n)'
  <2>1. task[n].old.managed # None => task[n].old.managed \notin Hand
    BY TurnFacts, NsgAssumption DEF TaskType, StatusType
  <2> QED
    BY <1>0, <2>1 DEF Cleared, Servers
<1> QED
  BY <1>1, <1>2, <1>3

\* Every step keeps the groups in sight or among the orphans.
LEMMA NextManaged == IInv /\ BookInv /\ BookInv' /\ ManInv /\ [Next]_vars => ManInv'
<1> SUFFICES ASSUME IInv, BookInv, BookInv', ManInv, [Next]_vars PROVE ManInv'
  OBVIOUS
<1>0. /\ phase \in [NSG -> {"live", "deleting", "gone"}] /\ att \in [Server -> SUBSET SG]
      /\ up \subseteq Server
  BY DEF IInv, World
<1>1. CASE UNCHANGED vars
  BY <1>1, WorldManaged DEF vars, cloud, object, run, history
<1>2. ASSUME NEW n \in NSG, Pass(n) \/ (Error(n) /\ Track(n, TRUE)) PROVE ManInv'
  BY <1>2, TurnManaged
<1>3. ASSUME NEW n \in NSG, Delete(n) PROVE ManInv'
  <2>1. \A k \in NSG : phase'[k] = phase[k] \/ (phase[k] = "live" /\ phase'[k] = "deleting")
    BY <1>0, <1>3 DEF Delete
  <2> QED
    BY <1>3, <2>1, WorldManaged DEF Delete, cloud, run, history
<1>4. CASE Edit
  <2>0. UNCHANGED <<st, pc, task, loose, orphan>>
    BY <1>4 DEF Edit, run
  <2>1. CASE (\E s \in Server : ServerGone(s)) \/ \E n \in NSG : EditSpec(n) \/ Select(n)
    <3>1. /\ UNCHANGED <<name, phase>> /\ up' \subseteq up
          /\ \A s \in up' : att'[s] = att[s]
      BY <1>0, <2>1 DEF ServerGone, EditSpec, Select, cloud, object
    <3> QED
      BY <2>0, <3>1, WorldManaged
  <2>2. ASSUME NEW s \in Server, AttachByHand(s) PROVE ManInv'
    <3>1. PICK g \in Hand : att' = [att EXCEPT ![s] = @ \cup {g}]
      BY <2>2 DEF AttachByHand
    <3>2. \A x \in Server : att[x] \subseteq att'[x] /\ att'[x] \subseteq att[x] \cup Hand
      BY <1>0, <3>1
    <3>3. UNCHANGED <<up, name, phase>>
      BY <2>2 DEF AttachByHand, object
    <3> QED
      BY <1>0, <2>0, <3>2, <3>3, WorldManaged
  <2> QED
    BY <1>4, <2>1, <2>2 DEF Edit
<1>5. CASE Crash /\ (IF Running = {} THEN UNCHANGED history ELSE \E n \in Running : Track(n, TRUE))
  BY <1>5, CrashManaged DEF history
<1> QED
  BY <1>1, <1>2, <1>3, <1>4, <1>5 DEF Next

\* There are no groups to begin with.
LEMMA InitManaged == ASSUME Init PROVE ManInv
<1>1. \A n \in NSG : st[n] = NoStatus /\ task[n] = NoTask /\ pc[n] = "idle"
  BY DEF Init
<1>2. NoTask.del = FALSE
  BY NoTaskFields
<1>3. None \notin NSG /\ \A m \in Made : name[m] = None
  BY NsgAssumption DEF Init
<1> QED
  BY <1>1, <1>2, <1>3 DEF ManInv, Managed, Written, Cleared

\* Whatever fails, and wherever the controller stops, an NSG that is gone has left
\* no security group of its own behind but one that a failed or interrupted ensure
\* had left out of status, or that was found on a server where its entry had lost
\* sight of it.
THEOREM NsgManagedReclaimed == Spec => []ManagedReclaimed
<1>1. Init => BookInv /\ ManInv
  BY InitBooks, InitManaged
<1>2. IInv /\ ManInv => ManagedReclaimed
  <2> SUFFICES ASSUME IInv, ManInv, NEW m \in Made, name[m] # None, phase[name[m]] = "gone"
               PROVE  m \in orphan
    BY DEF ManagedReclaimed
  <2>1. name[m] \in NSG
    BY DEF IInv, World
  <2> QED
    BY <2>1 DEF ManInv, Managed
<1> QED
  BY InitIInv, NextIInv, NextBooks, NextManaged, <1>1, <1>2, PTL DEF Spec
=============================================================================
