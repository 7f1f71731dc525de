-------------------------- MODULE ListenersProofs ---------------------------
(***************************************************************************)
(* For any number of LBCs, fields, pools and values, with calls that fail  *)
(* anywhere and edits at any time: a listener that was there first is kept *)
(* and, when its one LBC is gone, left as it was found; the ACL fields one *)
(* LBC has deployed are not changed by another; and no listener that       *)
(* serves an LBC which stays is deleted.                                   *)
(*                                                                         *)
(* The argument: a running reconcile holds the mutex, but for the teardown *)
(* of a migration (Held); so what it reads still holds when it writes.     *)
(* Whoever has the user's listener on the books has it as adopted          *)
(* (Adopting); whoever runs agrees with what the others have deployed      *)
(* (Respects); a listener about to be deleted is its LBC's alone (Sole);   *)
(* and the record of the one LBC that ever asked has, at every step, what  *)
(* it takes to undo what it did (Steps, Brings, Makes).                    *)
(***************************************************************************)
EXTENDS Listeners, FiniteSetTheorems, TLAPS

\* The steps with a listener read before, those of deployListener, and those of
\* a listener that is not wanted any more.
Reading == {"plan", "put", "release", "strip", "restore", "delete"}
Deploying ==
  {"find", "record", "plan", "put", "release", "policies", "recordPolicy"}

\* A running reconcile holds the mutex, unless it tears down a migration, and
\* works for a spec its LBC had.
Held(l) ==
  pc[l] # "idle" =>
    /\ phase[l] # "gone"
    /\ phase[l] # "retiring" => lock = l
    /\ task[l].leaving => phase[l] \in {"deleting", "retiring"} /\ task[l].spec = NoWant
    /\ ~task[l].leaving => phase[l] \in {"live", "deleting"} /\ task[l].spec \in Wanted[l]
    /\ pc[l] \in Reading => seen[l] # None
    /\ pc[l] \in Deploying => task[l].spec.on
    /\ pc[l] \in {"delete", "restore"} => ~task[l].spec.on

IInv == TypeOK /\ \A l \in LBC : Held(l) /\ spec[l] \in Wanted[l]

Task == [spec : Want, rec : Record, books : SUBSET Pool, leaving : BOOLEAN]

-----------------------------------------------------------------------------
(* Records. *)

\* The empty ones, and what is wanted.
LEMMA Empties ==
  /\ NoAcl \in Acl /\ NoWant \in Want /\ NoRecord \in Record /\ NoTask \in Task
  /\ NoTask.spec = NoWant /\ NoTask.rec = NoRecord /\ ~NoTask.leaving
  /\ \A f \in Field : NoAcl[f] = None
<1>1. NoAcl \in Acl /\ \A f \in Field : NoAcl[f] = None
  BY DEF NoAcl, Acl
<1>2. NoWant \in Want /\ NoRecord \in Record
  BY <1>1 DEF NoWant, Want, NoRecord, Record
<1>3. NoTask \in Task
  BY <1>2 DEF NoTask, Task
<1> QED
  BY <1>1, <1>2, <1>3 DEF NoTask

\* A wanted listener.
LEMMA WantedWant ==
  ASSUME NEW l \in LBC, NEW w \in Wanted[l]
  PROVE  w \in Want /\ (w.on \/ w = NoWant)
BY ListenersAssumption

\* None of the values is None.
LEMMA Nones == None \notin Pool /\ None \notin Value /\ None \notin LBC /\ None \notin Listener
BY ListenersAssumption

\* The ACLs that are put together field by field.
LEMMA AclTypes ==
  ASSUME NEW want \in Acl, NEW have \in [Field -> Value], NEW kept \in Acl,
         NEW neutral \in Acl, NEW declared \in SUBSET Field
  PROVE  /\ RecordBefore(want, have, kept, neutral) \in Acl
         /\ RecordAfter(want, kept) \in Acl
         /\ Desired(want, have, kept, declared) \in Acl
         /\ NeutralOf(want) \in Acl
<1>1. RecordBefore(want, have, kept, neutral) \in Acl
  BY DEF RecordBefore, Acl
<1>2. RecordAfter(want, kept) \in Acl
  BY DEF RecordAfter, Acl
<1>3. Desired(want, have, kept, declared) \in Acl
  BY DEF Desired, Acl
<1>4. NeutralOf(want) \in Acl
  BY ListenersAssumption DEF NeutralOf, Acl
<1> QED
  BY <1>1, <1>2, <1>3, <1>4

\* The fallback of the record.
LEMMA FallbackType == ASSUME NEW l \in LBC PROVE Fallback(l) \in Acl
<1>1. Neutral \in Acl /\ NoAcl \in Acl
  BY ListenersAssumption, Empties DEF Acl
<1> QED
  BY <1>1 DEF Fallback

\* The ACL that an update leaves.
SentAcl(lst, read, desired) ==
  [f \in Field |-> IF desired[f] # None THEN desired[f]
                   ELSE IF f = Allowed THEN read.acl[f] ELSE lst.acl[f]]

\* A listener written by an update.
LEMMA UpdatedType ==
  ASSUME NEW lst \in Listener, NEW read \in Listener, NEW p \in Pool \cup {None},
         NEW desired \in Acl
  PROVE  /\ Updated(lst, read, p, desired) \in Listener
         /\ Updated(lst, read, p, desired).pool = p
         /\ Updated(lst, read, p, desired).rules = lst.rules
         /\ Updated(lst, read, p, desired).acl = SentAcl(lst, read, desired)
<1> DEFINE acl == SentAcl(lst, read, desired)
<1>1. acl \in [Field -> Value]
  BY DEF SentAcl, Acl, Listener
<1>2. Updated(lst, read, p, desired) = [lst EXCEPT !.pool = p, !.acl = acl]
  BY DEF Updated, SentAcl
<1> HIDE DEF acl
<1>3. Updated(lst, read, p, desired) = [pool |-> p, acl |-> acl, rules |-> lst.rules]
  BY <1>2 DEF Listener
<1>4. [pool |-> p, acl |-> acl, rules |-> lst.rules] \in Listener
  BY <1>1 DEF Listener
<1> QED
  BY <1>3, <1>4 DEF acl

-----------------------------------------------------------------------------
(* The initial states. *)

\* Nothing runs.
LEMMA InitIInv == Init => IInv
<1> SUFFICES ASSUME Init PROVE IInv
  OBVIOUS
<1>1. spec \in [LBC -> Want] /\ \A l \in LBC : spec[l] \in Wanted[l]
  BY DEF Init
<1>2. listener \in Listener \cup {None} /\ own = listener
  BY ListenersAssumption DEF Init
<1>3. tenants \in [Pool -> SUBSET (LBC \cup {User})]
  BY DEF Init
<1>4. rec \in [LBC -> Record] /\ task \in [LBC -> Task] /\ applied \in [LBC -> Acl]
  BY Empties DEF Init
<1>5. TypeOK
  BY <1>1, <1>2, <1>3, <1>4 DEF Init, TypeOK, PC, Task
<1> QED
  BY <1>1, <1>5 DEF Init, IInv, Held

-----------------------------------------------------------------------------
(* The steps of a reconcile. *)

\* What a step leaves of k's reconcile and objects.
Same(k) ==
  /\ spec'[k] = spec[k] /\ phase'[k] = phase[k] /\ pc'[k] = pc[k]
  /\ task'[k] = task[k] /\ seen'[k] = seen[k] /\ (lock = k => lock' = k)

\* ... and with it what k relies on.
LEMMA OthersHeld ==
  ASSUME NEW k \in LBC, Held(k), spec[k] \in Wanted[k], Same(k)
  PROVE  Held(k)' /\ spec'[k] \in Wanted[k]
BY DEF Same, Held

\* The end of a pass.
LEMMA ReturnStep ==
  ASSUME IInv, NEW l \in LBC, Return(l)
  PROVE  /\ pc' \in [LBC -> PC] /\ task' \in [LBC -> Task]
         /\ seen' \in [LBC -> Listener \cup {None}] /\ peers' \in [LBC -> SUBSET Field]
         /\ lock' \in LBC \cup {None} /\ pc'[l] = "idle" /\ task'[l] = NoTask
         /\ \A k \in LBC \ {l} : /\ pc'[k] = pc[k] /\ task'[k] = task[k]
                                 /\ seen'[k] = seen[k] /\ (lock = k => lock' = k)
<1>1. TypeOK
  BY DEF IInv
<1>2. pc' \in [LBC -> PC] /\ pc'[l] = "idle"
  BY <1>1 DEF TypeOK, Return, Goto, PC
<1>3. task' \in [LBC -> Task] /\ task'[l] = NoTask
  BY <1>1, Empties DEF TypeOK, Return, Task
<1>4. /\ seen' \in [LBC -> Listener \cup {None}] /\ peers' \in [LBC -> SUBSET Field]
      /\ lock' \in LBC \cup {None}
  BY <1>1 DEF TypeOK, Return
<1> QED
  BY <1>1, <1>2, <1>3, <1>4 DEF TypeOK, Return, Goto

\* A record set in status and in the reconcile's copy of it.
LEMMA SetRecordStep ==
  ASSUME IInv, NEW l \in LBC, NEW r \in Record, SetRecord(l, r)
  PROVE  /\ rec' \in [LBC -> Record] /\ task' \in [LBC -> Task]
         /\ rec'[l] = [r EXCEPT !.rules = rec[l].rules]
         /\ task'[l].rec = [r EXCEPT !.rules = task[l].rec.rules]
         /\ task'[l].spec = task[l].spec /\ task'[l].books = task[l].books
         /\ task'[l].leaving = task[l].leaving
         /\ \A k \in LBC \ {l} : rec'[k] = rec[k] /\ task'[k] = task[k]
<1> DEFINE a == [r EXCEPT !.rules = rec[l].rules]
           b == [r EXCEPT !.rules = task[l].rec.rules]
<1>1. TypeOK /\ rec[l] \in Record /\ task[l] \in Task
  BY DEF IInv, TypeOK, Task
<1>2. a \in Record /\ b \in Record
  BY <1>1 DEF Record, Task
<1>3. rec' = [rec EXCEPT ![l] = a] /\ task' = [task EXCEPT ![l] = [task[l] EXCEPT !.rec = b]]
  BY <1>1 DEF SetRecord, TypeOK
<1> HIDE DEF a, b
<1>4. [task[l] EXCEPT !.rec = b] \in Task
  BY <1>1, <1>2 DEF Task
<1>5. rec' \in [LBC -> Record] /\ rec'[l] = a /\ \A k \in LBC \ {l} : rec'[k] = rec[k]
  BY <1>1, <1>2, <1>3 DEF TypeOK
<1>6. /\ task' \in [LBC -> Task] /\ task'[l] = [task[l] EXCEPT !.rec = b]
      /\ \A k \in LBC \ {l} : task'[k] = task[k]
  BY <1>1, <1>3, <1>4 DEF TypeOK, Task
<1>7. /\ task'[l].rec = b /\ task'[l].spec = task[l].spec
      /\ task'[l].books = task[l].books /\ task'[l].leaving = task[l].leaving
  BY <1>1, <1>6 DEF Task
<1> QED
  BY <1>5, <1>6, <1>7 DEF a, b

\* Put together from the reconcile that steps and those that do not.
LEMMA Assemble ==
  ASSUME IInv, NEW l \in LBC, TypeOK', Held(l)', spec'[l] \in Wanted[l],
         \A k \in LBC \ {l} : Same(k)
  PROVE  IInv'
BY OthersHeld DEF IInv

\* A reconcile reads its LBC.
LEMMA BeginStep == ASSUME IInv, NEW l \in LBC, Begin(l) PROVE IInv'
<1> DEFINE leaving == phase[l] # "live"
           t == [spec |-> IF leaving THEN NoWant ELSE spec[l], rec |-> rec[l],
                 books |-> IF phase[l] = "retiring" THEN {} ELSE books[l],
                 leaving |-> leaving]
<1>1. TypeOK /\ spec[l] \in Wanted[l]
  BY DEF IInv
<1>2. t \in Task
  BY <1>1, Empties DEF TypeOK, Task
<1>3. task' = [task EXCEPT ![l] = t] /\ pc' = [pc EXCEPT ![l] = IF leaving THEN "redundant" ELSE "pools"]
  BY DEF Begin, Goto
<1>4. /\ t.spec = IF leaving THEN NoWant ELSE spec[l]
      /\ t.leaving = leaving
  OBVIOUS
<1> HIDE DEF t
<1>5. task' \in [LBC -> Task] /\ task'[l] = t /\ \A k \in LBC \ {l} : task'[k] = task[k]
  BY <1>1, <1>2, <1>3 DEF TypeOK, Task
<1>6. pc' \in [LBC -> PC] /\ lock' \in LBC \cup {None} /\ peers' \in [LBC -> SUBSET Field]
  BY <1>1, <1>3 DEF TypeOK, PC, Begin, Declared
<1>7. TypeOK'
  BY <1>1, <1>5, <1>6 DEF TypeOK, Begin, cloud, object, history, Task
<1>8. Held(l)' /\ spec'[l] \in Wanted[l]
  BY <1>1, <1>3, <1>4, <1>5 DEF TypeOK, Held, Begin, object, Reading, Deploying
<1>9. \A k \in LBC \ {l} : Same(k)
  BY <1>1, <1>3, <1>5, Nones DEF TypeOK, Begin, object, Same
<1> QED
  BY <1>7, <1>8, <1>9, Assemble

\* deployPools.
LEMMA PoolsStep == ASSUME IInv, NEW l \in LBC, DeployPools(l) PROVE IInv'
<1> DEFINE ps == PoolsOf(task[l].spec)
<1>1. TypeOK /\ Held(l) /\ spec[l] \in Wanted[l]
  BY DEF IInv
<1>2. ps \subseteq Pool
  BY <1>1 DEF PoolsOf, TypeOK, Want
<1> HIDE DEF ps
<1>3. tenants' \in [Pool -> SUBSET (LBC \cup {User})] /\ books' \in [LBC -> SUBSET Pool]
  BY <1>1, <1>2 DEF TypeOK, DeployPools, ps
<1>4. pc' = [pc EXCEPT ![l] = IF task[l].spec.on THEN "find" ELSE "redundant"]
  BY DEF DeployPools, Goto
<1>5. TypeOK'
  BY <1>1, <1>3, <1>4 DEF TypeOK, DeployPools, history, PC
<1>6. Held(l)' /\ spec'[l] \in Wanted[l]
  BY <1>1, <1>4 DEF TypeOK, Held, DeployPools, Reading, Deploying
<1>7. \A k \in LBC \ {l} : Same(k)
  BY <1>1, <1>4 DEF TypeOK, DeployPools, Same
<1> QED
  BY <1>5, <1>6, <1>7, Assemble

\* The listener is written, and pc of one reconcile goes on: what the steps that
\* call the vLB service have in common.
LEMMA WriteStep ==
  ASSUME IInv, NEW l \in LBC, NEW step \in PC, Goto(l, step), listener' \in Listener \cup {None},
         peers' \in [LBC -> SUBSET Field],
         UNCHANGED <<tenants, object, task, seen, lock, history, edits, faults>>,
         pc[l] # "idle", step \in Reading => seen[l] # None,
         step \in Deploying => task[l].spec.on,
         step \in {"delete", "restore"} => ~task[l].spec.on
  PROVE  IInv'
<1>1. TypeOK /\ Held(l) /\ spec[l] \in Wanted[l]
  BY DEF IInv
<1>2. TypeOK'
  BY <1>1 DEF TypeOK, Goto, object, history
<1>3. Held(l)' /\ spec'[l] \in Wanted[l]
  BY <1>1 DEF TypeOK, Held, Goto, object
<1>4. \A k \in LBC \ {l} : Same(k)
  BY <1>1 DEF TypeOK, Goto, object, Same
<1> QED
  BY <1>2, <1>3, <1>4, Assemble

\* Nothing is there: a listener is created.
LEMMA CreateStep == ASSUME IInv, NEW l \in LBC, CreateListener(l) PROVE IInv'
<1> DEFINE want == task[l].spec
           acl == [f \in Field |-> IF want.acl[f] # None THEN want.acl[f] ELSE Neutral[f]]
<1>1. TypeOK /\ Held(l) /\ task[l].spec \in Want
  BY DEF IInv, TypeOK
<1>2. acl \in [Field -> Value]
  BY <1>1, ListenersAssumption DEF Want, Acl
<1>3. listener' = [pool |-> want.pool, rules |-> {}, acl |-> acl]
  BY DEF CreateListener
<1> HIDE DEF acl
<1>4. listener' \in Listener
  BY <1>1, <1>2, <1>3 DEF Want, Listener
<1>5. peers' \in [LBC -> SUBSET Field]
  BY <1>1 DEF TypeOK, CreateListener
<1>6. task[l].spec.on
  BY <1>1 DEF CreateListener, Held, Deploying
<1> QED
  BY <1>4, <1>5, <1>6, WriteStep DEF CreateListener, PC, Reading, Deploying

\* A record is written and pc of one reconcile goes on.
LEMMA RecordStep ==
  ASSUME IInv, NEW l \in LBC, NEW r \in Record, SetRecord(l, r), NEW step \in PC, Goto(l, step),
         seen' \in [LBC -> Listener \cup {None}],
         \A k \in LBC \ {l} : seen'[k] = seen[k],
         UNCHANGED <<cloud, spec, books, phase, peers, lock, history, edits, faults>>,
         pc[l] # "idle", step \in Reading => seen'[l] # None,
         step \in Deploying => task[l].spec.on,
         step \notin {"delete", "restore"}
  PROVE  IInv'
<1>1. TypeOK /\ Held(l) /\ spec[l] \in Wanted[l]
  BY DEF IInv
<1>2. /\ rec' \in [LBC -> Record] /\ task' \in [LBC -> Task]
      /\ task'[l].spec = task[l].spec /\ task'[l].leaving = task[l].leaving
      /\ \A k \in LBC \ {l} : task'[k] = task[k]
  BY SetRecordStep
<1>3. TypeOK'
  BY <1>1, <1>2 DEF TypeOK, Goto, cloud, history, Task
<1>4. Held(l)' /\ spec'[l] \in Wanted[l]
  BY <1>1, <1>2 DEF TypeOK, Held, Goto
<1>5. \A k \in LBC \ {l} : Same(k)
  BY <1>1, <1>2 DEF TypeOK, Goto, Same
<1> QED
  BY <1>3, <1>4, <1>5, Assemble

\* The records of a listener created here, and of one taken over.
LEMMA NewRecords ==
  ASSUME NEW a \in Acl, NEW p \in Pool \cup {None}
  PROVE  LET made == [NoRecord EXCEPT !.listed = TRUE, !.acl = a]
             taken == [NoRecord EXCEPT !.listed = TRUE, !.adopted = TRUE, !.pool = p]
         IN /\ made \in Record /\ made.listed /\ ~made.adopted /\ made.pool = None
            /\ made.acl = a /\ ~made.rules
            /\ taken \in Record /\ taken.listed /\ taken.adopted /\ taken.pool = p
            /\ taken.acl = NoAcl /\ ~taken.rules
<1>1. /\ NoRecord \in Record /\ NoRecord.pool = None
      /\ ~NoRecord.adopted /\ NoRecord.acl = NoAcl /\ ~NoRecord.rules
  BY Empties DEF NoRecord
<1> QED
  BY <1>1 DEF Record

\* A created listener is recorded.
LEMMA AddStep == ASSUME IInv, NEW l \in LBC, StatusAddListener(l) PROVE IInv'
<1> DEFINE r == [NoRecord EXCEPT !.listed = TRUE, !.acl = NeutralOf(task[l].spec.acl)]
<1>1. TypeOK /\ Held(l) /\ task[l].spec.acl \in Acl
  BY DEF IInv, TypeOK, Want
<1>2. NeutralOf(task[l].spec.acl) \in Acl
  BY <1>1, ListenersAssumption DEF NeutralOf, Acl
<1>3. r \in Record
  BY <1>2, NewRecords
<1>4. SetRecord(l, r)
  BY DEF StatusAddListener
<1> HIDE DEF r
<1>5. seen' \in [LBC -> Listener \cup {None}] /\ seen'[l] # None
      /\ \A k \in LBC \ {l} : seen'[k] = seen[k]
  BY <1>1 DEF StatusAddListener, TypeOK
<1>6. task[l].spec.on
  BY <1>1 DEF StatusAddListener, Held, Deploying
<1> QED
  BY <1>3, <1>4, <1>5, <1>6, RecordStep DEF StatusAddListener, PC

\* A listener that is there is taken over.
LEMMA AdoptStep == ASSUME IInv, NEW l \in LBC, AdoptListener(l) PROVE IInv'
<1>1. TypeOK /\ Held(l) /\ task[l].spec.acl \in Acl /\ listener \in Listener
  BY DEF IInv, TypeOK, Want, AdoptListener
<1>2. NeutralOf(task[l].spec.acl) \in Acl /\ listener.pool \in Pool \cup {None}
  BY <1>1, ListenersAssumption DEF NeutralOf, Acl, Listener
<1>3. Adopted(l, listener) \in Record
  BY <1>1, <1>2, NewRecords DEF Adopted, TypeOK
<1>4. SetRecord(l, Adopted(l, listener))
  BY DEF AdoptListener
<1>5. seen' \in [LBC -> Listener \cup {None}] /\ seen'[l] # None
      /\ \A k \in LBC \ {l} : seen'[k] = seen[k]
  BY <1>1 DEF AdoptListener, TypeOK
<1>6. task[l].spec.on
  BY <1>1 DEF AdoptListener, Held, Deploying
<1> QED
  BY <1>3, <1>4, <1>5, <1>6, RecordStep DEF AdoptListener, PC

\* The ACL of the record is set.
LEMMA SetAcl ==
  ASSUME NEW r \in Record, NEW a \in Acl
  PROVE  /\ [r EXCEPT !.acl = a] \in Record /\ [r EXCEPT !.acl = a].acl = a
         /\ [r EXCEPT !.acl = a].listed = r.listed
         /\ [r EXCEPT !.acl = a].adopted = r.adopted
         /\ [r EXCEPT !.acl = a].pool = r.pool /\ [r EXCEPT !.acl = a].rules = r.rules
BY DEF Record

\* The fields about to be displaced are recorded.
LEMMA DisplacedStep == ASSUME IInv, NEW l \in LBC, RecordDisplaced(l) PROVE IInv'
<1> DEFINE r == task[l].rec
           a == RecordBefore(task[l].spec.acl, seen[l].acl, r.acl, Fallback(l))
<1>1. /\ TypeOK /\ Held(l) /\ task[l].spec.acl \in Acl /\ r \in Record /\ r.acl \in Acl
      /\ pc[l] = "plan"
  BY DEF IInv, TypeOK, Want, Record, RecordDisplaced
<1>2. seen[l] \in Listener /\ seen[l] # None /\ task[l].spec.on
  BY <1>1 DEF TypeOK, Held, Reading, Deploying
<1>3. a \in Acl
  BY <1>1, <1>2, AclTypes, FallbackType DEF Listener
<1>4. SetRecord(l, [r EXCEPT !.acl = a]) /\ [r EXCEPT !.acl = a] \in Record
  BY <1>1, <1>3, SetAcl DEF RecordDisplaced
<1> HIDE DEF r, a
<1> QED
  BY <1>1, <1>2, <1>4, RecordStep DEF RecordDisplaced, PC, TypeOK

\* Released fields are dropped.
LEMMA ReleasedStep == ASSUME IInv, NEW l \in LBC, RecordReleased(l) PROVE IInv'
<1> DEFINE r == task[l].rec
           a == RecordAfter(task[l].spec.acl, r.acl)
<1>1. /\ TypeOK /\ Held(l) /\ task[l].spec.acl \in Acl /\ r \in Record /\ r.acl \in Acl
      /\ pc[l] = "release" /\ task[l].spec.on
  BY DEF IInv, TypeOK, Want, Record, RecordReleased, Held, Deploying
<1>2. a \in Acl
  BY <1>1 DEF RecordAfter, Acl
<1>3. SetRecord(l, [r EXCEPT !.acl = a]) /\ [r EXCEPT !.acl = a] \in Record
  BY <1>1, <1>2, SetAcl DEF RecordReleased
<1> HIDE DEF r, a
<1> QED
  BY <1>1, <1>3, RecordStep DEF RecordReleased, PC, TypeOK, Reading, Deploying

\* The listener as an update leaves it: as it was, where nothing seemed to differ
\* from what was read, or with the pool and the fields that were sent.
Put(l, p, desired) ==
  /\ listener \in Listener /\ listener' \in Listener /\ listener'.rules = listener.rules
  /\ \/ /\ listener' = listener /\ seen[l].pool = p
        /\ \A f \in Field : desired[f] \in {None, seen[l].acl[f]}
     \/ /\ listener'.pool = p
        /\ \A f \in Field : listener'.acl[f] =
             IF desired[f] # None THEN desired[f]
             ELSE IF f = Allowed THEN seen[l].acl[f] ELSE listener.acl[f]

\* What UpdateListener sends does that.
LEMMA PutEffect ==
  ASSUME NEW l \in LBC, listener \in Listener, seen[l] \in Listener,
         NEW p \in Pool \cup {None}, NEW desired \in Acl,
         listener' = IF Differs(seen[l], p, desired)
                     THEN Updated(listener, seen[l], p, desired) ELSE listener
  PROVE  Put(l, p, desired)
<1>1. CASE Differs(seen[l], p, desired)
  <2> DEFINE new == Updated(listener, seen[l], p, desired)
  <2>1. listener' = new
    BY <1>1
  <2>2. /\ new \in Listener /\ new.pool = p /\ new.rules = listener.rules
        /\ new.acl = SentAcl(listener, seen[l], desired)
    BY UpdatedType
  <2> HIDE DEF new
  <2> QED
    BY <2>1, <2>2 DEF Put, SentAcl
<1>2. CASE ~Differs(seen[l], p, desired)
  BY <1>2 DEF Differs, Put
<1> QED
  BY <1>1, <1>2

\* The update of a listener that is wanted, ...
LEMMA UpdateEffect ==
  ASSUME IInv, NEW l \in LBC, UpdateListener(l)
  PROVE  /\ pc[l] = "put" /\ task[l].spec.on /\ seen[l] \in Listener
         /\ task[l].spec.pool \in Pool \cup {None} /\ task[l].spec.acl \in Acl
         /\ task[l].rec.acl \in Acl /\ peers[l] \in SUBSET Field
         /\ Put(l, task[l].spec.pool, Desired(task[l].spec.acl, seen[l].acl, task[l].rec.acl, peers[l]))
<1> DEFINE want == task[l].spec
           desired == Desired(want.acl, seen[l].acl, task[l].rec.acl, peers[l])
<1>1. TypeOK /\ Held(l) /\ pc[l] = "put" /\ listener \in Listener
  BY DEF IInv, TypeOK, UpdateListener
<1>2. /\ want.pool \in Pool \cup {None} /\ want.acl \in Acl /\ task[l].rec.acl \in Acl
      /\ peers[l] \in SUBSET Field /\ want.on
      /\ seen[l] \in Listener /\ seen[l] # None
  BY <1>1 DEF TypeOK, Want, Record, Held, Reading, Deploying
<1>3. desired \in Acl
  BY <1>2 DEF Desired, Acl
<1> HIDE DEF desired
<1>4. Put(l, want.pool, desired)
  BY <1>1, <1>2, <1>3, PutEffect DEF UpdateListener, desired
<1> QED
  BY <1>1, <1>2, <1>4 DEF desired

\* ... and of one that is handed back.
LEMMA RestoreEffect ==
  ASSUME IInv, NEW l \in LBC, Restore(l)
  PROVE  /\ pc[l] = "restore" /\ ~task[l].spec.on /\ seen[l] \in Listener
         /\ task[l].rec.pool \in Pool \cup {None}
         /\ task[l].rec.acl \in Acl /\ peers[l] \in SUBSET Field
         /\ Put(l, task[l].rec.pool, Desired(NoAcl, seen[l].acl, task[l].rec.acl, peers[l]))
<1> DEFINE r == task[l].rec
           desired == Desired(NoAcl, seen[l].acl, r.acl, peers[l])
<1>1. TypeOK /\ Held(l) /\ pc[l] = "restore" /\ listener \in Listener
  BY DEF IInv, TypeOK, Restore
<1>2. /\ r.pool \in Pool \cup {None} /\ r.acl \in Acl /\ peers[l] \in SUBSET Field
      /\ seen[l] \in Listener /\ seen[l] # None /\ ~task[l].spec.on
  BY <1>1 DEF TypeOK, Record, Held, Reading
<1>3. desired \in Acl
  BY <1>2, Empties DEF Desired, Acl
<1> HIDE DEF desired
<1>4. Put(l, r.pool, desired)
  BY <1>1, <1>2, <1>3, PutEffect DEF Restore, desired
<1> QED
  BY <1>1, <1>2, <1>4 DEF desired

\* The update, and the restoring.
LEMMA UpdateStep == ASSUME IInv, NEW l \in LBC, UpdateListener(l) PROVE IInv'
<1>1. pc[l] = "put" /\ task[l].spec.on /\ seen[l] \in Listener /\ listener' \in Listener
  BY UpdateEffect DEF Put
<1>2. peers' \in [LBC -> SUBSET Field] /\ seen[l] # None
  BY <1>1, Nones DEF IInv, TypeOK, UpdateListener
<1> QED
  BY <1>1, <1>2, WriteStep DEF UpdateListener, PC

\* ... likewise.
LEMMA RestoreStep == ASSUME IInv, NEW l \in LBC, Restore(l) PROVE IInv'
<1>1. pc[l] = "restore" /\ listener' \in Listener
  BY RestoreEffect DEF Put
<1>2. peers' \in [LBC -> SUBSET Field]
  BY DEF IInv, TypeOK, Restore
<1> QED
  BY <1>1, <1>2, WriteStep DEF Restore, PC, Deploying, Reading

\* The policies of an LBC come on the listener and go.
LEMMA RulesType ==
  ASSUME NEW lst \in Listener, NEW l \in LBC
  PROVE  /\ [lst EXCEPT !.rules = @ \cup {l}] \in Listener
         /\ [lst EXCEPT !.rules = @ \cup {l}].rules = lst.rules \cup {l}
         /\ [lst EXCEPT !.rules = @ \cup {l}].pool = lst.pool
         /\ [lst EXCEPT !.rules = @ \cup {l}].acl = lst.acl
         /\ [lst EXCEPT !.rules = @ \ {l}] \in Listener
         /\ [lst EXCEPT !.rules = @ \ {l}].rules = lst.rules \ {l}
         /\ [lst EXCEPT !.rules = @ \ {l}].pool = lst.pool
         /\ [lst EXCEPT !.rules = @ \ {l}].acl = lst.acl
BY DEF Listener

\* deployPolicies puts those of l on it, ...
LEMMA PoliciesEffect ==
  ASSUME IInv, NEW l \in LBC, DeployPolicies(l)
  PROVE  /\ pc[l] = "policies" /\ task[l].spec.on
         /\ listener \in Listener /\ listener' \in Listener
         /\ listener'.pool = listener.pool /\ listener'.acl = listener.acl
         /\ listener'.rules = IF task[l].spec.rules THEN listener.rules \cup {l} ELSE listener.rules
         /\ pc'[l] = IF task[l].spec.rules /\ l \notin listener.rules
                     THEN "recordPolicy" ELSE "redundant"
         /\ pc' \in [LBC -> PC] /\ \A k \in LBC \ {l} : pc'[k] = pc[k]
<1>1. TypeOK /\ Held(l) /\ pc[l] = "policies" /\ listener \in Listener /\ task[l].spec.on
  BY DEF IInv, TypeOK, DeployPolicies, Held, Deploying
<1>2. CASE task[l].spec.rules /\ l \notin listener.rules
  <2> DEFINE new == [listener EXCEPT !.rules = @ \cup {l}]
  <2>1. listener' = new /\ Goto(l, "recordPolicy")
    BY <1>2 DEF DeployPolicies
  <2>2. /\ new \in Listener /\ new.rules = listener.rules \cup {l}
        /\ new.pool = listener.pool /\ new.acl = listener.acl
    BY <1>1, RulesType
  <2> HIDE DEF new
  <2> QED
    BY <1>1, <1>2, <2>1, <2>2 DEF TypeOK, Goto, PC
<1>3. CASE ~(task[l].spec.rules /\ l \notin listener.rules)
  <2>1. listener' = listener /\ Goto(l, "redundant")
    BY <1>3 DEF DeployPolicies
  <2>2. task[l].spec.rules => listener.rules \cup {l} = listener.rules
    BY <1>3
  <2> QED
    BY <1>1, <1>3, <2>1, <2>2 DEF TypeOK, Goto, PC
<1> QED
  BY <1>2, <1>3

\* ... deployDeleteRedundantPolicies takes them off.
LEMMA StripEffect ==
  ASSUME IInv, NEW l \in LBC, Strip(l)
  PROVE  /\ pc[l] = "strip" /\ seen[l] \in Listener
         /\ listener \in Listener /\ listener' \in Listener
         /\ listener'.pool = listener.pool /\ listener'.acl = listener.acl
         /\ listener'.rules = IF task[l].rec.rules /\ ~task[l].spec.rules /\ ~Layer4
                              THEN listener.rules \ {l} ELSE listener.rules
         /\ pc'[l] = IF task[l].rec.adopted /\ ~task[l].spec.on THEN "restore" ELSE "finish"
         /\ pc' \in [LBC -> PC] /\ \A k \in LBC \ {l} : pc'[k] = pc[k]
         /\ peers' \in [LBC -> SUBSET Field] /\ \A k \in LBC \ {l} : peers'[k] = peers[k]
<1>1. /\ TypeOK /\ Held(l) /\ pc[l] = "strip" /\ listener \in Listener /\ seen[l] \in Listener
  BY DEF IInv, TypeOK, Strip, Held, Reading
<1>2. /\ pc'[l] = IF task[l].rec.adopted /\ ~task[l].spec.on THEN "restore" ELSE "finish"
      /\ pc' \in [LBC -> PC] /\ \A k \in LBC \ {l} : pc'[k] = pc[k]
  BY <1>1 DEF Strip, TypeOK, Goto, PC
<1>3. peers' \in [LBC -> SUBSET Field] /\ \A k \in LBC \ {l} : peers'[k] = peers[k]
  BY <1>1 DEF Strip, TypeOK, Declared
<1>4. CASE task[l].rec.rules /\ ~task[l].spec.rules /\ ~Layer4
  <2> DEFINE new == [listener EXCEPT !.rules = @ \ {l}]
  <2>1. listener' = new
    BY <1>4 DEF Strip
  <2>2. /\ new \in Listener /\ new.rules = listener.rules \ {l}
        /\ new.pool = listener.pool /\ new.acl = listener.acl
    BY <1>1, RulesType
  <2> HIDE DEF new
  <2> QED
    BY <1>1, <1>2, <1>3, <1>4, <2>1, <2>2
<1>5. CASE ~(task[l].rec.rules /\ ~task[l].spec.rules /\ ~Layer4)
  <2>1. listener' = listener
    BY <1>5 DEF Strip
  <2> QED
    BY <1>1, <1>2, <1>3, <1>5, <2>1
<1> QED
  BY <1>4, <1>5

\* deployPolicies.
LEMMA PoliciesStep == ASSUME IInv, NEW l \in LBC, DeployPolicies(l) PROVE IInv'
<1>1. /\ pc[l] = "policies" /\ task[l].spec.on /\ listener' \in Listener
  BY PoliciesEffect
<1>2. peers' \in [LBC -> SUBSET Field]
  BY DEF DeployPolicies, IInv, TypeOK
<1>3. CASE Goto(l, "recordPolicy")
  BY <1>1, <1>2, <1>3, WriteStep DEF DeployPolicies, PC, Reading, Deploying
<1>4. CASE Goto(l, "redundant")
  BY <1>1, <1>2, <1>4, WriteStep DEF DeployPolicies, PC, Reading, Deploying
<1> QED
  BY <1>3, <1>4 DEF DeployPolicies

\* A policy created is recorded.
LEMMA AddPolicyStep == ASSUME IInv, NEW l \in LBC, StatusAddPolicy(l) PROVE IInv'
<1>1. TypeOK /\ Held(l) /\ spec[l] \in Wanted[l] /\ rec[l] \in Record
  BY DEF IInv, TypeOK
<1>2. [rec[l] EXCEPT !.rules = TRUE] \in Record
  BY <1>1 DEF Record
<1>3. rec' = [rec EXCEPT ![l] = [rec[l] EXCEPT !.rules = TRUE]]
  BY <1>1 DEF StatusAddPolicy, TypeOK
<1>4. rec' \in [LBC -> Record]
  BY <1>1, <1>2, <1>3 DEF TypeOK
<1>5. TypeOK'
  BY <1>1, <1>4 DEF TypeOK, StatusAddPolicy, Goto, PC, cloud, history
<1>6. Held(l)' /\ spec'[l] \in Wanted[l]
  BY <1>1 DEF TypeOK, Held, StatusAddPolicy, Goto, Reading, Deploying
<1>7. \A k \in LBC \ {l} : Same(k)
  BY <1>1 DEF TypeOK, StatusAddPolicy, Goto, Same
<1> QED
  BY <1>5, <1>6, <1>7, Assemble

\* What is not wanted any more is listed.
LEMMA RedundantStep == ASSUME IInv, NEW l \in LBC, ListRedundant(l) PROVE IInv'
<1>1. TypeOK /\ Held(l) /\ spec[l] \in Wanted[l]
  BY DEF IInv
<1>2. /\ pc' \in [LBC -> PC] /\ pc'[l] \in {"finish", "delete", "strip"}
      /\ pc'[l] = "delete" => ~task[l].spec.on
      /\ pc'[l] # "finish" => listener # None
      /\ \A k \in LBC \ {l} : pc'[k] = pc[k]
  BY <1>1 DEF TypeOK, ListRedundant, Goto, PC
<1>3. TypeOK'
  BY <1>1, <1>2 DEF TypeOK, ListRedundant, cloud, object, history
<1>4. Held(l)' /\ spec'[l] \in Wanted[l]
  BY <1>1, <1>2 DEF TypeOK, Held, ListRedundant, object, Reading, Deploying
<1>5. \A k \in LBC \ {l} : Same(k)
  BY <1>1, <1>2 DEF TypeOK, ListRedundant, object, Same
<1> QED
  BY <1>3, <1>4, <1>5, Assemble

\* The listener is deleted.
LEMMA DeleteStep == ASSUME IInv, NEW l \in LBC, DeleteListener(l) PROVE IInv'
<1>1. peers' \in [LBC -> SUBSET Field]
  BY DEF IInv, TypeOK, DeleteListener
<1> QED
  BY <1>1, WriteStep DEF DeleteListener, PC, Reading, Deploying

\* Its policies go, and an adopted one is to be handed back.
LEMMA StripStep == ASSUME IInv, NEW l \in LBC, Strip(l) PROVE IInv'
<1>1. /\ pc[l] = "strip" /\ listener' \in Listener /\ seen[l] \in Listener
      /\ peers' \in [LBC -> SUBSET Field]
  BY StripEffect
<1>2. CASE task[l].rec.adopted /\ ~task[l].spec.on
  BY <1>1, <1>2, Nones, WriteStep DEF Strip, PC, Deploying
<1>3. CASE ~(task[l].rec.adopted /\ ~task[l].spec.on)
  BY <1>1, <1>3, WriteStep DEF Strip, PC, Reading, Deploying
<1> QED
  BY <1>2, <1>3

\* Members and records go, the status is rewritten.
LEMMA FinishStep == ASSUME IInv, NEW l \in LBC, Finish(l) PROVE IInv'
<1> DEFINE ps == PoolsOf(task[l].spec)
<1>1. TypeOK /\ Held(l) /\ spec[l] \in Wanted[l] /\ task[l] \in Task /\ spec[l] \in Want
  BY DEF IInv, TypeOK, Task
<1>2. ps \subseteq Pool
  BY <1>1 DEF PoolsOf, Task, Want
<1>3. tenants' \in [Pool -> SUBSET (LBC \cup {User})] /\ books' \in [LBC -> SUBSET Pool]
  BY <1>1, <1>2 DEF TypeOK, Finish
<1>4. Carried(l) \in Record
  BY <1>1 DEF Carried, Task, Record, Want
<1>5. rec' \in [LBC -> Record]
  BY <1>1, <1>4, Empties DEF TypeOK, Finish
<1>6. applied' \in [LBC -> Acl]
  BY <1>1, Empties DEF TypeOK, Finish, Want
<1>7. /\ phase' \in [LBC -> {"live", "deleting", "retiring", "gone"}]
      /\ \A k \in LBC \ {l} : phase'[k] = phase[k]
  BY <1>1 DEF TypeOK, Finish
<1>8. /\ pc' \in [LBC -> PC] /\ task' \in [LBC -> Task]
      /\ seen' \in [LBC -> Listener \cup {None}] /\ peers' \in [LBC -> SUBSET Field]
      /\ lock' \in LBC \cup {None} /\ pc'[l] = "idle"
      /\ \A k \in LBC \ {l} : /\ pc'[k] = pc[k] /\ task'[k] = task[k]
                              /\ seen'[k] = seen[k] /\ (lock = k => lock' = k)
  BY ReturnStep DEF Finish
<1>9. TypeOK'
  BY <1>1, <1>3, <1>5, <1>6, <1>7, <1>8 DEF TypeOK, Finish, Task
<1>10. Held(l)' /\ spec'[l] \in Wanted[l]
  BY <1>1, <1>8 DEF Held, Finish
<1>11. \A k \in LBC \ {l} : Same(k)
  BY <1>7, <1>8 DEF Finish, Same
<1> QED
  BY <1>9, <1>10, <1>11, Assemble

-----------------------------------------------------------------------------
(* Failures and the user. *)

\* A pass that gives up.
LEMMA GiveUpStep ==
  ASSUME IInv, NEW l \in LBC, Return(l), loose' \in BOOLEAN, faults' \in Nat,
         UNCHANGED <<cloud, object, own, users, applied, edits>>
  PROVE  IInv'
<1>1. TypeOK /\ spec[l] \in Wanted[l]
  BY DEF IInv
<1>2. /\ pc' \in [LBC -> PC] /\ task' \in [LBC -> Task]
      /\ seen' \in [LBC -> Listener \cup {None}] /\ peers' \in [LBC -> SUBSET Field]
      /\ lock' \in LBC \cup {None} /\ pc'[l] = "idle"
      /\ \A k \in LBC \ {l} : /\ pc'[k] = pc[k] /\ task'[k] = task[k]
                              /\ seen'[k] = seen[k] /\ (lock = k => lock' = k)
  BY ReturnStep
<1>3. TypeOK'
  BY <1>1, <1>2 DEF TypeOK, cloud, object, Task
<1>4. Held(l)' /\ spec'[l] \in Wanted[l]
  BY <1>1, <1>2 DEF Held, object
<1>5. \A k \in LBC \ {l} : Same(k)
  BY <1>2 DEF object, Same
<1> QED
  BY <1>3, <1>4, <1>5, Assemble

\* The listener is not there, or a call fails.
LEMMA NotFoundStep == ASSUME IInv, NEW l \in LBC, NotFound(l) PROVE IInv'
<1>1. loose' \in BOOLEAN /\ faults' \in Nat
  BY DEF IInv, TypeOK, NotFound, history
<1> QED
  BY <1>1, GiveUpStep DEF NotFound, history

\* A crash.
LEMMA CrashStep == ASSUME IInv, NEW l \in LBC, Crash(l) PROVE IInv'
<1>1. loose' \in BOOLEAN
  BY DEF IInv, TypeOK, Crash
<1>2. faults' \in Nat
  BY DEF IInv, TypeOK, Crash
<1> QED
  BY <1>1, <1>2, GiveUpStep DEF Crash

\* An edit of the annotations.
LEMMA EditStep == ASSUME IInv, NEW l \in LBC, Edit(l) PROVE IInv'
<1>1. TypeOK /\ Held(l)
  BY DEF IInv
<1>2. PICK s \in Wanted[l] \ {spec[l]} : spec' = [spec EXCEPT ![l] = s]
  BY DEF Edit
<1>3. s \in Want
  BY WantedWant
<1>4. spec' \in [LBC -> Want] /\ spec'[l] \in Wanted[l] /\ \A k \in LBC \ {l} : spec'[k] = spec[k]
  BY <1>1, <1>2, <1>3 DEF TypeOK
<1>5. applied' \in [LBC -> Acl]
  BY <1>1, Empties DEF TypeOK, Edit
<1>6. users' \in SUBSET LBC
  BY DEF Edit
<1>7. TypeOK'
  BY <1>1, <1>4, <1>5, <1>6 DEF TypeOK, Edit, cloud, run
<1>8. Held(l)'
  BY <1>1 DEF Held, Edit, run
<1>9. \A k \in LBC \ {l} : Same(k)
  BY <1>1, <1>4 DEF Edit, run, Same
<1> QED
  BY <1>4, <1>7, <1>8, <1>9, Assemble

\* A deletion, or a migration.
LEMMA LeaveStep == ASSUME IInv, NEW l \in LBC, Leave(l) PROVE IInv'
<1>1. TypeOK /\ Held(l) /\ spec[l] \in Wanted[l]
  BY DEF IInv
<1>2. applied' \in [LBC -> Acl] /\ loose' \in BOOLEAN
  BY <1>1, Empties DEF TypeOK, Leave
<1>3. /\ phase' \in [LBC -> {"live", "deleting", "retiring", "gone"}]
      /\ \A k \in LBC \ {l} : phase'[k] = phase[k]
  BY <1>1 DEF TypeOK, Leave
<1>4. TypeOK'
  BY <1>1, <1>2, <1>3 DEF TypeOK, Leave, cloud, run
<1>5. Held(l)'
  BY <1>1 DEF TypeOK, Held, Leave, run
<1>6. \A k \in LBC \ {l} : Same(k)
  BY <1>3 DEF Leave, run, Same
<1> QED
  BY <1>1, <1>4, <1>5, <1>6, Assemble DEF Leave

\* One ACL field is set.
LEMMA FieldSet ==
  ASSUME NEW lst \in Listener, NEW f \in Field, NEW v \in Value
  PROVE  LET new == [lst EXCEPT !.acl[f] = v]
         IN /\ new \in Listener /\ new.pool = lst.pool /\ new.rules = lst.rules
            /\ \A g \in Field : new.acl[g] = IF g = f THEN v ELSE lst.acl[g]
<1> DEFINE acl == [lst.acl EXCEPT ![f] = v]
<1>1. acl \in [Field -> Value] /\ \A g \in Field : acl[g] = IF g = f THEN v ELSE lst.acl[g]
  BY DEF Listener
<1>2. [lst EXCEPT !.acl[f] = v] = [lst EXCEPT !.acl = acl]
  BY DEF Listener
<1> HIDE DEF acl
<1>3. /\ [lst EXCEPT !.acl = acl] \in Listener /\ [lst EXCEPT !.acl = acl].pool = lst.pool
      /\ [lst EXCEPT !.acl = acl].rules = lst.rules /\ [lst EXCEPT !.acl = acl].acl = acl
  BY <1>1 DEF Listener
<1> QED
  BY <1>1, <1>2, <1>3

\* What the user does on the portal.
LEMMA PortalStep ==
  ASSUME IInv, PortalDelete \/ \E f \in Field, v \in Value : PortalEdit(f, v)
  PROVE  IInv'
<1>1. TypeOK
  BY DEF IInv
<1>2. /\ listener' \in Listener \cup {None} /\ own' \in Listener \cup {None}
  <2>1. ASSUME NEW f \in Field, NEW v \in Value, PortalEdit(f, v)
        PROVE  listener' \in Listener /\ own' \in Listener
    BY <1>1, <2>1, FieldSet DEF TypeOK, PortalEdit
  <2> QED
    BY <2>1 DEF PortalDelete
<1>3. loose' \in BOOLEAN
  BY <1>1 DEF TypeOK, PortalDelete, PortalEdit
<1>4. edits' \in Nat
  BY <1>1 DEF TypeOK, PortalDelete, PortalEdit
<1>5. UNCHANGED <<tenants, object, run, users, applied, faults>>
  BY DEF PortalDelete, PortalEdit
<1>6. TypeOK'
  BY <1>1, <1>2, <1>3, <1>4, <1>5 DEF TypeOK, object, run
<1> QED
  BY <1>5, <1>6 DEF IInv, Held, object, run

\* Every step keeps the invariant.
LEMMA NextIInv == IInv /\ [Next]_vars => IInv'
<1> SUFFICES ASSUME IInv, [Next]_vars PROVE IInv'
  OBVIOUS
<1>1. ASSUME NEW l \in LBC, Reconcile(l) PROVE IInv'
  BY <1>1, BeginStep, PoolsStep, CreateStep, AddStep, AdoptStep, DisplacedStep, UpdateStep,
     ReleasedStep, PoliciesStep, AddPolicyStep, RedundantStep, DeleteStep, StripStep,
     RestoreStep, FinishStep, NotFoundStep DEF Reconcile
<1>2. CASE UNCHANGED vars
  BY <1>2 DEF IInv, TypeOK, Held, vars, cloud, object, run, history
<1> QED
  BY <1>1, <1>2, CrashStep, EditStep, LeaveStep, PortalStep DEF Next

\* The listener, the records and the running reconciles of any number of LBCs
\* are well formed (deployListener, deleteRedundantListeners, the status).
THEOREM ListenersTypeCorrect == Spec => []TypeOK
<1>1. IInv => TypeOK
  BY DEF IInv
<1> QED
  BY <1>1, InitIInv, NextIInv, PTL DEF Spec

-----------------------------------------------------------------------------
(* A listener that was there first is not deleted. *)

\* Whoever has it on the books has it as adopted, and nobody is about to record a
\* listener created, or to delete one.
Adopting(l) ==
  own # None =>
    /\ rec[l].listed => rec[l].adopted
    /\ task[l].rec.listed => task[l].rec.adopted
    /\ pc[l] \notin {"record", "delete"}

KeptInv ==
  /\ UserListenerKept
  /\ own # None => Ours = {}
  /\ \A l \in LBC : Adopting(l)

\* At first nothing is on the books.
LEMMA InitKept == Init => KeptInv
<1> SUFFICES ASSUME Init PROVE KeptInv
  OBVIOUS
<1>1. own # None => Ours = {}
  BY ListenersAssumption DEF Init
<1>2. ~NoRecord.listed
  BY DEF NoRecord
<1> QED
  BY <1>1, <1>2, Empties DEF Init, KeptInv, UserListenerKept, Adopting

\* A step of l that leaves the others' books and reconciles alone, and the
\* listener in place, keeps the invariant if l's own books are right after it.
LEMMA KeptFrame ==
  ASSUME KeptInv, NEW l \in LBC, UNCHANGED own, own # None => listener' # None /\ Adopting(l)',
         \A k \in LBC \ {l} : rec'[k] = rec[k] /\ task'[k] = task[k] /\ pc'[k] = pc[k]
  PROVE  KeptInv'
BY DEF KeptInv, UserListenerKept, Adopting

\* The steps of a reconcile that leave its records alone.
LEMMA KeptPlain ==
  ASSUME IInv, KeptInv, NEW l \in LBC,
         \/ Begin(l) \/ DeployPools(l) \/ CreateListener(l) \/ UpdateListener(l)
         \/ DeployPolicies(l) \/ ListRedundant(l) \/ DeleteListener(l) \/ Strip(l) \/ Restore(l)
  PROVE  KeptInv'
<1>1. TypeOK /\ Adopting(l) /\ (own # None => listener # None)
  BY DEF IInv, KeptInv, UserListenerKept
<1>2. CASE Begin(l)
  BY <1>1, <1>2, KeptFrame DEF TypeOK, Begin, Goto, Adopting, cloud, object, history
<1>3. CASE DeployPools(l)
  BY <1>1, <1>3, KeptFrame DEF TypeOK, DeployPools, Goto, Adopting, history
<1>4. CASE CreateListener(l)
  BY <1>1, <1>4, KeptFrame DEF TypeOK, CreateListener, Goto, object, history
<1>5. CASE UpdateListener(l)
  <2>1. listener' # None
    BY <1>5, UpdateEffect, Nones DEF Put
  <2> QED
    BY <1>1, <1>5, <2>1, KeptFrame DEF TypeOK, UpdateListener, Goto, Adopting, object, history
<1>6. CASE DeployPolicies(l)
  <2>1. /\ listener' # None /\ pc'[l] \notin {"record", "delete"}
        /\ \A k \in LBC \ {l} : pc'[k] = pc[k]
    BY <1>6, PoliciesEffect, Nones
  <2> QED
    BY <1>1, <1>6, <2>1, KeptFrame DEF DeployPolicies, Adopting, object, history
<1>7. CASE ListRedundant(l)
  BY <1>1, <1>7, KeptFrame DEF TypeOK, ListRedundant, Goto, Adopting, cloud, object, history
<1>8. CASE DeleteListener(l)
  BY <1>1, <1>8, KeptFrame DEF TypeOK, DeleteListener, Goto, Adopting, object, history
<1>9. CASE Strip(l)
  <2>1. /\ listener' # None /\ pc'[l] \notin {"record", "delete"}
        /\ \A k \in LBC \ {l} : pc'[k] = pc[k]
    BY <1>9, StripEffect, Nones
  <2> QED
    BY <1>1, <1>9, <2>1, KeptFrame DEF Strip, Adopting, object, history
<1>10. CASE Restore(l)
  <2>1. listener' # None
    BY <1>10, RestoreEffect, Nones DEF Put
  <2> QED
    BY <1>1, <1>10, <2>1, KeptFrame DEF TypeOK, Restore, Goto, Adopting, object, history
<1> QED
  BY <1>2, <1>3, <1>4, <1>5, <1>6, <1>7, <1>8, <1>9, <1>10

\* A record of a listener that is there stays one of an adopted listener.
LEMMA KeptRecord ==
  ASSUME IInv, KeptInv, NEW l \in LBC, NEW r \in Record, SetRecord(l, r),
         NEW step \in PC \ {"record", "delete"}, Goto(l, step), UNCHANGED <<cloud, history>>,
         own # None => (r.listed => r.adopted)
  PROVE  KeptInv'
<1>1. TypeOK
  BY DEF IInv
<1>2. /\ rec'[l] = [r EXCEPT !.rules = rec[l].rules]
      /\ task'[l].rec = [r EXCEPT !.rules = task[l].rec.rules]
      /\ \A k \in LBC \ {l} : rec'[k] = rec[k] /\ task'[k] = task[k]
  BY SetRecordStep
<1>3. /\ rec'[l].listed = r.listed /\ rec'[l].adopted = r.adopted
      /\ task'[l].rec.listed = r.listed /\ task'[l].rec.adopted = r.adopted
  BY <1>2 DEF Record
<1>4. pc'[l] = step /\ \A k \in LBC \ {l} : pc'[k] = pc[k]
  BY <1>1 DEF TypeOK, Goto
<1> QED
  BY <1>2, <1>3, <1>4, KeptFrame DEF KeptInv, UserListenerKept, Adopting, cloud, history

\* The steps that write one.
LEMMA KeptRecorded ==
  ASSUME IInv, KeptInv, NEW l \in LBC,
         \/ StatusAddListener(l) \/ AdoptListener(l) \/ RecordDisplaced(l) \/ RecordReleased(l)
         \/ StatusAddPolicy(l)
  PROVE  KeptInv'
<1>1. TypeOK /\ Held(l) /\ Adopting(l) /\ task[l].rec \in Record /\ task[l].rec.acl \in Acl
      /\ task[l].spec.acl \in Acl
  BY DEF IInv, KeptInv, TypeOK, Record, Want
<1>2. CASE StatusAddListener(l)
  <2> DEFINE r == [NoRecord EXCEPT !.listed = TRUE, !.acl = NeutralOf(task[l].spec.acl)]
  <2>1. NeutralOf(task[l].spec.acl) \in Acl
    BY <1>1, ListenersAssumption DEF NeutralOf, Acl
  <2>2. r \in Record
    BY <2>1, NewRecords
  <2>3. SetRecord(l, r) /\ own = None
    BY <1>1, <1>2 DEF StatusAddListener, Adopting
  <2> HIDE DEF r
  <2> QED
    BY <1>2, <2>2, <2>3, KeptRecord DEF StatusAddListener, PC
<1>3. CASE AdoptListener(l)
  <2>1. NeutralOf(task[l].spec.acl) \in Acl /\ listener.pool \in Pool \cup {None}
    BY <1>1, <1>3, ListenersAssumption DEF NeutralOf, Acl, Listener, AdoptListener, TypeOK
  <2>2. /\ Adopted(l, listener) \in Record
        /\ own # None => (Adopted(l, listener).listed => Adopted(l, listener).adopted)
    BY <1>1, <2>1, NewRecords DEF Adopted, TypeOK, KeptInv, Adopting
  <2> QED
    BY <1>3, <2>2, KeptRecord DEF AdoptListener, PC
<1>4. CASE RecordDisplaced(l)
  <2> DEFINE a == RecordBefore(task[l].spec.acl, seen[l].acl, task[l].rec.acl, Fallback(l))
             r == [task[l].rec EXCEPT !.acl = a]
  <2>1. seen[l] \in Listener
    BY <1>1, <1>4 DEF RecordDisplaced, TypeOK, Held, Reading
  <2>2. a \in Acl
    BY <1>1, <2>1, AclTypes, FallbackType DEF Listener
  <2>3. r \in Record /\ r.listed = task[l].rec.listed /\ r.adopted = task[l].rec.adopted
    BY <1>1, <2>2, SetAcl
  <2>4. SetRecord(l, r)
    BY <1>4 DEF RecordDisplaced
  <2> HIDE DEF r
  <2> QED
    BY <1>1, <1>4, <2>3, <2>4, KeptRecord DEF RecordDisplaced, PC, Adopting
<1>5. CASE RecordReleased(l)
  <2> DEFINE a == RecordAfter(task[l].spec.acl, task[l].rec.acl)
             r == [task[l].rec EXCEPT !.acl = a]
  <2>1. a \in Acl
    BY <1>1 DEF RecordAfter, Acl
  <2>2. r \in Record /\ r.listed = task[l].rec.listed /\ r.adopted = task[l].rec.adopted
    BY <1>1, <2>1, SetAcl
  <2>3. SetRecord(l, r)
    BY <1>5 DEF RecordReleased
  <2> HIDE DEF r
  <2> QED
    BY <1>1, <1>5, <2>2, <2>3, KeptRecord DEF RecordReleased, PC, Adopting
<1>6. CASE StatusAddPolicy(l)
  <2>1. rec'[l].listed = rec[l].listed /\ rec'[l].adopted = rec[l].adopted
    BY <1>1, <1>6 DEF StatusAddPolicy, TypeOK, Record
  <2>2. \A k \in LBC \ {l} : rec'[k] = rec[k] /\ task'[k] = task[k] /\ pc'[k] = pc[k]
    BY <1>1, <1>6 DEF StatusAddPolicy, TypeOK, Goto
  <2>3. pc'[l] = "redundant"
    BY <1>1, <1>6 DEF StatusAddPolicy, TypeOK, Goto
  <2> QED
    BY <1>1, <1>6, <2>1, <2>2, <2>3, KeptFrame
    DEF KeptInv, UserListenerKept, Adopting, StatusAddPolicy, cloud, history
<1> QED
  BY <1>2, <1>3, <1>4, <1>5, <1>6

\* The end of a pass, complete or not.
LEMMA KeptReturn ==
  ASSUME IInv, KeptInv, NEW l \in LBC, Return(l), UNCHANGED <<listener, own>>,
         \A k \in LBC \ {l} : rec'[k] = rec[k],
         own # None => (rec'[l].listed => rec'[l].adopted)
  PROVE  KeptInv'
<1>1. /\ pc'[l] = "idle" /\ task'[l] = NoTask /\ ~NoTask.rec.listed
      /\ \A k \in LBC \ {l} : pc'[k] = pc[k] /\ task'[k] = task[k]
  BY ReturnStep DEF NoTask, NoRecord
<1> QED
  BY <1>1, KeptFrame DEF KeptInv, UserListenerKept, Adopting

\* Every step keeps what was there first.
LEMMA NextKept == IInv /\ KeptInv /\ [Next]_vars => KeptInv'
<1> SUFFICES ASSUME IInv, KeptInv, [Next]_vars PROVE KeptInv'
  OBVIOUS
<1>1. TypeOK
  BY DEF IInv
<1>2. ASSUME NEW l \in LBC, Reconcile(l) PROVE KeptInv'
  <2>1. CASE Finish(l)
    <3>1. Adopting(l)
      BY DEF KeptInv
    <3>2. /\ Carried(l).listed = task[l].rec.listed
          /\ Carried(l).adopted = task[l].rec.adopted /\ ~NoRecord.listed
      BY <1>1 DEF Carried, TypeOK, Record, NoRecord
    <3>3. /\ own # None => (rec'[l].listed => rec'[l].adopted)
          /\ \A k \in LBC \ {l} : rec'[k] = rec[k]
      BY <1>1, <2>1, <3>1, <3>2 DEF TypeOK, Finish, Adopting
    <3> QED
      BY <2>1, <3>3, KeptReturn DEF Finish
  <2>2. CASE NotFound(l)
    BY <2>2, KeptReturn DEF NotFound, cloud, object, history, KeptInv, Adopting
  <2> QED
    BY <1>2, <2>1, <2>2, KeptPlain, KeptRecorded DEF Reconcile
<1>3. ASSUME NEW l \in LBC, Crash(l) PROVE KeptInv'
  BY <1>3, KeptReturn DEF Crash, cloud, object, KeptInv, Adopting
<1>4. ASSUME NEW l \in LBC, Edit(l) \/ Leave(l) PROVE KeptInv'
  BY <1>4 DEF Edit, Leave, KeptInv, UserListenerKept, Adopting, cloud, run
<1>5. ASSUME NEW f \in Field, NEW v \in Value, PortalEdit(f, v) PROVE KeptInv'
  <2>1. listener' # None /\ own # None
    BY <1>1, <1>5, FieldSet, Nones DEF TypeOK, PortalEdit
  <2> QED
    BY <1>5, <2>1 DEF PortalEdit, KeptInv, UserListenerKept, Adopting, object, run
<1>6. CASE PortalDelete
  BY <1>6 DEF PortalDelete, KeptInv, UserListenerKept, Adopting
<1>7. CASE UNCHANGED vars
  BY <1>7 DEF KeptInv, UserListenerKept, Adopting, vars, cloud, object, run, history
<1> QED
  BY <1>2, <1>3, <1>4, <1>5, <1>6, <1>7 DEF Next

\* A listener that was on the port before the LBCs is never deleted by them,
\* however many share it and whatever they were interrupted at
\* (statusAdoptListener, carryAdoption).
THEOREM UserListenerSafe == Spec => []UserListenerKept
<1>1. KeptInv => UserListenerKept
  BY DEF KeptInv
<1> QED
  BY <1>1, InitIInv, NextIInv, InitKept, NextKept, PTL DEF Spec

-----------------------------------------------------------------------------
(* The ACL fields others declare. *)

\* What an LBC has deployed is what its spec has, and what its reconcile works for.
Applied(l) ==
  \A f \in Field : applied[l][f] # None =>
    /\ phase[l] = "live" /\ spec[l].on /\ spec[l].acl[f] = applied[l][f]
    /\ pc[l] # "idle" => task[l].spec = spec[l]

\* A reconcile under the mutex contradicts no field another LBC has deployed, and
\* knows it as declared when it may release one.
Respects(k) ==
  pc[k] # "idle" /\ phase[k] # "retiring" =>
    \A l \in LBC \ {k}, f \in Field \ {Allowed} : applied[l][f] # None =>
      /\ task[k].spec.acl[f] \in {None, applied[l][f]}
      /\ ~task[k].leaving \/ pc[k] = "restore" => f \in peers[k]

AclInv == \A l \in LBC : Applied(l) /\ Respects(l)

\* Nothing is deployed at first.
LEMMA InitAcl == Init => AclInv
BY Empties DEF Init, AclInv, Applied, Respects

\* A step of l that deploys nothing new keeps the invariant if l's own part of it
\* holds afterwards.
LEMMA AclFrame ==
  ASSUME AclInv, NEW l \in LBC, Applied(l)', Respects(l)',
         \A f \in Field : applied'[l][f] \in {None, applied[l][f]},
         \A k \in LBC \ {l} :
           /\ spec'[k] = spec[k] /\ phase'[k] = phase[k] /\ pc'[k] = pc[k]
           /\ task'[k] = task[k] /\ peers'[k] = peers[k] /\ applied'[k] = applied[k]
  PROVE  AclInv'
<1>1. ASSUME NEW k \in LBC \ {l} PROVE Applied(k)' /\ Respects(k)'
  <2>1. Applied(k) /\ Respects(k)
    BY DEF AclInv
  <2>2. Applied(k)'
    BY <2>1 DEF Applied
  <2>3. \A j \in LBC, f \in Field : applied'[j][f] \in {None, applied[j][f]}
    OBVIOUS
  <2>4. Respects(k)'
    BY <2>1, <2>3 DEF Respects
  <2> QED
    BY <2>2, <2>4
<1> QED
  BY <1>1 DEF AclInv

\* A field that is deployed is declared, for everybody else.
LEMMA DeployedDeclared ==
  ASSUME AclInv, NEW l \in LBC, NEW k \in LBC \ {l}, NEW f \in Field, applied[l][f] # None
  PROVE  l \in Sharing /\ spec[l].on /\ spec[l].acl[f] = applied[l][f] /\ f \in Declared(k)
BY DEF AclInv, Applied, Sharing, Declared

\* A reconcile begins where no two specs contradict one another.
LEMMA AclBegin == ASSUME IInv, AclInv, NEW l \in LBC, Begin(l) PROVE AclInv'
<1> DEFINE leaving == phase[l] # "live"
<1>1. TypeOK /\ Applied(l) /\ spec[l] \in Wanted[l]
  BY DEF IInv, AclInv
<1>2. /\ task'[l].spec = (IF leaving THEN NoWant ELSE spec[l]) /\ task'[l].leaving = leaving
      /\ peers'[l] = (IF leaving THEN {} ELSE Declared(l)) /\ pc'[l] # "restore"
      /\ UNCHANGED <<spec, phase, applied>>
  BY <1>1 DEF TypeOK, Begin, Goto, object, history
<1>3. \A k \in LBC \ {l} : pc'[k] = pc[k] /\ task'[k] = task[k] /\ peers'[k] = peers[k]
  BY <1>1 DEF TypeOK, Begin, Goto
<1>4. Applied(l)'
  BY <1>1, <1>2 DEF Applied
<1>5. Respects(l)'
  <2> SUFFICES ASSUME NEW k \in LBC \ {l}, NEW f \in Field \ {Allowed}, applied[k][f] # None
               PROVE  /\ task'[l].spec.acl[f] \in {None, applied[k][f]}
                      /\ ~task'[l].leaving => f \in peers'[l]
    BY <1>2 DEF Respects
  <2>1. k \in Sharing /\ spec[k].on /\ spec[k].acl[f] = applied[k][f] /\ f \in Declared(l)
    BY DeployedDeclared
  <2>2. NoWant.acl[f] = None
    BY Empties DEF NoWant
  <2>3. CASE leaving
    BY <1>2, <2>2, <2>3
  <2>4. CASE ~leaving
    <3>1. ~Conflict /\ l \in Sharing
      BY <2>4 DEF Begin, Sharing
    <3>2. spec[l].on \/ spec[l] = NoWant
      BY <1>1, WantedWant
    <3>3. spec[l].on => spec[l].acl[f] \in {None, spec[k].acl[f]}
      BY <2>1, <3>1 DEF Conflict
    <3> QED
      BY <1>2, <2>1, <2>2, <2>4, <3>2, <3>3
  <2> QED
    BY <2>3, <2>4
<1> QED
  BY <1>2, <1>3, <1>4, <1>5, AclFrame

\* The steps that go on with the same task.
LEMMA AclPlain ==
  ASSUME IInv, AclInv, NEW l \in LBC, pc[l] # "idle", pc'[l] # "idle", pc'[l] # "restore",
         task'[l].spec = task[l].spec, task'[l].leaving = task[l].leaving,
         peers'[l] = peers[l], UNCHANGED <<spec, phase, applied>>,
         \A k \in LBC \ {l} : pc'[k] = pc[k] /\ task'[k] = task[k] /\ peers'[k] = peers[k]
  PROVE  AclInv'
<1>1. Applied(l) /\ Respects(l)
  BY DEF AclInv
<1>2. Applied(l)'
  BY <1>1 DEF Applied
<1>3. Respects(l)'
  BY <1>1 DEF Respects
<1> QED
  BY <1>2, <1>3, AclFrame

\* The steps of a pass under way.
LEMMA AclOn ==
  ASSUME IInv, AclInv, NEW l \in LBC,
         \/ DeployPools(l) \/ CreateListener(l) \/ UpdateListener(l) \/ DeployPolicies(l)
         \/ ListRedundant(l) \/ DeleteListener(l) \/ Restore(l) \/ StatusAddPolicy(l)
         \/ StatusAddListener(l) \/ AdoptListener(l) \/ RecordDisplaced(l) \/ RecordReleased(l)
  PROVE  AclInv'
<1>1. TypeOK
  BY DEF IInv
<1>2. /\ pc[l] # "idle" /\ pc'[l] # "idle" /\ pc'[l] # "restore"
      /\ \A k \in LBC \ {l} : pc'[k] = pc[k]
  BY <1>1 DEF TypeOK, Goto, DeployPools, CreateListener, UpdateListener, DeployPolicies,
     ListRedundant, DeleteListener, Restore, StatusAddPolicy, StatusAddListener, AdoptListener,
     RecordDisplaced, RecordReleased
<1>3. UNCHANGED <<spec, phase, applied, peers>>
  BY DEF DeployPools, CreateListener, UpdateListener, DeployPolicies, ListRedundant,
     DeleteListener, Restore, StatusAddPolicy, StatusAddListener, AdoptListener,
     RecordDisplaced, RecordReleased, object, history
<1>4. /\ task'[l].spec = task[l].spec /\ task'[l].leaving = task[l].leaving
      /\ \A k \in LBC \ {l} : task'[k] = task[k]
  <2>1. CASE UNCHANGED task
    BY <2>1
  <2>2. ASSUME NEW r, SetRecord(l, r)
        PROVE  /\ task'[l].spec = task[l].spec /\ task'[l].leaving = task[l].leaving
               /\ \A k \in LBC \ {l} : task'[k] = task[k]
    <3> DEFINE b == [r EXCEPT !.rules = task[l].rec.rules]
    <3>1. task' = [task EXCEPT ![l] = [task[l] EXCEPT !.rec = b]] /\ task[l] \in Task
      BY <1>1, <2>2 DEF SetRecord, TypeOK, Task
    <3> HIDE DEF b
    <3>2. task'[l] = [task[l] EXCEPT !.rec = b] /\ \A k \in LBC \ {l} : task'[k] = task[k]
      BY <1>1, <3>1 DEF TypeOK
    <3> QED
      BY <3>1, <3>2 DEF Task
  <2> QED
    BY <2>1, <2>2 DEF DeployPools, CreateListener, UpdateListener, DeployPolicies,
       ListRedundant, DeleteListener, Restore, StatusAddPolicy, StatusAddListener,
       AdoptListener, RecordDisplaced, RecordReleased
<1> QED
  BY <1>2, <1>3, <1>4, AclPlain

\* Before a listener is handed back, what others declare is listed anew.
LEMMA AclStrip == ASSUME IInv, AclInv, NEW l \in LBC, Strip(l) PROVE AclInv'
<1>1. TypeOK /\ Applied(l) /\ Respects(l)
  BY DEF IInv, AclInv
<1>2. /\ pc[l] = "strip" /\ pc'[l] # "idle"
      /\ pc'[l] = "restore" => task[l].rec.adopted /\ ~task[l].spec.on
      /\ \A k \in LBC \ {l} : pc'[k] = pc[k] /\ peers'[k] = peers[k]
  BY StripEffect
<1>3. /\ peers'[l] = IF task[l].rec.adopted /\ ~task[l].spec.on THEN Declared(l) ELSE peers[l]
      /\ UNCHANGED <<spec, phase, applied, task>>
  BY <1>1 DEF TypeOK, Strip, object, history
<1>4. Applied(l)'
  BY <1>1, <1>2, <1>3 DEF Applied
<1>5. \A k \in LBC \ {l}, f \in Field \ {Allowed} : applied[k][f] # None => f \in Declared(l)
  BY DeployedDeclared
<1>6. Respects(l)'
  BY <1>1, <1>2, <1>3, <1>5 DEF Respects
<1> QED
  BY <1>2, <1>3, <1>4, <1>6, AclFrame

\* The end of a pass: what was deployed is on the books of the history.
LEMMA AclFinish == ASSUME IInv, AclInv, NEW l \in LBC, Finish(l) PROVE AclInv'
<1>1. TypeOK /\ Held(l) /\ spec[l] \in Wanted[l] /\ pc[l] = "finish"
  BY DEF IInv, Finish
<1>2. /\ pc'[l] = "idle"
      /\ \A k \in LBC \ {l} : pc'[k] = pc[k] /\ task'[k] = task[k]
  BY ReturnStep DEF Finish
<1>3. /\ \A k \in LBC \ {l} : peers'[k] = peers[k] /\ phase'[k] = phase[k] /\ applied'[k] = applied[k]
      /\ phase'[l] = (IF task[l].leaving THEN "gone" ELSE phase[l])
      /\ applied'[l] = IF phase[l] = "live" /\ spec[l] = task[l].spec THEN spec[l].acl ELSE NoAcl
      /\ UNCHANGED spec
  BY <1>1 DEF TypeOK, Finish, Return
<1>4. spec[l].on \/ \A f \in Field : spec[l].acl[f] = None
  BY <1>1, WantedWant, Empties DEF NoWant
<1>5. Applied(l)'
  BY <1>1, <1>2, <1>3, <1>4, Empties DEF Applied, Held
<1>6. ASSUME NEW k \in LBC \ {l} PROVE Applied(k)' /\ Respects(k)'
  <2>1. Applied(k) /\ Respects(k) /\ Held(k)
    BY DEF AclInv, IInv
  <2>2. Applied(k)'
    BY <1>2, <1>3, <2>1 DEF Applied
  <2>3. CASE phase[l] = "live"
    <3>1. lock = l
      BY <1>1, <2>3 DEF Held
    <3>2. pc[k] = "idle" \/ phase[k] = "retiring"
      BY <2>1, <3>1 DEF Held
    <3> QED
      BY <1>2, <1>3, <2>2, <3>2 DEF Respects
  <2>4. CASE phase[l] # "live"
    <3>1. \A j \in LBC, f \in Field : applied'[j][f] \in {None, applied[j][f]}
      BY <1>3, <2>4, Empties
    <3> QED
      BY <1>2, <1>3, <2>1, <2>2, <3>1 DEF Respects
  <2> QED
    BY <2>3, <2>4
<1> QED
  BY <1>2, <1>5, <1>6 DEF AclInv, Respects

\* A pass that gives up, an edit, a deletion or a migration.
LEMMA AclGiveUp ==
  ASSUME IInv, AclInv, NEW l \in LBC, NotFound(l) \/ Crash(l) \/ Edit(l) \/ Leave(l)
  PROVE  AclInv'
<1>1. TypeOK /\ Applied(l) /\ Respects(l)
  BY DEF IInv, AclInv
<1>2. CASE NotFound(l) \/ Crash(l)
  <2>1. /\ pc'[l] = "idle"
        /\ \A k \in LBC \ {l} : pc'[k] = pc[k] /\ task'[k] = task[k]
    BY <1>2, ReturnStep DEF NotFound, Crash
  <2>2. \A k \in LBC \ {l} : peers'[k] = peers[k]
    BY <1>1, <1>2 DEF TypeOK, NotFound, Crash, Return
  <2>3. UNCHANGED <<spec, phase, applied>>
    BY <1>2 DEF NotFound, Crash, object, history
  <2>4. Applied(l)' /\ Respects(l)'
    BY <1>1, <2>1, <2>3 DEF Applied, Respects
  <2> QED
    BY <2>1, <2>2, <2>3, <2>4, AclFrame
<1>3. CASE Edit(l) \/ Leave(l)
  <2>1. UNCHANGED <<pc, task, peers>>
    BY <1>3 DEF Edit, Leave, run
  <2>2. /\ \A f \in Field : applied'[l][f] = None
        /\ \A k \in LBC \ {l} : applied'[k] = applied[k] /\ spec'[k] = spec[k] /\ phase'[k] = phase[k]
    BY <1>1, <1>3, Empties DEF TypeOK, Edit, Leave
  <2>3. pc[l] # "idle" /\ phase'[l] # "retiring" => phase[l] # "retiring"
    BY <1>1, <1>3 DEF TypeOK, Edit, Leave
  <2>4. Applied(l)'
    BY <2>2 DEF Applied
  <2>5. Respects(l)'
    BY <1>1, <2>1, <2>2, <2>3 DEF Respects
  <2> QED
    BY <2>1, <2>2, <2>4, <2>5, AclFrame
<1> QED
  BY <1>2, <1>3

\* Every step.
LEMMA NextAcl == IInv /\ AclInv /\ [Next]_vars => AclInv'
<1> SUFFICES ASSUME IInv, AclInv, [Next]_vars PROVE AclInv'
  OBVIOUS
<1>1. ASSUME NEW l \in LBC, Reconcile(l) PROVE AclInv'
  BY <1>1, AclBegin, AclOn, AclStrip, AclFinish, AclGiveUp DEF Reconcile
<1>2. CASE PortalDelete \/ \E f \in Field, v \in Value : PortalEdit(f, v)
  <2>1. UNCHANGED <<spec, phase, pc, task, peers, applied>>
    BY <1>2 DEF PortalDelete, PortalEdit, object, run
  <2> QED
    BY <2>1 DEF AclInv, Applied, Respects
<1>3. CASE UNCHANGED vars
  BY <1>3 DEF AclInv, Applied, Respects, vars, object, run, history
<1> QED
  BY <1>1, <1>2, <1>3, AclGiveUp DEF Next

\* A step under the mutex that writes the listener leaves the field of another.
LEMMA AclWritten ==
  ASSUME IInv, AclInv, [Next]_vars, NEW l \in LBC, NEW f \in Field \ {Allowed},
         \A k \in LBC : phase[k] = "retiring" => pc[k] = "idle",
         applied[l][f] # None, listener # None, listener' # None,
         listener.acl[f] = applied[l][f], edits' = edits
  PROVE  listener'.acl[f] = listener.acl[f]
<1>1. TypeOK /\ Applied(l) /\ f \in Field /\ f # Allowed
  BY DEF IInv, AclInv
<1>2. ASSUME NEW k \in LBC, UpdateListener(k) PROVE listener'.acl[f] = listener.acl[f]
  <2> DEFINE desired == Desired(task[k].spec.acl, seen[k].acl, task[k].rec.acl, peers[k])
  <2>1. /\ pc[k] = "put" /\ task[k].spec.on /\ Put(k, task[k].spec.pool, desired)
    BY <1>2, UpdateEffect
  <2>2. /\ task[k].spec.acl[f] \in {None, applied[l][f]}
        /\ task[k].spec.acl[f] = None => f \in peers[k]
    <3>1. CASE k = l
      BY <1>1, <2>1, <3>1 DEF Applied
    <3>2. CASE k # l
      <4>1. Held(k) /\ Respects(k) /\ phase[k] # "retiring" /\ ~NoWant.on
        BY <2>1 DEF IInv, AclInv, NoWant
      <4> QED
        BY <2>1, <3>2, <4>1 DEF Held, Respects
    <3> QED
      BY <3>1, <3>2
  <2>3. desired[f] \in {None, listener.acl[f]}
    BY <1>1, <2>2 DEF Desired
  <2> HIDE DEF desired
  <2> QED
    BY <1>1, <2>1, <2>3 DEF Put
<1>3. ASSUME NEW k \in LBC, Restore(k) PROVE listener'.acl[f] = listener.acl[f]
  <2> DEFINE desired == Desired(NoAcl, seen[k].acl, task[k].rec.acl, peers[k])
  <2>1. pc[k] = "restore" /\ ~task[k].spec.on /\ Put(k, task[k].rec.pool, desired)
    BY <1>3, RestoreEffect
  <2>2. k # l /\ Respects(k) /\ phase[k] # "retiring"
    BY <1>1, <2>1 DEF AclInv, Applied
  <2>3. f \in peers[k]
    BY <2>1, <2>2 DEF Respects
  <2>4. desired[f] = None
    BY <1>1, <2>3, Empties DEF Desired
  <2> HIDE DEF desired
  <2> QED
    BY <1>1, <2>1, <2>4 DEF Put
<1>4. ASSUME NEW k \in LBC, DeployPolicies(k) \/ Strip(k) PROVE listener'.acl[f] = listener.acl[f]
  BY <1>4, PoliciesEffect, StripEffect
<1>5. ASSUME NEW k \in LBC, DeleteListener(k) \/ CreateListener(k) PROVE FALSE
  BY <1>5 DEF DeleteListener, CreateListener
<1>6. CASE UNCHANGED listener
  BY <1>6
<1>7. ASSUME NEW g \in Field, NEW v \in Value, PortalEdit(g, v) PROVE FALSE
  BY <1>1, <1>7 DEF PortalEdit, TypeOK
<1>8. CASE PortalDelete
  BY <1>1, <1>8 DEF PortalDelete, TypeOK
<1>9. ASSUME NEW k \in LBC, Reconcile(k) PROVE listener'.acl[f] = listener.acl[f]
  BY <1>2, <1>3, <1>4, <1>5, <1>6, <1>9 DEF Reconcile, Begin, DeployPools, StatusAddListener,
     AdoptListener, RecordDisplaced, RecordReleased, StatusAddPolicy, ListRedundant, Finish,
     NotFound, cloud
<1>10. ASSUME NEW k \in LBC, Crash(k) \/ Edit(k) \/ Leave(k) PROVE listener'.acl[f] = listener.acl[f]
  BY <1>6, <1>10 DEF Crash, Edit, Leave, cloud
<1>11. CASE UNCHANGED vars
  BY <1>6, <1>11 DEF vars, cloud
<1> QED
  BY <1>7, <1>8, <1>9, <1>10, <1>11 DEF Next

\* An ACL field that an LBC has deployed and still declares is changed by no
\* other LBC of any number, whichever release it, leave or are interrupted,
\* while no teardown of a migration is under way (planListenerAcl,
\* collectAclPeers).
THEOREM AclStaysDeployed == Spec => AclStable
<1>1. IInv /\ AclInv /\ [Next]_vars =>
        [\A l \in LBC, f \in Field \ {Allowed} :
           /\ \A k \in LBC : phase[k] = "retiring" => pc[k] = "idle"
           /\ applied[l][f] # None /\ listener # None /\ listener' # None
           /\ listener.acl[f] = applied[l][f] /\ edits' = edits
           => listener'.acl[f] = listener.acl[f]]_vars
  BY AclWritten
<1> QED
  BY <1>1, InitIInv, NextIInv, InitAcl, NextAcl, PTL DEF Spec, AclStable

-----------------------------------------------------------------------------
(* A listener that serves another LBC is not deleted. *)

\* Nobody migrates, and a listener about to be deleted is used by its LBC alone.
Sole(l) ==
  /\ phase[l] # "retiring"
  /\ pc[l] = "delete" /\ listener # None =>
       /\ listener.rules \subseteq {l}
       /\ listener.pool # None => tenants[listener.pool] \subseteq {l}

SoleInv == \A l \in LBC : Sole(l)

\* While one reconcile runs no other does.
LEMMA Alone ==
  ASSUME IInv, SoleInv, NEW l \in LBC, pc[l] # "idle" \/ lock = None
  PROVE  \A k \in LBC \ {l} : pc[k] = "idle"
BY Nones DEF IInv, SoleInv, Sole, Held

\* Where the others are idle, only the reconcile that steps matters.
LEMMA SoleFrame ==
  ASSUME IInv, SoleInv, NEW l \in LBC, pc[l] # "idle" \/ lock = None,
         \A k \in LBC \ {l} : pc'[k] = pc[k], \A k \in LBC : phase'[k] # "retiring",
         pc'[l] = "delete" => Sole(l)'
  PROVE  SoleInv'
BY Alone DEF SoleInv, Sole

\* canDeleteWholeListener finds it so, and the mutex keeps it so.
LEMMA SoleListed ==
  ASSUME ~Layer4, IInv, SoleInv, NEW l \in LBC, ListRedundant(l)
  PROVE  SoleInv'
<1>1. TypeOK /\ pc[l] = "redundant"
  BY DEF IInv, ListRedundant
<1>2. \A k \in LBC \ {l} : pc'[k] = pc[k]
  BY <1>1 DEF TypeOK, ListRedundant, Goto
<1>3. pc'[l] = "delete" => listener # None /\ CanDeleteWhole(l, listener)
  BY <1>1 DEF TypeOK, ListRedundant, Goto
<1>4. pc'[l] = "delete" => Sole(l)'
  BY <1>3 DEF CanDeleteWhole, ListRedundant, Sole, SoleInv, cloud, object
<1> QED
  BY <1>1, <1>2, <1>4, SoleFrame DEF ListRedundant, object, SoleInv, Sole

\* Every other step.
LEMMA NextSole ==
  ASSUME ~Layer4, Repins = {}
  PROVE  IInv /\ SoleInv /\ [Next]_vars => SoleInv'
<1> SUFFICES ASSUME IInv, SoleInv, [Next]_vars PROVE SoleInv'
  OBVIOUS
<1>1. TypeOK
  BY DEF IInv
<1>2. ASSUME NEW l \in LBC,
             \/ Begin(l) \/ DeployPools(l) \/ CreateListener(l) \/ StatusAddListener(l)
             \/ AdoptListener(l) \/ RecordDisplaced(l) \/ UpdateListener(l) \/ RecordReleased(l)
             \/ DeployPolicies(l) \/ StatusAddPolicy(l) \/ DeleteListener(l) \/ Strip(l)
             \/ Restore(l)
      PROVE  SoleInv'
  <2>1. pc'[l] # "delete" /\ \A k \in LBC \ {l} : pc'[k] = pc[k]
    BY <1>1, <1>2 DEF TypeOK, Goto, Begin, DeployPools, CreateListener, UpdateListener,
       DeployPolicies, DeleteListener, Strip, Restore, StatusAddPolicy, StatusAddListener,
       AdoptListener, RecordDisplaced, RecordReleased
  <2>2. UNCHANGED phase
    BY <1>2 DEF Begin, DeployPools, CreateListener, UpdateListener, DeployPolicies,
       DeleteListener, Strip, Restore, StatusAddPolicy, StatusAddListener, AdoptListener,
       RecordDisplaced, RecordReleased, object
  <2>3. \A k \in LBC : phase[k] # "retiring"
    BY DEF SoleInv, Sole
  <2>4. pc[l] # "idle" \/ lock = None
    BY <1>2, <2>3 DEF Begin, DeployPools, CreateListener, UpdateListener, DeployPolicies,
       DeleteListener, Strip, Restore, StatusAddPolicy, StatusAddListener, AdoptListener,
       RecordDisplaced, RecordReleased
  <2> QED
    BY <2>1, <2>2, <2>3, <2>4, SoleFrame
<1>3. ASSUME NEW l \in LBC, Finish(l) \/ NotFound(l) \/ Crash(l) PROVE SoleInv'
  <2>1. Return(l) /\ pc[l] # "idle"
    BY <1>3 DEF Finish, NotFound, Crash
  <2>2. pc'[l] = "idle" /\ \A k \in LBC \ {l} : pc'[k] = pc[k]
    BY <2>1, ReturnStep
  <2>3. \A k \in LBC : phase'[k] # "retiring"
    BY <1>1, <1>3 DEF Finish, NotFound, Crash, object, SoleInv, Sole, TypeOK
  <2> QED
    BY <2>1, <2>2, <2>3, SoleFrame
<1>4. ASSUME NEW l \in LBC, Edit(l) \/ Leave(l) PROVE SoleInv'
  <2>1. UNCHANGED <<listener, tenants, pc>> /\ \A k \in LBC : phase'[k] # "retiring"
    BY <1>1, <1>4 DEF Edit, Leave, cloud, run, SoleInv, Sole, TypeOK
  <2> QED
    BY <2>1 DEF SoleInv, Sole
<1>5. ASSUME NEW f \in Field, NEW v \in Value, PortalEdit(f, v) PROVE SoleInv'
  <2>1. listener'.pool = listener.pool /\ listener'.rules = listener.rules /\ listener # None
    BY <1>1, <1>5, FieldSet DEF TypeOK, PortalEdit
  <2> QED
    BY <1>5, <2>1 DEF PortalEdit, SoleInv, Sole, object, run
<1>6. CASE PortalDelete
  BY <1>6 DEF PortalDelete, SoleInv, Sole, object, run
<1>7. CASE UNCHANGED vars
  BY <1>7 DEF SoleInv, Sole, vars, cloud, object, run
<1> QED
  BY <1>2, <1>3, <1>4, <1>5, <1>6, <1>7, SoleListed DEF Next, Reconcile

\* A deletion by an LBC takes the listener from nobody.
LEMMA SoleDeleted ==
  ASSUME IInv, SoleInv, [Next]_vars, listener # None, listener' = None, edits' = edits,
         NEW l \in LBC, pc[l] = "idle"
  PROVE  /\ l \notin listener.rules
         /\ listener.pool # None => l \notin tenants[listener.pool]
<1>1. TypeOK
  BY DEF IInv
<1>2. PICK k \in LBC : DeleteListener(k)
  <2>1. ASSUME NEW k \in LBC, UpdateListener(k) \/ Restore(k) \/ DeployPolicies(k) \/ Strip(k)
        PROVE  FALSE
    <3>1. listener' \in Listener
      BY <2>1, UpdateEffect, RestoreEffect, PoliciesEffect, StripEffect DEF Put
    <3> QED
      BY <3>1, Nones
  <2>2. ASSUME NEW k \in LBC, Reconcile(k) PROVE DeleteListener(k)
    BY <2>1, <2>2 DEF Reconcile, Begin, DeployPools, StatusAddListener, CreateListener,
       AdoptListener, RecordDisplaced, RecordReleased, StatusAddPolicy, ListRedundant, Finish,
       NotFound, cloud
  <2>3. ASSUME NEW k \in LBC, Crash(k) \/ Edit(k) \/ Leave(k) PROVE FALSE
    BY <2>3 DEF Crash, Edit, Leave, cloud
  <2>4. ASSUME NEW g \in Field, NEW v \in Value, PortalEdit(g, v) PROVE FALSE
    BY <1>1, <2>4 DEF PortalEdit, TypeOK
  <2>5. ~PortalDelete
    BY <1>1 DEF PortalDelete, TypeOK
  <2>6. ~UNCHANGED vars
    BY DEF vars, cloud
  <2> QED
    BY <2>2, <2>3, <2>4, <2>5, <2>6 DEF Next
<1>3. Sole(k) /\ pc[k] = "delete" /\ k # l
  BY <1>2 DEF SoleInv, DeleteListener
<1> QED
  BY <1>3 DEF Sole

\* Where nobody migrates, the listener of a layer 7 load balancer is never deleted
\* while it has the policies, or in its default pool the members, of an LBC that
\* stays (canDeleteWholeListener): what is found under the mutex still holds when
\* the call is made.
THEOREM ServingListenerSafe ==
  ASSUME ~Layer4, Repins = {}
  PROVE  Spec => ServingListenerKept
<1>1. Init => SoleInv
  BY DEF Init, SoleInv, Sole
<1>2. IInv /\ SoleInv /\ [Next]_vars =>
        [listener # None /\ listener' = None /\ edits' = edits =>
           \A l \in LBC : phase[l] = "live" /\ spec[l].on /\ pc[l] = "idle" =>
             /\ l \notin listener.rules
             /\ listener.pool # None => l \notin tenants[listener.pool]]_vars
  BY SoleDeleted
<1>3. IInv /\ SoleInv /\ [Next]_vars => SoleInv'
  BY NextSole
<1> QED
  BY <1>1, <1>2, <1>3, InitIInv, NextIInv, PTL DEF Spec, ServingListenerKept

-----------------------------------------------------------------------------
(* A listener is left as it was found. *)

\* The steps of a reconcile after the listener has the wanted pool.
Written ==
  {"release", "policies", "recordPolicy", "redundant", "strip", "finish"}

\* An LBC that never asked for the listener leaves no trace.
Never(l) ==
  l \notin users =>
    /\ spec[l] = NoWant /\ rec[l] = NoRecord /\ books[l] = {}
    /\ task[l].spec = NoWant /\ task[l].rec = NoRecord
    /\ pc[l] \in {"idle", "pools", "redundant", "finish"}
    /\ \A p \in Pool : l \notin tenants[p]
    /\ listener # None => l \notin listener.rules

\* What holds of the one LBC that did ask, in the midst of its reconcile: ...
Steps(u) ==
  /\ phase[u] = "gone" => rec[u] = NoRecord
  /\ pc[u] # "idle" =>
       /\ rec[u].listed = task[u].rec.listed /\ rec[u].adopted = task[u].rec.adopted
       /\ rec[u].pool = task[u].rec.pool /\ rec[u].acl = task[u].rec.acl
       /\ rec[u].rules => task[u].rec.rules \/ task[u].spec.rules
       /\ PoolsOf(task[u].spec) \subseteq books[u] \/ pc[u] = "pools"
       /\ books[u] \subseteq task[u].books \cup PoolsOf(task[u].spec)
       /\ peers[u] = {}
  /\ pc[u] \in Reading \ {"release"} =>
       listener # None /\ seen[u].pool = listener.pool /\ seen[u].acl = listener.acl
  /\ pc[u] \in Written /\ task[u].spec.on =>
       listener # None /\ listener.pool = task[u].spec.pool /\ rec[u].listed
  /\ pc[u] \in {"plan", "put", "strip", "restore", "delete"} => rec[u].listed
  /\ pc[u] = "put" =>
       \A f \in Field : rec[u].acl[f] = None /\ task[u].spec.acl[f] # None =>
                          task[u].spec.acl[f] = seen[u].acl[f]
  /\ pc[u] = "release" =>
       \A f \in Field : rec[u].acl[f] # None /\ task[u].spec.acl[f] = None =>
                          listener.acl[f] = rec[u].acl[f]
  /\ pc[u] \in {"finish", "restore"} /\ ~task[u].spec.rules /\ listener # None =>
       u \notin listener.rules
  /\ pc[u] = "recordPolicy" => task[u].spec.rules

\* ... where the listener was there first, its record has what it displaced; ...
Brings(u) ==
  own # None =>
    /\ listener.rules \ {u} = own.rules
    /\ u \in listener.rules => rec[u].listed /\ (rec[u].rules \/ pc[u] = "recordPolicy")
    /\ IF rec[u].listed THEN rec[u].pool = own.pool
       ELSE listener.pool = own.pool /\ rec[u].acl = NoAcl
    /\ \A f \in Field : IF rec[u].acl[f] # None THEN rec[u].acl[f] = own.acl[f]
                        ELSE listener.acl[f] = own.acl[f]
    /\ pc[u] = "finish" /\ ~task[u].spec.on => listener = own

\* ... where it made the listener, it can delete it.
Makes(u) ==
  own = None /\ listener # None =>
    /\ (rec[u].listed /\ ~rec[u].adopted) \/ pc[u] = "record"
    /\ listener.rules \subseteq {u}
    /\ u \in listener.rules => rec[u].rules \/ pc[u] = "recordPolicy"
    /\ listener.pool # None => listener.pool \in books[u] /\ tenants[listener.pool] \subseteq {u}
    /\ pc[u] \in {"finish", "strip"} => task[u].spec.on
    /\ pc[u] # "restore"

\* No LBC asks for the pool of a listener that is there first.
PoolsApart ==
  \A b \in Brought, l \in LBC : b # None => \A w \in Wanted[l] : w.pool = None \/ w.pool # b.pool

\* The user's members are in the pools of the listeners brought.
UserPools ==
  \A p \in Pool : User \in tenants[p] => \E b \in Brought : b # None /\ b.pool = p

TraceInv ==
  /\ UserPools
  /\ own # None => own.rules \subseteq {User}
  /\ Layer4 /\ listener # None => listener.rules \subseteq {User}
  /\ Layer4 => \A l \in LBC : pc[l] \notin {"policies", "recordPolicy"}
  /\ ~loose => \A l \in LBC : phase[l] # "retiring"
  /\ \A l \in LBC : Never(l)
  /\ \A u \in LBC : users \subseteq {u} /\ ~loose => Steps(u) /\ Brings(u) /\ Makes(u)

\* Nothing is on the books at first, and what is there is the user's.
LEMMA InitTrace == Init => TraceInv
<1> SUFFICES ASSUME Init PROVE TraceInv
  OBVIOUS
<1>1. spec \in [LBC -> Want] /\ \A l \in LBC : spec[l] \in Wanted[l]
  BY DEF Init
<1>2. listener # None => listener \in Brought /\ listener \in Listener /\ listener.rules \subseteq {User}
  BY ListenersAssumption DEF Init
<1>3. UserPools
  BY <1>2 DEF Init, UserPools
<1>4. ASSUME NEW l \in LBC PROVE Never(l)
  <2>1. l \notin users => spec[l] = NoWant
    BY <1>1, WantedWant DEF Init
  <2>2. \A p \in Pool : l \notin tenants[p]
    BY ListenersAssumption DEF Init
  <2> QED
    BY <1>2, <2>1, <2>2, Empties, ListenersAssumption DEF Init, Never
<1>5. ASSUME NEW u \in LBC PROVE Steps(u) /\ Brings(u) /\ Makes(u)
  <2>1. Steps(u)
    BY DEF Init, Steps, Reading, Written
  <2>2. ~NoRecord.listed /\ NoRecord.acl = NoAcl
    BY DEF NoRecord
  <2>3. Brings(u)
    BY <1>2, <2>2, Empties, ListenersAssumption DEF Init, Brings
  <2> QED
    BY <2>1, <2>3 DEF Init, Makes
<1> QED
  BY <1>2, <1>3, <1>4, <1>5 DEF Init, TraceInv

\* The others never stepped: what l's step leaves of k.
Apart(k) ==
  /\ spec'[k] = spec[k] /\ rec'[k] = rec[k] /\ books'[k] = books[k] /\ phase'[k] = phase[k]
  /\ pc'[k] = pc[k] /\ task'[k] = task[k] /\ seen'[k] = seen[k] /\ peers'[k] = peers[k]

\* The steps of a reconcile, a crash included, leave the other LBCs apart, and
\* what the user owns.
LEMMA StepApart ==
  ASSUME IInv, NEW l \in LBC, Reconcile(l) \/ Crash(l)
  PROVE  /\ \A k \in LBC \ {l} : Apart(k)
         /\ UNCHANGED <<spec, own, users, edits>> /\ (loose => loose')
<1>1. TypeOK
  BY DEF IInv
<1>2. CASE Finish(l) \/ NotFound(l) \/ Crash(l)
  <2>1. Return(l)
    BY <1>2 DEF Finish, NotFound, Crash
  <2>2. \A k \in LBC \ {l} : /\ pc'[k] = pc[k] /\ task'[k] = task[k] /\ seen'[k] = seen[k]
                             /\ peers'[k] = peers[k]
    BY <1>1, <2>1 DEF TypeOK, Return, Goto
  <2>3. \A k \in LBC \ {l} : rec'[k] = rec[k] /\ books'[k] = books[k] /\ phase'[k] = phase[k]
    BY <1>1, <1>2 DEF TypeOK, Finish, NotFound, Crash, object
  <2>4. UNCHANGED <<spec, own, users, edits>>
    BY <1>2 DEF Finish, NotFound, Crash, object, history
  <2>5. loose => loose'
    <3>1. CASE Crash(l)
      BY <3>1 DEF Crash
    <3>2. CASE Finish(l) \/ NotFound(l)
      BY <3>2 DEF Finish, NotFound, history
    <3> QED
      BY <1>2, <3>1, <3>2
  <2> QED
    BY <2>2, <2>3, <2>4, <2>5 DEF Apart
<1>3. CASE \/ StatusAddListener(l) \/ AdoptListener(l) \/ RecordDisplaced(l) \/ RecordReleased(l)
           \/ StatusAddPolicy(l)
  <2>1. \A k \in LBC \ {l} : rec'[k] = rec[k] /\ task'[k] = task[k]
    BY <1>1, <1>3 DEF TypeOK, SetRecord, StatusAddListener, AdoptListener, RecordDisplaced,
       RecordReleased, StatusAddPolicy
  <2>2. \A k \in LBC \ {l} : pc'[k] = pc[k] /\ seen'[k] = seen[k]
    BY <1>1, <1>3 DEF TypeOK, Goto, StatusAddListener, AdoptListener, RecordDisplaced,
       RecordReleased, StatusAddPolicy
  <2> QED
    BY <1>3, <2>1, <2>2 DEF Apart, StatusAddListener, AdoptListener, RecordDisplaced,
       RecordReleased, StatusAddPolicy, history
<1>4. CASE Begin(l) \/ DeployPools(l) \/ ListRedundant(l) \/ Strip(l)
  BY <1>1, <1>4 DEF TypeOK, Apart, Goto, Begin, DeployPools, ListRedundant, Strip, object, history
<1>5. CASE CreateListener(l) \/ UpdateListener(l) \/ DeployPolicies(l) \/ DeleteListener(l) \/ Restore(l)
  <2>1. \A k \in LBC \ {l} : pc'[k] = pc[k]
    BY <1>1, <1>5 DEF TypeOK, Goto, CreateListener, UpdateListener, DeployPolicies,
       DeleteListener, Restore
  <2> QED
    BY <1>5, <2>1 DEF Apart, CreateListener, UpdateListener, DeployPolicies, DeleteListener,
       Restore, object, history
<1> QED
  BY <1>2, <1>3, <1>4, <1>5 DEF Reconcile

\* What a step of l may leave on the listener and in the pools is l's own.
LEMMA StepMarks ==
  ASSUME IInv, NEW l \in LBC, Reconcile(l) \/ Crash(l)
  PROVE  /\ \A p \in Pool : tenants'[p] \subseteq tenants[p] \cup {l}
         /\ listener' # None =>
              listener'.rules \subseteq (IF listener = None THEN {} ELSE listener.rules) \cup {l}
         /\ Layer4 /\ pc[l] \notin {"policies", "recordPolicy"} =>
              /\ pc'[l] \notin {"policies", "recordPolicy"}
              /\ listener' # None =>
                   listener'.rules \subseteq IF listener = None THEN {} ELSE listener.rules
<1>1. TypeOK
  BY DEF IInv
<1>2. \A p \in Pool : tenants'[p] \subseteq tenants[p] \cup {l}
  <2>1. CASE DeployPools(l)
    BY <1>1, <2>1 DEF TypeOK, DeployPools
  <2>2. CASE Finish(l)
    BY <1>1, <2>2 DEF TypeOK, Finish
  <2>3. CASE UNCHANGED tenants
    BY <2>3
  <2> QED
    BY <2>1, <2>2, <2>3 DEF Reconcile, Begin, CreateListener, UpdateListener, DeployPolicies,
       DeleteListener, Strip, Restore, StatusAddPolicy, StatusAddListener, AdoptListener,
       RecordDisplaced, RecordReleased, ListRedundant, NotFound, Crash, cloud
<1>3. /\ listener' # None =>
           listener'.rules \subseteq (IF listener = None THEN {} ELSE listener.rules) \cup {l}
      /\ ~DeployPolicies(l) /\ listener' # None =>
           listener'.rules \subseteq IF listener = None THEN {} ELSE listener.rules
  <2>1. CASE UpdateListener(l) \/ Restore(l)
    <3>1. listener'.rules = listener.rules /\ listener \in Listener
      BY <2>1, UpdateEffect, RestoreEffect DEF Put
    <3> QED
      BY <3>1, Nones
  <2>2. CASE DeployPolicies(l)
    BY <2>2, PoliciesEffect, Nones
  <2>3. CASE Strip(l)
    BY <2>3, StripEffect, Nones
  <2>4. CASE CreateListener(l)
    BY <2>4 DEF CreateListener
  <2>5. CASE UNCHANGED listener
    BY <2>5
  <2> QED
    BY <2>1, <2>2, <2>3, <2>4, <2>5 DEF Reconcile, Begin, DeployPools, DeleteListener,
       StatusAddPolicy, StatusAddListener, AdoptListener, RecordDisplaced, RecordReleased,
       ListRedundant, Finish, NotFound, Crash, cloud
<1>4. Layer4 /\ pc[l] \notin {"policies", "recordPolicy"} =>
        pc'[l] \notin {"policies", "recordPolicy"} /\ ~DeployPolicies(l)
  BY <1>1 DEF TypeOK, Goto, Return, Reconcile, Begin, DeployPools, CreateListener, UpdateListener,
     DeployPolicies, DeleteListener, Strip, Restore, StatusAddPolicy, StatusAddListener,
     AdoptListener, RecordDisplaced, RecordReleased, ListRedundant, Finish, NotFound, Crash
<1> QED
  BY <1>2, <1>3, <1>4

\* An LBC that never asked for the listener goes through its passes and changes
\* nothing.
LEMMA Bystander ==
  ASSUME IInv, TraceInv, NEW l \in LBC, l \notin users, Reconcile(l) \/ Crash(l)
  PROVE  Never(l)' /\ UNCHANGED <<listener, tenants, rec, books>>
<1>1. TypeOK /\ Never(l) /\ ~NoRecord.listed /\ ~NoWant.on /\ PoolsOf(NoWant) = {}
  BY DEF IInv, TraceInv, NoRecord, NoWant, PoolsOf
<1>2. CASE Begin(l)
  BY <1>1, <1>2 DEF TypeOK, Begin, Goto, Never, cloud, object, history
<1>3. CASE DeployPools(l)
  <2>1. tenants' = tenants /\ books' = books
    BY <1>1, <1>3 DEF TypeOK, DeployPools, Never
  <2>2. pc'[l] = "redundant"
    BY <1>1, <1>3 DEF TypeOK, DeployPools, Never, Goto
  <2> QED
    BY <1>1, <1>3, <2>1, <2>2 DEF DeployPools, Never, history
<1>4. CASE ListRedundant(l)
  <2>1. pc'[l] = "finish"
    BY <1>1, <1>4 DEF TypeOK, ListRedundant, Never, Goto
  <2> QED
    BY <1>1, <1>4, <2>1 DEF ListRedundant, Never, cloud, object, history
<1>5. CASE Finish(l)
  <2>1. tenants' = tenants
    BY <1>1, <1>5 DEF TypeOK, Finish, Never
  <2>2. rec' = rec /\ books' = books
    <3>1. rec' = [rec EXCEPT ![l] = NoRecord] /\ books' = [books EXCEPT ![l] = {}]
      BY <1>1, <1>5 DEF Finish, Never
    <3> QED
      BY <1>1, <3>1 DEF TypeOK, Never
  <2>3. pc'[l] = "idle" /\ task'[l] = NoTask
    BY <1>5, ReturnStep DEF Finish
  <2> QED
    BY <1>1, <1>5, <2>1, <2>2, <2>3, Empties DEF Finish, Never
<1>6. CASE Crash(l) \/ NotFound(l)
  <2>1. pc'[l] = "idle" /\ task'[l] = NoTask
    BY <1>6, ReturnStep DEF NotFound, Crash
  <2> QED
    BY <1>1, <1>6, <2>1, Empties DEF NotFound, Crash, Never, cloud, object, history
<1>7. pc[l] \in {"idle", "pools", "redundant", "finish"}
  BY <1>1 DEF Never
<1> QED
  BY <1>2, <1>3, <1>4, <1>5, <1>6, <1>7 DEF Reconcile, CreateListener, UpdateListener,
     DeployPolicies, DeleteListener, Strip, Restore, StatusAddPolicy, StatusAddListener,
     AdoptListener, RecordDisplaced, RecordReleased

\* The user's pools are not wanted, and those that never asked have no members:
\* a pool that u wants has the members of u alone.
LEMMA WantedPool ==
  ASSUME PoolsApart, TypeOK, TraceInv, NEW u \in LBC, users \subseteq {u},
         NEW w \in Wanted[u], w.pool # None
  PROVE  tenants[w.pool] \subseteq {u}
<1>1. w.pool \in Pool
  BY WantedWant DEF Want
<1>2. User \notin tenants[w.pool]
  BY <1>1 DEF PoolsApart, TraceInv, UserPools
<1>3. \A k \in LBC \ {u} : k \notin tenants[w.pool]
  BY <1>1 DEF TraceInv, Never
<1> QED
  BY <1>1, <1>2, <1>3 DEF TypeOK

\* Nobody else declares anything.
LEMMA NoPeers ==
  ASSUME TraceInv, NEW u \in LBC, users \subseteq {u}
  PROVE  Declared(u) = {}
<1>1. \A k \in LBC \ {u} : ~spec[k].on
  BY DEF TraceInv, Never, NoWant
<1> QED
  BY <1>1 DEF Declared, Sharing

\* Two listeners with the same fields are the same.
LEMMA SameListener ==
  ASSUME NEW a \in Listener, NEW b \in Listener, a.pool = b.pool, a.rules = b.rules,
         \A f \in Field : a.acl[f] = b.acl[f]
  PROVE  a = b
<1>1. a.acl = b.acl
  BY DEF Listener
<1> QED
  BY <1>1 DEF Listener

\* What the steps of u start from.
Mine(u) ==
  /\ IInv /\ KeptInv /\ TraceInv /\ users \subseteq {u} /\ ~loose
  /\ TypeOK /\ Held(u) /\ Adopting(u) /\ Steps(u) /\ Brings(u) /\ Makes(u)
  /\ phase[u] # "retiring"
  /\ own # None => /\ listener # None /\ listener \in Listener /\ own \in Listener
                   /\ Ours = {} /\ u \notin own.rules

\* They all hold together.
LEMMA MineHolds ==
  ASSUME IInv, KeptInv, TraceInv, NEW u \in LBC, users \subseteq {u}, ~loose
  PROVE  Mine(u)
<1>1. own # None => /\ listener # None /\ listener \in Listener /\ own \in Listener
                    /\ Ours = {} /\ u \notin own.rules
  BY ListenersAssumption DEF IInv, TypeOK, KeptInv, UserListenerKept, TraceInv
<1> QED
  BY <1>1 DEF Mine, IInv, KeptInv, TraceInv

Traced(u) == Steps(u) /\ Brings(u) /\ Makes(u)

\* A pass begins.
LEMMA TraceBegin == ASSUME NEW u \in LBC, Mine(u), Begin(u) PROVE Traced(u)'
<1> DEFINE leaving == phase[u] # "live"
<1>1. /\ task'[u].spec = (IF leaving THEN NoWant ELSE spec[u]) /\ task'[u].rec = rec[u]
      /\ task'[u].books = books[u] /\ peers'[u] = {} /\ pc[u] = "idle"
      /\ pc'[u] = (IF leaving THEN "redundant" ELSE "pools")
      /\ UNCHANGED <<listener, tenants, spec, rec, books, phase, own>>
  BY NoPeers DEF Mine, TypeOK, Begin, Goto, cloud, object, history
<1>2. ~NoWant.on /\ PoolsOf(NoWant) = {}
  BY DEF NoWant, PoolsOf
<1>3. phase[u] # "gone"
  BY DEF Begin
<1>4. Steps(u)'
  BY <1>1, <1>2, <1>3 DEF Steps, Reading, Written
<1>5. Brings(u)' /\ Makes(u)'
  BY <1>1 DEF Mine, Brings, Makes
<1> QED
  BY <1>4, <1>5 DEF Traced

\* The pools.
LEMMA TracePools == ASSUME NEW u \in LBC, Mine(u), DeployPools(u) PROVE Traced(u)'
<1> DEFINE ps == PoolsOf(task[u].spec)
<1>1. /\ books'[u] = books[u] \cup ps /\ pc[u] = "pools"
      /\ pc'[u] = (IF task[u].spec.on THEN "find" ELSE "redundant")
      /\ UNCHANGED <<listener, spec, rec, phase, task, seen, peers, own>>
  BY DEF Mine, TypeOK, DeployPools, Goto, history
<1>2. \A p \in Pool : tenants'[p] \subseteq tenants[p] \cup {u}
  BY DEF Mine, TypeOK, DeployPools
<1>3. Steps(u)'
  BY <1>1 DEF Mine, Steps, Reading, Written
<1>4. Brings(u)'
  BY <1>1 DEF Mine, Brings
<1>5. listener # None /\ listener.pool # None => listener.pool \in Pool
  BY DEF Mine, TypeOK, Listener
<1>6. Makes(u)'
  BY <1>1, <1>2, <1>5 DEF Mine, Makes
<1> QED
  BY <1>3, <1>4, <1>6 DEF Traced

\* A listener is created: it has a pool of u alone.
LEMMA TraceCreate ==
  ASSUME PoolsApart, NEW u \in LBC, Mine(u), CreateListener(u)
  PROVE  Traced(u)'
<1>1. /\ pc[u] = "find" /\ pc'[u] = "record" /\ listener = None /\ own = None
      /\ listener'.pool = task[u].spec.pool /\ listener'.rules = {}
      /\ UNCHANGED <<tenants, books, spec, rec, phase, task, seen, peers, own>>
  BY DEF Mine, TypeOK, CreateListener, Goto, object, history
<1>2. task[u].spec \in Wanted[u] /\ task[u].spec.on
  BY <1>1 DEF Mine, Held, Deploying, NoWant
<1>3. Steps(u)'
  BY <1>1 DEF Mine, Steps, Reading, Written
<1>4. listener'.pool # None => listener'.pool \in books[u] /\ tenants[listener'.pool] \subseteq {u}
  BY <1>1, <1>2, WantedPool DEF Mine, Steps, PoolsOf
<1>5. Makes(u)'
  BY <1>1, <1>4 DEF Makes
<1> QED
  BY <1>1, <1>3, <1>5 DEF Traced, Brings

\* A record is set: what it keeps.
LEMMA TraceRecord ==
  ASSUME NEW u \in LBC, Mine(u), NEW r \in Record, SetRecord(u, r)
  PROVE  /\ rec'[u].listed = r.listed /\ rec'[u].adopted = r.adopted
         /\ rec'[u].pool = r.pool /\ rec'[u].acl = r.acl /\ rec'[u].rules = rec[u].rules
         /\ task'[u].rec.listed = r.listed /\ task'[u].rec.adopted = r.adopted
         /\ task'[u].rec.pool = r.pool /\ task'[u].rec.acl = r.acl
         /\ task'[u].rec.rules = task[u].rec.rules
         /\ task'[u].spec = task[u].spec /\ task'[u].books = task[u].books
<1>1. /\ rec'[u] = [r EXCEPT !.rules = rec[u].rules]
      /\ task'[u].rec = [r EXCEPT !.rules = task[u].rec.rules]
      /\ task'[u].spec = task[u].spec /\ task'[u].books = task[u].books
  BY SetRecordStep DEF Mine
<1> QED
  BY <1>1 DEF Record

\* The listener that was created is recorded.
LEMMA TraceAdd == ASSUME NEW u \in LBC, Mine(u), StatusAddListener(u) PROVE Traced(u)'
<1> DEFINE r == [NoRecord EXCEPT !.listed = TRUE, !.acl = NeutralOf(task[u].spec.acl)]
<1>1. NeutralOf(task[u].spec.acl) \in Acl
  BY ListenersAssumption DEF Mine, TypeOK, Want, NeutralOf, Acl
<1>2. r \in Record /\ r.listed /\ ~r.adopted
  BY <1>1, NewRecords
<1>3. SetRecord(u, r)
  BY DEF StatusAddListener
<1> HIDE DEF r
<1>4. /\ rec'[u].listed = r.listed /\ rec'[u].adopted = r.adopted
      /\ rec'[u].pool = r.pool /\ rec'[u].acl = r.acl /\ rec'[u].rules = rec[u].rules
      /\ task'[u].rec.listed = r.listed /\ task'[u].rec.adopted = r.adopted
      /\ task'[u].rec.pool = r.pool /\ task'[u].rec.acl = r.acl
      /\ task'[u].rec.rules = task[u].rec.rules
      /\ task'[u].spec = task[u].spec /\ task'[u].books = task[u].books
  BY <1>2, <1>3, TraceRecord
<1>5. /\ pc[u] = "record" /\ pc'[u] = "plan" /\ listener # None /\ seen'[u] = listener
      /\ own = None /\ phase[u] # "gone"
      /\ UNCHANGED <<listener, tenants, books, spec, phase, peers, own>>
  BY DEF Mine, TypeOK, Held, Adopting, StatusAddListener, Goto, cloud, history
<1>6. Steps(u)'
  BY <1>2, <1>4, <1>5 DEF Mine, Steps, Reading, Written
<1>7. Makes(u)'
  BY <1>2, <1>4, <1>5 DEF Mine, Makes
<1> QED
  BY <1>5, <1>6, <1>7 DEF Traced, Brings

\* A listener that is there is taken over, once, with the pool it has.
LEMMA TraceAdopt == ASSUME NEW u \in LBC, Mine(u), AdoptListener(u) PROVE Traced(u)'
<1> DEFINE r == Adopted(u, listener)
<1>1. /\ pc[u] = "find" /\ pc'[u] = "plan" /\ listener # None /\ seen'[u] = listener
      /\ listener \in Listener /\ phase[u] # "gone"
      /\ UNCHANGED <<listener, tenants, books, spec, phase, peers, own>>
  BY DEF Mine, TypeOK, Held, AdoptListener, Goto, cloud, history
<1>2. own = None => rec[u].listed
  BY <1>1 DEF Mine, Makes
<1>3. CASE rec[u].listed
  <2>1. r = rec[u] /\ r \in Record
    BY <1>3 DEF Adopted, Mine, TypeOK
  <2>2. /\ r \in Record /\ r.listed /\ r.adopted = rec[u].adopted
        /\ r.pool = rec[u].pool /\ r.acl = rec[u].acl
    BY <1>3, <2>1
  <2> QED
    <3>1. SetRecord(u, r)
      BY DEF AdoptListener
    <3> HIDE DEF r
    <3>2. /\ rec'[u].listed = r.listed /\ rec'[u].adopted = r.adopted
          /\ rec'[u].pool = r.pool /\ rec'[u].acl = r.acl /\ rec'[u].rules = rec[u].rules
          /\ task'[u].rec.listed = r.listed /\ task'[u].rec.adopted = r.adopted
          /\ task'[u].rec.pool = r.pool /\ task'[u].rec.acl = r.acl
          /\ task'[u].rec.rules = task[u].rec.rules
          /\ task'[u].spec = task[u].spec /\ task'[u].books = task[u].books
      BY <2>2, <3>1, TraceRecord
    <3>3. Steps(u)'
      BY <1>1, <2>2, <3>2 DEF Mine, Steps, Reading, Written
    <3>4. Brings(u)'
      BY <1>1, <1>3, <2>2, <3>2 DEF Mine, Brings
    <3>5. Makes(u)'
      BY <1>1, <1>3, <2>2, <3>2 DEF Mine, Makes
    <3> QED
      BY <3>3, <3>4, <3>5 DEF Traced
<1>4. CASE ~rec[u].listed
  <2>1. own # None /\ Ours = {} /\ listener.pool = own.pool /\ rec[u].acl = NoAcl
        /\ u \notin listener.rules
    BY <1>2, <1>4 DEF Mine, Brings
  <2>2. r = [NoRecord EXCEPT !.listed = TRUE, !.adopted = TRUE, !.pool = listener.pool]
    BY <1>4, <2>1 DEF Adopted
  <2>3. listener.pool \in Pool \cup {None}
    BY <1>1 DEF Listener
  <2>4. r \in Record /\ r.listed /\ r.adopted /\ r.pool = listener.pool /\ r.acl = NoAcl
    <3> DEFINE t == [NoRecord EXCEPT !.listed = TRUE, !.adopted = TRUE, !.pool = listener.pool]
    <3>1. t \in Record /\ t.listed /\ t.adopted /\ t.pool = listener.pool /\ t.acl = NoAcl
      BY <2>3, NewRecords, Empties
    <3>2. r = t
      BY <2>2
    <3> HIDE DEF t, r
    <3> QED
      BY <3>1, <3>2
  <2> QED
    <3>1. SetRecord(u, r)
      BY DEF AdoptListener
    <3> HIDE DEF r
    <3>2. /\ rec'[u].listed = r.listed /\ rec'[u].adopted = r.adopted
          /\ rec'[u].pool = r.pool /\ rec'[u].acl = r.acl /\ rec'[u].rules = rec[u].rules
          /\ task'[u].rec.listed = r.listed /\ task'[u].rec.adopted = r.adopted
          /\ task'[u].rec.pool = r.pool /\ task'[u].rec.acl = r.acl
          /\ task'[u].rec.rules = task[u].rec.rules
          /\ task'[u].spec = task[u].spec /\ task'[u].books = task[u].books
      BY <2>4, <3>1, TraceRecord
    <3>3. Steps(u)'
      BY <1>1, <2>4, <3>2 DEF Mine, Steps, Reading, Written
    <3>4. Brings(u)'
      BY <1>1, <2>1, <2>4, <3>2, Empties DEF Mine, Brings
    <3> QED
      BY <1>1, <2>1, <3>3, <3>4 DEF Traced, Makes
<1> QED
  BY <1>3, <1>4

\* The fields about to be displaced are recorded, with the values they have.
LEMMA TraceDisplaced == ASSUME NEW u \in LBC, Mine(u), RecordDisplaced(u) PROVE Traced(u)'
<1> DEFINE a == RecordBefore(task[u].spec.acl, seen[u].acl, task[u].rec.acl, Fallback(u))
           r == [task[u].rec EXCEPT !.acl = a]
<1>1. /\ pc[u] = "plan" /\ pc'[u] = "put" /\ phase[u] # "gone"
      /\ listener # None /\ seen[u].pool = listener.pool /\ seen[u].acl = listener.acl
      /\ UNCHANGED <<listener, tenants, books, spec, phase, seen, peers, own>>
  BY DEF Mine, TypeOK, Held, Steps, Reading, RecordDisplaced, Goto, cloud, history
<1>2. /\ seen[u] \in Listener /\ seen[u].acl \in [Field -> Value]
      /\ task[u].rec \in Record /\ task[u].rec.acl \in Acl /\ task[u].spec.acl \in Acl
      /\ rec[u].acl = task[u].rec.acl
  BY <1>1 DEF Mine, TypeOK, Held, Reading, Record, Want, Steps, Listener
<1>3. a \in Acl
  BY <1>2, AclTypes, FallbackType
<1>4. /\ r \in Record /\ r.acl = a /\ r.listed = task[u].rec.listed
      /\ r.adopted = task[u].rec.adopted /\ r.pool = task[u].rec.pool
  BY <1>2, <1>3, SetAcl
<1>5. \A f \in Field :
        /\ a[f] = None => task[u].spec.acl[f] \in {None, seen[u].acl[f]} /\ rec[u].acl[f] = None
        /\ a[f] # None => \/ a[f] = rec[u].acl[f]
                          \/ rec[u].acl[f] = None /\ a[f] \in {seen[u].acl[f], Fallback(u)[f]}
  BY <1>2, Nones DEF RecordBefore
<1>6. own # None => \A f \in Field : Fallback(u)[f] = None
  BY Empties DEF Mine, Fallback
<1>7. SetRecord(u, r)
  BY DEF RecordDisplaced
<1> HIDE DEF r, a
<1>8. /\ rec'[u].listed = r.listed /\ rec'[u].adopted = r.adopted
      /\ rec'[u].pool = r.pool /\ rec'[u].acl = r.acl /\ rec'[u].rules = rec[u].rules
      /\ task'[u].rec.listed = r.listed /\ task'[u].rec.adopted = r.adopted
      /\ task'[u].rec.pool = r.pool /\ task'[u].rec.acl = r.acl
      /\ task'[u].rec.rules = task[u].rec.rules
      /\ task'[u].spec = task[u].spec /\ task'[u].books = task[u].books
  BY <1>4, <1>7, TraceRecord
<1>9. /\ rec[u].listed = task[u].rec.listed /\ rec[u].adopted = task[u].rec.adopted
      /\ rec[u].pool = task[u].rec.pool /\ rec[u].listed
  BY <1>1 DEF Mine, Steps
<1>10. Steps(u)'
  BY <1>1, <1>4, <1>5, <1>8, <1>9 DEF Mine, Steps, Reading, Written
<1>11. own # None => \A f \in Field : IF a[f] # None THEN a[f] = own.acl[f]
                                      ELSE listener.acl[f] = own.acl[f]
  BY <1>1, <1>5, <1>6 DEF Mine, Brings
<1>12. Brings(u)'
  BY <1>1, <1>4, <1>8, <1>9, <1>11 DEF Mine, Brings
<1>13. Makes(u)'
  BY <1>1, <1>4, <1>8, <1>9 DEF Mine, Makes
<1> QED
  BY <1>10, <1>12, <1>13 DEF Traced

\* The update: what it changes is recorded, what it releases is as recorded.
LEMMA TraceUpdate ==
  ASSUME PoolsApart, NEW u \in LBC, Mine(u), UpdateListener(u)
  PROVE  Traced(u)'
<1> DEFINE want == task[u].spec
           desired == Desired(want.acl, seen[u].acl, task[u].rec.acl, peers[u])
<1>1. /\ pc[u] = "put" /\ want.on /\ Put(u, want.pool, desired)
      /\ want.pool \in Pool \cup {None}
  BY UpdateEffect DEF Mine
<1>2. /\ pc'[u] = "release" /\ phase[u] # "gone" /\ peers[u] = {} /\ rec[u].listed
      /\ rec[u].acl = task[u].rec.acl
      /\ seen[u].pool = listener.pool /\ seen[u].acl = listener.acl
      /\ \A f \in Field : rec[u].acl[f] = None /\ want.acl[f] # None => want.acl[f] = seen[u].acl[f]
      /\ UNCHANGED <<tenants, books, spec, rec, task, phase, seen, peers, own>>
  BY <1>1 DEF Mine, TypeOK, Held, Steps, Reading, UpdateListener, Goto, object, history
<1>3. \A f \in Field :
        LET v == IF want.acl[f] # None THEN want.acl[f] ELSE rec[u].acl[f]
        IN desired[f] = IF v = listener.acl[f] THEN None ELSE v
  BY <1>2 DEF Desired
<1> HIDE DEF desired
<1>4. /\ listener' \in Listener /\ listener'.pool = want.pool /\ listener'.rules = listener.rules
      /\ \A f \in Field : listener'.acl[f] = IF desired[f] # None THEN desired[f] ELSE listener.acl[f]
  BY <1>1, <1>2 DEF Put
<1>5. listener' # None
  BY <1>4, Nones
<1>6. Steps(u)'
  <2>1. \A f \in Field : rec[u].acl[f] # None /\ want.acl[f] = None => listener'.acl[f] = rec[u].acl[f]
    BY <1>3, <1>4
  <2> QED
    BY <1>1, <1>2, <1>4, <1>5, <2>1 DEF Mine, Steps, Reading, Written
<1>7. Brings(u)'
  BY <1>1, <1>2, <1>3, <1>4 DEF Mine, Brings
<1>8. want \in Wanted[u]
  BY <1>1 DEF Mine, Held, NoWant
<1>9. want.pool # None => want.pool \in books[u] /\ tenants[want.pool] \subseteq {u}
  BY <1>1, <1>8, WantedPool DEF Mine, Steps, PoolsOf
<1>10. own = None => rec[u].listed /\ ~rec[u].adopted
  BY <1>1 DEF Mine, Makes, UpdateListener
<1>11. listener # None
  BY DEF UpdateListener
<1>12. Makes(u)'
  BY <1>1, <1>2, <1>4, <1>9, <1>10, <1>11 DEF Mine, Makes
<1> QED
  BY <1>6, <1>7, <1>12 DEF Traced

\* What is released is dropped from the record: it is back as it was.
LEMMA TraceReleased == ASSUME NEW u \in LBC, Mine(u), RecordReleased(u) PROVE Traced(u)'
<1> DEFINE a == RecordAfter(task[u].spec.acl, task[u].rec.acl)
           r == [task[u].rec EXCEPT !.acl = a]
<1>1. /\ pc[u] = "release" /\ pc'[u] = (IF Layer4 THEN "redundant" ELSE "policies")
      /\ phase[u] # "gone" /\ listener # None /\ task[u].spec.on
      /\ UNCHANGED <<listener, tenants, books, spec, phase, seen, peers, own>>
  BY DEF Mine, TypeOK, Held, Deploying, Steps, Written, RecordReleased, Goto, cloud, history
<1>2. /\ task[u].rec \in Record /\ task[u].rec.acl \in Acl /\ task[u].spec.acl \in Acl
      /\ rec[u].acl = task[u].rec.acl
  BY <1>1 DEF Mine, TypeOK, Record, Want, Steps
<1>3. a \in Acl /\ \A f \in Field : a[f] = IF task[u].spec.acl[f] = None THEN None ELSE rec[u].acl[f]
  BY <1>2 DEF RecordAfter, Acl
<1>4. /\ r \in Record /\ r.acl = a /\ r.listed = task[u].rec.listed
      /\ r.adopted = task[u].rec.adopted /\ r.pool = task[u].rec.pool
  BY <1>2, <1>3, SetAcl
<1>5. SetRecord(u, r)
  BY DEF RecordReleased
<1> HIDE DEF r, a
<1>6. /\ rec'[u].listed = r.listed /\ rec'[u].adopted = r.adopted
      /\ rec'[u].pool = r.pool /\ rec'[u].acl = r.acl /\ rec'[u].rules = rec[u].rules
      /\ task'[u].rec.listed = r.listed /\ task'[u].rec.adopted = r.adopted
      /\ task'[u].rec.pool = r.pool /\ task'[u].rec.acl = r.acl
      /\ task'[u].rec.rules = task[u].rec.rules
      /\ task'[u].spec = task[u].spec /\ task'[u].books = task[u].books
  BY <1>4, <1>5, TraceRecord
<1>7. /\ rec[u].listed = task[u].rec.listed /\ rec[u].adopted = task[u].rec.adopted
      /\ rec[u].pool = task[u].rec.pool /\ rec[u].listed
  BY <1>1 DEF Mine, Steps, Written
<1>8. Steps(u)'
  BY <1>1, <1>4, <1>6, <1>7 DEF Mine, Steps, Reading, Written
<1>9. own # None => \A f \in Field : IF a[f] # None THEN a[f] = own.acl[f]
                                     ELSE listener.acl[f] = own.acl[f]
  BY <1>1, <1>3 DEF Mine, Brings, Steps
<1>10. Brings(u)'
  BY <1>1, <1>4, <1>6, <1>7, <1>9 DEF Mine, Brings
<1>11. Makes(u)'
  BY <1>1, <1>4, <1>6, <1>7 DEF Mine, Makes
<1> QED
  BY <1>8, <1>10, <1>11 DEF Traced

\* The policies come on the listener, ...
LEMMA TracePolicies == ASSUME NEW u \in LBC, Mine(u), DeployPolicies(u) PROVE Traced(u)'
<1>1. /\ pc[u] = "policies" /\ task[u].spec.on
      /\ listener \in Listener /\ listener' \in Listener
      /\ listener'.pool = listener.pool /\ listener'.acl = listener.acl
      /\ listener'.rules = IF task[u].spec.rules THEN listener.rules \cup {u} ELSE listener.rules
      /\ pc'[u] = IF task[u].spec.rules /\ u \notin listener.rules
                  THEN "recordPolicy" ELSE "redundant"
  BY PoliciesEffect DEF Mine
<1>2. /\ phase[u] # "gone" /\ rec[u].listed
      /\ UNCHANGED <<tenants, books, spec, rec, task, phase, seen, peers, own>>
  BY <1>1 DEF Mine, Held, Steps, Written, DeployPolicies, object, history
<1>3. listener # None /\ listener' # None
  BY <1>1, Nones
<1>4. Steps(u)'
  BY <1>1, <1>2, <1>3 DEF Mine, Steps, Reading, Written
<1>5. Brings(u)'
  BY <1>1, <1>2, <1>3 DEF Mine, Brings
<1>6. Makes(u)'
  BY <1>1, <1>2, <1>3 DEF Mine, Makes
<1> QED
  BY <1>4, <1>5, <1>6 DEF Traced

\* ... and are recorded.
LEMMA TraceAddPolicy == ASSUME NEW u \in LBC, Mine(u), StatusAddPolicy(u) PROVE Traced(u)'
<1>1. /\ pc[u] = "recordPolicy" /\ pc'[u] = "redundant" /\ phase[u] # "gone"
      /\ UNCHANGED <<listener, tenants, books, spec, task, phase, seen, peers, own>>
  BY DEF Mine, TypeOK, Held, StatusAddPolicy, Goto, cloud, history
<1>2. /\ rec'[u].listed = rec[u].listed /\ rec'[u].adopted = rec[u].adopted
      /\ rec'[u].pool = rec[u].pool /\ rec'[u].acl = rec[u].acl /\ rec'[u].rules
  BY DEF Mine, TypeOK, Record, StatusAddPolicy
<1>3. Steps(u)'
  BY <1>1, <1>2 DEF Mine, Steps, Reading, Written
<1>4. Brings(u)'
  BY <1>1, <1>2 DEF Mine, Brings
<1>5. Makes(u)'
  BY <1>1, <1>2 DEF Mine, Makes
<1> QED
  BY <1>3, <1>4, <1>5 DEF Traced

\* What is redundant: u deletes a listener that it made, and hands back one that it
\* adopted; one that it never had on the books is as it was.
LEMMA TraceRedundant == ASSUME NEW u \in LBC, Mine(u), ListRedundant(u) PROVE Traced(u)'
<1> DEFINE r == task[u].rec
           kept == task[u].spec.on
<1>1. /\ pc[u] = "redundant" /\ phase[u] # "gone" /\ seen'[u] = listener
      /\ pc'[u] = IF ~r.listed \/ listener = None THEN "finish"
                  ELSE IF ~kept /\ ~r.adopted /\ CanDeleteWhole(u, listener) THEN "delete"
                  ELSE "strip"
      /\ UNCHANGED <<listener, tenants, books, spec, rec, task, phase, peers, own>>
  BY DEF Mine, TypeOK, Held, ListRedundant, Goto, cloud, object, history
<1>2. rec[u].listed = r.listed /\ rec[u].adopted = r.adopted
  BY <1>1 DEF Mine, Steps
<1>3. listener # None /\ ~r.listed => own # None /\ u \notin listener.rules
  BY <1>1, <1>2 DEF Mine, Brings, Makes
<1>4. Steps(u)'
  BY <1>1, <1>2, <1>3 DEF Mine, Steps, Reading, Written
<1>5. ASSUME own # None, ~r.listed PROVE listener = own
  <2>1. listener.pool = own.pool /\ rec[u].acl = NoAcl /\ u \notin listener.rules
    BY <1>2, <1>5 DEF Mine, Brings
  <2>2. \A f \in Field : listener.acl[f] = own.acl[f]
    BY <1>5, <2>1, Empties DEF Mine, Brings
  <2>3. listener.rules = own.rules
    BY <1>5, <2>1 DEF Mine, Brings
  <2> QED
    BY <1>5, <2>1, <2>2, <2>3, SameListener DEF Mine
<1>6. Brings(u)'
  BY <1>1, <1>5 DEF Mine, Brings
<1>7. ASSUME own = None, listener # None, ~kept
      PROVE  r.listed /\ ~r.adopted /\ CanDeleteWhole(u, listener)
  <2>1. r.listed /\ ~r.adopted
    BY <1>1, <1>2, <1>7 DEF Mine, Makes
  <2>2. task[u].spec = NoWant
    BY <1>1, <1>7, WantedWant DEF Mine, Held
  <2>3. PoolsOf(task[u].spec) = {} /\ ~task[u].spec.rules
    BY <2>2 DEF PoolsOf, NoWant
  <2>4. listener.rules \subseteq (IF r.rules THEN {u} ELSE {})
    BY <1>1, <1>7, <2>3 DEF Mine, Makes, Steps
  <2>5. listener.pool # None =>
          listener.pool \in task[u].books /\ tenants[listener.pool] \subseteq {u}
    BY <1>1, <1>7, <2>3 DEF Mine, Makes, Steps
  <2> QED
    BY <2>1, <2>3, <2>4, <2>5 DEF CanDeleteWhole
<1>8. Makes(u)'
  BY <1>1, <1>7 DEF Mine, Makes
<1> QED
  BY <1>4, <1>6, <1>8 DEF Traced

\* The deletion.
LEMMA TraceDelete == ASSUME NEW u \in LBC, Mine(u), DeleteListener(u) PROVE Traced(u)'
<1>1. /\ pc[u] = "delete" /\ pc'[u] = "finish" /\ phase[u] # "gone" /\ own = None
      /\ listener' = None /\ ~task[u].spec.on
      /\ UNCHANGED <<tenants, books, spec, rec, task, phase, seen, peers, own>>
  BY DEF Mine, TypeOK, Held, Adopting, DeleteListener, Goto, object, history
<1>2. Steps(u)'
  BY <1>1 DEF Mine, Steps, Reading, Written
<1> QED
  BY <1>1, <1>2 DEF Traced, Brings, Makes

\* The policies go.
LEMMA TraceStrip == ASSUME NEW u \in LBC, Mine(u), Strip(u) PROVE Traced(u)'
<1> DEFINE r == task[u].rec
<1>1. /\ pc[u] = "strip" /\ seen[u] \in Listener
      /\ listener \in Listener /\ listener' \in Listener
      /\ listener'.pool = listener.pool /\ listener'.acl = listener.acl
      /\ listener'.rules = IF r.rules /\ ~task[u].spec.rules /\ ~Layer4
                           THEN listener.rules \ {u} ELSE listener.rules
      /\ pc'[u] = IF r.adopted /\ ~task[u].spec.on THEN "restore" ELSE "finish"
  BY StripEffect DEF Mine
<1>2. /\ phase[u] # "gone" /\ peers'[u] = {} /\ rec[u].listed
      /\ rec[u].listed = r.listed /\ rec[u].adopted = r.adopted
      /\ rec[u].rules => r.rules \/ task[u].spec.rules
      /\ UNCHANGED <<tenants, books, spec, rec, task, phase, seen, own>>
  BY <1>1, NoPeers DEF Mine, TypeOK, Held, Steps, Strip, object, history
<1>3. listener # None /\ listener' # None
  BY <1>1, Nones
<1>4. Layer4 => u \notin listener.rules
  BY <1>3, ListenersAssumption DEF Mine, TraceInv
<1>5. u \in listener.rules => rec[u].rules
  BY <1>1, <1>3 DEF Mine, Brings, Makes
<1>6. ~task[u].spec.rules => u \notin listener'.rules
  BY <1>1, <1>2, <1>4, <1>5
<1>7. Steps(u)'
  BY <1>1, <1>2, <1>3, <1>6 DEF Mine, Steps, Reading, Written
<1>8. own # None => r.adopted
  BY <1>2 DEF Mine, Adopting
<1>9. Brings(u)'
  BY <1>1, <1>2, <1>3, <1>8 DEF Mine, Brings
<1>10. Makes(u)'
  BY <1>1, <1>2, <1>3 DEF Mine, Makes
<1> QED
  BY <1>7, <1>9, <1>10 DEF Traced

\* What was adopted is handed back as it was.
LEMMA TraceRestore == ASSUME NEW u \in LBC, Mine(u), Restore(u) PROVE Traced(u)'
<1> DEFINE desired == Desired(NoAcl, seen[u].acl, task[u].rec.acl, peers[u])
<1>1. /\ pc[u] = "restore" /\ ~task[u].spec.on /\ Put(u, task[u].rec.pool, desired)
  BY RestoreEffect DEF Mine
<1>2. /\ pc'[u] = "finish" /\ phase[u] # "gone" /\ peers[u] = {} /\ rec[u].listed
      /\ rec[u].acl = task[u].rec.acl /\ rec[u].pool = task[u].rec.pool /\ listener # None
      /\ seen[u].pool = listener.pool /\ seen[u].acl = listener.acl
      /\ UNCHANGED <<tenants, books, spec, rec, task, phase, seen, peers, own>>
  BY <1>1 DEF Mine, TypeOK, Held, Steps, Reading, Restore, Goto, object, history
<1>3. own # None
  BY <1>1, <1>2 DEF Mine, Makes
<1>4. \A f \in Field :
        desired[f] = IF rec[u].acl[f] = listener.acl[f] THEN None ELSE rec[u].acl[f]
  BY <1>2, Empties DEF Desired
<1> HIDE DEF desired
<1>5. /\ listener' \in Listener /\ listener'.pool = rec[u].pool /\ listener'.rules = listener.rules
      /\ \A f \in Field : listener'.acl[f] = IF desired[f] # None THEN desired[f] ELSE listener.acl[f]
  BY <1>1, <1>2 DEF Put
<1>6. /\ listener'.pool = own.pool
      /\ \A f \in Field : listener'.acl[f] = own.acl[f]
  BY <1>2, <1>3, <1>4, <1>5 DEF Mine, Brings
<1>7. u \notin listener.rules
  <2>1. task[u].spec = NoWant
    BY <1>1, WantedWant DEF Mine, Held
  <2>2. ~task[u].spec.rules
    BY <2>1 DEF NoWant
  <2> QED
    BY <1>1, <1>2, <2>2 DEF Mine, Steps
<1>8. listener'.rules = own.rules
  BY <1>3, <1>5, <1>7 DEF Mine, Brings
<1>9. listener' = own
  BY <1>3, <1>5, <1>6, <1>8, SameListener DEF Mine
<1>10. Steps(u)'
  BY <1>1, <1>2, <1>5, <1>7 DEF Mine, Steps, Reading, Written
<1>11. Brings(u)'
  BY <1>2, <1>3, <1>5, <1>6, <1>7, <1>8, <1>9 DEF Mine, Brings
<1> QED
  BY <1>2, <1>3, <1>10, <1>11 DEF Traced, Makes

\* The end of a pass.
LEMMA TraceFinish == ASSUME NEW u \in LBC, Mine(u), Finish(u) PROVE Traced(u)'
<1> DEFINE ps == PoolsOf(task[u].spec)
           t == task[u]
<1>1. /\ pc[u] = "finish" /\ pc'[u] = "idle"
      /\ books'[u] = ps
      /\ rec'[u] = (IF t.spec.on THEN Carried(u) ELSE NoRecord)
      /\ phase'[u] = (IF t.leaving THEN "gone" ELSE phase[u])
      /\ UNCHANGED <<listener, own, spec>>
  BY DEF Mine, TypeOK, Finish, Return, Goto
<1>2. /\ Carried(u).listed = t.rec.listed /\ Carried(u).adopted = t.rec.adopted
      /\ Carried(u).pool = t.rec.pool /\ Carried(u).acl = t.rec.acl
      /\ Carried(u).rules = t.spec.rules
  BY DEF Mine, TypeOK, Record, Want, Carried
<1>3. /\ rec[u].listed = t.rec.listed /\ rec[u].adopted = t.rec.adopted
      /\ rec[u].pool = t.rec.pool /\ rec[u].acl = t.rec.acl /\ phase[u] # "gone"
  BY <1>1 DEF Mine, Steps, Held
<1>4. t.leaving => ~t.spec.on
  BY <1>1 DEF Mine, Held, NoWant
<1>5. Steps(u)'
  BY <1>1, <1>3, <1>4 DEF Steps, Reading, Written
<1>6. listener # None /\ ~t.spec.rules => u \notin listener.rules
  BY <1>1 DEF Mine, Steps
<1>7. CASE t.spec.on
  <2>1. listener # None /\ listener.pool = t.spec.pool /\ rec[u].listed
    BY <1>1, <1>7 DEF Mine, Steps, Written
  <2>2. Brings(u)'
    <3>1. /\ rec'[u].listed /\ rec'[u].pool = rec[u].pool /\ rec'[u].acl = rec[u].acl
          /\ u \in listener.rules => rec'[u].rules
      BY <1>1, <1>2, <1>3, <1>6, <1>7, <2>1
    <3> QED
      BY <1>1, <2>1, <3>1 DEF Mine, Brings
  <2>3. \A p \in Pool : tenants'[p] \subseteq tenants[p]
    BY DEF Mine, TypeOK, Finish
  <2>4. listener.pool # None => listener.pool \in Pool /\ listener.pool \in ps
    BY <1>7, <2>1 DEF Mine, TypeOK, Listener, PoolsOf
  <2>5. Makes(u)'
    <3> SUFFICES ASSUME own = None, listener # None PROVE Makes(u)'
      BY <1>1 DEF Makes
    <3>1. /\ rec[u].listed /\ ~rec[u].adopted /\ listener.rules \subseteq {u}
          /\ listener.pool # None => tenants[listener.pool] \subseteq {u}
      BY <1>1 DEF Mine, Makes
    <3>2. rec'[u].listed /\ ~rec'[u].adopted
      BY <1>1, <1>2, <1>3, <1>7, <3>1
    <3>3. u \in listener.rules => rec'[u].rules
      BY <1>1, <1>2, <1>6, <1>7, <2>1
    <3>4. listener.pool # None => listener.pool \in books'[u] /\ tenants'[listener.pool] \subseteq {u}
      BY <1>1, <2>3, <2>4, <3>1
    <3> QED
      BY <1>1, <3>1, <3>2, <3>3, <3>4 DEF Makes
  <2> QED
    BY <1>5, <2>2, <2>5 DEF Traced
<1>8. CASE ~t.spec.on
  <2>1. ~NoRecord.listed /\ NoRecord.acl = NoAcl
    BY DEF NoRecord
  <2>2. own # None => listener = own
    BY <1>1, <1>8 DEF Mine, Brings
  <2>3. Brings(u)'
    BY <1>1, <1>8, <2>1, <2>2, Empties DEF Mine, Brings
  <2>4. own = None => listener = None
    BY <1>1, <1>8 DEF Mine, Makes
  <2> QED
    BY <1>1, <1>5, <2>3, <2>4 DEF Traced, Makes
<1> QED
  BY <1>7, <1>8

\* A pass that gives up.
LEMMA TraceGiveUp ==
  ASSUME NEW u \in LBC, Mine(u), NotFound(u) \/ Crash(u), ~loose'
  PROVE  Traced(u)'
<1>1. /\ pc'[u] = "idle" /\ (listener # None => pc[u] \notin {"record", "recordPolicy"})
      /\ UNCHANGED <<listener, tenants, books, spec, rec, phase, own>>
  <2>1. CASE NotFound(u)
    BY <2>1 DEF Mine, TypeOK, NotFound, Return, Goto, cloud, object, history
  <2>2. CASE Crash(u)
    BY <2>2 DEF Mine, TypeOK, Crash, Return, Goto, cloud, object
  <2> QED
    BY <2>1, <2>2
<1>2. Steps(u)'
  BY <1>1 DEF Mine, Steps, Reading, Written
<1>3. Brings(u)' /\ Makes(u)'
  BY <1>1 DEF Mine, Brings, Makes
<1> QED
  BY <1>2, <1>3 DEF Traced

\* A step that leaves u apart, and the listener, leaves what u relies on.
LEMMA TraceFrame ==
  ASSUME NEW u \in LBC, Traced(u), Apart(u), UNCHANGED <<listener, tenants, own>>
  PROVE  Traced(u)'
<1>1. Steps(u)'
  BY DEF Traced, Apart, Steps
<1>2. Brings(u)' /\ Makes(u)'
  BY DEF Traced, Apart, Brings, Makes
<1> QED
  BY <1>1, <1>2 DEF Traced

\* The steps of a reconcile.
LEMMA TraceReconcile ==
  ASSUME PoolsApart, IInv, KeptInv, TraceInv, NEW l \in LBC, Reconcile(l) \/ Crash(l)
  PROVE  TraceInv'
<1>1. TypeOK
  BY DEF IInv
<1>2. /\ \A k \in LBC \ {l} : Apart(k)
      /\ UNCHANGED <<spec, own, users, edits>> /\ (loose => loose')
  BY StepApart
<1>3. /\ \A p \in Pool : tenants'[p] \subseteq tenants[p] \cup {l}
      /\ listener' # None =>
           listener'.rules \subseteq (IF listener = None THEN {} ELSE listener.rules) \cup {l}
      /\ Layer4 /\ pc[l] \notin {"policies", "recordPolicy"} =>
           /\ pc'[l] \notin {"policies", "recordPolicy"}
           /\ listener' # None =>
                listener'.rules \subseteq IF listener = None THEN {} ELSE listener.rules
  BY StepMarks
<1>4. UserPools'
  BY <1>3, ListenersAssumption DEF TraceInv, UserPools
<1>5. /\ (own # None => own.rules \subseteq {User})'
      /\ (Layer4 /\ listener # None => listener.rules \subseteq {User})'
      /\ (Layer4 => \A k \in LBC : pc[k] \notin {"policies", "recordPolicy"})'
  BY <1>2, <1>3 DEF TraceInv, Apart
<1>6. ~loose' => \A k \in LBC : phase'[k] # "retiring"
  <2>1. phase'[l] \in {phase[l], "gone"}
    BY <1>1 DEF TypeOK, Reconcile, Begin, DeployPools, CreateListener, UpdateListener,
       DeployPolicies, DeleteListener, Strip, Restore, StatusAddPolicy, StatusAddListener,
       AdoptListener, RecordDisplaced, RecordReleased, ListRedundant, Finish, NotFound, Crash,
       object
  <2> QED
    BY <1>2, <2>1 DEF TraceInv, Apart
<1>7. ASSUME NEW k \in LBC PROVE Never(k)'
  <2>1. CASE k = l /\ k \notin users
    BY <2>1, Bystander
  <2>2. CASE k # l
    BY <1>2, <1>3, <2>2 DEF TraceInv, Never, Apart
  <2> QED
    BY <1>2, <2>1, <2>2 DEF Never
<1>8. ASSUME NEW u \in LBC, users' \subseteq {u}, ~loose' PROVE Traced(u)'
  <2>1. users \subseteq {u} /\ ~loose
    BY <1>2, <1>8
  <2>2. Mine(u)
    BY <2>1, MineHolds
  <2>3. CASE u = l
    BY <1>8, <2>2, <2>3, TraceBegin, TracePools, TraceCreate, TraceAdd, TraceAdopt,
       TraceDisplaced, TraceUpdate, TraceReleased, TracePolicies, TraceAddPolicy,
       TraceRedundant, TraceDelete, TraceStrip, TraceRestore, TraceFinish, TraceGiveUp
    DEF Reconcile
  <2>4. CASE u # l
    <3>1. UNCHANGED <<listener, tenants>>
      BY <2>1, <2>4, Bystander
    <3> QED
      BY <1>2, <2>2, <2>4, <3>1, TraceFrame DEF Mine, Traced
  <2> QED
    BY <2>3, <2>4
<1> QED
  BY <1>4, <1>5, <1>6, <1>7, <1>8 DEF TraceInv, Traced

\* An edit of the annotations, a deletion, a migration.
LEMMA TraceOwner ==
  ASSUME IInv, KeptInv, TraceInv, NEW l \in LBC, Edit(l) \/ Leave(l)
  PROVE  TraceInv'
<1>1. TypeOK /\ spec[l] \in Wanted[l]
  BY DEF IInv
<1>2. /\ UNCHANGED <<listener, tenants, rec, books, pc, task, seen, peers, own>>
      /\ users \subseteq users' /\ (loose => loose')
  <2>1. CASE Edit(l)
    BY <1>1, <2>1 DEF Edit, cloud, run, TypeOK
  <2>2. CASE Leave(l)
    BY <1>1, <2>2 DEF Leave, cloud, run, TypeOK
  <2> QED
    BY <2>1, <2>2
<1>3. \A k \in LBC : k \notin users' => spec'[k] = spec[k]
  <2>1. CASE Edit(l)
    <3>1. PICK s \in Wanted[l] \ {spec[l]} : spec' = [spec EXCEPT ![l] = s]
      BY <2>1 DEF Edit
    <3>2. l \notin users' => ~s.on /\ l \notin users
      BY <1>1, <2>1, <3>1 DEF Edit, TypeOK
    <3>3. l \notin users' => FALSE
      BY <3>1, <3>2, WantedWant DEF TraceInv, Never
    <3> QED
      BY <1>1, <3>1, <3>3 DEF TypeOK
  <2>2. CASE Leave(l)
    BY <2>2 DEF Leave
  <2> QED
    BY <2>1, <2>2
<1>4. /\ ~loose' => \A k \in LBC : phase'[k] # "retiring"
      /\ \A k \in LBC : phase'[k] = "gone" => phase[k] = "gone"
  <2>1. CASE Edit(l)
    BY <2>1 DEF Edit, TraceInv
  <2>2. CASE Leave(l)
    BY <1>1, <2>2 DEF Leave, TraceInv, TypeOK
  <2> QED
    BY <2>1, <2>2
<1>5. ASSUME NEW k \in LBC PROVE Never(k)'
  BY <1>2, <1>3 DEF TraceInv, Never
<1>6. ASSUME NEW u \in LBC, users' \subseteq {u}, ~loose' PROVE Steps(u)' /\ Brings(u)' /\ Makes(u)'
  <2>1. Steps(u) /\ Brings(u) /\ Makes(u)
    BY <1>2, <1>6 DEF TraceInv
  <2>2. Steps(u)'
    BY <1>2, <1>4, <2>1 DEF Steps
  <2> QED
    BY <1>2, <2>1, <2>2 DEF Brings, Makes
<1> QED
  BY <1>2, <1>4, <1>5, <1>6 DEF TraceInv, UserPools

\* The portal, while nothing runs.
LEMMA TracePortal ==
  ASSUME IInv, KeptInv, TraceInv, PortalDelete \/ \E f \in Field, v \in Value : PortalEdit(f, v)
  PROVE  TraceInv'
<1>1. TypeOK
  BY DEF IInv
<1>2. UNCHANGED <<tenants, spec, rec, books, phase, pc, task, seen, peers, users>>
  BY DEF PortalDelete, PortalEdit, object, run
<1>3. CASE PortalDelete
  <2>1. /\ listener' = None /\ own' = None /\ (loose => loose')
        /\ ~loose' => \A l \in LBC : pc[l] = "idle"
    BY <1>3 DEF PortalDelete
  <2>2. \A k \in LBC : Never(k)'
    BY <1>2, <2>1 DEF TraceInv, Never
  <2>3. ASSUME NEW u \in LBC, users \subseteq {u}, ~loose' PROVE Steps(u)' /\ Brings(u)' /\ Makes(u)'
    <3>1. Steps(u) /\ pc[u] = "idle"
      BY <2>1, <2>3 DEF TraceInv
    <3>2. Steps(u)'
      BY <1>2, <3>1 DEF Steps, Reading, Written
    <3> QED
      BY <2>1, <3>2 DEF Brings, Makes
  <2> QED
    BY <1>2, <2>1, <2>2, <2>3 DEF TraceInv, UserPools
<1>4. ASSUME NEW f \in Field, NEW v \in Value, PortalEdit(f, v) PROVE TraceInv'
  <2>1. /\ listener # None /\ own # None /\ (loose => loose')
        /\ ~loose' => \A l \in LBC : pc[l] = "idle"
    BY <1>4 DEF PortalEdit
  <2>2. /\ listener' \in Listener
        /\ listener'.pool = listener.pool /\ listener'.rules = listener.rules
        /\ \A g \in Field : listener'.acl[g] = IF g = f THEN v ELSE listener.acl[g]
    BY <1>1, <1>4, FieldSet DEF TypeOK, PortalEdit
  <2>3. /\ own' \in Listener /\ own'.pool = own.pool /\ own'.rules = own.rules
        /\ \A g \in Field \ {f} : own'.acl[g] = own.acl[g]
        /\ (\A l \in LBC : rec[l].acl[f] = None) => own'.acl[f] = v
        /\ ~(\A l \in LBC : rec[l].acl[f] = None) => own'.acl[f] = own.acl[f]
    <3> DEFINE new == [own EXCEPT !.acl[f] = v]
    <3>1. own \in Listener
      BY <1>1, <2>1 DEF TypeOK
    <3>2. /\ new \in Listener /\ new.pool = own.pool /\ new.rules = own.rules
          /\ \A g \in Field : new.acl[g] = IF g = f THEN v ELSE own.acl[g]
      BY <3>1, FieldSet
    <3>3. own' = IF \A l \in LBC : rec[l].acl[f] = None THEN new ELSE own
      BY <1>4 DEF PortalEdit
    <3> HIDE DEF new
    <3> QED
      BY <3>1, <3>2, <3>3
  <2>4. \A k \in LBC : Never(k)'
    BY <1>2, <2>1, <2>2 DEF TraceInv, Never
  <2>5. ASSUME NEW u \in LBC, users \subseteq {u}, ~loose' PROVE Steps(u)' /\ Brings(u)' /\ Makes(u)'
    <3>1. Steps(u) /\ Brings(u) /\ pc[u] = "idle"
      BY <2>1, <2>5 DEF TraceInv
    <3>2. Steps(u)'
      BY <1>2, <3>1 DEF Steps, Reading, Written
    <3>3. rec[u].acl[f] = None => own'.acl[f] = v
      <4>1. \A k \in LBC \ {u} : rec[k].acl[f] = None
        BY <2>5, Empties DEF TraceInv, Never, NoRecord
      <4> QED
        BY <2>3, <4>1
    <3>4. rec[u].acl[f] # None => own'.acl[f] = own.acl[f]
      BY <2>3
    <3>5. \A g \in Field : IF rec[u].acl[g] # None THEN rec[u].acl[g] = own'.acl[g]
                           ELSE listener'.acl[g] = own'.acl[g]
      BY <2>1, <2>2, <2>3, <3>1, <3>3, <3>4 DEF Brings
    <3>6. Brings(u)'
      BY <1>2, <2>1, <2>2, <2>3, <3>1, <3>5 DEF Brings
    <3>7. own' # None
      BY <2>3, Nones
    <3> QED
      BY <3>2, <3>6, <3>7 DEF Makes
  <2> QED
    BY <1>2, <2>1, <2>2, <2>3, <2>4, <2>5 DEF TraceInv, UserPools
<1> QED
  BY <1>3, <1>4

\* Every step.
LEMMA NextTrace ==
  ASSUME PoolsApart
  PROVE  IInv /\ KeptInv /\ TraceInv /\ [Next]_vars => TraceInv'
<1> SUFFICES ASSUME IInv, KeptInv, TraceInv, [Next]_vars PROVE TraceInv'
  OBVIOUS
<1>1. CASE UNCHANGED vars
  BY <1>1 DEF TraceInv, UserPools, Never, Steps, Brings, Makes, vars, cloud, object, run, history,
     PoolsOf
<1> QED
  BY <1>1, TraceReconcile, TraceOwner, TracePortal DEF Next

\* When everybody is gone, and one LBC at most ever asked.
LEMMA TraceEnds == IInv /\ KeptInv /\ TraceInv => LeftAsFound
<1> SUFFICES ASSUME IInv, KeptInv, TraceInv, \A l \in LBC : phase[l] = "gone",
                    Cardinality(users) <= 1, ~loose
             PROVE  listener = own
  BY DEF LeftAsFound
<1>1. PICK u \in LBC : users \subseteq {u}
  <2>1. IsFiniteSet(users) /\ users \subseteq LBC
    BY ListenersAssumption, FS_Subset DEF IInv, TypeOK
  <2>2. Cardinality(users) \in Nat
    BY <2>1, FS_CardinalityType
  <2>3. CASE Cardinality(users) = 0
    BY <2>1, <2>3, FS_EmptySet, ListenersAssumption
  <2>4. CASE Cardinality(users) = 1
    BY <2>1, <2>4, FS_Singleton
  <2> QED
    BY <2>2, <2>3, <2>4
<1>2. Mine(u)
  BY <1>1, MineHolds
<1>3. rec[u] = NoRecord /\ ~NoRecord.listed /\ NoRecord.acl = NoAcl
  BY <1>2 DEF Mine, Steps, NoRecord
<1>4. pc[u] = "idle"
  BY <1>2 DEF Mine, Held
<1>5. CASE own = None
  BY <1>2, <1>3, <1>4, <1>5 DEF Mine, Makes
<1>6. CASE own # None
  <2>1. listener.pool = own.pool /\ u \notin listener.rules
    BY <1>2, <1>3, <1>6 DEF Mine, Brings
  <2>2. listener.rules = own.rules
    BY <1>2, <1>6, <2>1 DEF Mine, Brings
  <2>3. \A f \in Field : listener.acl[f] = own.acl[f]
    BY <1>2, <1>3, <1>6, Empties DEF Mine, Brings
  <2> QED
    BY <1>2, <1>6, <2>1, <2>2, <2>3, SameListener DEF Mine
<1> QED
  BY <1>5, <1>6

\* When all are gone and one LBC at most ever asked for the port, the listener is
\* as the user left it, or gone if the LBC had made it, whatever the calls that
\* failed before (restoreAdoptedListener, canDeleteWholeListener); provided that
\* no LBC asks for the very pool of the listener that was there.
THEOREM ListenerLeftAsFound ==
  ASSUME PoolsApart
  PROVE  Spec => []LeftAsFound
<1>1. IInv /\ KeptInv /\ TraceInv /\ [Next]_vars => TraceInv'
  BY NextTrace
<1> QED
  BY <1>1, InitIInv, NextIInv, InitKept, NextKept, InitTrace, TraceEnds, PTL DEF Spec

=============================================================================
