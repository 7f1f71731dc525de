-------------------------- MODULE NodeSecurityGroup --------------------------
(***************************************************************************)
(* NodeSecurityGroups (NSG): internal/usecase/nsg_uc, driven by            *)
(* nsg_controller.go.  An NSG attaches security groups to the servers of   *)
(* the nodes it selects: existing ones, and one that it creates, keeps the *)
(* rules of and deletes.                                                   *)
(*                                                                         *)
(* The compute API replaces the whole set of a server's groups, so every   *)
(* change is a read, a merge and a write.  The controller has one worker,  *)
(* so that its NSGs take turns; the user, who attaches groups on the       *)
(* portal, does not.  What to take off again is known from status only.    *)
(* A reconcile works with the object as it was when it began; its patches  *)
(* go to the object as it is.                                              *)
(***************************************************************************)
EXTENDS Naturals, FiniteSets

CONSTANTS
  NSG, Server,
  Group,      \* security groups of the user, that specs may name
  Hand,       \* security groups the user attaches to servers by hand
  Made,       \* ids of the groups created here
  Rule,       \* rules of a managed group
  Specs,      \* the specs an NSG may have
  Scenes,     \* the NSGs there are, and the servers that exist, at the start
  None,
  MaxEdits,   \* bound on changes of specs, of the selected nodes, of servers
  FaultAt,    \* the calls that may fail; "crash" where the controller may
  MaxFaults   \* bound on failing calls and crashes

SG == Group \cup Hand \cup Made
SpecType == [attach : SUBSET Group, managed : BOOLEAN, rules : SUBSET Rule]

ASSUME NsgAssumption ==
  /\ Specs \subseteq SpecType
  /\ Scenes \subseteq [nsgs : SUBSET NSG, servers : SUBSET Server]
  /\ Group \cap Hand = {} /\ Made \cap (Group \cup Hand) = {}
  /\ None \notin Made /\ None \notin NSG /\ None \notin Server
  /\ MaxEdits \in Nat /\ MaxFaults \in Nat

VARIABLES
  up,         \* the compute service: servers that exist
  att,        \* the groups attached to a server
  name,       \* the NSG whose managed name a created group bears; None: no group
  used,       \* ids of groups ever created
  rules,      \* the rules of a created group
  spec, sel,  \* the NSG's spec, and the servers of the nodes it selects
  phase,      \* live, deleting, gone
  st,         \* status.managedSecurityGroup.id and status.serverSecurityGroups
  pc, task,   \* the running reconcile and what it knows
  edits, faults,
  hand,       \* history: what was attached to a server by hand, not during a write
  loose,      \* history: groups put on a server of which status lost sight
  orphan      \* history: created groups of which status lost sight

cloud == <<up, att, name, used, rules>>
object == <<spec, sel, phase>>
run == <<pc, task>>
bounds == <<edits, faults>>
history == <<hand, loose, orphan>>
vars == <<cloud, object, st, run, bounds, history>>

PC == {"idle", "find", "create", "rules", "select", "next", "update", "note",
       "retire", "deleteSg", "finish"}

\* recs: the servers status has an entry for; ids: what the entry says is attached.
NoStatus == [managed |-> None, recs |-> {}, ids |-> [s \in Server |-> {}]]

NoTask ==
  [spec |-> [attach |-> {}, managed |-> FALSE, rules |-> {}],
   old |-> NoStatus, id |-> None, del |-> FALSE,
   drop |-> {}, keep |-> {}, add |-> {},
   cur |-> None, read |-> {}, err |-> FALSE, failed |-> FALSE]

StatusType ==
  [managed : Made \cup {None}, recs : SUBSET Server, ids : [Server -> SUBSET SG]]
TaskType ==
  [spec : SpecType, old : StatusType, id : Made \cup {None}, del : BOOLEAN,
   drop : SUBSET Server, keep : SUBSET Server, add : SUBSET Server,
   cur : Server \cup {None}, read : SUBSET SG, err : BOOLEAN, failed : BOOLEAN]

Init ==
  /\ \E c \in Scenes :
       /\ up = c.servers
       /\ sel = [n \in NSG |-> c.servers]
       /\ phase = [n \in NSG |-> IF n \in c.nsgs THEN "live" ELSE "gone"]
       /\ hand \in {h \in [Server -> SUBSET Hand] : \A s \in Server \ c.servers : h[s] = {}}
  /\ att = hand
  /\ name = [m \in Made |-> None]
  /\ used = {}
  /\ rules = [m \in Made |-> {}]
  /\ spec \in [NSG -> Specs]
  /\ st = [n \in NSG |-> NoStatus]
  /\ pc = [n \in NSG |-> "idle"]
  /\ task = [n \in NSG |-> NoTask]
  /\ edits = 0 /\ faults = 0
  /\ loose = [s \in Server |-> {}] /\ orphan = {}

-----------------------------------------------------------------------------
Goto(n, p) == pc' = [pc EXCEPT ![n] = p]
Return(n) == Goto(n, "idle") /\ task' = [task EXCEPT ![n] = NoTask]
SetManaged(n, m) == st' = [st EXCEPT ![n].managed = m]

\* EnsureNodeSecurityGroupUseCase, DeleteNodeSecurityGroupUseCase: the object is
\* read once.  A deletion detaches from every server status has an entry for.
\* One at a time: the controller is set up with one worker (cmd/main.go).
Begin(n) ==
  /\ phase[n] # "gone" /\ \A k \in NSG : pc[k] = "idle"
  /\ LET t == [NoTask EXCEPT !.spec = spec[n], !.old = st[n]]
     IN \/ /\ phase[n] = "live" /\ Goto(n, "find")
           /\ task' = [task EXCEPT ![n] = t]
        \/ /\ phase[n] = "deleting" /\ Goto(n, "next")
           /\ task' = [task EXCEPT ![n] = [t EXCEPT !.del = TRUE, !.drop = st[n].recs]]
  /\ UNCHANGED <<cloud, object, st, bounds>>

-----------------------------------------------------------------------------
(* ensureManagedSecurityGroup. *)

\* findSecgroupByName, when the spec has a managed group at all.
Find(n) ==
  LET named == {m \in Made : name[m] = n}
  IN /\ pc[n] = "find"
     /\ \/ /\ ~task[n].spec.managed
           /\ Goto(n, "rules") /\ UNCHANGED task
        \/ /\ task[n].spec.managed
           /\ \E m \in named : task' = [task EXCEPT ![n].id = m]
           /\ Goto(n, "rules")
        \/ /\ task[n].spec.managed /\ named = {}
           /\ Goto(n, "create") /\ UNCHANGED task
     /\ UNCHANGED <<cloud, object, st, bounds>>

\* The id the service gives to the next group.
Fresh == CHOOSE m \in Made \ used : TRUE

\* CreateSecurityGroup: the new group may come with rules of the service.
CreateSecurityGroup(n) ==
  /\ used # Made
  /\ \E d \in SUBSET Rule : rules' = [rules EXCEPT ![Fresh] = d]
  /\ name' = [name EXCEPT ![Fresh] = n]
  /\ used' = used \cup {Fresh}
  /\ UNCHANGED <<up, att>>

Create(n) ==
  /\ pc[n] = "create"
  /\ CreateSecurityGroup(n)
  /\ task' = [task EXCEPT ![n].id = Fresh]
  /\ Goto(n, "rules")
  /\ UNCHANGED <<object, st, bounds>>

\* compareSecgroupRule: unwanted rules go first, then the missing ones come.
NeedDelete(n) == rules[task[n].id] \ task[n].spec.rules
NeedCreate(n) == task[n].spec.rules \ rules[task[n].id]

ChangeRule(n) ==
  /\ pc[n] = "rules" /\ task[n].id # None
  /\ \/ \E r \in NeedDelete(n) : rules' = [rules EXCEPT ![task[n].id] = @ \ {r}]
     \/ /\ NeedDelete(n) = {}
        /\ \E r \in NeedCreate(n) : rules' = [rules EXCEPT ![task[n].id] = @ \cup {r}]
  /\ UNCHANGED <<up, att, name, used, object, st, run, bounds>>

\* The patch at the end of ensureManagedSecurityGroup.
PatchManaged(n) ==
  /\ pc[n] = "rules"
  /\ task[n].id # None => rules[task[n].id] = task[n].spec.rules
  /\ SetManaged(n, task[n].id)
  /\ Goto(n, "select")
  /\ UNCHANGED <<cloud, object, task, bounds>>

-----------------------------------------------------------------------------
(* ensureSelectedNodes and ensureServerSecurityGroups. *)

\* Mutant of SelectNodes: a server status has an entry for needs no work.
SelectNew(n) ==
  /\ pc[n] = "select"
  /\ task' = [task EXCEPT ![n] = [@ EXCEPT !.drop = task[n].old.recs \ sel[n],
                                           !.add = sel[n] \ task[n].old.recs]]
  /\ Goto(n, "next")
  /\ UNCHANGED <<cloud, object, st, bounds>>

\* resolveStringArrayChange of the servers status has entries for, not of
\* status.selectedNodes, and of the ones selected now.
SelectNodes(n) ==
  LET recs == task[n].old.recs
  IN /\ pc[n] = "select"
     /\ task' = [task EXCEPT ![n] = [@ EXCEPT !.drop = recs \ sel[n],
                                              !.keep = recs \cap sel[n],
                                              !.add = sel[n] \ recs]]
     /\ Goto(n, "next")
     /\ UNCHANGED <<cloud, object, st, bounds>>

\* The servers to do next: removed ones first, added ones last.
Todo(t) ==
  IF t.drop # {} THEN t.drop ELSE IF t.keep # {} THEN t.keep ELSE t.add

\* needAttachSecgroupIds; nothing for a server that is left.
Wanted(t) ==
  IF t.drop # {} THEN {} ELSE t.spec.attach \cup ({t.id} \ {None})

\* Mutant of MergeStringArray: the server ends up with what is wanted, no more.
MergeReplacing(current, remove, add) == add

MergeStringArray(current, remove, add) == (current \ remove) \cup add

\* What ensureSecgroupForInstance would make of the groups of its server.
Merged(t) == MergeStringArray(t.read, t.old.ids[t.cur], Wanted(t))

\* Mutant of Get: a server that is gone fails a detachment too.
GetOrFail(n) ==
  /\ pc[n] = "next"
  /\ \E s \in Todo(task[n]) :
       LET t == [task[n] EXCEPT !.cur = s, !.read = att[s]]
       IN IF s \in up
          THEN /\ Goto(n, IF Merged(t) = t.read THEN "note" ELSE "update")
               /\ task' = [task EXCEPT ![n] = t]
          ELSE /\ Goto(n, "note")
               /\ task' = [task EXCEPT ![n] = [t EXCEPT !.err = TRUE]]
  /\ UNCHANGED <<cloud, object, st, bounds>>

\* GetServerByID and the merge.  A server that is gone is an error, except
\* where it was to be left.
Get(n) ==
  /\ pc[n] = "next"
  /\ \E s \in Todo(task[n]) :
       LET t == [task[n] EXCEPT !.cur = s, !.read = att[s]]
       IN IF s \in up
          THEN /\ Goto(n, IF Merged(t) = t.read THEN "note" ELSE "update")
               /\ task' = [task EXCEPT ![n] = t]
          ELSE /\ Goto(n, "note")
               /\ task' = [task EXCEPT ![n] = [t EXCEPT !.err = (s \notin t.drop)]]
  /\ UNCHANGED <<cloud, object, st, bounds>>

\* The groups that can be attached: the user's, and created ones that exist.
Attachable == Group \cup Hand \cup {m \in Made : name[m] # None}

\* UpdateSecGroupsOfServer and WaitForServerActive: the set is replaced.
Update(n) ==
  LET t == task[n]
  IN /\ pc[n] = "update"
     /\ \/ /\ t.cur \in up /\ Merged(t) \subseteq Attachable
           /\ att' = [att EXCEPT ![t.cur] = Merged(t)]
           /\ UNCHANGED task
        \/ /\ ~(t.cur \in up /\ Merged(t) \subseteq Attachable)
           /\ task' = [task EXCEPT ![n].err = TRUE]
           /\ UNCHANGED att
     /\ Goto(n, "note")
     /\ UNCHANGED <<up, name, used, rules, object, st, bounds>>

\* The server is done with, well or not.
Done(t) ==
  [t EXCEPT !.drop = @ \ {t.cur}, !.keep = @ \ {t.cur}, !.add = @ \ {t.cur},
            !.failed = @ \/ t.err, !.err = FALSE, !.cur = None, !.read = {}]

\* statusRemoveServerSecurityGroup, statusUpdateNodeSecurityGroup.
RemoveEntry(e, s) == [e EXCEPT !.recs = e.recs \ {s}, !.ids[s] = {}]
UpdateEntry(e, s, ids) == [e EXCEPT !.recs = e.recs \cup {s}, !.ids[s] = ids]

\* Mutant of Noted: the entry of a server goes although the detachment failed.
NotedDropped(e, t) ==
  IF t.del THEN e
  ELSE IF t.drop # {} THEN RemoveEntry(e, t.cur)
  ELSE UpdateEntry(e, t.cur, Wanted(t))

\* The status after a server: the entry of one left goes, unless that failed;
\* the others get theirs whether or not it failed; a deletion patches nothing.
Noted(e, t) ==
  IF t.del THEN e
  ELSE IF t.drop # {} THEN IF t.err THEN e ELSE RemoveEntry(e, t.cur)
  ELSE UpdateEntry(e, t.cur, Wanted(t))

Note(n) ==
  /\ pc[n] = "note"
  /\ st' = [st EXCEPT ![n] = Noted(st[n], task[n])]
  /\ task' = [task EXCEPT ![n] = Done(task[n])]
  /\ Goto(n, "next")
  /\ UNCHANGED <<cloud, object, bounds>>

\* The loop is over: a failure ends the reconcile, otherwise the managed group
\* that is no longer wanted is next, if there is one.
AllDone(n) ==
  LET t == task[n]
      stale == t.old.managed # None /\ (t.del \/ t.old.managed # t.id)
  IN /\ pc[n] = "next" /\ Todo(t) = {}
     /\ \/ t.failed /\ Return(n)
        \/ ~t.failed /\ stale /\ Goto(n, "retire") /\ UNCHANGED task
        \/ ~t.failed /\ ~stale /\ t.del /\ Goto(n, "finish") /\ UNCHANGED task
        \/ ~t.failed /\ ~stale /\ ~t.del /\ Return(n)
     /\ UNCHANGED <<cloud, object, st, bounds>>

-----------------------------------------------------------------------------
(* deleteManagedSecurityGroupIfUnused, and the end. *)

AfterRetire(n) ==
  IF task[n].del THEN Goto(n, "finish") /\ UNCHANGED task ELSE Return(n)

\* GetSecurityGroup and ListServerBySecgroupID: a group that is attached stays,
\* and that is no error.
Retire(n) ==
  LET m == task[n].old.managed
      attached == \E s \in up : m \in att[s]
  IN /\ pc[n] = "retire"
     /\ \/ /\ name[m] = None \/ attached
           /\ AfterRetire(n)
        \/ /\ name[m] # None /\ ~attached
           /\ Goto(n, "deleteSg") /\ UNCHANGED task
     /\ UNCHANGED <<cloud, object, st, bounds>>

\* Mutant of RetireFails: what a deletion cannot delete is only logged.
RetireLogged(n) ==
  IF task[n].del THEN Goto(n, "finish") /\ UNCHANGED <<st, task>>
  ELSE SetManaged(n, task[n].old.managed) /\ Return(n)

\* The old id is put back into status where its deletion fails in an ensure.
RetireFails(n) ==
  /\ IF task[n].del THEN UNCHANGED st ELSE SetManaged(n, task[n].old.managed)
  /\ Return(n)

\* DeleteSecurityGroup; the service refuses while the group is attached.
DeleteSecurityGroup(n) ==
  LET m == task[n].old.managed
      attached == \E s \in up : m \in att[s]
  IN /\ pc[n] = "deleteSg"
     /\ \/ /\ ~attached
           /\ name' = [name EXCEPT ![m] = None]
           /\ rules' = [rules EXCEPT ![m] = {}]
           /\ AfterRetire(n) /\ UNCHANGED st
        \/ /\ attached
           /\ RetireFails(n) /\ UNCHANGED <<name, rules>>
     /\ UNCHANGED <<up, att, used, object, bounds>>

\* The finalizer comes off.
Finish(n) ==
  /\ pc[n] = "finish"
  /\ phase' = [phase EXCEPT ![n] = "gone"]
  /\ Return(n)
  /\ UNCHANGED <<cloud, spec, sel, st, bounds>>

-----------------------------------------------------------------------------
(* What goes wrong, and the world. *)

\* The name a call fails under: the loop over servers has three.
At(n) ==
  IF pc[n] \notin {"next", "update", "note"} THEN pc[n]
  ELSE IF task[n].del THEN "detach"
  ELSE IF task[n].drop # {} THEN "leave" ELSE "attach"

\* doEnsureManagedSecurityGroup returns its error with the id it has got to, and
\* that id is patched into status even so, unless the patch fails too.
ManagedError(n) ==
  /\ pc[n] \in {"find", "create", "rules"}
  /\ SetManaged(n, task[n].id) \/ ("patch" \in FaultAt /\ UNCHANGED st)
  /\ Return(n)
  /\ UNCHANGED cloud

\* CreateSecurityGroup was carried out, and its answer or the read after it failed.
CreateUnanswered(n) ==
  /\ pc[n] = "create"
  /\ CreateSecurityGroup(n)
  /\ SetManaged(n, None)
  /\ Return(n)

\* GetServerByID fails: the next server is to be done.
GetError(n) ==
  /\ pc[n] = "next"
  /\ \E s \in Todo(task[n]) :
       task' = [task EXCEPT ![n] = [@ EXCEPT !.cur = s, !.err = TRUE]]
  /\ Goto(n, "note")
  /\ UNCHANGED <<cloud, st>>

\* UpdateSecGroupsOfServer fails, or it was carried out and the wait fails.
UpdateError(n) ==
  LET t == task[n]
  IN /\ pc[n] = "update"
     /\ \/ UNCHANGED att
        \/ /\ t.cur \in up /\ Merged(t) \subseteq Attachable
           /\ att' = [att EXCEPT ![t.cur] = Merged(t)]
     /\ task' = [task EXCEPT ![n].err = TRUE]
     /\ Goto(n, "note")
     /\ UNCHANGED <<up, name, used, rules, st>>

\* The patch of the server's entry fails, which is only logged.
NoteError(n) ==
  /\ pc[n] = "note"
  /\ task' = [task EXCEPT ![n] = Done(task[n])]
  /\ Goto(n, "next")
  /\ UNCHANGED <<cloud, st>>

\* The listing of the nodes, the look at the group or the finalizer fails.
OtherError(n) ==
  /\ \/ pc[n] \in {"select", "finish"} /\ Return(n) /\ UNCHANGED st
     \/ pc[n] \in {"retire", "deleteSg"} /\ RetireFails(n)
  /\ UNCHANGED cloud

Error(n) ==
  /\ At(n) \in FaultAt /\ faults < MaxFaults
  /\ \/ ManagedError(n) \/ CreateUnanswered(n) \/ GetError(n) \/ UpdateError(n)
     \/ NoteError(n) \/ OtherError(n)
  /\ faults' = faults + 1
  /\ UNCHANGED <<object, edits>>

\* The controller stops between any two calls and starts again.
Crash ==
  /\ "crash" \in FaultAt /\ faults < MaxFaults
  /\ faults' = faults + 1
  /\ pc' = [n \in NSG |-> "idle"]
  /\ task' = [n \in NSG |-> NoTask]
  /\ UNCHANGED <<cloud, object, st, edits>>

-----------------------------------------------------------------------------
\* The owner of the NSG, or a user, changes its spec.
EditSpec(n) ==
  /\ phase[n] = "live"
  /\ \E p \in Specs \ {spec[n]} : spec' = [spec EXCEPT ![n] = p]
  /\ UNCHANGED <<cloud, sel, phase>>

\* Nodes come, go, or change their labels; one that comes has a server.
Select(n) ==
  /\ phase[n] = "live"
  /\ \E S \in SUBSET (up \cup sel[n]) : sel' = [sel EXCEPT ![n] = S]
  /\ UNCHANGED <<cloud, spec, phase>>

\* A server is deleted; its node may stay for a while.
ServerGone(s) ==
  /\ s \in up
  /\ up' = up \ {s}
  /\ att' = [att EXCEPT ![s] = {}]
  /\ UNCHANGED <<name, used, rules, object>>

\* The user attaches a group on the portal.  Between GetServerByID and the update
\* of the server nobody knows of it, and the update drops it.
AttachByHand(s) ==
  /\ s \in up
  /\ \E g \in Hand \ att[s] :
       /\ att' = [att EXCEPT ![s] = @ \cup {g}]
       /\ hand' = IF \E n \in NSG : pc[n] = "update" /\ task[n].cur = s
                  THEN hand ELSE [hand EXCEPT ![s] = @ \cup {g}]
  /\ UNCHANGED <<up, name, used, rules, object>>

Edit ==
  /\ edits < MaxEdits /\ edits' = edits + 1
  /\ \/ /\ (\E n \in NSG : EditSpec(n) \/ Select(n)) \/ (\E s \in Server : ServerGone(s))
        /\ UNCHANGED hand
     \/ \E s \in Server : AttachByHand(s)
  /\ UNCHANGED <<st, run, faults, loose, orphan>>

Delete(n) ==
  /\ phase[n] = "live"
  /\ phase' = [phase EXCEPT ![n] = "deleting"]
  /\ UNCHANGED <<cloud, spec, sel, st, run, bounds, history>>

-----------------------------------------------------------------------------
(* History: what status loses sight of, and how. *)

\* n is done, or is cut off, at a server that it was to attach its groups to.
Leaves(n, s) ==
  /\ pc[n] = "note" /\ pc'[n] # "note" /\ task[n].cur = s
  /\ ~task[n].del /\ task[n].drop = {}

\* What it wants there, or had there, and is there but not in the entry: that of
\* a failed attachment is overwritten, that of another may not get written.
Loosened(n, s) ==
  IF Leaves(n, s)
  THEN (loose[s] \cup (att[s] \cap (Wanted(task[n]) \cup st[n].ids[s]))) \ st'[n].ids[s]
  ELSE loose[s]

\* A reconcile that fails, or is cut off, leaves a group with the name of n that
\* status does not have: just created, or put out of status before it was deleted.
Lost(n) ==
  IF pc[n] # "idle" /\ pc'[n] = "idle" /\ ~task[n].del
  THEN {m \in Made : name'[m] = n /\ m # st'[n].managed} ELSE {}

\* A group that is to be deleted, but is on a server where status forgot it.
Held(n) ==
  {m \in Made : /\ pc[n] = "retire" /\ pc'[n] # "retire" /\ m = task[n].old.managed
                /\ \E s \in up : m \in att[s] \cap loose[s]}

\* What is found again by its name is in status again.
Track(n, fails) ==
  /\ loose' = [s \in Server |-> Loosened(n, s)]
  /\ orphan' = ((orphan \cup (IF fails THEN Lost(n) ELSE {}))
                 \ (IF task[n].del THEN {} ELSE {st'[n].managed})) \cup Held(n)
  /\ UNCHANGED hand

-----------------------------------------------------------------------------
\* One reconcile of an NSG: the work queue never runs two for one object.
Reconcile(n) ==
  \/ Begin(n)
  \/ Find(n) \/ Create(n) \/ ChangeRule(n) \/ PatchManaged(n)
  \/ SelectNodes(n) \/ Get(n) \/ Update(n) \/ Note(n) \/ AllDone(n)
  \/ Retire(n) \/ DeleteSecurityGroup(n) \/ Finish(n)

Pass(n) == Reconcile(n) /\ Track(n, task[n].failed)

\* The one that runs when the controller stops, if one does.
Running == {n \in NSG : pc[n] # "idle"}

Next ==
  \/ \E n \in NSG : Pass(n) \/ (Error(n) /\ Track(n, TRUE)) \/ Delete(n)
  \/ Crash /\ IF Running = {} THEN UNCHANGED history
              ELSE \E n \in Running : Track(n, TRUE)
  \/ Edit

Spec == Init /\ [][Next]_vars

\* An NSG is reconciled again and again: after an error, at every event of a node
\* and at every resync.  The queue of the one worker serves all in turn.
Fairness ==
  /\ WF_vars(\E n \in NSG : Pass(n))
  /\ \A n \in NSG : SF_vars(Begin(n) /\ Track(n, FALSE))
FairSpec == Spec /\ Fairness

-----------------------------------------------------------------------------
(* Properties. *)

\* The state is well formed.
TypeOK ==
  /\ up \subseteq Server /\ att \in [Server -> SUBSET SG]
  /\ name \in [Made -> NSG \cup {None}] /\ used \subseteq Made
  /\ rules \in [Made -> SUBSET Rule]
  /\ spec \in [NSG -> SpecType] /\ sel \in [NSG -> SUBSET Server]
  /\ phase \in [NSG -> {"live", "deleting", "gone"}]
  /\ st \in [NSG -> StatusType]
  /\ pc \in [NSG -> PC] /\ task \in [NSG -> TaskType]
  /\ edits \in Nat /\ faults \in Nat
  /\ hand \in [Server -> SUBSET Hand] /\ loose \in [Server -> SUBSET SG]
  /\ orphan \subseteq Made

\* ensureSecgroupForInstance sends the whole set of a server's groups: whatever
\* the NSGs do with a server, and wherever they fail, a group somebody attached by
\* hand is never lost from it, unless that was between the read and the write.
HandAttachedKept == \A s \in up : hand[s] \subseteq att[s]

\* What n asks for is there: its groups on the servers it selects, and the rules
\* of its managed group.
Applied(n) ==
  /\ \A s \in sel[n] \cap up : spec[n].attach \subseteq att[s]
  /\ spec[n].managed =>
       \E m \in Made :
         /\ name[m] = n /\ rules[m] = spec[n].rules
         /\ \A s \in sel[n] \cap up : m \in att[s]

\* Once edits and failures stop, every NSG that stays is applied for good, a
\* group another NSG's write has dropped from a shared server, or has taken off
\* as its own, included; a selected server that is gone does not hold up others.
EventuallyApplied == \A n \in NSG : <>[](phase[n] = "live" => Applied(n))

\* NSGs that are gone have left no group on any server but those that an entry
\* lost sight of when an attachment or its patch failed: whatever else fails.
AllDetached ==
  (\A n \in NSG : phase[n] = "gone") =>
    \A s \in up : att[s] \subseteq Hand \cup loose[s]

\* An NSG that is gone has left no managed security group behind but those that
\* an ensure that failed had left out of status, or that such a server holds.
ManagedReclaimed ==
  \A m \in Made : name[m] # None /\ phase[name[m]] = "gone" => m \in orphan

\* "When the NodeSecurityGroup is deleted, the controller detaches and (if managed)
\* deletes the security group" (docs/guide/node-security-group.md): none is left.
ManagedDeleted == \A m \in Made : name[m] # None => phase[name[m]] # "gone"

\* "Failed operations stay visible for retry" (ensureServerSecurityGroups): when
\* nothing runs, what is on a server and was not put there by hand is in an entry.
FailedStayVisible ==
  (\A n \in NSG : pc[n] = "idle") =>
    \A s \in up : att[s] \subseteq Hand \cup UNION {st[n].ids[s] : n \in NSG}

\* The finalizer always comes off in the end: neither a server that is gone nor
\* a group that is gone or still attached keeps it on.
DeletionCompletes == \A n \in NSG : phase[n] = "deleting" ~> phase[n] = "gone"
=============================================================================
