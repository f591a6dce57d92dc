--------------------------- MODULE Actions_proofs ---------------------------
(***************************************************************************)
(* The actions: how sockets and requests run them (ActionHub), and how the *)
(* start of the app makes those of the plugins (PluginInstaller).          *)
(*                                                                         *)
(* ActionHub, for any sessions, sockets, requests, models, rights and      *)
(* versions of the action: what a request may rely on is in its own record *)
(* (TaskOk); no step of another one, no edit of the action and no purge    *)
(* can take it away, because the rights do not change while it runs.       *)
(*                                                                         *)
(* PluginInstaller, for any number of plugins, whatever they depend on and *)
(* ship, and any number of crashes, failures and edits: each plugin comes  *)
(* after those it depends on (Sorted, Listed), no start generates an       *)
(* edited action again (Untouched), and a start leaves every component     *)
(* that is to have them registered and with an action (Stage, Marks,       *)
(* Through).                                                               *)
(***************************************************************************)
EXTENDS ActionHub, PluginInstaller, TLAPS

-----------------------------------------------------------------------------
(* The hub: ActionHub. *)

Removing == {"delete", "copy"}

\* The write was reached, and was done where the answer tells.
WriteTold(r) ==
  /\ r.wrote # "nothing"
  /\ r.route = "step" \/ r.kind = "copy" => r.wrote = "stored"

\* What is true of a request at each point of its handler.
TaskOk(r) ==
  /\ r.pc \in {"form", "find", "mark", "source", "clone", "step", "lookup", "write"} => r.model \in Models
  /\ r.pc = "form" => r.route = "post"
  /\ r.pc = "env" /\ r.route = "step" => r.model \in Models
  /\ r.pc \in {"find", "mark"} => "delete" \in Access(r.ses, r.model)
  /\ r.pc \in {"source", "clone"} => {"create", "read"} \subseteq Access(r.ses, r.model)
  /\ r.pc = "write" => r.op \in Access(r.ses, r.model)
  /\ r.pc \in {"form", "env", "step", "lookup", "write"} => r.kind \notin Removing
  /\ r.pc \in {"find", "mark"} => r.kind = "delete"
  /\ r.pc = "after" => r.wrote # "nothing" /\ (r.kind = "copy" => r.wrote = "stored")
  /\ r.pc # "answered" => r.out = "none"
  /\ r.out = "completed" => WriteTold(r)
  /\ r.pc = "form" /\ r.editable /\ r.form \in Records => SavedBy(r.form) \in Access(r.ses, r.model)

IInv == TypeOK /\ Tracked /\ \A t \in Tasks : TaskOk(task[t])

Places == {"idle", "form", "env", "action", "again", "find", "mark", "source", "clone", "step",
           "lookup", "write", "after", "answered"}

\* The one way in which a request moves.
LEMMA GotoKeeps ==
  ASSUME TypeOK, \A t \in Tasks : TaskOk(task[t]),
         NEW t \in Tasks, NEW pc \in Places, NEW r \in Task, Goto(t, pc, r),
         TaskOk([r EXCEPT !.pc = pc])
  PROVE  task' \in [Tasks -> Task] /\ \A u \in Tasks : TaskOk(task'[u])
<1>1. task \in [Tasks -> Task]
  BY DEF TypeOK
<1>2. task' = [task EXCEPT ![t] = [r EXCEPT !.pc = pc]]
  BY DEF Goto
<1>3. [r EXCEPT !.pc = pc] \in Task
  BY DEF Task, Places
<1>4. task' \in [Tasks -> Task]
  BY <1>1, <1>2, <1>3
<1>5. \A u \in Tasks : task'[u] = IF u = t THEN [r EXCEPT !.pc = pc] ELSE task[u]
  BY <1>1, <1>2
<1> QED BY <1>4, <1>5

\* A step that moves one request, and at most writes a record, keeps the invariant.
LEMMA RequestKeeps ==
  ASSUME IInv, task' \in [Tasks -> Task] /\ \A u \in Tasks : TaskOk(task'[u]),
         UNCHANGED <<hub, action>>, store' \in [Models -> [Names \cup Copies -> Records]]
  PROVE  IInv'
<1>1. \A t \in Tasks : task'[t].pc \in {"find", "mark", "source", "clone", "step", "lookup", "write"}
        => task'[t].model # NoModel
  BY HttpAssumption DEF TaskOk
<1>2. TypeOK'
  BY <1>1 DEF IInv, TypeOK, hub
<1>3. Tracked'
  BY DEF IInv, Tracked, hub
<1> QED BY <1>2, <1>3 DEF IInv

LEMMA NoTaskIsTask ==
  NoTask \in Task /\ TaskOk(NoTask) /\ NoTask.ses \in Sessions /\ NoTask.pc = "idle"
<1>1. (CHOOSE s \in Sessions : TRUE) \in Sessions /\ (CHOOSE n \in Names : TRUE) \in Names
  BY SomebodyAssumption
<1>2. NoTask \in Task
  BY <1>1 DEF NoTask, Task, Forms, Records, Kinds, Operations, Wrote
<1>3. TaskOk(NoTask)
  BY DEF NoTask, TaskOk
<1> QED BY <1>1, <1>2, <1>3 DEF NoTask

LEMMA InitIInv == Init => IInv
<1> SUFFICES ASSUME Init PROVE IInv
  OBVIOUS
<1>1. task \in [Tasks -> Task] /\ \A t \in Tasks : task[t] = NoTask /\ TaskOk(task[t]) /\ task[t].pc = "idle"
  BY NoTaskIsTask DEF Init
<1>2. action \in ActionRecord \cup {Missing} /\ store \in [Models -> [Names \cup Copies -> Records]]
  BY VersionsAssumption DEF Init, Records
<1>3. sock \in [Sockets -> Socket] /\ manager \in [Sessions -> SUBSET Sockets] /\ revoked \subseteq Sessions
  BY NoTaskIsTask DEF Init, Socket
<1>4. TypeOK
  BY <1>1, <1>2, <1>3 DEF TypeOK
<1>5. Tracked
  BY DEF Init, Tracked
<1> QED BY <1>1, <1>4, <1>5 DEF IInv

(***************************************************************************)
(* The steps.                                                              *)
(***************************************************************************)

\* A request that ends in an error, or completes what it has told of.
LEMMA AnswerKeeps ==
  ASSUME IInv, NEW t \in Tasks, NEW r \in Task, NEW out \in {"completed", "error"},
         out = "completed" => WriteTold(r), Answer(t, r, out)
  PROVE  task' \in [Tasks -> Task] /\ \A u \in Tasks : TaskOk(task'[u])
<1> DEFINE a == [r EXCEPT !.out = out]
<1>1. a \in Task /\ TaskOk([a EXCEPT !.pc = "answered"])
  BY DEF Task, TaskOk, WriteTold
<1>2. Goto(t, "answered", a)
  BY DEF Answer
<1> QED BY <1>1, <1>2, GotoKeeps DEF IInv, Places

LEMMA ErrorKeeps ==
  ASSUME IInv, NEW t \in Tasks, NEW r \in Task, Raise(t, r) \/ ErrorPayload(t, r)
  PROVE  task' \in [Tasks -> Task] /\ \A u \in Tasks : TaskOk(task'[u])
BY AnswerKeeps DEF Raise, ErrorPayload

LEMMA FormStep ==
  ASSUME IInv, NEW t \in Tasks, NEW from \in Sockets \cup {Http}, NEW s \in Sessions, NEW n \in Names,
         OpenAction(t, from, s, n) \/ \E m \in Models : Prepare(t, from, s, m, n)
  PROVE  IInv'
<1>1. store \in [Models -> [Names \cup Copies -> Records]] /\ action \in ActionRecord \cup {Missing}
  BY DEF IInv, TypeOK
<1>2. ASSUME NEW r \in Task, Goto(t, "form", r), r.model \in Models, r.route = "post",
             r.kind = "save", r.out = "none",
             r.editable /\ r.form \in Records => SavedBy(r.form) \in Access(r.ses, r.model)
      PROVE  task' \in [Tasks -> Task] /\ \A u \in Tasks : TaskOk(task'[u])
  <2>1. TaskOk([r EXCEPT !.pc = "form"])
    BY <1>2 DEF TaskOk, Task, Removing
  <2> QED BY <1>2, <2>1, GotoKeeps DEF IInv, Places
<1>3. ASSUME OpenAction(t, from, s, n)
      PROVE  task' \in [Tasks -> Task] /\ \A u \in Tasks : TaskOk(task'[u])
  <2> DEFINE m == Loaded(action)
             Form(shown, editable) == [NoTask EXCEPT !.from = from, !.ses = s, !.name = n,
                                         !.form = shown, !.model = m, !.editable = editable]
  <2>1. m \in Models
    BY <1>1, <1>3, ComponentAssumption DEF OpenAction, ActionRecord, Loaded
  <2>2. PICK shown \in {IF action.component THEN "component" ELSE "absent",
                       IF store[m][n] = "absent" THEN "missing" ELSE store[m][n]} :
          \E editable \in {FALSE, Editable(action, s, shown)} : Goto(t, "form", Form(shown, editable))
    BY <1>3 DEF OpenAction
  <2>3. PICK editable \in {FALSE, Editable(action, s, shown)} : Goto(t, "form", Form(shown, editable))
    BY <2>2
  <2>4. shown \in Forms
    BY <1>1, <2>1, <2>2 DEF Forms, Records
  <2>5. editable \in BOOLEAN /\ (editable /\ shown \in Records => SavedBy(shown) \in Access(s, m))
    BY <2>3 DEF Editable, HasWriteAccess, Records
  <2> DEFINE r == Form(shown, editable)
  <2>6. r \in Task
    BY <2>1, <2>4, <2>5, NoTaskIsTask DEF Task
  <2>7. /\ r.model = m /\ r.route = "post" /\ r.kind = "save" /\ r.out = "none"
        /\ r.ses = s /\ r.form = shown /\ r.editable = editable
    BY DEF NoTask
  <2> QED BY <1>2, <2>1, <2>3, <2>5, <2>6, <2>7
<1>4. ASSUME NEW m \in Models, Prepare(t, from, s, m, n)
      PROVE  task' \in [Tasks -> Task] /\ \A u \in Tasks : TaskOk(task'[u])
  <2>1. PICK shown \in {"absent", store[m][n]} :
          Goto(t, "form", [NoTask EXCEPT !.from = from, !.ses = s, !.name = n, !.form = shown, !.model = m])
    BY <1>4 DEF Prepare
  <2>2. shown \in Forms
    BY <1>1, <2>1 DEF Forms, Records
  <2> DEFINE r == [NoTask EXCEPT !.from = from, !.ses = s, !.name = n, !.form = shown, !.model = m]
  <2>3. r \in Task
    BY <1>4, <2>2, NoTaskIsTask DEF Task
  <2>4. /\ r.model = m /\ r.route = "post" /\ r.kind = "save" /\ r.out = "none" /\ r.editable = FALSE
    BY DEF NoTask
  <2> QED BY <1>2, <1>4, <2>1, <2>3, <2>4
<1> QED BY <1>1, <1>3, <1>4, RequestKeeps DEF OpenAction, Prepare

LEMMA SendStep ==
  ASSUME IInv, NEW t \in Tasks, PostAction(t) \/ DeleteAction(t) \/ PostStep(t) \/ Received(t)
  PROVE  IInv'
<1>1. task[t] \in Task /\ TaskOk(task[t]) /\ store \in [Models -> [Names \cup Copies -> Records]]
  BY DEF IInv, TypeOK
<1> DEFINE Kept == task' \in [Tasks -> Task] /\ \A u \in Tasks : TaskOk(task'[u])
<1>2. ASSUME PostAction(t) PROVE Kept
  <2> DEFINE r == [task[t] EXCEPT !.editable = FALSE, !.model = NoModel]
  <2>1. r \in Task
    BY <1>1 DEF Task
  <2>2. TaskOk([r EXCEPT !.pc = "env"])
    BY <1>1, <1>2 DEF PostAction, TaskOk, Task
  <2> QED BY <1>2, <2>1, <2>2, GotoKeeps DEF PostAction, IInv, Places
<1>3. ASSUME DeleteAction(t) PROVE Kept
  <2> DEFINE r == [NoTask EXCEPT !.route = "delete", !.ses = task[t].ses, !.name = task[t].name]
  <2>1. r \in Task
    BY <1>1, NoTaskIsTask DEF Task
  <2>2. TaskOk([r EXCEPT !.pc = "env"])
    BY DEF TaskOk, NoTask, Removing
  <2> QED BY <1>3, <2>1, <2>2, GotoKeeps DEF DeleteAction, IInv, Places
<1>4. ASSUME PostStep(t) PROVE Kept
  <2> DEFINE r == [task[t] EXCEPT !.editable = FALSE, !.route = "step"]
  <2>1. r \in Task
    BY <1>1 DEF Task
  <2>2. TaskOk([r EXCEPT !.pc = "env"])
    BY <1>1, <1>4 DEF PostStep, TaskOk, Task
  <2> QED BY <1>4, <2>1, <2>2, GotoKeeps DEF PostStep, IInv, Places
<1>5. ASSUME Received(t) PROVE Kept
  <2>1. TaskOk([NoTask EXCEPT !.pc = "idle"])
    BY DEF TaskOk, NoTask
  <2> QED BY <1>5, <2>1, GotoKeeps, NoTaskIsTask DEF Received, IInv, Places
<1> QED BY <1>1, <1>2, <1>3, <1>4, <1>5, RequestKeeps DEF PostAction, DeleteAction, PostStep, Received

LEMMA GateStep ==
  ASSUME IInv, NEW t \in Tasks, BuildEnv(t) \/ ReadAction(t) \/ DeleteReads(t) \/ CopyReads(t) \/ StepLoads(t)
  PROVE  IInv'
<1> DEFINE r == task[t]
           Kept == task' \in [Tasks -> Task] /\ \A u \in Tasks : TaskOk(task'[u])
<1>1. /\ r \in Task /\ TaskOk(r) /\ store \in [Models -> [Names \cup Copies -> Records]]
      /\ action \in ActionRecord \cup {Missing}
  BY DEF IInv, TypeOK
<1>2. ASSUME BuildEnv(t) PROVE Kept
  <2> DEFINE next == CASE r.route = "post" -> "action" [] r.route = "delete" -> "again" [] r.route = "step" -> "step"
  <2>1. CASE Raise(t, r)
    BY <1>1, <2>1, ErrorKeeps
  <2>2. CASE Goto(t, next, r)
    <3>1. r.route \in {"post", "delete", "step"} /\ r.pc = "env"
      BY <1>1, <1>2 DEF Task, BuildEnv
    <3>2. next \in Places /\ next \in {"action", "again", "step"} /\ (next = "step" => r.route = "step")
      BY <3>1 DEF Places
    <3>3. TaskOk([r EXCEPT !.pc = next])
      BY <1>1, <3>1, <3>2 DEF TaskOk, Task
    <3> QED BY <1>1, <2>2, <3>2, <3>3, GotoKeeps DEF IInv
  <2> QED BY <1>2, <2>1, <2>2 DEF BuildEnv
<1>3. ASSUME ReadAction(t) PROVE Kept
  <2> DEFINE taken == [r EXCEPT !.model = action.model, !.kind = action.kind]
             again == [taken EXCEPT !.form = "absent"]
  <2>1. CASE Raise(t, r) \/ ErrorPayload(t, r)
    BY <1>1, <2>1, ErrorKeeps
  <2>2. ASSUME action # Missing, HasTarget(action), action.kind \in Removing, Goto(t, "again", again) PROVE Kept
    <3>1. action.model \in Models /\ action.kind \in Kinds
      BY <1>1, <2>2 DEF ActionRecord, HasTarget
    <3>2. again \in Task
      BY <1>1, <3>1 DEF Task, Forms, Records
    <3>3. TaskOk([again EXCEPT !.pc = "again"])
      BY <1>1, <1>3 DEF TaskOk, Task, ReadAction
    <3> QED BY <2>2, <3>2, <3>3, GotoKeeps DEF IInv, Places
  <2>3. ASSUME action # Missing, HasTarget(action), action.kind \notin Removing, Goto(t, "lookup", taken) PROVE Kept
    <3>1. action.model \in Models /\ action.kind \in Kinds
      BY <1>1, <2>3 DEF ActionRecord, HasTarget
    <3>2. taken \in Task
      BY <1>1, <3>1 DEF Task
    <3>3. TaskOk([taken EXCEPT !.pc = "lookup"])
      BY <1>1, <1>3, <2>3, <3>1 DEF TaskOk, Task, ReadAction
    <3> QED BY <2>3, <3>2, <3>3, GotoKeeps DEF IInv, Places
  <2> QED BY <1>3, <2>1, <2>2, <2>3 DEF ReadAction, Removing
<1>4. ASSUME DeleteReads(t) PROVE Kept
  <2> DEFINE g == [r EXCEPT !.model = action.model, !.kind = "delete", !.op = "delete"]
  <2>1. CASE Raise(t, r) \/ ErrorPayload(t, r)
    BY <1>1, <2>1, ErrorKeeps
  <2>2. ASSUME action # Missing, HasTarget(action), AssertModelOperation(r, action.model, "delete"), Goto(t, "find", g)
        PROVE  Kept
    <3>1. action.model \in Models
      BY <1>1, <2>2 DEF ActionRecord, HasTarget
    <3>2. g \in Task
      BY <1>1, <3>1 DEF Task, Kinds, Operations
    <3>3. TaskOk([g EXCEPT !.pc = "find"])
      BY <1>1, <1>4, <2>2, <3>1 DEF TaskOk, Task, DeleteReads, AssertModelOperation
    <3> QED BY <2>2, <3>2, <3>3, GotoKeeps DEF IInv, Places
  <2> QED BY <1>4, <2>1, <2>2 DEF DeleteReads
<1>5. ASSUME CopyReads(t) PROVE Kept
  <2> DEFINE g == [r EXCEPT !.model = action.model, !.op = "create"]
  <2>1. CASE Raise(t, r) \/ ErrorPayload(t, r)
    BY <1>1, <2>1, ErrorKeeps
  <2>2. ASSUME action # Missing, action.model # NoModel, Goto(t, "source", g),
               AssertModelOperation(r, action.model, "create"), AssertModelOperation(r, action.model, "read")
        PROVE  Kept
    <3>1. action.model \in Models
      BY <1>1, <2>2 DEF ActionRecord
    <3>2. g \in Task
      BY <1>1, <3>1 DEF Task, Operations
    <3>3. TaskOk([g EXCEPT !.pc = "source"])
      BY <1>1, <1>5, <2>2, <3>1 DEF TaskOk, Task, CopyReads, AssertModelOperation
    <3> QED BY <2>2, <3>2, <3>3, GotoKeeps DEF IInv, Places
  <2> QED BY <1>5, <2>1, <2>2 DEF CopyReads
<1>6. ASSUME StepLoads(t) PROVE Kept
  <2>1. CASE Raise(t, r)
    BY <1>1, <2>1, ErrorKeeps
  <2>2. ASSUME Goto(t, "lookup", r) PROVE Kept
    <3>1. TaskOk([r EXCEPT !.pc = "lookup"])
      BY <1>1, <1>6 DEF TaskOk, Task, StepLoads
    <3> QED BY <1>1, <2>2, <3>1, GotoKeeps DEF IInv, Places
  <2> QED BY <1>6, <2>1, <2>2 DEF StepLoads
<1> QED BY <1>1, <1>2, <1>3, <1>4, <1>5, <1>6, RequestKeeps
        DEF BuildEnv, ReadAction, DeleteReads, CopyReads, StepLoads

LEMMA RecordStep ==
  ASSUME IInv, NEW t \in Tasks, DeleteFinds(t) \/ CopySource(t) \/ UpsertLooks(t) \/ Finish(t)
  PROVE  IInv'
<1> DEFINE r == task[t]
           Kept == task' \in [Tasks -> Task] /\ \A u \in Tasks : TaskOk(task'[u])
<1>1. r \in Task /\ TaskOk(r) /\ store \in [Models -> [Names \cup Copies -> Records]]
  BY DEF IInv, TypeOK
<1>2. ASSUME DeleteFinds(t) PROVE Kept
  <2>1. TaskOk([r EXCEPT !.pc = "mark"])
    BY <1>1, <1>2 DEF TaskOk, Task, DeleteFinds
  <2>2. CASE Goto(t, "mark", r)
    BY <1>1, <2>1, <2>2, GotoKeeps DEF IInv, Places
  <2> QED BY <1>1, <1>2, <2>2, ErrorKeeps DEF DeleteFinds
<1>3. ASSUME CopySource(t) PROVE Kept
  <2>1. TaskOk([r EXCEPT !.pc = "clone"])
    BY <1>1, <1>3 DEF TaskOk, Task, CopySource
  <2>2. CASE Goto(t, "clone", r)
    BY <1>1, <2>1, <2>2, GotoKeeps DEF IInv, Places
  <2> QED BY <1>1, <1>3, <2>2, ErrorKeeps DEF CopySource
<1>4. ASSUME UpsertLooks(t) PROVE Kept
  <2> DEFINE op == IF store[r.model][r.name] = "absent" THEN "create" ELSE "update"
             g == [r EXCEPT !.op = op]
  <2>1. CASE Raise(t, r)
    BY <1>1, <2>1, ErrorKeeps
  <2>2. ASSUME AssertModelOperation(r, r.model, op), Goto(t, "write", g) PROVE Kept
    <3>1. op \in Operations
      BY DEF Operations
    <3>2. g \in Task
      BY <1>1, <3>1 DEF Task
    <3> HIDE DEF op
    <3>3. TaskOk([g EXCEPT !.pc = "write"])
      BY <1>1, <1>4, <2>2 DEF TaskOk, Task, UpsertLooks, AssertModelOperation
    <3> QED BY <2>2, <3>2, <3>3, GotoKeeps DEF IInv, Places
  <2> QED BY <1>4, <2>1, <2>2 DEF UpsertLooks
<1>5. ASSUME Finish(t) PROVE Kept
  <2>1. r.route = "step" => r.wrote = "stored" \/ Raise(t, r)
    BY <1>5 DEF Finish
  <2>2. r.wrote # "nothing" /\ (r.kind = "copy" => r.wrote = "stored")
    BY <1>1, <1>5 DEF TaskOk, Finish
  <2> QED BY <1>1, <1>5, <2>1, <2>2, AnswerKeeps, ErrorKeeps DEF Finish, WriteTold
<1> QED BY <1>1, <1>2, <1>3, <1>4, <1>5, RequestKeeps DEF DeleteFinds, CopySource, UpsertLooks, Finish

LEMMA WroteIsTask ==
  ASSUME NEW x \in Task, NEW done \in Wrote
  PROVE  [x EXCEPT !.wrote = done] \in Task
BY DEF Task

LEMMA FormIsTask ==
  ASSUME NEW x \in Task, NEW form \in Forms
  PROVE  [x EXCEPT !.form = form] \in Task
BY DEF Task

LEMMA WriteStep ==
  ASSUME IInv, NEW t \in Tasks, DeleteMarks(t) \/ CopyClones(t) \/ UpsertWrites(t)
  PROVE  IInv'
<1> DEFINE r == task[t]
           Kept == task' \in [Tasks -> Task] /\ \A u \in Tasks : TaskOk(task'[u])
           StoreOk == store' \in [Models -> [Names \cup Copies -> Records]]
<1>1. r \in Task /\ TaskOk(r) /\ store \in [Models -> [Names \cup Copies -> Records]]
  BY DEF IInv, TypeOK
<1>2. \A m \in Models, n \in Names \cup Copies, v \in Records :
        [store EXCEPT ![m][n] = v] \in [Models -> [Names \cup Copies -> Records]]
  BY <1>1
<1>3. ASSUME NEW done \in {"stored", "refused"}, r.kind = "copy" => done = "stored",
             \/ Goto(t, "after", [r EXCEPT !.wrote = done])
             \/ Goto(t, "after", [r EXCEPT !.wrote = done, !.form = "absent"]),
             r.pc \in {"mark", "clone", "write"}
      PROVE  Kept
  <2>1. [r EXCEPT !.wrote = done] \in Task /\ [r EXCEPT !.wrote = done, !.form = "absent"] \in Task
    <3>1. done \in Wrote /\ "absent" \in Forms
      BY DEF Wrote, Forms, Records
    <3>2. [r EXCEPT !.wrote = done] \in Task
      BY <1>1, <3>1, WroteIsTask
    <3>3. [[r EXCEPT !.wrote = done] EXCEPT !.form = "absent"] \in Task
      BY <3>1, <3>2, FormIsTask
    <3> QED BY <3>2, <3>3
  <2>2. /\ TaskOk([[r EXCEPT !.wrote = done] EXCEPT !.pc = "after"])
        /\ TaskOk([[r EXCEPT !.wrote = done, !.form = "absent"] EXCEPT !.pc = "after"])
    BY <1>1, <1>3 DEF TaskOk, Task
  <2> QED BY <1>3, <2>1, <2>2, GotoKeeps DEF IInv, Places
<1>4. ASSUME DeleteMarks(t) PROVE Kept /\ StoreOk
  <2>1. /\ r.model \in Models /\ r.name \in Names \cup Copies /\ "deleted" \in Records
        /\ r.kind # "copy" /\ r.pc = "mark"
    BY <1>1, <1>4 DEF DeleteMarks, TaskOk, Task, Records
  <2>2. CASE UNCHANGED store /\ Goto(t, "after", [r EXCEPT !.wrote = "refused"])
    BY <1>1, <1>3, <2>1, <2>2
  <2>3. CASE /\ store' = [store EXCEPT ![r.model][r.name] = "deleted"]
             /\ Goto(t, "after", [r EXCEPT !.wrote = "stored"])
    BY <1>2, <1>3, <2>1, <2>3
  <2> QED BY <1>4, <2>2, <2>3 DEF DeleteMarks
<1>5. ASSUME CopyClones(t) PROVE Kept /\ StoreOk
  <2>1. r.model \in Models /\ r.name \in Names /\ r.pc = "clone"
    BY <1>1, <1>5 DEF CopyClones, TaskOk, Task
  <2>2. CopyName[r.name] \in Names \cup Copies /\ store[r.model][r.name] \in Records
    BY <1>1, <2>1, CopyAssumption
  <2>3. CASE ErrorPayload(t, r) /\ UNCHANGED store
    BY <1>1, <2>3, ErrorKeeps
  <2>4. CASE /\ store' = [store EXCEPT ![r.model][CopyName[r.name]] = store[r.model][r.name]]
             /\ Goto(t, "after", [r EXCEPT !.wrote = "stored"])
    <3>1. StoreOk
      BY <1>2, <2>1, <2>2, <2>4
    <3> QED BY <1>3, <2>1, <2>4, <3>1
  <2> QED BY <1>5, <2>3, <2>4 DEF CopyClones
<1>6. ASSUME UpsertWrites(t) PROVE Kept /\ StoreOk
  <2>1. r.model \in Models /\ r.name \in Names \cup Copies /\ r.pc = "write" /\ r.kind \notin Removing
    BY <1>1, <1>6 DEF UpsertWrites, TaskOk, Task
  <2>2. Filled(r.form) \in Records
    BY <1>1 DEF Filled, Task, Forms, Records
  <2>3. r.kind # "copy"
    BY <2>1 DEF Removing
  <2>4. CASE /\ store' = [store EXCEPT ![r.model][r.name] = Filled(r.form)]
             /\ Goto(t, "after", [r EXCEPT !.wrote = "stored", !.form = "absent"])
    BY <1>2, <1>3, <2>1, <2>2, <2>3, <2>4
  <2>5. CASE UNCHANGED store /\ Goto(t, "after", [r EXCEPT !.wrote = "refused", !.form = "absent"])
    BY <1>1, <1>3, <2>1, <2>3, <2>5
  <2> QED BY <1>6, <2>4, <2>5 DEF UpsertWrites
<1> QED BY <1>4, <1>5, <1>6, RequestKeeps DEF DeleteMarks, CopyClones, UpsertWrites

LEMMA SocketStep ==
  ASSUME IInv, NEW c \in Sockets, Disconnect(c) \/ \E s \in Sessions : Connect(c, s)
  PROVE  IInv'
<1>1. /\ TypeOK /\ Tracked /\ sock \in [Sockets -> Socket] /\ manager \in [Sessions -> SUBSET Sockets]
  BY DEF IInv, TypeOK
<1>2. ASSUME Disconnect(c) PROVE IInv'
  <2>1. /\ sock' = [sock EXCEPT ![c].pc = "closed"] /\ manager' = [manager EXCEPT ![sock[c].ses] = @ \ {c}]
        /\ task' = [t \in Tasks |-> IF task[t].from = c THEN NoTask ELSE task[t]]
        /\ UNCHANGED <<revoked, action, store>>
    BY <1>2 DEF Disconnect, Untrack
  <2>2. sock' \in [Sockets -> Socket] /\ manager' \in [Sessions -> SUBSET Sockets]
    BY <1>1, <2>1 DEF Socket
  <2>3. \A t \in Tasks : task'[t] = NoTask \/ task'[t] = task[t]
    BY <2>1
  <2>4. task' \in [Tasks -> Task] /\ \A t \in Tasks : TaskOk(task'[t])
    BY <1>1, <2>1, <2>3, NoTaskIsTask DEF IInv, TypeOK
  <2>5. TypeOK'
    BY <1>1, <2>1, <2>2, <2>3, <2>4, NoTaskIsTask DEF TypeOK
  <2>6. \A d \in Sockets : /\ d = c => sock'[d].pc = "closed"
                           /\ d # c => sock'[d] = sock[d]
    BY <1>1, <2>1 DEF Socket
  <2>7. \A d \in Sockets, s \in Sessions : d \in manager'[s] <=> d \in manager[s] /\ ~(d = c /\ s = sock[c].ses)
    BY <1>1, <2>1
  <2>8. Tracked'
    BY <1>1, <2>6, <2>7 DEF Tracked, Socket
  <2> QED BY <2>4, <2>5, <2>8 DEF IInv
<1>3. ASSUME NEW s \in Sessions, Connect(c, s) PROVE IInv'
  <2>1. /\ sock' = [sock EXCEPT ![c] = [pc |-> "open", ses |-> s]] /\ manager' = [manager EXCEPT ![s] = @ \cup {c}]
        /\ sock[c].pc = "closed" /\ UNCHANGED <<revoked, action, store, task>>
    BY <1>3 DEF Connect
  <2>2. sock' \in [Sockets -> Socket] /\ manager' \in [Sessions -> SUBSET Sockets]
    BY <1>1, <2>1 DEF Socket
  <2>3. TypeOK'
    BY <1>1, <2>1, <2>2 DEF TypeOK
  <2>4. \A d \in Sockets, u \in Sessions : d \in manager'[u] <=> d \in manager[u] \/ (d = c /\ u = s)
    BY <1>1, <2>1
  <2>5. Tracked'
    BY <1>1, <2>1, <2>4 DEF Tracked
  <2> QED BY <2>1, <2>3, <2>5 DEF IInv
<1> QED BY <1>2, <1>3

LEMMA WorldStep ==
  ASSUME IInv, (\E s \in Sessions : Revoke(s)) \/ EditAction \/ \E m \in Models : Purge(m)
  PROVE  IInv'
<1>1. ASSUME NEW s \in Sessions, Revoke(s) PROVE IInv'
  <2>1. revoked' \subseteq Sessions /\ UNCHANGED <<sock, manager, action, store, task>>
    BY <1>1 DEF IInv, TypeOK, Revoke
  <2> QED BY <2>1 DEF IInv, TypeOK, Tracked
<1>2. ASSUME EditAction PROVE IInv'
  <2>1. action' \in ActionRecord \cup {Missing} /\ UNCHANGED <<revoked, sock, manager, store, task>>
    BY <1>2, VersionsAssumption DEF EditAction, hub
  <2> QED BY <2>1 DEF IInv, TypeOK, Tracked
<1>3. ASSUME NEW m \in Models, Purge(m) PROVE IInv'
  <2>1. UNCHANGED <<revoked, sock, manager, action, task>>
    BY <1>3 DEF Purge, hub
  <2>2. store' \in [Models -> [Names \cup Copies -> Records]]
    <3>1. store \in [Models -> [Names \cup Copies -> Records]]
      BY DEF IInv, TypeOK
    <3>2. PICK gone \in SUBSET (Names \cup Copies) :
            store' = [store EXCEPT ![m] = [n \in Names \cup Copies |-> IF n \in gone THEN "absent" ELSE store[m][n]]]
      BY <1>3, <3>1 DEF Purge
    <3>3. [n \in Names \cup Copies |-> IF n \in gone THEN "absent" ELSE store[m][n]] \in [Names \cup Copies -> Records]
      BY <3>1 DEF Records
    <3> QED BY <3>1, <3>2, <3>3
  <2> QED BY <2>1, <2>2 DEF IInv, TypeOK, Tracked
<1> QED BY <1>1, <1>2, <1>3

(***************************************************************************)
(* The theorems.                                                           *)
(***************************************************************************)

LEMMA StepIInv == IInv /\ [Next]_vars => IInv'
<1> SUFFICES ASSUME IInv, [Next]_vars PROVE IInv'
  OBVIOUS
<1>1. CASE UNCHANGED vars
  BY <1>1 DEF IInv, TypeOK, Tracked, vars
<1>2. ASSUME NEW t \in Tasks, Handler(t) PROVE IInv'
  BY <1>2, GateStep, RecordStep, WriteStep DEF Handler
<1>3. CASE Next
  BY <1>2, <1>3, FormStep, SendStep, SocketStep, WorldStep DEF Next
<1> QED BY <1>1, <1>3

THEOREM Invariance == Spec => []IInv
BY InitIInv, StepIInv, PTL DEF Spec

\* The types of every variable; a request that is to write has a model to write to.
THEOREM TypeCorrect == Spec => []TypeOK
<1>1. IInv => TypeOK
  BY DEF IInv
<1> QED BY <1>1, Invariance, PTL

\* ConnectionManager: the sockets it tracks are those that are open, for any number of
\* sockets of any sessions, however they come and go.
THEOREM ManagerIsExact == Spec => []Tracked
<1>1. IInv => Tracked
  BY DEF IInv
<1> QED BY <1>1, Invariance, PTL

\* _action_status: what is answered "completed" got as far as its write, and a copy or a
\* step that is answered so was stored.
THEOREM CompletedWasDone == Spec => []CompletedMeansDone
<1>1. IInv => CompletedMeansDone
  BY DEF IInv, TaskOk, CompletedMeansDone, WriteTold
<1> QED BY <1>1, Invariance, PTL

\* handle_get: who is shown an editable form of a new record, or of one that is there, gets
\* through every visible action that saves its model, and through the gate of the upsert
\* while the record is there, or not, as it was shown.
THEOREM EditableFormsCanBeSaved == Spec => []EditableIsHonest
<1>1. ASSUME IInv PROVE EditableIsHonest
  <2>1. SUFFICES ASSUME NEW t \in Tasks, task[t].pc = "form", task[t].editable, task[t].form \in Records
                 PROVE  /\ \A a \in ActionVersions \ {Missing} :
                             a.kind = "save" /\ a.model = task[t].model /\ task[t].ses \in a.seenBy
                               => IsActionAllowed(a, task[t].ses)
                        /\ LET now == store[task[t].model][task[t].name] IN
                           (task[t].form = "absent" <=> now = "absent") =>
                             AssertModelOperation(task[t], task[t].model, SavedBy(now))
    BY DEF EditableIsHonest
  <2>2. SavedBy(task[t].form) \in Access(task[t].ses, task[t].model)
    BY <1>1, <2>1 DEF IInv, TaskOk
  <2>3. SavedBy(task[t].form) \in {"create", "update"}
    BY DEF SavedBy
  <2>4. ASSUME NEW a \in ActionVersions, a.kind = "save", a.model = task[t].model, task[t].ses \in a.seenBy
        PROVE  IsActionAllowed(a, task[t].ses)
    <3>1. {"create", "update"} \subseteq Required(a)
      BY <2>4 DEF Required
    <3> QED BY <2>2, <2>3, <2>4, <3>1 DEF IsActionAllowed, HasWriteAccess
  <2>5. ASSUME NEW now, task[t].form = "absent" <=> now = "absent"
        PROVE  AssertModelOperation(task[t], task[t].model, SavedBy(now))
    BY <2>2, <2>5 DEF SavedBy, AssertModelOperation
  <2> QED BY <2>4, <2>5
<1> QED BY <1>1, Invariance, PTL

\* handle_post, handle_delete: no write without the right to it on the model it goes to,
\* for any rights and any edits of the action at any moment.
THEOREM WritesAreAllowed == Spec => WriteWasAllowed
<1> DEFINE Fine == \A t \in Tasks :
      LET r == task[t]
          needed == CASE r.pc = "mark" -> {"delete"} [] r.pc = "clone" -> {"create", "read"}
                      [] r.pc = "write" -> {r.op}
      IN r.pc \in Writing /\ task'[t].pc = "after" => needed \subseteq Access(r.ses, r.model)
<1>1. IInv => Fine
  BY DEF IInv, TaskOk, Writing
<1>2. IInv /\ [Next]_vars => [Fine]_vars
  BY <1>1
<1> QED BY <1>2, Invariance, PTL DEF Spec, WriteWasAllowed

-----------------------------------------------------------------------------
(* The plugins: PluginInstaller. *)

\* The base plugin is neither skipped nor given actions (its config.json).
BaseOption == ~ noUpdate[0] /\ ~ automatic[0]

\* No plugin twice, neither in the calls nor in the order; each call was made for the
\* plugins below it; and a plugin is placed after those it depends on, or on their cycle.
Sorted ==
  /\ \A i, j \in 1 .. Len(stack) : stack[i] = stack[j] => i = j
  /\ \A i, j \in 1 .. Len(order) : order[i] = order[j] => i = j
  /\ Placed \cap Open = {}
  /\ \A i, j \in 1 .. Len(stack) : i < j => stack[j] \in Reach(stack[i])
  /\ \A i \in 1 .. Len(order) : \A q \in Needed(order[i]) :
       order[i] \in Reach(q) \/ \E j \in 1 .. i - 1 : order[j] = q

\* In the list of a start, the base plugin is first, and what a plugin depends on is not
\* after it, unless they are on a cycle.
Listed ==
  /\ \A i \in 2 .. Len(todo) : todo[i] # 0
  /\ \A i \in 1 .. Len(todo) : todo[i] # 0 =>
       \A q \in Needed(todo[i]) : todo[i] \in Reach(q) \/ \A j \in i .. Len(todo) : todo[j] # q

\* Actions are generated in their step of a start, or when an administrator asks.
JobInStep ==
  /\ phase \in {"down", "sorting"} => job = NoJob
  /\ phase = "booting" /\ job # NoJob => todo # <<>> /\ step = "generate"

\* What a start generates the actions of has none that was edited.
Untouched ==
  phase = "booting" =>
    /\ job # NoJob => ActionsOf(job.comp) \cap edited = {} /\ job.comp \notin Skipped
    /\ step = "generate" => \A c \in rest : ActionsOf(c) \cap edited = {}

\* How far the plugin under way is.
Stage ==
  phase = "booting" /\ todo # <<>> =>
    /\ P # 0 \/ step = "mark" => 0 \in dataOf
    /\ step = "components" => ShipsOf[P] \subseteq inDb \cup rest
    /\ step \in {"needs", "generate", "data", "mark"} =>
         ShipsOf[P] \subseteq inDb /\ ShipsOf[P] \subseteq known \cup Misnamed
    /\ automatic[P] /\ clean =>
         /\ step = "generate" => \A c \in ShipsOf[P] \ Skipped :
              c \in rest \/ ActionsOf(c) # {} \/ (job.comp = c /\ job.left # <<>>)
         /\ step \in {"data", "mark"} => \A c \in ShipsOf[P] \ Skipped : ActionsOf(c) # {}

\* What a plugin with a mark has left, in this start or an earlier one.
Marks ==
  \A p \in marked \cap Found :
    /\ ShipsOf[p] \subseteq inDb
    /\ phase = "booting" => ShipsOf[p] \subseteq known \cup Misnamed
    /\ automatic[p] /\ faults = 0 /\ edits = 0 => \A c \in ShipsOf[p] \ Skipped : ActionsOf(c) # {}

\* A start owes a plugin its actions; one not to be updated is taken on trust.
Owed(p) == automatic[p] /\ (noUpdate[p] => faults = 0 /\ edits = 0)
Provided(p) ==
  \A c \in ShipsOf[p] : c \in known \cup Misnamed /\ (ActionsOf(c) # {} \/ c \in Skipped)

\* Every plugin is still to be installed, or has been given what it is owed.
Through ==
  /\ faults = 0 => clean
  /\ phase = "booting" => inDb \subseteq known \cup fresh \cup Misnamed
  /\ phase = "booting" /\ clean =>
       \A p \in Found : Owed(p) => Provided(p) \/ \E i \in 1 .. Len(todo) : todo[i] = p

InstallInv ==
  /\ InstallTypeOK /\ BaseOption /\ Sorted /\ Listed
  /\ JobInStep /\ Untouched /\ Stage /\ Marks /\ Through

-----------------------------------------------------------------------------
(* Which actions change what. *)

Sorts == VisitNext \/ VisitDependency \/ VisitDone
Walks == CheckInstalled \/ RegisterModels \/ FindNeeds \/ GenerateDone
Writes == UpsertComponent \/ Generate \/ MakeAction \/ UpsertSeed \/ UpsertData \/ MarkInstalled
Administers ==
  \/ \E a \in Actions : ChangeAction(a) \/ RemoveAction(a)
  \/ \E c \in Comps : AskForMenu(c)

LEMMA InstallKinds ==
  ASSUME InstallNext
  PROVE  \/ Discover \/ Sorts \/ BootStart \/ Walks \/ Writes \/ JobDone \/ BootDone
         \/ JobFails \/ Crash \/ Administers
  BY DEF InstallNext, BootStep, Sorts, Walks, Writes, Administers

\* Only the visits and the ends of a sort change the order, only a start its list.
LEMMA Frame ==
  ASSUME InstallNext
  PROVE  /\ UNCHANGED config
         /\ Sorts \/ BootStart \/ Crash \/ UNCHANGED sort
         /\ BootStart \/ CheckInstalled \/ MarkInstalled \/ Crash \/ UNCHANGED todo
<1>1. CASE Discover \/ Sorts
  BY <1>1 DEF Discover, Sorts, VisitNext, VisitDependency, VisitDone, Leave
<1>2. CASE BootStart \/ BootDone \/ JobDone \/ JobFails \/ Crash
  BY <1>2 DEF BootStart, BootDone, JobDone, JobFails, Crash
<1>3. CASE Walks
  BY <1>3 DEF Walks, CheckInstalled, RegisterModels, FindNeeds, GenerateDone
<1>4. CASE Writes
  BY <1>4 DEF Writes, UpsertComponent, Generate, MakeAction, UpsertSeed, UpsertData, MarkInstalled
<1>5. CASE Administers
  BY <1>5 DEF Administers, ChangeAction, RemoveAction, AskForMenu, run
<1> QED
  BY <1>1, <1>2, <1>3, <1>4, <1>5, InstallKinds

\* What the actions do to the list: a new one, its tail, none.
LEMMA TodoStep ==
  ASSUME InstallTypeOK, InstallNext
  PROVE  \/ BootStart
         \/ todo' = todo
         \/ todo' = <<>>
         \/ todo # <<>> /\ todo' = Tail(todo)
  BY Frame DEF CheckInstalled, MarkInstalled, Crash, At

-----------------------------------------------------------------------------
(* Types. *)

LEMMA HeadTail ==
  ASSUME NEW S, NEW s \in Seq(S), s # <<>>
  PROVE  Head(s) \in S /\ Tail(s) \in Seq(S)
  OBVIOUS

LEMMA InitType == InstallInit => InstallTypeOK
  BY BoundsAssumption DEF InstallInit, InstallTypeOK, StepNames, NoJob

LEMMA BeginJobType ==
  ASSUME InstallTypeOK, NEW c \in Comps, BeginJob(c)
  PROVE  job' \in [comp : Comps, left : Seq(1 .. Templates)] /\ menus' \subseteq Comps \ Resources
<1>1. [i \in 1 .. Templates |-> i] \in Seq(1 .. Templates) /\ <<>> \in Seq(1 .. Templates)
  BY TemplatesAssumption
<1> QED
  BY <1>1 DEF BeginJob, InstallTypeOK

LEMMA StepType == InstallTypeOK /\ [InstallNext]_installVars => InstallTypeOK'
<1> SUFFICES ASSUME InstallTypeOK, InstallNext PROVE InstallTypeOK'
  BY DEF InstallTypeOK, installVars, config, run, sort, stored, bounds
<1> USE DEF InstallTypeOK, config, sort, bounds, stored
<1>1. CASE Discover
  BY <1>1 DEF Discover
<1>2. CASE VisitNext
  BY <1>2 DEF VisitNext
<1>3. CASE VisitDependency
  <2>1. Needed(Top) \subseteq Found
    BY DEF Needed
  <2> QED
    BY <1>3, <2>1 DEF VisitDependency
<1>4. CASE VisitDone
  <2>1. Top \in Found /\ SubSeq(stack, 1, Len(stack) - 1) \in Seq(Found)
    BY <1>4 DEF VisitDone, Top
  <2> QED
    BY <1>4, <2>1 DEF VisitDone, Leave
<1>5. CASE BootStart
  <2>1. <<0>> \o order \in Seq(Plugins)
    BY BoundsAssumption DEF Plugins, Found
  <2> QED
    BY <1>5, <2>1 DEF BootStart, StepNames
<1>6. CASE CheckInstalled
  <2>1. P \in Plugins /\ Tail(todo) \in Seq(Plugins)
    BY <1>6 DEF CheckInstalled, At, P
  <2>2. CASE noUpdate[P] /\ P \in marked
    BY <1>6, <2>1, <2>2 DEF CheckInstalled, At
  <2>3. CASE ~ (noUpdate[P] /\ P \in marked)
    <3>1. step' \in StepNames /\ rest' \subseteq Comps /\ UNCHANGED todo
      BY <1>6, <2>1, <2>3, ShipsAssumption DEF CheckInstalled, At, StepNames
    <3> QED
      BY <1>6, <3>1 DEF CheckInstalled, At
  <2> QED
    BY <2>2, <2>3
<1>7. CASE UpsertComponent
  BY <1>7 DEF UpsertComponent
<1>8. CASE RegisterModels
  BY <1>8 DEF RegisterModels, StepNames
<1>9. CASE FindNeeds
  <2>1. P \in Plugins
    BY <1>9 DEF FindNeeds, At, P
  <2> QED
    BY <1>9, <2>1, ShipsAssumption DEF FindNeeds, StepNames
<1>10. CASE Generate
  <2>1. PICK c \in rest : /\ rest' = rest \ {c}
                          /\ BeginJob(c) \/ UNCHANGED <<job, menus>>
    BY <1>10 DEF Generate
  <2> QED
    BY <1>10, <2>1, BeginJobType DEF Generate
<1>11. CASE MakeAction
  <2>1. job \in [comp : Comps, left : Seq(1 .. Templates)] /\ job.left # <<>>
    BY <1>11 DEF MakeAction
  <2>2. job.comp \in Comps /\ job.left \in Seq(1 .. Templates)
    BY <2>1
  <2>3. Head(job.left) \in 1 .. Templates /\ Tail(job.left) \in Seq(1 .. Templates)
    BY <2>1, <2>2, HeadTail
  <2>4. job' \in [comp : Comps, left : Seq(1 .. Templates)]
    BY <1>11, <2>1, <2>2, <2>3 DEF MakeAction
  <2>5. <<job.comp, Head(job.left)>> \in Actions
    BY <2>2, <2>3, TemplatesAssumption DEF Actions
  <2> QED
    BY <1>11, <2>4, <2>5 DEF MakeAction
<1>12. CASE JobDone
  BY <1>12 DEF JobDone
<1>13. CASE JobFails
  <2>1. faults' \in 0 .. MaxFaults
    BY <1>13, BoundsAssumption DEF JobFails
  <2> QED
    BY <1>13, <2>1 DEF JobFails
<1>14. CASE GenerateDone
  BY <1>14 DEF GenerateDone, StepNames
<1>15. CASE UpsertData
  <2>1. P \in Plugins
    BY <1>15 DEF UpsertData, At, P
  <2> QED
    BY <1>15, <2>1 DEF UpsertData, StepNames
<1>16. CASE MarkInstalled
  <2>1. P \in Plugins /\ Tail(todo) \in Seq(Plugins)
    BY <1>16 DEF MarkInstalled, At, P
  <2> QED
    BY <1>16, <2>1 DEF MarkInstalled, At, StepNames
<1>17. CASE BootDone
  BY <1>17 DEF BootDone
<1>18. CASE Crash
  BY <1>18, BoundsAssumption DEF Crash
<1>19. ASSUME NEW a \in Actions, ChangeAction(a) \/ RemoveAction(a) PROVE InstallTypeOK'
  BY <1>19, BoundsAssumption DEF ChangeAction, RemoveAction, Admin, run
<1>20. ASSUME NEW c \in Comps, AskForMenu(c) PROVE InstallTypeOK'
  BY <1>20, BoundsAssumption, BeginJobType DEF AskForMenu, Admin
<1>21. CASE UpsertSeed
  <2>1. SeedsOf[P] \subseteq Actions
    BY <1>21, ShipsAssumption DEF UpsertSeed, At, P
  <2> QED
    BY <1>21, <2>1 DEF UpsertSeed
<1> QED
  BY <1>1, <1>2, <1>3, <1>4, <1>5, <1>6, <1>7, <1>8, <1>9, <1>10, <1>11, <1>12, <1>14, <1>15,
     <1>16, <1>17, <1>18, <1>19, <1>20, <1>13, <1>21 DEF InstallNext, BootStep

-----------------------------------------------------------------------------
(* The order. *)

LEMMA Front ==
  ASSUME NEW S, NEW s \in Seq(S), Len(s) >= 1
  PROVE  /\ Len(SubSeq(s, 1, Len(s) - 1)) = Len(s) - 1
         /\ \A i \in 1 .. Len(s) - 1 : SubSeq(s, 1, Len(s) - 1)[i] = s[i]
<1>1. Len(s) \in Nat
  OBVIOUS
<1> QED
  BY <1>1

\* What a plugin needs is read once.
LEMMA SameNeeds ==
  ASSUME UNCHANGED depends
  PROVE  \A q : UNCHANGED <<Needed(q), Reach(q)>>
<1>1. \A q : Needed(q)' = Needed(q)
  BY DEF Needed
<1> QED
  BY <1>1 DEF Reach

LEMMA ReachStep ==
  ASSUME NEW q \in Found
  PROVE  /\ Needed(q) \subseteq Reach(q)
         /\ \A p \in Reach(q) : Needed(p) \subseteq Reach(q)
<1>1. \A p : Needed(p) \subseteq Found
  BY DEF Needed
<1> QED
  BY <1>1 DEF Reach

\* A call more: for a plugin no call was made for, that every call below leads to.
LEMMA SortedCall ==
  ASSUME InstallTypeOK, Sorted, NEW p \in Found \ Visited,
         UNCHANGED <<config, order>>, stack' = Append(stack, p),
         \A i \in 1 .. Len(stack) : p \in Reach(stack[i])
  PROVE  Sorted'
<1>1. \A q : Needed(q)' = Needed(q) /\ Reach(q)' = Reach(q)
  BY SameNeeds DEF config
<1>2. stack \in Seq(Found)
  BY DEF InstallTypeOK
<1>3. /\ Len(stack') = Len(stack) + 1 /\ stack'[Len(stack) + 1] = p
      /\ \A i \in 1 .. Len(stack) : stack'[i] = stack[i]
  BY <1>2
<1>4. \A i \in 1 .. Len(stack) : stack[i] # p
  BY DEF Visited, Open
<1>5. \A i, j \in 1 .. Len(stack') : stack'[i] = stack'[j] => i = j
  BY <1>2, <1>3, <1>4 DEF Sorted
<1>6. Placed' \cap Open' = {}
  <2>1. Open' = Open \cup {p}
    BY <1>2, <1>3 DEF Open
  <2> QED
    BY <2>1 DEF Sorted, Placed, Visited
<1>7. \A i, j \in 1 .. Len(stack') : i < j => stack'[j] \in Reach(stack'[i])
  BY <1>2, <1>3 DEF Sorted
<1> QED
  BY <1>1, <1>5, <1>6, <1>7 DEF Sorted

\* A call less: its plugin is placed.
LEMMA SortedReturn ==
  ASSUME InstallTypeOK, Sorted, UNCHANGED config, VisitDone
  PROVE  Sorted'
<1>1. \A q : Needed(q)' = Needed(q) /\ Reach(q)' = Reach(q)
  BY SameNeeds DEF config
<1> DEFINE n == Len(stack)
           m == Len(order)
<1>2. /\ stack \in Seq(Found) /\ order \in Seq(Found) /\ n \in Nat /\ n >= 1 /\ m \in Nat
      /\ Top = stack[n] /\ Top \in Found
      /\ order' = Append(order, Top) /\ stack' = SubSeq(stack, 1, n - 1)
      /\ Needed(Top) \subseteq Visited
  BY DEF InstallTypeOK, VisitDone, Leave, Top
<1>3. /\ Len(stack') = n - 1 /\ \A i \in 1 .. n - 1 : stack'[i] = stack[i]
      /\ Len(order') = m + 1 /\ order'[m + 1] = Top
      /\ \A i \in 1 .. m : order'[i] = order[i]
  <2>1. Len(stack') = n - 1 /\ \A i \in 1 .. n - 1 : stack'[i] = stack[i]
    BY <1>2, Front
  <2>2. Len(order') = m + 1 /\ order'[m + 1] = Top
    BY <1>2
  <2>3. \A i \in 1 .. m : order'[i] = order[i]
    BY <1>2
  <2> QED
    BY <2>1, <2>2, <2>3
<1>4. \A i \in 1 .. m : order[i] # Top
  <2>1. Top \in Open
    BY <1>2 DEF Open
  <2>2. \A i \in 1 .. m : order[i] \in Placed
    BY DEF Placed
  <2> QED
    BY <2>1, <2>2 DEF Sorted
<1> HIDE DEF n, m
<1>5. \A i, j \in 1 .. Len(stack') : stack'[i] = stack'[j] => i = j
  BY <1>2, <1>3 DEF Sorted, n
<1>6. \A i, j \in 1 .. Len(order') : order'[i] = order'[j] => i = j
  <2>1. \A i, j \in 1 .. m : order'[i] = order'[j] => i = j
    BY <1>3 DEF Sorted, m
  <2>2. \A i \in 1 .. m : order'[i] # order'[m + 1]
    BY <1>3, <1>4
  <2>3. Len(order') = m + 1
    BY <1>3
  <2> QED
    BY <1>2, <2>1, <2>2, <2>3
<1>7. Placed' \cap Open' = {}
  <2>1. Placed' = Placed \cup {Top}
    BY <1>2, <1>3 DEF Placed, m
  <2>2. Open' \subseteq Open /\ Top \notin Open'
    BY <1>2, <1>3 DEF Sorted, Open, n
  <2> QED
    BY <2>1, <2>2 DEF Sorted
<1>8. \A i, j \in 1 .. Len(stack') : i < j => stack'[j] \in Reach(stack'[i])
  BY <1>2, <1>3 DEF Sorted, n
<1>9. ASSUME NEW i \in 1 .. Len(order'), NEW q \in Needed(order'[i])
      PROVE  order'[i] \in Reach(q) \/ \E j \in 1 .. i - 1 : order'[j] = q
  <2>1. CASE i \in 1 .. m
    <3>1. order[i] \in Reach(q) \/ \E j \in 1 .. i - 1 : order[j] = q
      BY <1>3, <1>9, <2>1 DEF Sorted, m
    <3> QED
      BY <1>2, <1>3, <2>1, <3>1
  <2>2. CASE i = m + 1
    <3>1. order'[i] = Top /\ q \in Visited
      BY <1>2, <1>3, <1>9, <2>2
    <3>2. CASE q \in Placed
      BY <1>2, <1>3, <2>2, <3>2 DEF Placed, m
    <3>3. CASE q \in Open
      <4>1. PICK k \in 1 .. n : q = stack[k]
        BY <3>3 DEF Open, n
      <4>2. CASE k = n
        BY <1>2, <1>3, <1>9, <2>2, <3>1, <4>1, <4>2, ReachStep
      <4>3. CASE k < n
        BY <1>2, <3>1, <4>1, <4>3 DEF Sorted, n
      <4> QED
        BY <1>2, <4>2, <4>3
    <3> QED
      BY <3>1, <3>2, <3>3 DEF Visited
  <2> QED
    BY <1>2, <1>3, <2>1, <2>2
<1> QED
  BY <1>1, <1>5, <1>6, <1>7, <1>8, <1>9 DEF Sorted

LEMMA SortedStep ==
  ASSUME InstallTypeOK, Sorted, InstallNext
  PROVE  Sorted'
<1>0. UNCHANGED config
  BY Frame
<1>1. CASE VisitNext
  <2>1. PICK p \in Found \ Visited : stack' = <<p>>
    BY <1>1 DEF VisitNext
  <2>2. stack = <<>> /\ UNCHANGED order /\ stack' = Append(stack, p)
    BY <1>1, <2>1 DEF VisitNext
  <2> QED
    BY <1>0, <2>1, <2>2, SortedCall
<1>2. CASE VisitDependency
  <2>1. PICK q \in Needed(Top) \ Visited : stack' = Append(stack, q)
    BY <1>2 DEF VisitDependency
  <2>2. /\ stack \in Seq(Found) /\ Len(stack) \in Nat /\ Len(stack) >= 1 /\ UNCHANGED order
        /\ Top = stack[Len(stack)] /\ Top \in Found /\ q \in Found
    BY <1>2, <2>1 DEF InstallTypeOK, VisitDependency, Top, Needed
  <2>3. ASSUME NEW i \in 1 .. Len(stack) PROVE q \in Reach(stack[i])
    <3>1. stack[i] \in Found /\ (i = Len(stack) \/ Top \in Reach(stack[i]))
      BY <2>2 DEF Sorted
    <3> QED
      BY <2>1, <2>2, <3>1, ReachStep
  <2> QED
    BY <1>0, <2>1, <2>2, <2>3, SortedCall
<1>3. CASE VisitDone
  BY <1>0, <1>3, SortedReturn
<1>4. CASE BootStart \/ Crash
  <2>1. stack' = <<>> /\ order' = <<>>
    BY <1>4 DEF BootStart, Crash
  <2> QED
    BY <2>1 DEF Sorted, Placed, Open
<1>5. CASE UNCHANGED sort
  <2>1. /\ UNCHANGED <<stack, order, Placed, Open>>
        /\ \A q : Needed(q)' = Needed(q) /\ Reach(q)' = Reach(q)
    BY <1>0, <1>5, SameNeeds DEF Placed, Open, config, sort
  <2> QED
    BY <2>1 DEF Sorted
<1> QED
  BY <1>1, <1>2, <1>3, <1>4, <1>5, Frame DEF Sorts

\* A sort that is done gives a list in which no plugin precedes what it depends on.
LEMMA ListedStart ==
  ASSUME InstallTypeOK, Sorted, BootStart
  PROVE  Listed'
<1>1. \A q : Needed(q)' = Needed(q) /\ Reach(q)' = Reach(q)
  BY SameNeeds DEF BootStart, config
<1>2. order \in Seq(Found) /\ Len(order) \in Nat
  BY DEF InstallTypeOK
<1>3. /\ Len(todo') = Len(order) + 1
      /\ todo'[1] = 0
      /\ \A i \in 1 .. Len(order) : todo'[i + 1] = order[i]
  BY <1>2 DEF BootStart
<1>4. \A i \in 2 .. Len(todo') : i - 1 \in 1 .. Len(order) /\ todo'[i] = order[i - 1]
  BY <1>2, <1>3
<1>5. \A i \in 1 .. Len(order) : order[i] \in Found /\ order[i] # 0
  BY <1>2, BoundsAssumption DEF Found
<1>6. ASSUME NEW i \in 1 .. Len(todo'), todo'[i] # 0, NEW q \in Needed(todo'[i]),
             todo'[i] \notin Reach(q), NEW j \in i .. Len(todo')
      PROVE  todo'[j] # q
  <2>1. i \in 2 .. Len(todo') /\ j \in 2 .. Len(todo')
    BY <1>2, <1>3, <1>6
  <2>2. PICK k \in 1 .. (i - 1) - 1 : order[k] = q
    BY <1>4, <1>6, <2>1 DEF Sorted
  <2>3. k # j - 1 /\ k \in 1 .. Len(order)
    BY <1>2, <1>3, <2>1, <2>2
  <2> QED
    BY <1>4, <2>1, <2>2, <2>3 DEF Sorted
<1> QED
  BY <1>1, <1>4, <1>5, <1>6 DEF Listed

LEMMA ListedStep ==
  ASSUME InstallTypeOK, Sorted, Listed, InstallNext
  PROVE  Listed'
<1>1. \A q : Needed(q)' = Needed(q) /\ Reach(q)' = Reach(q)
  BY Frame, SameNeeds DEF config
<1>2. CASE todo' = todo
  BY <1>1, <1>2 DEF Listed
<1>3. CASE todo' = <<>>
  BY <1>3 DEF Listed
<1>4. CASE todo # <<>> /\ todo' = Tail(todo)
  <2>1. todo \in Seq(Plugins) /\ Len(todo) \in Nat
    BY DEF InstallTypeOK
  <2>2. Len(todo') = Len(todo) - 1 /\ \A i \in 1 .. Len(todo') : todo'[i] = todo[i + 1]
    BY <1>4, <2>1
  <2>3. \A i \in 2 .. Len(todo') : todo'[i] # 0
    BY <2>1, <2>2 DEF Listed
  <2>4. ASSUME NEW i \in 1 .. Len(todo'), todo'[i] # 0, NEW q \in Needed(todo'[i]),
               todo'[i] \notin Reach(q), NEW j \in i .. Len(todo')
        PROVE  todo'[j] # q
    <3>1. /\ i + 1 \in 1 .. Len(todo) /\ j + 1 \in i + 1 .. Len(todo)
          /\ todo'[i] = todo[i + 1] /\ todo'[j] = todo[j + 1]
      BY <2>1, <2>2
    <3> QED
      BY <2>4, <3>1 DEF Listed
  <2> QED
    BY <1>1, <2>3, <2>4 DEF Listed
<1> QED
  BY <1>2, <1>3, <1>4, ListedStart, TodoStep

-----------------------------------------------------------------------------
(* The actions. *)

LEMMA JobInStepStep ==
  ASSUME InstallTypeOK, JobInStep, InstallNext
  PROVE  JobInStep'
<1> USE DEF JobInStep
<1>1. CASE Discover \/ Sorts
  BY <1>1 DEF Discover, Sorts, VisitNext, VisitDependency, VisitDone, Leave
<1>2. CASE BootStart \/ BootDone \/ JobDone \/ JobFails \/ Crash
  BY <1>2 DEF BootStart, BootDone, JobDone, JobFails, Crash
<1>3. CASE Walks
  BY <1>3 DEF Walks, CheckInstalled, RegisterModels, FindNeeds, GenerateDone, At
<1>4. CASE Writes
  BY <1>4 DEF Writes, UpsertComponent, Generate, MakeAction, UpsertSeed, UpsertData, MarkInstalled, At
<1>5. CASE Administers
  BY <1>5 DEF Administers, ChangeAction, RemoveAction, AskForMenu, Admin, run
<1> QED
  BY <1>1, <1>2, <1>3, <1>4, <1>5, InstallKinds

\* A component without actions has none that was edited.
LEMMA NoneEdited ==
  ASSUME InstallTypeOK, NEW c, NeedsActions(c)
  PROVE  ActionsOf(c) \cap edited = {}
  BY DEF NeedsActions

LEMMA UntouchedStep ==
  ASSUME InstallTypeOK, JobInStep, Untouched, InstallNext
  PROVE  Untouched'
<1> USE DEF Untouched, JobInStep
<1>0. ASSUME edited' \subseteq edited, actions' \subseteq actions, NEW c,
             ActionsOf(c) \cap edited = {}
      PROVE  (ActionsOf(c) \cap edited)' = {}
  BY <1>0 DEF ActionsOf
<1>1. CASE Discover \/ Sorts
  BY <1>1 DEF Discover, Sorts, VisitNext, VisitDependency, VisitDone, Leave
<1>2. CASE BootStart
  BY <1>2 DEF BootStart, At
<1>3. CASE BootDone \/ Crash
  BY <1>3 DEF BootDone, Crash
<1>4. CASE JobDone \/ JobFails
  <2>1. job' = NoJob /\ UNCHANGED <<phase, step, rest, actions, edited>>
    BY <1>4 DEF JobDone, JobFails, stored
  <2> QED
    BY <2>1 DEF ActionsOf
<1>5. CASE FindNeeds
  <2>1. /\ rest' = {c \in ShipsOf[P] : NeedsActions(c)} /\ job = NoJob
        /\ UNCHANGED <<phase, job, actions, edited>>
    BY <1>5 DEF FindNeeds, At, stored
  <2>2. \A c \in rest' : ActionsOf(c)' \cap edited' = {}
    BY <2>1, NoneEdited DEF ActionsOf
  <2> QED
    BY <2>1, <2>2
<1>6. CASE CheckInstalled \/ RegisterModels \/ GenerateDone \/ UpsertSeed \/ UpsertData \/ MarkInstalled
  <2>1. UNCHANGED job /\ job = NoJob /\ step' # "generate"
    BY <1>6 DEF CheckInstalled, RegisterModels, GenerateDone, UpsertSeed, UpsertData, MarkInstalled, At
  <2> QED
    BY <2>1
<1>7. CASE UpsertComponent
  BY <1>7 DEF UpsertComponent, At
<1>8. CASE Generate
  <2>1. PICK c \in rest : /\ rest' = rest \ {c}
                          /\ \/ UNCHANGED job
                             \/ c \notin Skipped /\ job'.comp = c
    BY <1>8 DEF Generate, BeginJob
  <2>2. /\ phase = "booting" /\ step = "generate" /\ job = NoJob
        /\ UNCHANGED <<phase, step, actions, edited>>
    BY <1>8 DEF Generate, At
  <2> QED
    BY <2>1, <2>2 DEF ActionsOf, Skipped
<1>9. CASE MakeAction
  <2>1. PICK a : a[1] = job.comp /\ actions' = actions \cup {a} /\ edited' = edited \ {a}
    BY <1>9 DEF MakeAction
  <2>2. job'.comp = job.comp /\ UNCHANGED <<phase, step, rest>> /\ job # NoJob
    BY <1>9 DEF MakeAction
  <2>3. ASSUME NEW c, ActionsOf(c) \cap edited = {} PROVE (ActionsOf(c) \cap edited)' = {}
    BY <2>1, <2>3 DEF ActionsOf
  <2> QED
    BY <2>2, <2>3
<1>10. CASE Administers
  BY <1>10 DEF Administers, ChangeAction, RemoveAction, AskForMenu, Admin, run
<1> QED
  BY <1>1, <1>2, <1>3, <1>4, <1>5, <1>6, <1>7, <1>8, <1>9, <1>10, InstallKinds DEF Walks, Writes

\* What a start generates is not what an administrator edited; what a plugin ships may be.
LEMMA KeepsEdited ==
  ASSUME InstallTypeOK, JobInStep, Untouched, InstallNext, phase = "booting"
  PROVE  edited \ edited' \subseteq IF At("data") THEN SeedsOf[P] ELSE {}
<1>1. CASE MakeAction
  <2>1. PICK a : a[1] = job.comp /\ edited' = edited \ {a} /\ job # NoJob
    BY <1>1 DEF MakeAction
  <2>2. a \notin edited
    BY <2>1 DEF Untouched, ActionsOf, InstallTypeOK
  <2> QED
    BY <2>1, <2>2
<1>2. CASE UpsertSeed
  BY <1>2 DEF UpsertSeed
<1>3. CASE ~ MakeAction /\ ~ UpsertSeed
  BY <1>3, InstallKinds DEF Discover, Sorts, VisitNext, VisitDependency, VisitDone, Leave, BootStart,
     BootDone, JobDone, JobFails, Crash, Walks, CheckInstalled, RegisterModels, FindNeeds,
     GenerateDone, Writes, UpsertComponent, Generate, UpsertData, MarkInstalled, Administers,
     ChangeAction, RemoveAction, AskForMenu, Admin
<1> QED
  BY <1>1, <1>2, <1>3

-----------------------------------------------------------------------------
(* What a start provides. *)

\* Only a start takes a model from those known, only an administrator removes an action,
\* and neither a failed call nor an edit is forgotten.
LEMMA Grows ==
  ASSUME InstallTypeOK, InstallNext
  PROVE  /\ inDb \subseteq inDb' /\ dataOf \subseteq dataOf'
         /\ BootStart \/ known \subseteq known'
         /\ MarkInstalled \/ UNCHANGED marked
         /\ edits' = 0 => edits = 0 /\ actions \subseteq actions'
         /\ faults' = 0 => faults = 0
         /\ phase' = "booting" => BootStart \/ phase = "booting"
         /\ phase' = "booting" => actions \subseteq actions'
         /\ BootStart \/ (clean' => clean)
<1>0. faults \in Nat /\ edits \in Nat
  BY DEF InstallTypeOK
<1>1. CASE Discover \/ Sorts
  BY <1>1 DEF Discover, Sorts, VisitNext, VisitDependency, VisitDone, Leave, stored, bounds
<1>2. CASE BootStart \/ BootDone \/ JobDone \/ Crash
  BY <1>2 DEF BootStart, BootDone, JobDone, Crash, stored, bounds
<1>3. CASE JobFails
  BY <1>0, <1>3 DEF JobFails, stored
<1>4. CASE Walks
  BY <1>4 DEF Walks, CheckInstalled, RegisterModels, FindNeeds, GenerateDone, stored, bounds
<1>5. CASE Writes
  BY <1>5 DEF Writes, UpsertComponent, Generate, MakeAction, UpsertSeed, UpsertData, MarkInstalled, bounds
<1>6. CASE Administers
  <2>1. edits' # 0 /\ phase' = "up"
    BY <1>0, <1>6 DEF Administers, ChangeAction, RemoveAction, AskForMenu, Admin, run
  <2> QED
    BY <1>6, <2>1 DEF Administers, ChangeAction, RemoveAction, AskForMenu, run, stored
<1> QED
  BY <1>1, <1>2, <1>3, <1>4, <1>5, <1>6, InstallKinds

LEMMA ActionsGrow ==
  ASSUME actions \subseteq actions', NEW c, ActionsOf(c) # {}
  PROVE  ActionsOf(c)' # {}
  BY DEF ActionsOf

\* How far the actions of the plugin under way are.
Generating ==
  step = "generate" => \A c \in ShipsOf[P] \ Skipped :
    c \in rest \/ ActionsOf(c) # {} \/ (job.comp = c /\ job.left # <<>>)
Generated == step \in {"data", "mark"} => \A c \in ShipsOf[P] \ Skipped : ActionsOf(c) # {}

\* A step of the plugin under way: it stays the same one.
LEMMA StageSame ==
  ASSUME InstallTypeOK, Stage, InstallNext, phase = "booting", phase' = "booting", todo # <<>>,
         UNCHANGED todo, known \subseteq known',
         step' = "mark" => 0 \in dataOf',
         step' = "components" => ShipsOf[P] \subseteq inDb' \cup rest',
         step' \in {"needs", "generate", "data", "mark"} =>
           /\ step \in {"needs", "generate", "data", "mark"} \/ ShipsOf[P] \subseteq inDb
           /\ ShipsOf[P] \subseteq known' \cup Misnamed,
         automatic[P] /\ clean' => Generating' /\ Generated'
  PROVE  Stage'
<1>1. /\ UNCHANGED <<depends, noUpdate, automatic>> /\ P' = P
      /\ dataOf \subseteq dataOf' /\ inDb \subseteq inDb'
  BY Frame, Grows DEF config, P
<1>2. step' \in {"needs", "generate", "data", "mark"} => ShipsOf[P] \subseteq inDb'
  BY <1>1 DEF Stage
<1> QED
  BY <1>1, <1>2 DEF Stage, Generating, Generated

\* The next plugin: the base plugin and its templates are stored by then.
LEMMA StageNext ==
  ASSUME step' = "check", todo' = <<>> \/ P' = 0 \/ 0 \in dataOf'
  PROVE  Stage'
  BY DEF Stage

LEMMA StageStep ==
  ASSUME InstallTypeOK, BaseOption, JobInStep, Stage, Through, InstallNext
  PROVE  Stage'
<1>0. /\ UNCHANGED <<depends, noUpdate, automatic>>
      /\ inDb \subseteq inDb' /\ dataOf \subseteq dataOf'
  BY Frame, Grows DEF config
<1>1. CASE phase' # "booting" \/ todo' = <<>>
  BY <1>1 DEF Stage
<1>2. CASE BootStart
  <2>1. Head(todo') = 0 /\ step' = "check"
    BY <1>2 DEF BootStart, InstallTypeOK
  <2> QED
    BY <2>1, StageNext DEF P
<1>3. CASE CheckInstalled
  <2>0. todo # <<>> /\ phase = "booting" /\ UNCHANGED <<phase, known, dataOf, clean>> /\ step = "check"
    BY <1>3 DEF CheckInstalled, At, stored
  <2>1. CASE noUpdate[P] /\ P \in marked
    <3>1. 0 \in dataOf' /\ step' = "check"
      BY <1>3, <2>0, <2>1 DEF CheckInstalled, BaseOption, Stage
    <3> QED
      BY <3>1, StageNext
  <2>2. CASE ~ (noUpdate[P] /\ P \in marked)
    <3>1. UNCHANGED todo /\ step' = "components" /\ rest' = ShipsOf[P]
      BY <1>3, <2>2 DEF CheckInstalled
    <3> QED
      BY <2>0, <3>1, StageSame DEF Generating, Generated
  <2> QED
    BY <2>1, <2>2
<1>4. CASE UpsertComponent
  <2>1. PICK c \in rest : rest' = rest \ {c} /\ inDb' = inDb \cup {c}
    BY <1>4 DEF UpsertComponent
  <2>2. /\ phase = "booting" /\ todo # <<>> /\ step = "components"
        /\ UNCHANGED <<phase, todo, step, known>>
    BY <1>4 DEF UpsertComponent, At
  <2>3. ShipsOf[P] \subseteq inDb' \cup rest'
    BY <2>1, <2>2 DEF Stage
  <2> QED
    BY <2>2, <2>3, StageSame DEF Generating, Generated
<1>5. CASE RegisterModels
  <2>1. /\ phase = "booting" /\ todo # <<>> /\ step = "components" /\ rest = {}
        /\ UNCHANGED <<phase, todo>> /\ known' = known \cup ((fresh \cap ShipsOf[P]) \ Misnamed)
        /\ step' = (IF automatic[P] THEN "needs" ELSE "data")
    BY <1>5 DEF RegisterModels, At
  <2>2. ShipsOf[P] \subseteq inDb /\ ShipsOf[P] \subseteq known' \cup Misnamed
    BY <2>1 DEF Stage, Through
  <2> QED
    BY <2>1, <2>2, StageSame DEF Generating, Generated
<1>6. CASE FindNeeds
  <2>1. /\ phase = "booting" /\ todo # <<>> /\ step = "needs" /\ step' = "generate"
        /\ UNCHANGED <<phase, todo, known, actions>>
        /\ rest' = {c \in ShipsOf[P] : NeedsActions(c)}
    BY <1>6 DEF FindNeeds, At, stored
  <2>2. P' = P /\ \A c \in ShipsOf[P] : c \in rest' \/ ActionsOf(c)' # {}
    BY <2>1 DEF NeedsActions, ActionsOf, P
  <2>3. ShipsOf[P] \subseteq known' \cup Misnamed
    BY <2>1 DEF Stage
  <2> QED
    BY <2>1, <2>2, <2>3, StageSame DEF Generating, Generated
<1>7. CASE Generate
  <2>1. PICK c \in rest : /\ rest' = rest \ {c}
                          /\ c \in Skipped \/ BeginJob(c)
    BY <1>7 DEF Generate
  <2>2. /\ phase = "booting" /\ todo # <<>> /\ step = "generate" /\ job = NoJob
        /\ UNCHANGED <<phase, todo, step, known, actions, clean>>
    BY <1>7 DEF Generate, At
  <2>3. ShipsOf[P] \subseteq known' \cup Misnamed /\ P' = P
    BY <2>2 DEF Stage, P
  <2>4. ASSUME automatic[P], clean PROVE Generating'
    <3>1. P # 0 /\ 0 \in dataOf
      BY <2>2, <2>4 DEF BaseOption, Stage
    <3>2. c \in Skipped \/ (job'.comp = c /\ job'.left # <<>>)
      <4>1. CASE c \in Skipped
        BY <4>1
      <4>2. CASE BeginJob(c)
        <5>1. job'.comp = c /\ job'.left = [i \in 1 .. Templates |-> i]
          BY <3>1, <4>2 DEF BeginJob
        <5> QED
          BY <5>1, TemplatesAssumption
      <4> QED
        BY <2>1, <4>1, <4>2
    <3>3. \A d \in ShipsOf[P] \ Skipped : d \in rest \/ ActionsOf(d) # {}
      BY <2>2, <2>4 DEF Stage, NoJob
    <3>4. \A d \in ShipsOf[P] \ Skipped :
            d \in rest' \/ ActionsOf(d) # {} \/ (job'.comp = d /\ job'.left # <<>>)
      BY <2>1, <3>2, <3>3
    <3>5. \A d : ActionsOf(d)' = ActionsOf(d)
      BY <2>2 DEF ActionsOf
    <3>6. ShipsOf[P'] \ Skipped' = ShipsOf[P] \ Skipped
      BY <2>3 DEF Skipped
    <3> QED
      BY <2>3, <3>4, <3>5, <3>6 DEF Generating
  <2> QED
    BY <2>2, <2>3, <2>4, StageSame DEF Generated
<1>8. CASE MakeAction
  <2>1. SUFFICES ASSUME phase = "booting" PROVE Stage'
    BY <1>1, <1>8 DEF MakeAction
  <2>2. /\ todo # <<>> /\ step = "generate" /\ job # NoJob /\ job.left # <<>>
        /\ UNCHANGED <<phase, todo, step, rest, known, clean>>
    BY <1>8, <2>1 DEF MakeAction, JobInStep
  <2>3. PICK a : a[1] = job.comp /\ actions' = actions \cup {a}
    BY <1>8 DEF MakeAction
  <2>4. ShipsOf[P] \subseteq known' \cup Misnamed /\ P' = P
    BY <2>1, <2>2 DEF Stage, P
  <2>5. ASSUME automatic[P], clean PROVE Generating'
    <3>1. \A c \in ShipsOf[P] \ Skipped : c \in rest \/ ActionsOf(c) # {} \/ job.comp = c
      BY <2>1, <2>2, <2>5 DEF Stage
    <3>2. \A c : job.comp = c => ActionsOf(c)' # {}
      BY <2>3 DEF ActionsOf
    <3>3. \A c \in ShipsOf[P] \ Skipped : c \in rest' \/ ActionsOf(c)' # {}
      <4>1. \A c : ActionsOf(c) # {} => ActionsOf(c)' # {}
        BY <2>3, ActionsGrow
      <4> QED
        BY <2>2, <3>1, <3>2, <4>1
    <3> QED
      BY <2>4, <3>3 DEF Generating, Skipped
  <2> QED
    BY <2>1, <2>2, <2>4, <2>5, StageSame DEF Generated
<1>9. CASE JobDone
  <2>1. SUFFICES ASSUME phase = "booting" PROVE Stage'
    BY <1>1, <1>9 DEF JobDone
  <2>2. /\ todo # <<>> /\ step = "generate" /\ job.left = <<>>
        /\ UNCHANGED <<phase, todo, step, rest, known, clean, actions>>
    BY <1>9, <2>1 DEF JobDone, JobInStep, stored
  <2>3. ShipsOf[P] \subseteq known' \cup Misnamed /\ P' = P
    BY <2>1, <2>2 DEF Stage, P
  <2>4. ASSUME automatic[P], clean PROVE Generating'
    <3>1. \A c \in ShipsOf[P] \ Skipped : c \in rest \/ ActionsOf(c) # {}
      BY <2>1, <2>2, <2>4 DEF Stage
    <3> QED
      BY <2>2, <2>3, <3>1 DEF Generating, ActionsOf, Skipped
  <2> QED
    BY <2>1, <2>2, <2>3, <2>4, StageSame DEF Generated
<1>10. CASE JobFails
  <2>1. SUFFICES ASSUME phase = "booting" PROVE Stage'
    BY <1>1, <1>10 DEF JobFails
  <2>2. /\ todo # <<>> /\ step = "generate" /\ ~ clean'
        /\ UNCHANGED <<phase, todo, step, rest, known>>
    BY <1>10, <2>1 DEF JobFails, JobInStep
  <2>3. ShipsOf[P] \subseteq known' \cup Misnamed
    BY <2>1, <2>2 DEF Stage
  <2> QED
    BY <2>1, <2>2, <2>3, StageSame
<1>11. CASE GenerateDone
  <2>1. /\ phase = "booting" /\ todo # <<>> /\ step = "generate" /\ rest = {} /\ job = NoJob
        /\ step' = "data" /\ UNCHANGED <<phase, todo, known, clean, actions>>
    BY <1>11 DEF GenerateDone, At, stored
  <2>2. ShipsOf[P] \subseteq known' \cup Misnamed /\ P' = P
    BY <2>1 DEF Stage, P
  <2>3. ASSUME automatic[P], clean PROVE Generated'
    BY <2>1, <2>2, <2>3 DEF Stage, Generated, NoJob, ActionsOf, Skipped
  <2> QED
    BY <2>1, <2>2, <2>3, StageSame DEF Generating
<1>12. CASE UpsertData
  <2>1. /\ phase = "booting" /\ todo # <<>> /\ step = "data" /\ step' = "mark"
        /\ dataOf' = dataOf \cup {P} /\ UNCHANGED <<phase, todo, known, clean, actions>>
    BY <1>12 DEF UpsertData, At
  <2>2. ShipsOf[P] \subseteq known' \cup Misnamed /\ P' = P /\ 0 \in dataOf'
    BY <2>1 DEF Stage, P
  <2>3. ASSUME automatic[P], clean PROVE Generated'
    BY <2>1, <2>2, <2>3 DEF Stage, Generated, ActionsOf, Skipped
  <2> QED
    BY <2>1, <2>2, <2>3, StageSame DEF Generating
<1>13. CASE MarkInstalled
  BY <1>0, <1>13, StageNext DEF MarkInstalled, At, Stage
<1>14. CASE Discover \/ Sorts \/ BootDone \/ Crash \/ Administers
  BY <1>1, <1>14 DEF Discover, Sorts, VisitNext, VisitDependency, VisitDone, Leave, BootDone, Crash,
     Administers, ChangeAction, RemoveAction, AskForMenu, Admin, run
<1>15. CASE UpsertSeed
  <2>1. /\ phase = "booting" /\ todo # <<>> /\ step = "data" /\ actions \subseteq actions'
        /\ UNCHANGED <<phase, todo, step, known, clean>>
    BY <1>15 DEF UpsertSeed, At
  <2>2. ShipsOf[P] \subseteq known' \cup Misnamed /\ P' = P
    BY <2>1 DEF Stage, P
  <2>3. ASSUME automatic[P], clean PROVE Generated'
    <3>1. \A c \in ShipsOf[P] \ Skipped : ActionsOf(c)' # {}
      BY <2>1, <2>3, ActionsGrow DEF Stage
    <3> QED
      BY <2>2, <3>1 DEF Generated, Skipped
  <2> QED
    BY <2>1, <2>2, <2>3, StageSame DEF Generating
<1> QED
  BY <1>2, <1>3, <1>4, <1>5, <1>6, <1>7, <1>8, <1>9, <1>10, <1>11, <1>12, <1>13, <1>14, <1>15,
     InstallKinds DEF Walks, Writes

LEMMA MarksStep ==
  ASSUME InstallTypeOK, Stage, Marks, Through, InstallNext
  PROVE  Marks'
<1>0. UNCHANGED <<depends, noUpdate, automatic>>
  BY Frame DEF config
<1>1. ASSUME NEW p \in marked \cap Found
      PROVE  /\ ShipsOf[p] \subseteq inDb'
             /\ phase' = "booting" => ShipsOf[p] \subseteq known' \cup Misnamed
             /\ automatic[p] /\ faults' = 0 /\ edits' = 0 =>
                  \A c \in ShipsOf[p] \ Skipped : ActionsOf(c)' # {}
  <2>1. ShipsOf[p] \subseteq inDb'
    BY <1>1, Grows DEF Marks
  <2>2. BootStart => known' = inDb \ Misnamed
    BY DEF BootStart
  <2>3. phase' = "booting" => ShipsOf[p] \subseteq known' \cup Misnamed
    BY <1>1, <2>2, Grows DEF Marks
  <2>4. ASSUME automatic[p], faults' = 0, edits' = 0, NEW c \in ShipsOf[p] \ Skipped
        PROVE  ActionsOf(c)' # {}
    <3>1. ActionsOf(c) # {} /\ actions \subseteq actions'
      BY <1>1, <2>4, Grows DEF Marks
    <3> QED
      BY <3>1, ActionsGrow
  <2> QED
    BY <2>1, <2>3, <2>4
<1>2. CASE MarkInstalled
  <2>1. /\ phase = "booting" /\ todo # <<>> /\ step = "mark" /\ marked' = marked \cup {P}
        /\ UNCHANGED <<known, inDb, actions, faults, edits>>
    BY <1>2 DEF MarkInstalled, At, bounds
  <2>2. ShipsOf[P] \subseteq known' \cup Misnamed /\ ShipsOf[P] \subseteq inDb'
    BY <2>1 DEF Stage, InstallTypeOK
  <2>3. ASSUME automatic[P], faults = 0, NEW c \in ShipsOf[P] \ Skipped PROVE ActionsOf(c)' # {}
    BY <2>1, <2>3 DEF Stage, Through, ActionsOf
  <2> QED
    BY <1>0, <1>1, <2>1, <2>2, <2>3 DEF Marks, Skipped
<1>3. CASE UNCHANGED marked
  BY <1>0, <1>1, <1>3 DEF Marks, Skipped
<1> QED
  BY <1>2, <1>3, Grows

LEMMA ProvidedGrows ==
  ASSUME known \subseteq known', actions \subseteq actions', NEW p, Provided(p)
  PROVE  Provided(p)'
<1>1. \A c \in ShipsOf[p] \ Skipped : ActionsOf(c)' # {}
  BY ActionsGrow DEF Provided
<1> QED
  BY <1>1 DEF Provided, Skipped

\* The plugin that leaves the list has what it is owed: by this start, or by the mark.
LEMMA LeavesProvided ==
  ASSUME InstallTypeOK, BaseOption, Stage, Marks, Through, CheckInstalled \/ MarkInstalled,
         UNCHANGED config, todo' # todo, clean, P \in Found, Owed(P)
  PROVE  Provided(P)
<1>1. phase = "booting" /\ todo # <<>>
  BY DEF CheckInstalled, MarkInstalled, At
<1>2. CASE MarkInstalled
  BY <1>1, <1>2 DEF MarkInstalled, At, Stage, Owed, Provided
<1>3. CASE CheckInstalled
  <2>1. noUpdate[P] /\ P \in marked
    BY <1>3 DEF CheckInstalled
  <2> QED
    BY <1>1, <2>1 DEF Marks, Owed, Provided
<1> QED
  BY <1>2, <1>3

LEMMA ThroughStep ==
  ASSUME InstallTypeOK, BaseOption, Stage, Marks, Through, InstallNext
  PROVE  Through'
<1>0. UNCHANGED config /\ UNCHANGED <<depends, noUpdate, automatic>>
  BY Frame DEF config
<1>1. faults' = 0 => clean'
  <2>1. CASE JobFails
    BY <2>1 DEF JobFails, InstallTypeOK
  <2>2. CASE BootStart
    BY <2>2 DEF BootStart
  <2>3. CASE ~ JobFails /\ ~ BootStart
    <3>1. UNCHANGED clean
      BY <2>3, InstallKinds DEF Discover, Sorts, VisitNext, VisitDependency, VisitDone, Leave, BootDone,
         JobDone, Crash, Walks, CheckInstalled, RegisterModels, FindNeeds, GenerateDone, Writes,
         UpsertComponent, Generate, MakeAction, UpsertSeed, UpsertData, MarkInstalled, Administers,
         ChangeAction, RemoveAction, AskForMenu
    <3> QED
      BY <3>1, Grows DEF Through
  <2> QED
    BY <2>1, <2>2, <2>3
<1>2. phase' = "booting" => inDb' \subseteq known' \cup fresh' \cup Misnamed
  <2>1. CASE BootStart
    BY <2>1 DEF BootStart, stored
  <2>2. CASE UpsertComponent
    BY <2>2 DEF UpsertComponent, At, Through
  <2>3. CASE ~ BootStart /\ ~ UpsertComponent
    <3>1. UNCHANGED <<inDb, fresh>>
      BY <2>3, InstallKinds DEF Discover, Sorts, VisitNext, VisitDependency, VisitDone, Leave, BootDone,
         JobDone, JobFails, Crash, Walks, CheckInstalled, RegisterModels, FindNeeds, GenerateDone,
         Writes, Generate, MakeAction, UpsertSeed, UpsertData, MarkInstalled, Administers,
         ChangeAction, RemoveAction, AskForMenu, run, stored
    <3> QED
      BY <2>3, <3>1, Grows DEF Through
  <2> QED
    BY <2>1, <2>2, <2>3
<1>3. ASSUME phase' = "booting", clean', NEW p \in Found, Owed(p)'
      PROVE  Provided(p)' \/ \E i \in 1 .. Len(todo') : todo'[i] = p
  <2>1. CASE BootStart
    <3>1. order \in Seq(Found) /\ Len(order) \in Nat /\ p \in Placed
      BY <2>1 DEF BootStart, Visited, Open, InstallTypeOK
    <3>2. PICK i \in 1 .. Len(order) : order[i] = p
      BY <3>1 DEF Placed
    <3>3. Len(todo') = Len(order) + 1 /\ todo'[i + 1] = order[i]
      BY <2>1, <3>1 DEF BootStart
    <3> QED
      BY <3>1, <3>2, <3>3
  <2>2. CASE ~ BootStart
    <3>1. /\ phase = "booting" /\ clean /\ Owed(p)
          /\ known \subseteq known' /\ actions \subseteq actions'
      BY <1>0, <1>3, <2>2, Grows DEF Owed
    <3>2. CASE Provided(p)
      BY <3>1, <3>2, ProvidedGrows
    <3>3. CASE ~ Provided(p)
      <4>1. PICK i \in 1 .. Len(todo) : todo[i] = p
        BY <3>1, <3>3 DEF Through
      <4>2. CASE UNCHANGED todo
        BY <4>1, <4>2
      <4>3. CASE todo' # todo
        <5>1. CheckInstalled \/ MarkInstalled
          BY <1>3, <2>2, <4>3, Frame DEF Crash
        <5>2. todo # <<>> /\ todo' = Tail(todo) /\ todo \in Seq(Plugins) /\ Len(todo) \in Nat
          BY <4>3, <5>1 DEF CheckInstalled, MarkInstalled, At, InstallTypeOK
        <5>3. i # 1
          BY <1>0, <3>1, <3>3, <4>1, <4>3, <5>1, <5>2, LeavesProvided DEF P
        <5>4. Len(todo') = Len(todo) - 1 /\ \A j \in 1 .. Len(todo') : todo'[j] = todo[j + 1]
          BY <5>2
        <5>5. i - 1 \in 1 .. Len(todo') /\ todo'[i - 1] = todo[(i - 1) + 1]
          BY <5>2, <5>3, <5>4
        <5> QED
          BY <4>1, <5>2, <5>5
      <4> QED
        BY <4>2, <4>3
    <3> QED
      BY <3>2, <3>3
  <2> QED
    BY <2>1, <2>2
<1> QED
  BY <1>1, <1>2, <1>3 DEF Through

-----------------------------------------------------------------------------
(* The invariant, and the properties. *)

LEMMA InstallInvInit == InstallInit => InstallInv
<1> SUFFICES ASSUME InstallInit PROVE InstallInv
  OBVIOUS
<1>1. InstallTypeOK
  BY InitType
<1>2. BaseOption
  <2>1. 0 \in Plugins
    BY BoundsAssumption DEF Plugins
  <2> QED
    BY <2>1 DEF InstallInit, BaseOption
<1>3. Sorted /\ Listed
  BY DEF InstallInit, Sorted, Listed, Placed, Open
<1> QED
  BY <1>1, <1>2, <1>3 DEF InstallInv, InstallInit, JobInStep, Untouched, Stage, Marks, Through

LEMMA InstallInvStep == InstallInv /\ [InstallNext]_installVars => InstallInv'
<1> SUFFICES ASSUME InstallInv, [InstallNext]_installVars PROVE InstallInv'
  OBVIOUS
<1>1. CASE InstallNext
  <2>1. InstallTypeOK' /\ Sorted' /\ Listed'
    BY <1>1, StepType, SortedStep, ListedStep DEF InstallInv
  <2>2. JobInStep' /\ Untouched'
    BY <1>1, JobInStepStep, UntouchedStep DEF InstallInv
  <2>3. Stage' /\ Marks' /\ Through'
    BY <1>1, StageStep, MarksStep, ThroughStep DEF InstallInv
  <2>4. BaseOption'
    BY <1>1, Frame DEF InstallInv, BaseOption, config
  <2> QED
    BY <2>1, <2>2, <2>3, <2>4 DEF InstallInv
<1>2. CASE UNCHANGED installVars
  <2>1. /\ UNCHANGED <<depends, noUpdate, automatic, phase, stack, order, todo, step, rest>>
        /\ UNCHANGED <<fresh, known, inDb, dataOf, marked, menus, actions, edited, job, clean>>
        /\ UNCHANGED <<crashes, faults, edits>>
    BY <1>2 DEF installVars, config, run, sort, stored, bounds
  <2>2. /\ UNCHANGED <<Placed, Open, P, Skipped>>
        /\ \A q : UNCHANGED <<Needed(q), Reach(q)>> /\ \A c : UNCHANGED ActionsOf(c)
    BY <2>1, SameNeeds DEF Placed, Open, P, Skipped, ActionsOf
  <2>3. InstallTypeOK' /\ BaseOption' /\ JobInStep'
    BY <2>1 DEF InstallInv, InstallTypeOK, BaseOption, JobInStep
  <2>4. Sorted' /\ Listed'
    BY <2>1, <2>2 DEF InstallInv, Sorted, Listed
  <2>5. Untouched' /\ Stage' /\ Marks'
    BY <2>1, <2>2 DEF InstallInv, Untouched, Stage, Marks
  <2>6. Through'
    BY <2>1, <2>2 DEF InstallInv, Through, Owed, Provided
  <2> QED
    BY <2>3, <2>4, <2>5, <2>6 DEF InstallInv
<1> QED
  BY <1>1, <1>2

\* The invariant the theorems below rest on.
THEOREM InstallInvariant == InstallSpec => []InstallInv
  BY InstallInvInit, InstallInvStep, PTL DEF InstallSpec

\* A plugin is installed after those it depends on, unless they depend on each other,
\* whatever the order in which config.json lists them and whatever starts died.
THEOREM InstallsDependenciesFirst == InstallSpec => []DependenciesFirst
<1>1. InstallInv => DependenciesFirst
  <2> SUFFICES ASSUME InstallInv, phase = "booting", todo # <<>>, P # 0, NEW q \in Needed(P),
                      P \notin Reach(q), NEW i \in 1 .. Len(todo)
               PROVE  todo[i] # q
    BY DEF DependenciesFirst
  <2>1. todo \in Seq(Plugins) /\ Len(todo) \in Nat /\ Len(todo) >= 1 /\ P = todo[1]
    BY DEF InstallInv, InstallTypeOK, P
  <2> QED
    BY <2>1 DEF InstallInv, Listed
<1> QED
  BY <1>1, InstallInvariant, PTL

\* No start, however many died before it and wherever, generates an edited action again:
\* only the plugin that ships it writes over it.
THEOREM EditsAreKept == InstallSpec => EditsKept
<1>1. InstallInv /\ [InstallNext]_installVars =>
        [phase = "booting" =>
           edited \ edited' \subseteq IF At("data") THEN SeedsOf[P] ELSE {}]_installVars
  BY KeepsEdited DEF InstallInv
<1> QED
  BY <1>1, InstallInvariant, PTL DEF InstallSpec, EditsKept

\* A start whose calls succeed leaves every component registered and with an action, but
\* for those whose name is not one of a model and those without one.
THEOREM StartsProvide == InstallSpec => StartProvides
<1>1. ASSUME InstallInv, BootDone, clean, NEW p \in Found,
             automatic[p] /\ (noUpdate[p] => faults = 0 /\ edits = 0), NEW c \in ShipsOf[p]
      PROVE  c \in known \cup Misnamed /\ (ActionsOf(c) # {} \/ c \in Skipped)
  <2>1. phase = "booting" /\ todo = <<>> /\ Owed(p)
    BY <1>1 DEF BootDone, Owed
  <2> QED
    BY <1>1, <2>1 DEF InstallInv, Through, Provided
<1>2. InstallInv /\ [InstallNext]_installVars =>
        [BootDone /\ clean =>
           \A p \in Found : automatic[p] /\ (noUpdate[p] => faults = 0 /\ edits = 0) =>
             \A c \in ShipsOf[p] :
               c \in known \cup Misnamed /\ (ActionsOf(c) # {} \/ c \in Skipped)]_installVars
  BY <1>1
<1> QED
  BY <1>2, InstallInvariant, PTL DEF InstallSpec, StartProvides
=============================================================================
