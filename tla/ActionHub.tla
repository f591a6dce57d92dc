----------------------------- MODULE ActionHub -----------------------------
(***************************************************************************)
(* The WebSocket hub and the dispatch of actions.  A socket authenticates  *)
(* once; each message it sends becomes a task that builds an environment   *)
(* of its own, reads the action, asks the gates and saves, copies or       *)
(* deletes a record (ActionRuntime.handle_post, handle_delete).  The same  *)
(* handlers serve HTTP requests, which nothing cancels, and a step of a    *)
(* workflow is a save of the whole form (complete_step_task).              *)
(*                                                                         *)
(* The actions are records that administrators edit, and are read again    *)
(* in the middle of a copy or of a delete.  The rights of a session on a   *)
(* model are a constant; record rules and hooks refuse as they like: the   *)
(* rules themselves are in RecordUpsert.                                   *)
(***************************************************************************)
EXTENDS Naturals, FiniteSets

CONSTANTS
  Sessions,
  Sockets, Http,        \* the WebSockets; where an HTTP request comes from
  Tasks,                \* the requests in progress at a time
  Models, NoModel,
  Component,            \* the model "component", whose records are the forms themselves
  Names, Copies,        \* the rec_names that clients ask for, and the others
  CopyName,             \* the name that model.copy gives
  Rights,               \* model_groups_rule: the operations of a session on a model
  ActionVersions,       \* what the action record may say
  Missing               \* no such action

Operations == {"read", "create", "update", "delete"}
Kinds == {"save", "copy", "delete", "window"}
ActionRecord ==
  [kind : Kinds, form : BOOLEAN, component : BOOLEAN, model : Models \cup {NoModel},
   writes : BOOLEAN, seenBy : SUBSET Sessions]

ASSUME RightsAssumption == Rights \in [Sessions -> [Models -> SUBSET Operations]]
ASSUME VersionsAssumption == ActionVersions \subseteq ActionRecord \cup {Missing}
ASSUME CopyAssumption == CopyName \in [Names -> Names \cup Copies]
ASSUME HttpAssumption == Http \notin Sockets /\ NoModel \notin Models
ASSUME SomebodyAssumption == Sessions # {} /\ Names # {}
ASSUME ComponentAssumption == Component \in Models

\* A record: absent, live, or marked by set_to_delete.
Records == {"absent", "live", "deleted"}

\* What a form was loaded with: a record, nothing because it is new, nothing because the
\* record it names is not there, or what compo_by_name gives for a component without name.
Forms == Records \cup {"missing", "component"}

\* What became of the write of a request.
Wrote == {"nothing", "stored", "refused"}

VARIABLES
  revoked,   \* the sessions revoked in the store of the SSO
  sock,      \* the sockets: closed or open, and the session
  manager,   \* ConnectionManager._by_uid
  action,    \* the action record
  store,     \* Mongo: the records of each model
  task       \* the locals of each request

vars == <<revoked, sock, manager, action, store, task>>
hub == <<revoked, sock, manager>>

NoTask ==
  [pc |-> "idle", from |-> Http, ses |-> CHOOSE s \in Sessions : TRUE, route |-> "post",
   name |-> CHOOSE n \in Names : TRUE, form |-> "absent", editable |-> FALSE,
   model |-> NoModel, kind |-> "save", op |-> "read", wrote |-> "nothing", out |-> "none"]

Task ==
  [pc : {"idle", "form", "env", "action", "again", "find", "mark", "source", "clone", "step",
         "lookup", "write", "after", "answered"},
   from : Sockets \cup {Http}, ses : Sessions, route : {"post", "delete", "step"}, name : Names,
   form : Forms, editable : BOOLEAN, model : Models \cup {NoModel}, kind : Kinds, op : Operations,
   wrote : Wrote, out : {"none", "completed", "error"}]

Socket == [pc : {"closed", "open"}, ses : Sessions]

TypeOK ==
  /\ revoked \subseteq Sessions
  /\ sock \in [Sockets -> Socket]
  /\ manager \in [Sessions -> SUBSET Sockets]
  /\ action \in ActionRecord \cup {Missing}
  /\ store \in [Models -> [Names \cup Copies -> Records]]
  /\ task \in [Tasks -> Task]
  /\ \A t \in Tasks : task[t].pc \in {"find", "mark", "source", "clone", "step", "lookup", "write"}
       => task[t].model # NoModel

Init ==
  /\ revoked = {}
  /\ sock = [c \in Sockets |-> [pc |-> "closed", ses |-> NoTask.ses]]
  /\ manager = [s \in Sessions |-> {}]
  /\ action \in ActionVersions
  /\ store \in [Models -> [Names \cup Copies -> {"absent", "live"}]]
  /\ task = [t \in Tasks |-> NoTask]

Goto(t, pc, r) == task' = [task EXCEPT ![t] = [r EXCEPT !.pc = pc]]

\* The final message of a task; an exception becomes an error too.
Answer(t, r, out) == Goto(t, "answered", [r EXCEPT !.out = out])

\* Broken variant of Raise: the exception ends the task and nothing is sent.
RaiseSilently(t, r) == Goto(t, "idle", NoTask)

Raise(t, r) == Answer(t, r, "error")

\* Broken variant of ErrorPayload: only an exception is an error.
PayloadCompletes(t, r) == Answer(t, r, "completed")

\* _action_status: a payload whose status is error, or whose fail is set.
ErrorPayload(t, r) == Answer(t, r, "error")

(***************************************************************************)
(* The sockets.                                                            *)
(***************************************************************************)

\* accept; the origin of a cookie is checked, the token is read from the cookie or from
\* the first message, and runner.authenticate builds an environment and closes it.  A
\* socket that fails in between is closed and was never open.
Connect(c, s) ==
  /\ sock[c].pc = "closed" /\ s \notin revoked
  /\ sock' = [sock EXCEPT ![c] = [pc |-> "open", ses |-> s]]
  /\ manager' = [manager EXCEPT ![s] = @ \cup {c}]
  /\ UNCHANGED <<revoked, action, store, task>>

\* Broken variant of Untrack: the user's entry goes with the first socket that closes.
UntrackAll(c) == [manager EXCEPT ![sock[c].ses] = {}]

\* ConnectionManager.remove.
Untrack(c) == [manager EXCEPT ![sock[c].ses] = @ \ {c}]

\* The client goes away, or sends what is not a JSON object: the loop ends and every task
\* of the socket is cancelled at the await it is at.
Disconnect(c) ==
  /\ sock[c].pc = "open"
  /\ sock' = [sock EXCEPT ![c].pc = "closed"]
  /\ manager' = Untrack(c)
  /\ task' = [t \in Tasks |-> IF task[t].from = c THEN NoTask ELSE task[t]]
  /\ UNCHANGED <<revoked, action, store>>

(***************************************************************************)
(* The requests.                                                           *)
(***************************************************************************)

\* _action_required_operations: of the kind, and of the flag write_access.
Required(a) ==
  (CASE a.kind = "save" -> {"create", "update"} [] a.kind = "copy" -> {"create"}
     [] a.kind = "delete" -> {"delete"} [] a.kind = "window" -> {})
  \cup IF a.writes THEN {"create", "update"} ELSE {}

\* _get_model_group_access: nothing without a rule for the model.
Access(s, m) == IF m = NoModel THEN {} ELSE Rights[s][m]

\* _has_action_write_access: one of the required operations is enough.
HasWriteAccess(a, s) == Required(a) = {} \/ Required(a) \cap Access(s, a.model) # {}

\* _is_action_allowed: visible, and with write access.
IsActionAllowed(a, s) == s \in a.seenBy /\ HasWriteAccess(a, s)

\* The model whose record the form of an action shows.
Loaded(a) == IF a.component THEN Component ELSE a.model

\* The operation that a form which shows this is saved with.
SavedBy(shown) == IF shown = "absent" THEN "create" ELSE "update"

\* handle_get: the action may write, and the record may be updated or an empty form
\* created; the form of a record that is not there, and that of a component without a
\* name, which nobody asks for the right to create, keep the default of the response.
Editable(a, s, shown) ==
  /\ HasWriteAccess(a, s)
  /\ shown \in {"missing", "component"} \/ SavedBy(shown) \in Access(s, Loaded(a))

\* GET /action: the action is visible; a form opens read-only where a list would be
\* refused, and shows the record, or nothing.  The record rules can only take away.
OpenAction(t, from, s, n) ==
  LET m == Loaded(action) IN
  /\ task[t].pc = "idle"
  /\ from \in Sockets => sock[from] = [pc |-> "open", ses |-> s]
  /\ action # Missing /\ s \in action.seenBy /\ action.form /\ action.model # NoModel
  /\ \E shown \in {IF action.component THEN "component" ELSE "absent",
                   IF store[m][n] = "absent" THEN "missing" ELSE store[m][n]} :
       /\ shown \in {"live", "deleted", "missing"} => "read" \in Access(s, m)
       /\ \E editable \in {FALSE, Editable(action, s, shown)} :
            Goto(t, "form", [NoTask EXCEPT !.from = from, !.ses = s, !.name = n,
                               !.form = shown, !.model = m, !.editable = editable])
  /\ UNCHANGED <<hub, action, store>>

\* A client that has read the record elsewhere, or has no record.
Prepare(t, from, s, m, n) ==
  /\ task[t].pc = "idle"
  /\ from \in Sockets => sock[from] = [pc |-> "open", ses |-> s]
  /\ \E shown \in {"absent", store[m][n]} :
       Goto(t, "form", [NoTask EXCEPT !.from = from, !.ses = s, !.name = n, !.form = shown,
                                      !.model = m])
  /\ UNCHANGED <<hub, action, store>>

\* A message of the socket, which is answered "running" at once, or POST /action.
PostAction(t) ==
  /\ task[t].pc = "form"
  /\ Goto(t, "env", [task[t] EXCEPT !.editable = FALSE, !.model = NoModel])
  /\ UNCHANGED <<hub, action, store>>

\* DELETE /action/{name}/{rec_name}, whatever the action does.
DeleteAction(t) ==
  /\ task[t].pc = "form" /\ task[t].from = Http
  /\ Goto(t, "env", [NoTask EXCEPT !.route = "delete", !.ses = task[t].ses, !.name = task[t].name])
  /\ UNCHANGED <<hub, action, store>>

\* POST /step/{model}/{name}.
PostStep(t) ==
  /\ task[t].pc = "form" /\ task[t].from = Http
  /\ Goto(t, "env", [task[t] EXCEPT !.editable = FALSE, !.route = "step"])
  /\ UNCHANGED <<hub, action, store>>

\* Broken variant of Admitted: the environment is the one of the handshake.
AdmittedBefore(s) == TRUE

\* _reject_revoked_session.
Admitted(s) == s \notin revoked

\* build_authed_env_from_token, for each task anew.
BuildEnv(t) ==
  LET r == task[t] IN
  /\ r.pc = "env"
  /\ IF Admitted(r.ses)
     THEN Goto(t, CASE r.route = "post" -> "action" [] r.route = "delete" -> "again"
                    [] r.route = "step" -> "step", r)
     ELSE Raise(t, r)
  /\ UNCHANGED <<hub, action, store>>

(***************************************************************************)
(* The gates.                                                              *)
(***************************************************************************)

\* An action without a target model ends in an error payload.
HasTarget(a) == a.model # NoModel

\* Broken variant of AssertModelOperation: the gate of the action was enough.
TrustAction(r, m, op) == TRUE

AssertModelOperation(r, m, op) == op \in Access(r.ses, m)

(***************************************************************************)
(* handle_post.                                                            *)
(***************************************************************************)

\* Reads the action and asks the gate; next to the branch of its action_type.
ReadAction(t) ==
  LET r == task[t]
      a == action
      taken == [r EXCEPT !.model = a.model, !.kind = a.kind]
  IN
  /\ r.pc = "action"
  /\ IF a = Missing THEN ErrorPayload(t, r)
     ELSE IF ~IsActionAllowed(a, r.ses) THEN Raise(t, r)
     ELSE IF ~HasTarget(a) THEN ErrorPayload(t, r)
     ELSE IF a.kind \in {"delete", "copy"} THEN Goto(t, "again", [taken EXCEPT !.form = "absent"])
     ELSE Goto(t, "lookup", taken)
  /\ UNCHANGED <<hub, action, store>>

\* handle_delete reads the action and asks every gate again; a payload may name no record.
DeleteReads(t) ==
  LET r == task[t]
      a == action
  IN
  /\ r.pc = "again" /\ (r.route = "delete" \/ r.kind = "delete")
  /\ IF a = Missing THEN ErrorPayload(t, r)
     ELSE IF ~IsActionAllowed(a, r.ses) THEN Raise(t, r)
     ELSE \/ (~HasTarget(a) \/ r.route = "post") /\ ErrorPayload(t, r)
          \/ HasTarget(a) /\ ~AssertModelOperation(r, a.model, "delete") /\ Raise(t, r)
          \/ /\ HasTarget(a) /\ AssertModelOperation(r, a.model, "delete")
             /\ Goto(t, "find", [r EXCEPT !.model = a.model, !.kind = "delete", !.op = "delete"])
  /\ UNCHANGED <<hub, action, store>>

\* The record and its record rules.
DeleteFinds(t) ==
  LET r == task[t] IN
  /\ r.pc = "find"
  /\ IF store[r.model][r.name] = "absent" THEN ErrorPayload(t, r)
     ELSE Goto(t, "mark", r) \/ Raise(t, r)
  /\ UNCHANGED <<hub, action, store>>

\* set_to_delete saves the record it was given, marked.  The ORM stores it, whether it is
\* still there or not, or does not; what it answers is dropped.
DeleteMarks(t) ==
  LET r == task[t] IN
  /\ r.pc = "mark"
  /\ \/ /\ store' = [store EXCEPT ![r.model][r.name] = "deleted"]
        /\ Goto(t, "after", [r EXCEPT !.wrote = "stored"])
     \/ UNCHANGED store /\ Goto(t, "after", [r EXCEPT !.wrote = "refused"])
  /\ UNCHANGED <<hub, action>>

\* A copy reads the action again, for its model only; its payload may name no record; it
\* asks create and read.
CopyReads(t) ==
  LET r == task[t]
      a == action
      allowed == a.model # NoModel /\ AssertModelOperation(r, a.model, "create")
                   /\ AssertModelOperation(r, a.model, "read")
  IN
  /\ r.pc = "again" /\ r.route = "post" /\ r.kind = "copy"
  /\ IF a = Missing THEN Raise(t, r)
     ELSE \/ ErrorPayload(t, r)
          \/ ~allowed /\ Raise(t, r)
          \/ allowed /\ Goto(t, "source", [r EXCEPT !.model = a.model, !.op = "create"])
  /\ UNCHANGED <<hub, action, store>>

\* The source and its record rules, when it is there.
CopySource(t) ==
  LET r == task[t] IN
  /\ r.pc = "source"
  /\ Goto(t, "clone", r) \/ (store[r.model][r.name] # "absent" /\ Raise(t, r))
  /\ UNCHANGED <<hub, action, store>>

\* model.copy and the ORM's upsert of the clone.
CopyClones(t) ==
  LET r == task[t]
      source == store[r.model][r.name]
  IN
  /\ r.pc = "clone"
  /\ \/ ErrorPayload(t, r) /\ UNCHANGED store
     \/ /\ source # "absent"
        /\ store' = [store EXCEPT ![r.model][CopyName[r.name]] = source]
        /\ Goto(t, "after", [r EXCEPT !.wrote = "stored"])
  /\ UNCHANGED <<hub, action>>

(***************************************************************************)
(* A step, and Service.upsert.                                             *)
(***************************************************************************)

\* complete_step_task: the step is configured and load_record says that the user may read
\* and update the record; the form is then saved whole, with the checkbox cleared.
StepLoads(t) ==
  LET r == task[t] IN
  /\ r.pc = "step"
  /\ \/ /\ {"read", "update"} \subseteq Access(r.ses, r.model)
        /\ Goto(t, "lookup", r)
     \/ Raise(t, r)
  /\ UNCHANGED <<hub, action, store>>

\* _resolve_write_operation, and the gate of the operation it found.
UpsertLooks(t) ==
  LET r == task[t]
      op == IF store[r.model][r.name] = "absent" THEN "create" ELSE "update"
  IN
  /\ r.pc = "lookup"
  /\ \/ AssertModelOperation(r, r.model, op) /\ Goto(t, "write", [r EXCEPT !.op = op])
     \/ Raise(t, r)
  /\ UNCHANGED <<hub, action, store>>

\* An empty form, once filled, is a live record; any other keeps what it was loaded with.
Filled(form) == IF form \in {"absent", "missing", "component"} THEN "live" ELSE form

\* The ORM replaces the record with the form, or refuses it and says so in its status.
UpsertWrites(t) ==
  LET r == task[t] IN
  /\ r.pc = "write"
  /\ \/ /\ store' = [store EXCEPT ![r.model][r.name] = Filled(r.form)]
        /\ Goto(t, "after", [r EXCEPT !.wrote = "stored", !.form = "absent"])
     \/ UNCHANGED store /\ Goto(t, "after", [r EXCEPT !.wrote = "refused", !.form = "absent"])
  /\ UNCHANGED <<hub, action>>

\* What follows the write: the mail, the hook, the flags of the answer, the next action.
\* Any of them may raise.  A step hands on the fail of the upsert's response; the answer of
\* an action is the content alone, which has none.
Finish(t) ==
  LET r == task[t] IN
  /\ r.pc = "after"
  /\ \/ (r.route = "step" => r.wrote = "stored") /\ Answer(t, r, "completed")
     \/ Raise(t, r)
  /\ UNCHANGED <<hub, action, store>>

\* The client has read the final message.
Received(t) ==
  /\ task[t].pc = "answered"
  /\ Goto(t, "idle", NoTask)
  /\ UNCHANGED <<hub, action, store>>

(***************************************************************************)
(* The rest of the world.                                                  *)
(***************************************************************************)

Revoke(s) ==
  /\ s \notin revoked /\ revoked' = revoked \cup {s}
  /\ UNCHANGED <<sock, manager, action, store, task>>

\* An administrator edits the action.
EditAction ==
  /\ action' \in ActionVersions \ {action}
  /\ UNCHANGED <<hub, store, task>>

\* clean_expired_deleted_records: the records whose time has come, in each model.
Purge(m) ==
  /\ \E gone \in SUBSET {n \in Names \cup Copies : store[m][n] = "deleted"} :
       /\ gone # {}
       /\ store' = [store EXCEPT ![m] = [n \in Names \cup Copies |->
                                            IF n \in gone THEN "absent" ELSE @[n]]]
  /\ UNCHANGED <<hub, action, task>>

Handler(t) ==
  \/ BuildEnv(t) \/ ReadAction(t) \/ DeleteReads(t) \/ DeleteFinds(t) \/ DeleteMarks(t)
  \/ CopyReads(t) \/ CopySource(t) \/ CopyClones(t) \/ StepLoads(t) \/ UpsertLooks(t)
  \/ UpsertWrites(t) \/ Finish(t)

Next ==
  \/ \E t \in Tasks :
       \/ \E from \in Sockets \cup {Http}, s \in Sessions, n \in Names :
            OpenAction(t, from, s, n) \/ \E m \in Models : Prepare(t, from, s, m, n)
       \/ PostAction(t) \/ DeleteAction(t) \/ PostStep(t) \/ Received(t) \/ Handler(t)
  \/ \E c \in Sockets :
       Disconnect(c) \/ \E s \in Sessions : Connect(c, s)
  \/ (\E s \in Sessions : Revoke(s)) \/ EditAction \/ \E m \in Models : Purge(m)

\* The event loop runs the tasks; the clients and the administrators owe nothing.
Fairness == \A t \in Tasks : WF_vars(Handler(t))

Spec == Init /\ [][Next]_vars /\ Fairness

(***************************************************************************)
(* Properties.                                                             *)
(***************************************************************************)

Writing == {"mark", "clone", "write"}

\* handle_post, handle_delete: what a request writes, its session has the right to do on
\* the model it writes to, although the action may be edited between its two readings, its
\* write_access makes the first gate an "or", and DELETE takes any action.
WriteWasAllowed ==
  [][\A t \in Tasks :
       LET r == task[t]
           needed == CASE r.pc = "mark" -> {"delete"} [] r.pc = "clone" -> {"create", "read"}
                       [] r.pc = "write" -> {r.op}
       IN r.pc \in Writing /\ task'[t].pc = "after" => needed \subseteq Access(r.ses, r.model)]_vars

\* handle_get: who is shown a form as editable, of a new record or of one that is there,
\* gets through every visible action that saves its model and, while the record is there
\* or not as it was shown, through the gate of the upsert.
EditableIsHonest ==
  \A t \in Tasks : LET r == task[t] IN
    r.pc = "form" /\ r.editable /\ r.form \in Records =>
      /\ \A a \in ActionVersions \ {Missing} :
           a.kind = "save" /\ a.model = r.model /\ r.ses \in a.seenBy => IsActionAllowed(a, r.ses)
      /\ LET now == store[r.model][r.name] IN
         (r.form = "absent" <=> now = "absent") => AssertModelOperation(r, r.model, SavedBy(now))

\* _action_status: a request that is answered "completed" got as far as its write, and a
\* copy or a step was stored.  A save or a delete that the ORM refuses without raising is
\* answered "completed" all the same.
CompletedMeansDone ==
  \A t \in Tasks : LET r == task[t] IN
    r.out = "completed" =>
      /\ r.wrote # "nothing"
      /\ r.route = "step" \/ r.kind = "copy" => r.wrote = "stored"

\* ConnectionManager: the sockets of a user it tracks are those whose loop runs.
Tracked ==
  \A c \in Sockets, s \in Sessions : c \in manager[s] <=> sock[c] = [pc |-> "open", ses |-> s]

\* _execute_action: a request that was taken gets its final message, whatever happens in
\* its handler, unless its socket is closed first.
RequestAnswered ==
  \A t \in Tasks, c \in Sockets :
    task[t].pc = "env" /\ task[t].from = c ~> task[t].pc = "answered" \/ sock[c].pc # "open"

\* WsActionRunner.run builds the environment of each action anew: a socket that was open
\* when its session was revoked writes nothing more, once what was in progress has ended.
RevokedGoesQuiet ==
  \A s \in Sessions : [](s \in revoked =>
    <>[](\A t \in Tasks : task[t].ses = s => task[t].pc \notin Writing))

=============================================================================
