--------------------------- MODULE CamundaProcess ---------------------------
(***************************************************************************)
(* The Camunda gateway of Service: a start saves the form, starts an       *)
(* instance, saves its key in the record and waits; a completion saves the *)
(* form, completes the task the instance is at and waits; a batch          *)
(* completes the task of every record it is given.  The wait polls the     *)
(* engine until the next user task, the end of the process or a deadline,  *)
(* and the answer is built from the variables it captured.                 *)
(*                                                                         *)
(* The engine and the external workers are not in src/.  They are modelled *)
(* from the calls made to them: a process is a sequence of user tasks and  *)
(* jobs, what the REST API shows lags behind the engine, and a worker      *)
(* stores its result in the record and leaves a struct, named by           *)
(* last_task, in the variables.                                            *)
(***************************************************************************)
EXTENDS Naturals, Sequences

CONSTANTS
  Requests,        \* a request is reused after its answer
  Names, NoName,   \* the rec_names of the model; no instance yet
  Flow,            \* the elements of a process, "user" or "job"
  MaxInstances,    \* bound: the instances that are ever started
  MaxPolls,        \* the rounds of wait_until_settled before its deadline
  Batch,           \* the rec_names of a batch
  Structs          \* what the structs of the workers say to the client

ASSUME FlowAssumption == Flow \in Seq({"user", "job"})
ASSUME BoundsAssumption == MaxInstances \in Nat /\ MaxPolls \in Nat
ASSUME StructsAssumption == Structs \subseteq {"error", "redirect"}
ASSUME NamesAssumption == NoName \notin Names /\ Batch \in Seq(Names)

Instances == 1 .. MaxInstances
NoProcess == 0
Processes == 0 .. MaxInstances
Ended == Len(Flow) + 1        \* the position of an instance that has ended
Jobs == {k \in DOMAIN Flow : Flow[k] = "job"}
NoJob == 0

\* What the struct of last_task says to the client.
Says == {"nothing"} \cup Structs
Vars == [last : Jobs \cup {NoJob}, say : Says]
NoVars == [last |-> NoJob, say |-> "nothing"]

\* A record: its process_id and the last job whose result it holds.
Record == [proc : Processes, done : Jobs \cup {NoJob}]
NewRecord == [proc |-> NoProcess, done |-> NoJob]

Snapshot == [at : 0 .. Ended, vars : Vars]
NotStarted == [at |-> 0, vars |-> NoVars]

VARIABLES
  settings,  \* camunda_enabled, camunda_complete_wait_seconds > 0
  rec,       \* Mongo: the records
  subject,   \* the record that each instance is about, if its form was saved
  inst,      \* the engine: where each instance is, and its variables
  view,      \* what the REST API shows of it
  req        \* the locals of each request

vars == <<settings, rec, subject, inst, view, req>>
engine == <<subject, inst, view>>
world == <<settings, rec, subject, inst, view>>

NoRequest ==
  [pc |-> "idle", kind |-> "start", name |-> NoName, form |-> NewRecord,
   update |-> FALSE, proc |-> NoProcess, key |-> 0, polls |-> 0,
   state |-> "unknown", vars |-> NoVars, task |-> 0, todo |-> <<>>,
   results |-> <<>>, out |-> "none"]

Result == [proc : Processes, key : 0 .. Ended, ok : BOOLEAN]
Request ==
  [pc : {"idle", "form", "load", "save", "start", "keep", "find", "complete", "state",
         "vars", "tasks", "history", "answer", "next", "answered"},
   kind : {"start", "complete", "batch"}, name : Names \cup {NoName}, form : Record,
   update : BOOLEAN, proc : Processes, key : 0 .. Ended, polls : 0 .. MaxPolls,
   state : {"unknown", "active", "ended"}, vars : Vars, task : 0 .. Ended,
   todo : Seq(Names), results : Seq(Result),
   out : {"none", "error", "taskError", "redirect", "form", "list"}]

TypeOK ==
  /\ settings \in [enabled : BOOLEAN, waits : BOOLEAN]
  /\ rec \in [Names -> Record]
  /\ subject \in [Instances -> Names \cup {NoName}]
  /\ inst \in [Instances -> Snapshot] /\ view \in [Instances -> Snapshot]
  /\ req \in [Requests -> Request]
  /\ \A i \in Instances : inst[i].at = 0 => subject[i] = NoName

Init ==
  /\ settings \in [enabled : BOOLEAN, waits : BOOLEAN]
  /\ rec = [n \in Names |-> NewRecord]
  /\ subject = [i \in Instances |-> NoName]
  /\ inst = [i \in Instances |-> NotStarted]
  /\ view = [i \in Instances |-> NotStarted]
  /\ req = [u \in Requests |-> NoRequest]

\* Request u goes on at pc with the locals in r.
Goto(u, pc, r) == req' = [req EXCEPT ![u] = [r EXCEPT !.pc = pc]]

\* An exception, or a response, ends a request; in a batch it makes one result and
\* the batch goes on with the next record.
AddResult(r, ok) ==
  [r EXCEPT !.results = Append(@, [proc |-> r.proc, key |-> r.key, ok |-> ok])]

\* Broken variant of Fail: the batch counts every record as done.
FailCounted(u, r) ==
  IF r.kind = "batch" THEN Goto(u, "next", AddResult(r, TRUE))
  ELSE Goto(u, "answered", [NoRequest EXCEPT !.out = "error"])

Fail(u, r) ==
  IF r.kind = "batch" THEN Goto(u, "next", AddResult(r, FALSE))
  ELSE Goto(u, "answered", [NoRequest EXCEPT !.out = "error"])
Respond(u, r, out) ==
  IF r.kind = "batch" THEN Goto(u, "next", AddResult(r, TRUE))
  ELSE Goto(u, "answered", [NoRequest EXCEPT !.out = out])

\* Broken variant of Following: the form is saved when the task is completed.
SaveLast(kind, pc) ==
  CASE pc = "form" -> IF kind = "start" THEN "load" ELSE "find"
    [] pc = "save" -> IF kind = "start" THEN "start" ELSE "state"
    [] pc = "complete" -> "save"

\* The order of the awaits: a completion saves the user's form before it completes the
\* task, so that what a worker stores afterwards stays.
Following(kind, pc) ==
  CASE pc = "form" -> IF kind = "start" THEN "load" ELSE "save"
    [] pc = "save" -> IF kind = "start" THEN "start" ELSE "find"
    [] pc = "complete" -> "state"

(***************************************************************************)
(* The client.                                                             *)
(***************************************************************************)

\* A page shows the record as it is, or an empty form.
LoadForm(u, n) ==
  /\ req[u].pc = "idle"
  /\ Goto(u, "form", [NoRequest EXCEPT !.name = n, !.form = rec[n]])
  /\ UNCHANGED world

\* POST /start, with or without update-data.
PostStart(u) ==
  /\ req[u].pc = "form"
  /\ \E b \in BOOLEAN : Goto(u, Following("start", "form"), [req[u] EXCEPT !.update = b])
  /\ UNCHANGED world

\* POST /complete, /approved, /refused: _resolve_process_id takes the key from the form.
PostComplete(u) ==
  /\ req[u].pc = "form"
  /\ Goto(u, Following("complete", "form"),
          [req[u] EXCEPT !.kind = "complete", !.proc = req[u].form.proc])
  /\ UNCHANGED world

\* POST /complete_many, /approve_many, /refuse_many.
PostBatch(u) ==
  /\ req[u].pc = "idle"
  /\ Goto(u, "next", [NoRequest EXCEPT !.kind = "batch", !.todo = Batch])
  /\ UNCHANGED world

\* The client reads the answer.
Receive(u) ==
  /\ req[u].pc = "answered"
  /\ Goto(u, "idle", NoRequest)
  /\ UNCHANGED world

(***************************************************************************)
(* Start.                                                                  *)
(***************************************************************************)

\* load_process and the gate of the model: unknown process, inactive service, another
\* model than the configured one, no right to create or update.
StartGate(u) ==
  /\ req[u].pc = "load"
  /\ \/ Goto(u, IF req[u].update THEN "save" ELSE "start", req[u])
     \/ Fail(u, req[u])
  /\ UNCHANGED world

\* The records after Service.upsert of a form, which replaces the record or stores nothing.
Upserted(n, form, stored) == IF stored /\ n \in Names THEN [rec EXCEPT ![n] = form] ELSE rec

\* The save of the form the client sent.  What follows the write may raise, and no one
\* looks whether it was stored: a start goes on with what was saved, maybe nothing.
SaveForm(u) ==
  LET r == req[u] IN
  /\ r.pc = "save"
  /\ \E stored \in BOOLEAN :
       /\ rec' = Upserted(r.name, r.form, stored)
       /\ \/ Goto(u, Following(r.kind, "save"),
                IF r.kind = "complete" THEN [r EXCEPT !.form = NewRecord]
                ELSE IF stored THEN r ELSE [r EXCEPT !.name = NoName])
          \/ Fail(u, r)
  /\ UNCHANGED <<settings, engine>>

\* The process_id that start_process_raw returned, saved with the form.
AfterStart(r) ==
  IF r.update /\ r.proc # NoProcess THEN "keep"
  ELSE IF r.proc # NoProcess /\ settings.waits THEN "state" ELSE "answer"

\* create_process_instance: the engine starts instance i for request u.
Launches(u, i) ==
  /\ req[u].pc = "start" /\ settings.enabled
  /\ inst[i].at = 0 /\ \A j \in Instances : j < i => inst[j].at # 0
  /\ subject' = [subject EXCEPT ![i] = req[u].name]
  /\ inst' = [inst EXCEPT ![i].at = 1]

\* start_camunda_process loads the process again and calls create_process_instance.
StartInstance(u, i) ==
  /\ Launches(u, i)
  /\ LET r == [req[u] EXCEPT !.proc = i,
                          !.form = IF req[u].update THEN @ ELSE NewRecord]
     IN Goto(u, AfterStart(r), r)
  /\ UNCHANGED <<settings, rec, view>>

\* camunda_enabled is off: no instance, an empty key.
StartDisabled(u) ==
  /\ req[u].pc = "start" /\ ~settings.enabled
  /\ Goto(u, AfterStart(req[u]), [req[u] EXCEPT !.proc = NoProcess])
  /\ UNCHANGED world

\* The service was switched off meanwhile, the definition is not deployed, or the
\* engine does not answer.
StartFails(u) ==
  /\ req[u].pc = "start" /\ Fail(u, req[u])
  /\ UNCHANGED world

\* The second save: the form saved before, with the process_id.
KeepProcess(u) ==
  LET r == req[u] IN
  /\ r.pc = "keep"
  /\ \E stored \in BOOLEAN : rec' = Upserted(r.name, [r.form EXCEPT !.proc = r.proc], stored)
  /\ \/ Goto(u, IF settings.waits THEN "state" ELSE "answer", [r EXCEPT !.form = NewRecord])
     \/ Fail(u, r)
  /\ UNCHANGED <<settings, engine>>

(***************************************************************************)
(* Complete.                                                               *)
(***************************************************************************)

\* The user task that the REST API shows, 0 when it shows none.
ShownTask(i) ==
  IF i # NoProcess /\ view[i].at \in DOMAIN Flow /\ Flow[view[i].at] = "user"
  THEN view[i].at ELSE 0

\* complete_task: nothing to do when Camunda is off or the process_id is empty; else
\* the first task that the search finds, LookupError when there is none.
FindTask(u) ==
  LET r == req[u] IN
  /\ r.pc = "find"
  /\ IF ~settings.enabled \/ r.proc = NoProcess
     THEN Goto(u, "answer", r)
     ELSE \/ ShownTask(r.proc) = 0 /\ Fail(u, r)
          \/ ShownTask(r.proc) # 0 /\ Goto(u, "complete", [r EXCEPT !.task = ShownTask(r.proc)])
  /\ UNCHANGED world

\* The engine completes the task of request u.
Completes(u) ==
  /\ req[u].pc = "complete" /\ inst[req[u].proc].at = req[u].task
  /\ inst' = [inst EXCEPT ![req[u].proc].at = @ + 1]

\* complete_user_task: the engine takes a task that the instance is at and refuses any
\* other.
CompleteTask(u) ==
  LET r == req[u] IN
  /\ r.pc = "complete"
  /\ IF inst[r.proc].at = r.task
     THEN /\ inst' = [inst EXCEPT ![r.proc].at = @ + 1]
          /\ Goto(u, IF settings.waits THEN Following(r.kind, "complete") ELSE "answer",
                  [r EXCEPT !.key = r.task, !.task = 0])
     ELSE Fail(u, [r EXCEPT !.task = 0]) /\ UNCHANGED inst
  /\ UNCHANGED <<settings, rec, subject, view>>

\* The engine does not answer the search or the completion; the task may be completed
\* all the same.
CompleteBreaks(u) ==
  LET r == req[u] IN
  /\ r.pc \in {"find", "complete"} /\ settings.enabled /\ r.proc # NoProcess
  /\ Fail(u, [r EXCEPT !.task = 0])
  /\ UNCHANGED inst \/ Completes(u)
  /\ UNCHANGED <<settings, rec, subject, view>>

(***************************************************************************)
(* wait_until_settled: each round reads the state of the instance, then    *)
(* its variables, then its open user tasks.                                *)
(***************************************************************************)

\* process_state; an instance that cannot be read yet is unknown.
ReadState(u) ==
  LET r == req[u] IN
  /\ r.pc = "state"
  /\ \E s \in {"unknown", IF view[r.proc].at = 0 THEN "unknown"
                          ELSE IF view[r.proc].at = Ended THEN "ended" ELSE "active"} :
       Goto(u, "vars", [r EXCEPT !.state = s])
  /\ UNCHANGED world

\* What a reading of the variables of i may give: what the API shows of them, or
\* nothing when the call fails; nothing leaves the variables captured before.
Captured(i, before) == {before} \cup (IF view[i].at = 0 THEN {} ELSE {view[i].vars})

\* Where a wait that is over goes on: a start looks for last_task in the history.
Settled(r, v) == IF r.kind = "start" /\ v.last = NoJob THEN "history" ELSE "answer"

\* get_process_variables, and the end of the wait when the process has ended.
ReadVars(u) ==
  LET r == req[u] IN
  /\ r.pc = "vars"
  /\ \E v \in Captured(r.proc, r.vars) :
       Goto(u, IF r.state = "ended" THEN Settled(r, v) ELSE "tasks",
            [r EXCEPT !.vars = v, !.state = "unknown"])
  /\ UNCHANGED world

\* Broken variant of FreshTask: the task just completed is not left out.
AnyTask(r) == ShownTask(r.proc)

\* The open user task, if it is not the one that this request completed.
FreshTask(r) == IF ShownTask(r.proc) = r.key THEN 0 ELSE ShownTask(r.proc)

\* Broken variant of OutOfTime: the deadline is not looked at.
NeverOutOfTime(r) == {FALSE}

\* Whether the deadline has passed: in any round it may have, after MaxPolls it has.
OutOfTime(r) == IF r.polls = MaxPolls THEN {TRUE} ELSE BOOLEAN

\* The search of the user tasks: a fresh one or the deadline ends the wait.
ReadTasks(u) ==
  LET r == req[u] IN
  /\ r.pc = "tasks"
  /\ \E late \in OutOfTime(r) :
       IF FreshTask(r) # 0 THEN Goto(u, Settled(r, r.vars), [r EXCEPT !.task = FreshTask(r)])
       ELSE IF late THEN Goto(u, Settled(r, r.vars), r)
       ELSE Goto(u, "state", [r EXCEPT !.polls = IF @ < MaxPolls THEN @ + 1 ELSE @])
  /\ UNCHANGED world

\* The search raises: the caller logs it and, a start, shows the form, a completion goes
\* on with no variables.
TasksFail(u) ==
  /\ req[u].pc = "tasks"
  /\ IF req[u].kind = "start" THEN Respond(u, req[u], "form")
     ELSE Goto(u, "answer", [req[u] EXCEPT !.vars = NoVars])
  /\ UNCHANGED world

\* get_process_history_variables.
ReadHistory(u) ==
  /\ req[u].pc = "history"
  /\ \E v \in Captured(req[u].proc, req[u].vars) :
       Goto(u, "answer", [req[u] EXCEPT !.vars = v])
  /\ UNCHANGED world

\* _camunda_error_response, then _resolve_start_redirect or _camunda_client_response:
\* the struct of the last task decides, else a started form is opened again or
\* reloaded, and a completed one is loaded and shown.
Outcome(r) ==
  IF r.vars.say = "error" THEN "taskError"
  ELSE IF r.vars.say = "redirect" THEN "redirect"
  ELSE IF r.kind = "start" /\ r.proc # NoProcess /\ settings.waits THEN "redirect"
  ELSE "form"

\* The response; a completion with no struct loads the record, which may be refused.
Answer(u) ==
  LET r == req[u] IN
  /\ r.pc = "answer"
  /\ \/ Respond(u, r, Outcome(r))
     \/ r.kind = "complete" /\ Outcome(r) = "form" /\ Fail(u, r)
  /\ UNCHANGED world

(***************************************************************************)
(* complete_many: each record is read for its process_id and completed.    *)
(***************************************************************************)

BatchNext(u) ==
  LET r == req[u]
      next == [r EXCEPT !.todo = Tail(@), !.name = Head(r.todo),
                        !.proc = rec[Head(r.todo)].proc, !.key = 0, !.polls = 0,
                        !.task = 0, !.vars = NoVars, !.state = "unknown"]
  IN
  /\ r.pc = "next" /\ r.todo # <<>>
  /\ \/ next.proc # NoProcess /\ Goto(u, "find", next)
     \/ Fail(u, next)
  /\ UNCHANGED world

BatchDone(u) ==
  /\ req[u].pc = "next" /\ req[u].todo = <<>>
  /\ Goto(u, "answered", [req[u] EXCEPT !.out = "list"])
  /\ UNCHANGED world

(***************************************************************************)
(* The engine and the workers.                                             *)
(***************************************************************************)

\* A worker runs the job its instance is at: it stores its result in the record and
\* completes the job with its struct.
WorkerRuns(i) ==
  /\ inst[i].at \in Jobs
  /\ rec' = [n \in Names |-> IF n = subject[i] THEN [rec[n] EXCEPT !.done = inst[i].at]
                             ELSE rec[n]]
  /\ \E s \in Structs :
       inst' = [inst EXCEPT ![i] = [at |-> @.at + 1, vars |-> [last |-> @.at, say |-> s]]]
  /\ UNCHANGED <<settings, subject, view, req>>

\* The secondary storage catches up.
Export(i) ==
  /\ view[i] # inst[i]
  /\ view' = [view EXCEPT ![i] = inst[i]]
  /\ UNCHANGED <<settings, rec, subject, inst, req>>

\* The app stops, or the client goes away: the locals of a request are lost; the call to
\* the engine that its thread was making may be made all the same.
Dies(u) ==
  /\ req[u].pc \notin {"idle", "form", "answered"}
  /\ Goto(u, "idle", NoRequest)
  /\ \/ UNCHANGED <<inst, subject>>
     \/ Completes(u) /\ UNCHANGED subject
     \/ \E i \in Instances : Launches(u, i)
  /\ UNCHANGED <<settings, rec, view>>

Handler(u) ==
  \/ StartGate(u) \/ SaveForm(u) \/ StartDisabled(u) \/ StartFails(u) \/ KeepProcess(u)
  \/ FindTask(u) \/ CompleteTask(u) \/ CompleteBreaks(u)
  \/ ReadState(u) \/ ReadVars(u) \/ ReadTasks(u) \/ TasksFail(u) \/ ReadHistory(u)
  \/ Answer(u) \/ BatchNext(u) \/ BatchDone(u)
  \/ \E i \in Instances : StartInstance(u, i)

Next ==
  \/ \E u \in Requests :
       \/ (\E n \in Names : LoadForm(u, n)) \/ PostStart(u) \/ PostComplete(u)
       \/ PostBatch(u) \/ Receive(u) \/ Dies(u) \/ Handler(u)
  \/ \E i \in Instances : WorkerRuns(i) \/ Export(i)

\* A request that is being handled goes on; the engine, the workers and the clients
\* owe nothing.
Fairness == \A u \in Requests : WF_vars(Handler(u))

Spec == Init /\ [][Next]_vars /\ Fairness

(***************************************************************************)
(* Properties.                                                             *)
(***************************************************************************)

\* wait_until_settled: a completion that answers because a user task is waiting names
\* a task that comes after the one it completed, although what the search shows lags
\* behind the engine and may still show that one.
SettledMeansAdvanced ==
  \A u \in Requests : LET r == req[u] IN
    r.pc = "answer" /\ r.key # 0 /\ r.task # 0 => r.task > r.key

\* complete_camunda_gateway_task saves the user's form before it completes the task:
\* the result of a job is only ever overwritten by a start, or by a completion that has
\* not completed its task yet, never by the completion that set the job going.
WorkerResultKept ==
  [][\A u \in Requests, n \in Names :
       req'[u] # req[u] /\ rec'[n].done < rec[n].done => req[u].key = 0]_vars

\* A batch reports ok for a record only if it completed a task of its process, and no
\* two answers claim the same task.
OkMeansCompleted ==
  \A u \in Requests : \A k \in DOMAIN req[u].results :
    LET a == req[u].results[k] IN
    settings.enabled /\ a.ok =>
      /\ a.key # 0 /\ inst[a.proc].at > a.key
      /\ \A v \in Requests \ {u} : \A j \in DOMAIN req[v].results :
           ~(req[v].results[j].ok /\ req[v].results[j].key = a.key
             /\ req[v].results[j].proc = a.proc)

\* Every request is answered although a worker may never run its job: the deadline
\* ends the wait, and a failing record does not stop a batch.
EveryRequestAnswered ==
  \A u \in Requests : req[u].pc = "load" \/ req[u].pc = "save" \/ req[u].pc = "next"
    ~> req[u].pc \in {"answered", "idle"}

=============================================================================
