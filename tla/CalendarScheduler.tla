------------------------- MODULE CalendarScheduler -------------------------
(***************************************************************************)
(* The calendar scheduler: the worker of services/calendar_scheduler, the  *)
(* run endpoint of the app (Service.run_calendar_task) and the `calendar`  *)
(* records they share in Mongo.                                            *)
(*                                                                         *)
(* Every await is a step.  The ORM writes whole records (gateway.py:85-100,*)
(* test_gateway.py:33-35), so each actor keeps the copy it read and a      *)
(* write puts the whole copy back.  Time is not a number: `expired` holds  *)
(* the runs whose lease (now + lock_ttl_seconds) has passed.  The `next`,  *)
(* `last` and `message` fields are left out: no decision reads them.       *)
(***************************************************************************)
EXTENDS Integers, FiniteSets

CONSTANTS
  Tasks,          \* the rec_names of the calendar records of type task
  Runs,           \* identities of runs, recycled once nothing refers to them
  NoTask, NoRun, NoRec,
  Settings,       \* the settings a user may give a task
  FirstSettings,  \* the settings the tasks start with, one function per case
  Outcomes,       \* how an action may end: TRUE is a success
  Budget,         \* how often each kind of environment event may happen
  ShortLease      \* TRUE if SCHEDULER_LOCK_TTL may be shorter than a run

Events == {"crash", "edit", "delete", "manual", "fault"}

Statos == {"todo", "progress", "done", "errore", "erroreConfigurazione"}
Actions == {"add", "pause", "resume", "remove", "manuale"}
Triggers == {"cron", "date"}
TaskNames == {"none", "action", "clean_expired_deleted"}

AllSettings == [active : BOOLEAN, action : Actions, expr : Triggers \cup {"bad"},
                periodico : BOOLEAN, task : TaskNames]

\* A stored calendar record; `lock` is the run_id in data_value's lock.
Record == [active : BOOLEAN, action : Actions, expr : Triggers \cup {"bad"},
           periodico : BOOLEAN, task : TaskNames, deleted : BOOLEAN,
           stato : Statos, lock : Runs \cup {NoRun}]

MaybeRecord == Record \cup {NoRec}

Job == [trig : Triggers \cup {"none"}, paused : BOOLEAN]
NoJob == [trig |-> "none", paused |-> FALSE]

Plans == {"skip", "remove", "pause", "resume", "leave", "error"} \cup Triggers

ASSUME ValuesAssumption ==
  /\ NoTask \notin Tasks
  /\ NoRun \notin Runs
  /\ NoRec \notin Record
ASSUME SettingsAssumption ==
  /\ Settings \subseteq AllSettings
  /\ FirstSettings \subseteq [Tasks -> AllSettings]
  /\ Outcomes \subseteq BOOLEAN
ASSUME BudgetAssumption == Budget \in [Events -> Nat]

VARIABLES
  rec,       \* Mongo: the record of each task
  job,       \* the persistent APScheduler jobstore
  syncPc,    \* the poll loop of main._run, "down" when the worker is down
  plan,      \* what the listed snapshot asks for each task of the pass
  todo,      \* the tasks of the pass not applied yet
  syncTask,  \* the task being applied
  syncCopy,  \* the record the poll loop read and will write back
  runPc,     \* execute_task, one instance per run
  runTask,
  runCopy,
  execPc,    \* run_calendar_task in the app, one instance per run
  execTask,
  execCopy,  \* the record read before the action starts (`task_data`)
  execOut,   \* the stato to store
  manual,    \* the runs a user posted, that the scheduler knows nothing of
  expired,   \* the runs whose lease has passed
  left       \* how many environment events of each kind may still happen

recVars == <<rec, job>>
syncVars == <<syncPc, plan, todo, syncTask, syncCopy>>
runVars == <<runPc, runTask, runCopy>>
execVars == <<execPc, execTask, execCopy, execOut, manual>>
vars == <<recVars, syncVars, runVars, execVars, expired, left>>

TypeOK ==
  /\ rec \in [Tasks -> MaybeRecord]
  /\ job \in [Tasks -> Job]
  /\ syncPc \in {"down", "poll", "loop", "nextRead", "nextWrite", "errRead", "errWrite"}
  /\ plan \in [Tasks -> Plans]
  /\ todo \subseteq Tasks
  /\ syncTask \in Tasks \cup {NoTask}
  /\ syncCopy \in MaybeRecord
  /\ runPc \in [Runs -> {"idle", "lockRead", "lockWrite", "call", "http",
                         "nextRead", "nextWrite", "relRead", "relWrite"}]
  /\ runTask \in [Runs -> Tasks \cup {NoTask}]
  /\ runCopy \in [Runs -> MaybeRecord]
  /\ execPc \in [Runs -> {"none", "req", "acting", "write", "answered", "failed"}]
  /\ execTask \in [Runs -> Tasks \cup {NoTask}]
  /\ execCopy \in [Runs -> MaybeRecord]
  /\ execOut \in [Runs -> Statos]
  /\ manual \subseteq Runs
  /\ expired \subseteq Runs
  /\ left \in [Events -> Nat]

(***************************************************************************)
(* The store.                                                              *)
(***************************************************************************)

With(c, s) == [c EXCEPT !.active = s.active, !.action = s.action, !.expr = s.expr,
                        !.periodico = s.periodico, !.task = s.task]

NewRecord(s) ==
  [active |-> s.active, action |-> s.action, expr |-> s.expr,
   periodico |-> s.periodico, task |-> s.task, deleted |-> FALSE,
   stato |-> "todo", lock |-> NoRun]

\* The ORM's update: the whole record replaces the stored one; a record purged
\* in the meantime is not brought back (upsert, used by the endpoint, does).
Update(t, c) == rec' = IF rec[t] = NoRec THEN rec ELSE [rec EXCEPT ![t] = c]

LockOf(c) == IF c = NoRec THEN NoRun ELSE c.lock

\* Broken variant of HeldByOther: locked_until is not looked at.
HeldForEver(c, r) == c.lock \notin {NoRun, r}

\* _lock_active: a lock held by another run, whose lease has not passed.
HeldByOther(c, r) == c.lock \notin {NoRun, r} /\ c.lock \notin expired

\* The endpoint is still at work for run r.
Live(r) == execPc[r] \in {"req", "acting", "write"}

Spend(e) == left[e] > 0 /\ left' = [left EXCEPT ![e] = @ - 1]

\* A run_id nothing refers to any more, so that recycling it is not visible.
Fresh(r) ==
  /\ runPc[r] = "idle" /\ execPc[r] = "none"
  /\ r # LockOf(syncCopy)
  /\ \A t \in Tasks : r # LockOf(rec[t])
  /\ \A q \in Runs : r # LockOf(runCopy[q]) /\ r # LockOf(execCopy[q])

Init ==
  /\ \E f \in FirstSettings : rec = [t \in Tasks |-> NewRecord(f[t])]
  /\ job = [t \in Tasks |-> NoJob]
  /\ syncPc = "down" /\ plan = [t \in Tasks |-> "skip"] /\ todo = {}
  /\ syncTask = NoTask /\ syncCopy = NoRec
  /\ runPc = [r \in Runs |-> "idle"] /\ runTask = [r \in Runs |-> NoTask]
  /\ runCopy = [r \in Runs |-> NoRec]
  /\ execPc = [r \in Runs |-> "none"] /\ execTask = [r \in Runs |-> NoTask]
  /\ execCopy = [r \in Runs |-> NoRec] /\ execOut = [r \in Runs |-> "todo"]
  /\ manual = {} /\ expired = {} /\ left = Budget

(***************************************************************************)
(* The worker process: start, and a crash or a stop.  A stopped worker     *)
(* leaves the jobstore, the records and the endpoint's executions behind.  *)
(***************************************************************************)

Start ==
  /\ syncPc = "down"
  /\ syncPc' = "poll"
  /\ UNCHANGED <<recVars, plan, todo, syncTask, syncCopy, runVars, execVars, expired, left>>

Crash ==
  /\ syncPc # "down" /\ Spend("crash")
  /\ syncPc' = "down" /\ todo' = {} /\ plan' = [t \in Tasks |-> "skip"]
  /\ syncTask' = NoTask /\ syncCopy' = NoRec
  /\ runPc' = [r \in Runs |-> "idle"] /\ runTask' = [r \in Runs |-> NoTask]
  /\ runCopy' = [r \in Runs |-> NoRec]
  /\ execPc' = [r \in Runs |-> IF Live(r) THEN execPc[r] ELSE "none"]
  /\ execTask' = [r \in Runs |-> IF Live(r) THEN execTask[r] ELSE NoTask]
  /\ UNCHANGED <<recVars, execCopy, execOut, manual, expired>>

(***************************************************************************)
(* The poll loop.                                                          *)
(***************************************************************************)

\* Broken variant of PlanFor: a paused task is treated as an added one.
PlanWithoutPause(c) ==
  CASE c.deleted \/ c.action = "remove" \/ ~c.active -> "remove"
    [] ~c.deleted /\ c.action = "resume" -> "resume"
    [] ~c.deleted /\ c.action = "manuale" -> "leave"
    [] OTHER -> IF c.expr = "bad" THEN "error" ELSE c.expr

\* _apply_task and _register_job, up to the parse: what a listed record asks for.
PlanFor(c) ==
  CASE c.deleted \/ c.action = "remove" -> "remove"
    [] ~c.deleted /\ c.action = "pause" -> "pause"
    [] ~c.deleted /\ c.action = "resume" -> "resume"
    [] ~c.deleted /\ c.action = "manuale" -> "leave"
    [] ~c.deleted /\ c.action = "add" /\ ~c.active -> "remove"
    [] OTHER -> IF c.expr = "bad" THEN "error" ELSE c.expr

Listed(t) == rec[t] # NoRec /\ ~rec[t].deleted

\* list_tasks.  A snapshot never changes, so what it asks for is fixed here.
ListTasks ==
  /\ syncPc = "poll"
  /\ todo' = {t \in Tasks : Listed(t)}
  /\ plan' = [t \in Tasks |-> IF Listed(t) THEN PlanFor(rec[t]) ELSE "skip"]
  /\ syncPc' = "loop"
  /\ UNCHANGED <<recVars, syncTask, syncCopy, runVars, execVars, expired, left>>

PassDone ==
  /\ syncPc = "loop" /\ todo = {}
  /\ syncPc' = "poll"
  /\ plan' = [t \in Tasks |-> "skip"]
  /\ UNCHANGED <<recVars, todo, syncTask, syncCopy, runVars, execVars, expired, left>>

\* The branches of _apply_task that end in the jobstore.
NewJob(t) ==
  CASE plan[t] = "remove" -> NoJob
    [] plan[t] = "pause" /\ job[t].trig # "none" -> [job[t] EXCEPT !.paused = TRUE]
    [] plan[t] = "resume" /\ job[t].trig # "none" -> [job[t] EXCEPT !.paused = FALSE]
    [] OTHER -> job[t]

ApplyToJob(t) ==
  /\ syncPc = "loop" /\ t \in todo
  /\ plan[t] \in {"remove", "pause", "resume", "leave"}
  /\ job' = [job EXCEPT ![t] = NewJob(t)]
  /\ todo' = todo \ {t}
  /\ UNCHANGED <<rec, syncPc, plan, syncTask, syncCopy, runVars, execVars, expired, left>>

\* _register_job: add_job(replace_existing=True), then write_next.
Register(t) ==
  /\ syncPc = "loop" /\ t \in todo /\ plan[t] \in Triggers
  /\ job' = [job EXCEPT ![t] = [trig |-> plan[t], paused |-> FALSE]]
  /\ todo' = todo \ {t}
  /\ syncPc' = "nextRead" /\ syncTask' = t
  /\ UNCHANGED <<rec, plan, syncCopy, runVars, execVars, expired, left>>

\* CalendarParseError: _mark_config_error removes the job, then marks the record.
ConfigError(t) ==
  /\ syncPc = "loop" /\ t \in todo /\ plan[t] = "error"
  /\ job' = [job EXCEPT ![t] = NoJob]
  /\ todo' = todo \ {t}
  /\ syncPc' = "errRead" /\ syncTask' = t
  /\ UNCHANGED <<rec, plan, syncCopy, runVars, execVars, expired, left>>

BackToLoop == syncPc' = "loop" /\ syncTask' = NoTask /\ syncCopy' = NoRec

\* The `by_name` of write_next and of mark_config_error.
SyncRead ==
  /\ syncPc \in {"nextRead", "errRead"}
  /\ IF rec[syncTask] = NoRec
       THEN BackToLoop
       ELSE /\ syncPc' = IF syncPc = "nextRead" THEN "nextWrite" ELSE "errWrite"
            /\ syncCopy' = rec[syncTask]
            /\ UNCHANGED syncTask
  /\ UNCHANGED <<recVars, plan, todo, runVars, execVars, expired, left>>

SyncNextWrite ==
  /\ syncPc = "nextWrite"
  /\ Update(syncTask, syncCopy)
  /\ BackToLoop
  /\ UNCHANGED <<job, plan, todo, runVars, execVars, expired, left>>

\* Broken variant of SyncErrWrite: the record stays active.
SyncErrWriteStato ==
  /\ syncPc = "errWrite"
  /\ Update(syncTask, [syncCopy EXCEPT !.stato = "erroreConfigurazione"])
  /\ BackToLoop
  /\ UNCHANGED <<job, plan, todo, runVars, execVars, expired, left>>

SyncErrWrite ==
  /\ syncPc = "errWrite"
  /\ Update(syncTask, [syncCopy EXCEPT !.stato = "erroreConfigurazione", !.active = FALSE])
  /\ BackToLoop
  /\ UNCHANGED <<job, plan, todo, runVars, execVars, expired, left>>

\* Mongo or the jobstore fails: the exception is logged and the pass goes on, unless it
\* comes while the job of a task that cannot be parsed is removed, which ends the pass.
SyncFault ==
  /\ Spend("fault")
  /\ \/ /\ syncPc \in {"nextRead", "nextWrite", "errRead", "errWrite"}
        /\ BackToLoop
        /\ UNCHANGED todo
     \/ /\ syncPc = "loop"
        /\ \E t \in todo : todo' = IF plan[t] = "error" THEN {} ELSE todo \ {t}
        /\ UNCHANGED <<syncPc, syncTask, syncCopy>>
  /\ UNCHANGED <<recVars, plan, runVars, execVars, expired>>

SyncStep ==
  \/ ListTasks \/ PassDone \/ SyncRead \/ SyncNextWrite \/ SyncErrWrite
  \/ \E t \in Tasks : ApplyToJob(t) \/ Register(t) \/ ConfigError(t)

(***************************************************************************)
(* A run: execute_task.                                                    *)
(***************************************************************************)

Up == syncPc # "down"

\* Broken variant of NoInstance: max_instances not set.
AnyInstance(t) == TRUE

\* APScheduler's max_instances=1, counted per job id.
NoInstance(t) == \A r \in Runs : runPc[r] # "idle" => runTask[r] # t

\* A one-shot job leaves the jobstore when it is due, run or not.
AfterDue(t) == IF job[t].trig = "date" THEN NoJob ELSE job[t]

Due(t) == Up /\ job[t].trig # "none" /\ ~job[t].paused

Fire(t, r) ==
  /\ Due(t) /\ NoInstance(t) /\ Fresh(r)
  /\ job' = [job EXCEPT ![t] = AfterDue(t)]
  /\ runPc' = [runPc EXCEPT ![r] = "lockRead"]
  /\ runTask' = [runTask EXCEPT ![r] = t]
  /\ expired' = expired \ {r}
  /\ UNCHANGED <<rec, syncVars, runCopy, execVars, left>>

\* Due while an instance runs, or beyond misfire_grace_time: nothing is run.
Missed(t) ==
  /\ Due(t) /\ job[t].trig = "date"
  /\ job' = [job EXCEPT ![t] = AfterDue(t)]
  /\ UNCHANGED <<rec, syncVars, runVars, execVars, expired, left>>

EndRun(r) ==
  /\ runPc' = [runPc EXCEPT ![r] = "idle"]
  /\ runTask' = [runTask EXCEPT ![r] = NoTask]
  /\ runCopy' = [runCopy EXCEPT ![r] = NoRec]

GoTo(r, pc, c) ==
  /\ runPc' = [runPc EXCEPT ![r] = pc]
  /\ runCopy' = [runCopy EXCEPT ![r] = c]
  /\ UNCHANGED runTask

\* acquire_lock up to its write.
LockRead(r) ==
  /\ runPc[r] = "lockRead"
  /\ LET c == rec[runTask[r]] IN
       IF c = NoRec THEN EndRun(r)
       ELSE IF HeldByOther(c, r) THEN EndRun(r)
       ELSE GoTo(r, "lockWrite", c)
  /\ UNCHANGED <<recVars, syncVars, execVars, expired, left>>

LockWrite(r) ==
  /\ runPc[r] = "lockWrite"
  /\ Update(runTask[r], [runCopy[r] EXCEPT !.lock = r])
  /\ GoTo(r, "call", NoRec)
  /\ UNCHANGED <<job, syncVars, execVars, expired, left>>

\* The post of run_task reaches the app.
Call(r) ==
  /\ runPc[r] = "call"
  /\ GoTo(r, "http", NoRec)
  /\ execPc' = [execPc EXCEPT ![r] = "req"]
  /\ execTask' = [execTask EXCEPT ![r] = runTask[r]]
  /\ UNCHANGED <<recVars, syncVars, execCopy, execOut, manual, expired, left>>

Answered(r) == execPc[r] \in {"answered", "failed"}

\* The answer is taken, or nobody is left to take it.
Forget(r) ==
  /\ execPc' = [execPc EXCEPT ![r] = "none"]
  /\ execTask' = [execTask EXCEPT ![r] = NoTask]

\* raise_for_status separates the two answers; an error skips write_next.
Answer(r) ==
  /\ runPc[r] = "http" /\ Answered(r)
  /\ GoTo(r, IF execPc[r] = "answered" THEN "nextRead" ELSE "relRead", NoRec)
  /\ Forget(r)
  /\ UNCHANGED <<recVars, syncVars, execCopy, execOut, manual, expired, left>>

\* Broken variant of Timeout: a client with no timeout.
NoTimeout(r) == FALSE

\* The HTTP client gives up after 30 s; the app is not told.
Timeout(r) ==
  /\ runPc[r] = "http"
  /\ GoTo(r, "relRead", NoRec)
  /\ IF Answered(r) THEN Forget(r) ELSE UNCHANGED <<execPc, execTask>>
  /\ UNCHANGED <<recVars, syncVars, execCopy, execOut, manual, expired, left>>

RunNextRead(r) ==
  /\ runPc[r] = "nextRead"
  /\ LET c == rec[runTask[r]] IN
       IF c = NoRec THEN GoTo(r, "relRead", NoRec) ELSE GoTo(r, "nextWrite", c)
  /\ UNCHANGED <<recVars, syncVars, execVars, expired, left>>

RunNextWrite(r) ==
  /\ runPc[r] = "nextWrite"
  /\ Update(runTask[r], runCopy[r])
  /\ GoTo(r, "relRead", NoRec)
  /\ UNCHANGED <<job, syncVars, execVars, expired, left>>

\* release_lock up to its write: another run's live lock is left alone.
RelRead(r) ==
  /\ runPc[r] = "relRead"
  /\ LET c == rec[runTask[r]] IN
       IF c = NoRec THEN EndRun(r)
       ELSE IF c.lock = NoRun \/ HeldByOther(c, r) THEN EndRun(r)
       ELSE GoTo(r, "relWrite", c)
  /\ UNCHANGED <<recVars, syncVars, execVars, expired, left>>

RelWrite(r) ==
  /\ runPc[r] = "relWrite"
  /\ Update(runTask[r], [runCopy[r] EXCEPT !.lock = NoRun])
  /\ EndRun(r)
  /\ UNCHANGED <<job, syncVars, execVars, expired, left>>

\* An exception: acquire_lock is outside the try, so nothing is released and the
\* lock may have been stored; later, `finally` still tries to release.
RunFault(r) ==
  /\ Spend("fault")
  /\ \/ /\ runPc[r] \in {"lockRead", "lockWrite"}
        /\ EndRun(r)
        /\ \/ runPc[r] = "lockWrite" /\ Update(runTask[r], [runCopy[r] EXCEPT !.lock = r])
           \/ UNCHANGED rec
     \/ runPc[r] \in {"call", "nextRead", "nextWrite"} /\ GoTo(r, "relRead", NoRec)
        /\ UNCHANGED rec
     \/ runPc[r] \in {"relRead", "relWrite"} /\ EndRun(r) /\ UNCHANGED rec
  /\ UNCHANGED <<job, syncVars, execVars, expired>>

\* now has passed the locked_until the run computed.
LeaseExpires(r) ==
  /\ r \notin expired /\ \E t \in Tasks : LockOf(rec[t]) = r
  /\ runPc[r] = "idle" \/ ShortLease
  /\ expired' = expired \cup {r}
  /\ UNCHANGED <<recVars, syncVars, runVars, execVars, left>>

RunStep(r) ==
  \/ LockRead(r) \/ LockWrite(r) \/ Call(r) \/ Answer(r) \/ Timeout(r)
  \/ RunNextRead(r) \/ RunNextWrite(r) \/ RelRead(r) \/ RelWrite(r)

(***************************************************************************)
(* The endpoint: run_calendar_task.                                        *)
(***************************************************************************)

ExecGoTo(r, pc, c, out) ==
  /\ execPc' = [execPc EXCEPT ![r] = pc]
  /\ execCopy' = [execCopy EXCEPT ![r] = c]
  /\ execOut' = [execOut EXCEPT ![r] = out]
  /\ UNCHANGED <<execTask, manual>>

\* The response leaves; it is kept only while the run still waits for it.
Respond(r, pc) ==
  /\ execPc' = [execPc EXCEPT ![r] = IF runPc[r] = "http" THEN pc ELSE "none"]
  /\ execTask' = [execTask EXCEPT ![r] = IF runPc[r] = "http" THEN @ ELSE NoTask]
  /\ execCopy' = [execCopy EXCEPT ![r] = NoRec]
  /\ execOut' = [execOut EXCEPT ![r] = "todo"]
  /\ manual' = manual \ {r}

\* A one-shot task that is done answers "skipped", except to a manual run.
AlreadyDone(c, r) == r \notin manual /\ ~c.periodico /\ c.stato = "done"

\* From the request to the start of the action: one read, then the early returns.
ExecRead(r) ==
  /\ execPc[r] = "req"
  /\ LET c == rec[execTask[r]] IN
       \/ c = NoRec /\ Respond(r, "failed")
       \/ /\ c # NoRec /\ (c.deleted \/ AlreadyDone(c, r))
          /\ Respond(r, "answered")
       \/ /\ c # NoRec /\ ~c.deleted /\ ~AlreadyDone(c, r)
          /\ IF c.task = "none" THEN ExecGoTo(r, "write", c, "erroreConfigurazione")
                                ELSE ExecGoTo(r, "acting", c, "todo")
  /\ UNCHANGED <<recVars, syncVars, runVars, expired, left>>

\* Broken variant of Outcome: the status of the response is stored as the stato.
OutcomeAsStatus(c, ok) == IF ok THEN "ok" ELSE "error"

Outcome(c, ok) ==
  IF ~ok THEN "errore" ELSE IF c.periodico THEN "progress" ELSE "done"

\* clean_expired_deleted_records purges soft-deleted records, calendar ones
\* included; which of them have passed their date is left open.
Purge ==
  \E P \in SUBSET {t \in Tasks : rec[t] # NoRec /\ ~Listed(t)} :
    rec' = [t \in Tasks |-> IF t \in P THEN NoRec ELSE rec[t]]

\* The action ends, one way or the other.
ExecAct(r) ==
  /\ execPc[r] = "acting"
  /\ \E ok \in Outcomes : ExecGoTo(r, "write", execCopy[r], Outcome(execCopy[r], ok))
  /\ IF execCopy[r].task = "clean_expired_deleted" THEN Purge ELSE UNCHANGED rec
  /\ UNCHANGED <<job, syncVars, runVars, expired, left>>

\* _write_calendar_fields: the copy read before the action, plus the changes.
ExecWrite(r) ==
  /\ execPc[r] = "write"
  /\ rec' = [rec EXCEPT ![execTask[r]] =
       [execCopy[r] EXCEPT !.stato = execOut[r],
                           !.active = @ /\ execOut[r] # "done"]]
  /\ Respond(r, "answered")
  /\ UNCHANGED <<job, syncVars, runVars, expired, left>>

\* The app dies or the write fails (HTTP 500); the built-in task catches the
\* failed write and tries once more, with stato `errore`.
ExecFault(r) ==
  /\ Spend("fault")
  /\ \/ execPc[r] \in {"req", "acting", "write"} /\ Respond(r, "failed")
     \/ /\ execPc[r] = "write" /\ execOut[r] \in {"progress", "done"}
        /\ execCopy[r].task = "clean_expired_deleted"
        /\ ExecGoTo(r, "write", execCopy[r], "errore")
  /\ UNCHANGED <<recVars, syncVars, runVars, expired>>

(***************************************************************************)
(* The users: the form of a task, and the run button (no lock is taken).   *)
(***************************************************************************)

UserEdit(t, s) ==
  /\ Spend("edit") /\ rec[t] # NoRec
  /\ rec' = [rec EXCEPT ![t] = With(@, s)]
  /\ UNCHANGED <<job, syncVars, runVars, execVars, expired>>

UserDelete(t) ==
  /\ Spend("delete") /\ Listed(t)
  /\ rec' = [rec EXCEPT ![t] = [@ EXCEPT !.deleted = TRUE]]
  /\ UNCHANGED <<job, syncVars, runVars, execVars, expired>>

ManualRun(t, r) ==
  /\ Spend("manual") /\ Fresh(r)
  /\ execPc' = [execPc EXCEPT ![r] = "req"]
  /\ execTask' = [execTask EXCEPT ![r] = t]
  /\ manual' = manual \cup {r}
  /\ UNCHANGED <<recVars, syncVars, runVars, execCopy, execOut, expired>>

(***************************************************************************)

Next ==
  \/ Start \/ Crash \/ SyncStep \/ SyncFault
  \/ \E t \in Tasks, r \in Runs : Fire(t, r) \/ ManualRun(t, r)
  \/ \E t \in Tasks : Missed(t) \/ UserDelete(t) \/ \E s \in Settings : UserEdit(t, s)
  \/ \E r \in Runs : \/ RunStep(r) \/ RunFault(r) \/ LeaseExpires(r)
                     \/ ExecRead(r) \/ ExecAct(r) \/ ExecWrite(r) \/ ExecFault(r)

Spec == Init /\ [][Next]_vars

(***************************************************************************)
(* Fairness: the worker is restarted, its event loop runs what is ready    *)
(* (an HTTP call ends in an answer or in the client's timeout), a due cron *)
(* job fires, leases pass, the app serves requests.  Nothing makes an      *)
(* action end: ExecAct has no fairness.                                    *)
(***************************************************************************)

WorkerFairness ==
  /\ WF_vars(Start) /\ WF_vars(SyncStep)
  /\ \A r \in Runs : WF_vars(RunStep(r))

WorldFairness ==
  /\ \A t \in Tasks : WF_vars(\E r \in Runs : Fire(t, r))
  /\ \A r \in Runs : WF_vars(LeaseExpires(r)) /\ WF_vars(ExecRead(r))
                     /\ WF_vars(ExecWrite(r))

FairSpec == Spec /\ WorkerFairness /\ WorldFairness

(***************************************************************************)
(* Properties.                                                             *)
(***************************************************************************)

Attended(r) == Live(r) /\ runPc[r] = "http"
Acting(r, t) == execPc[r] = "acting" /\ execTask[r] = t

\* max_instances=1 (scheduler.py:54): two instances of execute_task never work on
\* the same task, whatever the poll loop does to the job in the meantime.
OneRunPerTask ==
  \A q, r \in Runs : runPc[q] # "idle" /\ runPc[r] # "idle" /\ runTask[q] = runTask[r] => q = r

\* Two executions of a task overlap only if one was posted by a user, or the run
\* that asked for it is no longer waiting: it timed out, failed or crashed.
OverlapNeedsAbandonment ==
  \A q, r \in Runs :
    Attended(q) /\ Attended(r) /\ execTask[q] = execTask[r] => q = r

\* scheduler.py:203 and gateway.py:172: write_next after a run comes after the
\* endpoint stored its outcome, so the run's own write cannot undo it.
OutcomeStoredBeforeNext ==
  \A r \in Runs : runPc[r] \in {"nextRead", "nextWrite"} => ~Live(r)

\* A started run always ends: neither a hung action nor a held lock keeps it.
RunEnds == \A r \in Runs : runPc[r] # "idle" ~> runPc[r] = "idle"

Wanted(t) ==
  rec[t] # NoRec /\ PlanFor(rec[t]) = "cron" /\ rec[t].periodico /\ rec[t].task = "action"

\* A periodic task that stays wanted is executed for ever, across crashes, faults,
\* timeouts and the locks they leave behind.
TaskKeepsRunning ==
  \A t \in Tasks : <>[]Wanted(t) => []<>(\E r \in Runs : Acting(r, t))

\* A schedule that does not parse ends up deactivated and with no job.
BadScheduleDeactivated ==
  \A t \in Tasks :
    <>[](Listed(t) /\ rec[t].action = "add" /\ rec[t].expr = "bad")
      => <>[](Listed(t) /\ ~rec[t].active /\ job[t].trig = "none")

\* A task that stays paused ends up with no job that can fire, whatever passes and
\* runs were under way.
PauseObeyed ==
  \A t \in Tasks :
    <>[](Listed(t) /\ rec[t].action = "pause") => <>[](job[t].paused \/ job[t].trig = "none")
=============================================================================
