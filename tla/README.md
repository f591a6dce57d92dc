# A verification project for ozon-env-app

TLA+ models of the parts of ozon-env-app whose correctness depends on the order in
which processes, requests and messages meet, TLC configurations that check them on
small instances, and TLAPS proofs of the main safety properties for every size of the
system. Source paths below are relative to the repository (`src/` in `PROJECT.json`).

## 1. The system

A FastAPI application (`app/`) serves forms and records defined by *components* stored in
Mongo through the ORM `ozonenv` (an external package). The ORM has no transactions and no
partial update: a record is read, changed in memory and written back whole. Around the app
run independent workers (`services/`), each a process that reads and writes the same
collections or calls the app's endpoints over HTTP. Users log in through Keycloak (OIDC);
workflows run in Camunda.

Inventory (the status column is the one in `PROJECT.json`):

| Part | State it keeps | Operations | Status |
|---|---|---|---|
| Calendar scheduler (`services/calendar_scheduler`) and `Service.run_calendar_task` | `calendar` records with a lease lock in `data_value`, APScheduler's persistent jobstore, runs in progress | poll and apply, fire, acquire/release the lock, run, write `next`, mark configuration errors | partly |
| Mail queue (`app/services/message_queue.py`, `services/mail_sender`) | `message_queue` records, one SMTP thread per send | enqueue, poll, render, send, mark sent / in error | partly |
| Session revocation (`session_revocation.py`, `auth_routes.backchannel_logout`, `app_env`) | `revoked_session` rows | revoke, purge, check a token | modelled |
| Record writes and access rules (`Service.upsert`, `load_record`, `ozon_env_acl`) | every record, its owner; the rules that apply to a user | load, save, import, gates, field masks, put-back | partly |
| SSO sessions and BFF cookies (`cookie_auth`, `auth_routes`, `app_env`) | the browser's cookies (token bundle, CSRF, login state) | login, callback, rotation on a request with an expired token, refresh endpoint, logout | partly |
| Camunda (`service.py:392-957`, `camunda_gateway`) | process ids in records; instances, tasks and variables in the engine | start, complete, batch, wait for the next user task | partly |
| Actions, WebSocket hub, steps (`action_runtime.py`, `websocket_router.py`, `step_task.py`) | sockets by user, one task per message; records | open, save, copy, delete, cancel on disconnect, complete a step | modelled |
| Rules from a component (`ozon_env_acl/model_rules_sync.py`) | `model_groups_rule`, `model_fields_rule` | replace the rules of a model after a save and at every start | modelled |
| Plugin installer (`plugin_installer.py`) | components, data, marks, menu groups, actions | the steps of an installation, at every start | modelled |
| api_gateway service (`services/api_gateway`, `remote_service.py`) | a TTL cache, a lock per key, one machine-to-machine token | GET through the cache, POST around it | modelled |
| Webhooks (`core/webhooks.py`) | none: HTTP calls with an open or closed fail mode | before/after hooks of writes and sessions | not modelled (outcome only) |
| Service registry, attachments, identity_manager | status of containers; files; users of a group | up/down; upload, scan, move; periodic sync | not modelled |
| Select sources, filters, menus, dashboards, mcp_search, keycloak-manager, startup, seed data | none of their own, or built once | read-only projections; commands run once | not modelled |

How they interact: the scheduler calls `run_calendar_task` over HTTP and shares the
`calendar` records with it and with users' forms; the app and the mail workers share only
`message_queue` records; Keycloak pushes logout tokens to the app, which every HTTP request
and WebSocket action consults; every write of a record by a user goes through
`Service.upsert`, which after a component rewrites the rules that its own gates read; the
start of the app installs the plugins between two passes over those rules; Camunda's workers
write the records whose forms the app saves around its calls to the engine; remote selects go
through the api_gateway.

What is hard in it: whole-record writes between awaits (lost updates), a client timeout that
does not stop the server (overlapping runs, abandoned SMTP threads, answers for nobody), a
worker or a start that dies between two writes, messages delivered late or more than once, a
REST view that lags behind the engine, and decisions taken on a record read several awaits
before it is written. The list with lines is `hazards` in `PROJECT.json`.

What makes each part correct, in one line each:

- Scheduler: executions of a task overlap only when nobody waits for one of them, a task that
  must not run has no job that fires, a crash never stops a task for good.
- Mail: no message is marked sent that no server took, each further send has a cause, every
  message ends in a final state.
- Revocation: a stored logout refuses every valid token of the session, and nothing else.
- Cookies: a live session is not lost, a logged-out one does not stay open, no answer puts back
  older tokens.
- Records: nobody acquires or gives away ownership, a field one may not write or see keeps its
  stored value, a mask is never stored.
- Camunda: the wait ends, on a task that comes after the one completed, the form it saved does
  not overwrite what the completion set going, and a batch tells the truth about each record.
- Actions: what is written was allowed on the model it was written to although the action
  changes meanwhile, what is taken is answered, what is answered as done was done, and a
  revoked session's open sockets go quiet.
- Rules: the tables say what the component says, and a start repairs what a crash left.
- Plugins: dependencies first, an administrator's edits are kept, a start leaves every component
  with its actions whatever step an earlier one died at.
- Gateway: one fetch at a time, no expired token, no value older than the promise.

## 2. Modules

Each module header says what its variables stand for; `map` in `PROJECT.json` gives the
source lines of each definition. Operators introduced by a comment "Broken variant" are
plausible bugs: no specification uses them, they serve to see that each property fails when
the code is wrong in that way.

### CalendarScheduler (MCCalendarScheduler, CalendarScheduler_proofs)

Three kinds of process: the poll loop (`syncPc`, `scheduler.py` sync/apply), the runs
(`runPc`, `execute_task` with `acquire_lock`, `write_next`, `release_lock` of `gateway.py`)
and the endpoint (`execPc`, `Service.run_calendar_task`). Each `await` ends an action; each
process keeps the record it read (`syncCopy`, `runCopy`, `execCopy`) and its write puts that
whole copy back. `Timeout` is the client's 30 s limit (hard-coded in `gateway.py:60`; the
`http_timeout` setting of `config.py` is never used): the run goes on to release its lock
while the endpoint keeps working. A lease is a run in the set `expired` rather than a number;
`ShortLease` says whether a lease may pass while the run that took it is alive. Faults of
Mongo or of the network, crashes, users' edits, deletions and manual runs are each limited by
`Budget`; a fault while the error of a task is being stored ends the whole pass (`SyncFault`).
Left out: the values of `next`, `last` and `message`, which no decision reads; the webhook
emitted after a run; `auth.py` (the token of the service account).

### MailQueue (MCMailQueue, AfterSave_proofs)

Workers (`pc`) poll the messages they can see (`Visible`: a record without `app_code` is seen
by all), load, render, send in a thread and mark. `wait_for` cannot stop a thread: an
abandoned one becomes a member of `zombies` and may still deliver. `Broken` stands for
everything that makes rendering raise `MailError`. A failed read is `Postpone`, a failed send
`SendFails`, a failed mark `MarkFails` (which may have been stored), a dead process
`WorkerCrash`. The variables after "History" are read by no action; the properties count with
them, by worker: that two workers put different marks on one message is seen by none.

### SessionRevocation (MCSessionRevocation, SessionRevocation_proofs)

Keycloak opens and ends sessions of one user and sends logout tokens, which may be lost, late
or repeated; `backchannel_logout` saves a row, then purges the expired rows it found (two
awaits, so that rows may change between); requests verify their token locally, then look the
row up. Times are whole seconds. `RetentionAssumption` (`AccessLife <= Retention`) is what the
comment at `session_revocation.py:43-45` asks of the deployment.

### SessionCookies (MCSessionCookies, SessionCookies_proofs)

One browser: `jar` (its cookies), `tab` (the CSRF value its page read), and requests that take
the cookies of the moment they are sent, are handled in one step (`get_authed_env` or a route of
`auth_routes.py`), and whose answers `Arrive` in any order or are lost. `newest` and `stale`
count the tokens Keycloak has issued and those whose access part has expired, the older first;
`revoking` is Keycloak's "revoke refresh token", chosen at the start. `AdmitRequest` and
`RotateRequest` may answer without cookies: an endpoint that raises, or returns a `Response` of
its own (`action_router.py`, `filter_router.py`), drops what the dependency had set. `causes`
records what may take a session away; no action reads it but `Evict`, which happens once. Left
out: the age of a cookie (it is the session's), the encryption of its value, the redirects.

### RecordUpsert (MCRecordUpsert, RecordUpsert_proofs)

One model, requests of users with different rights. A request loads a form (`load_record`
with its masks) or brings new data, then passes the stages of `Service.upsert` in their order:
lookup of the operation, gates of the model and the record, `before_write` webhook, field ACL
(put back or drop), the owner's gates, and the ORM's write. Stages are separated wherever the
code awaits, so that the record read at `Lookup` may be stale at `Write`. `LookupFails` is
the exception that `_resolve_write_operation` takes for "no such record"; `GrantsRead` and
`RulesRead` are what reading the rules of the model and of the record may give, nothing after a
failure: no grants refuse, no record rules let through. `f_rule` is modelled as the code
compiles it: `RulePolicies` are its groups turned into policies, `OwnerWrites` its `$owner`.
`View` is what the form shows: `load_record` passes an instance of the model, from which a denied
field cannot be removed, so that it shows None (`Mask`) as an obfuscated one does, and a read
denied by `"*"` shows None for every field, the owner included.

Abstractions: grants, record rules and the stored field policies are given per user (groups and
their implications resolved), and none changes during a run; the read of the stored field
policies does not fail (a failure would leave those of `f_rule` alone); record filters compare
the owner with the user and fields with values; the ORM's `upsert` is external and atomic (it
replaces all the values, keeps the owner on an update, and sets it on an insert); records are not
removed. A name stands for a record: the lookup by id and the change of a name are not in it.
List and stream queries and nested fields are not in it; delete and copy are in ActionHub, what
follows the save of a component in RulesSync and PluginInstaller.

### CamundaProcess (MCCamundaProcess, CamundaProcess_proofs)

Requests start a process (save the form, start the instance, save its key with the form),
complete a user task (save the form, find the task, complete it), or do so for a batch of
records; then `wait_until_settled` reads the state, the variables and the open tasks, round after
round, until a task that is not the one just completed, the end, or the deadline, which may pass
in any round (`MaxPolls` bounds them). The engine is external: a process is a sequence `Flow` of
user tasks and jobs, `inst` is where each instance is, `view` what its REST API shows of it,
which `Export` brings up to date at any time. A worker stores its result in the record and moves
the instance on. Every call may fail, a completion also after it was taken (`CompleteBreaks`),
and a call that runs in a thread may go through although its request dies meanwhile (`Dies`). A
start whose wait raises shows the form again; a completion redirects. Left out: the variables
sent, the tenant, the status endpoint.

### ActionHub (MCActionHub, Actions_proofs)

`sock` and `manager` are the sockets and what `ConnectionManager` believes of them; a message
becomes a task that builds an environment from the token the socket showed once (`BuildEnv`),
reads the action, passes its gate, and saves, copies or deletes. HTTP requests take the same
handlers and are never cancelled. The action is a record that an administrator may edit at any
moment (`EditAction`), also between its two readings in a copy and in a delete; records may be
purged; a closing socket cancels its tasks wherever they are, also between two writes.
`PostStep` and `StepLoads` are the completion of a workflow step, a save of the whole form.
A refused `set_to_delete` is answered as if it had deleted (`DeleteMarks`), like a refused save;
a copy and a step look. The form of a component's own definition opens without a right to create
being asked for.
Field and record rules may refuse any write; what they decide is RecordUpsert's.

### RulesSync (MCRulesSync, AfterSave_proofs)

One component with its two rule properties and the two tables they feed. A save stores the
component (defaults filled in, what the payload leaves out maybe restored), loads it again and
replaces each table: build, count, delete, insert, each awaited. Two saves interleave freely; a
start synchronises before the plugins, lets the plugin put its own edition back, and synchronises
again. `Shipments` is what a plugin may do with a component that is there: nothing, write over it
with rules at every start, or once, or with a schema that has no rules of its own. A failed call
skips the rest of a table and is swallowed, as in the code; a crash leaves what was done. Rows
carry the number of the edition they come from, so that a table that mixes two, or keeps an old
one, is visible.

### PluginInstaller (MCPluginInstaller, Actions_proofs)

A start sorts the plugins (`_topo_sort`, a recursive search: `stack` holds the calls of its
`visit` under way, `order` its result) and goes through the steps of `_install_plugin` for each
in turn. A dependency that is not in the folder is logged and left aside (`Needed`). A component
whose name is not one of a model is stored and never registered, and gets no actions, no more
than one with `data_model` "no_model" does (`Skipped`). The actions a plugin ships among its data
are written at every start, whatever is there (`UpsertSeed`), unless the plugin is skipped.
`Crash` may come anywhere; a start follows that takes the same steps again and must find out from
the database what is left to do. The generation of a menu group and its actions (`BeginJob`,
`MakeAction`) is one action at a time, is shared with the save of a component by an administrator
(`AskForMenu`), and a failure in it is logged and skipped. `StartProvides` speaks of a plugin
with `no_update` only as long as no generation has failed and no administrator has been at work:
once it has its mark a start skips it, also when a component of it has no action, or none any
more.

MailQueue and PluginInstaller each share a proof module with another specification, so that
their names start with `Mail` and `Install` where the two would meet.

### ApiGateway and CachedSource (MCApiGateway, ApiGateway_proofs)

`CachedSource` states what a cache promises and nothing of how. A value shown was the source's at
most `Bound` ago and is not older than one that anybody had been shown before it was asked for,
or there is no value. `ApiGateway` is the service: the entry and its age, the lock of the key
with its queue, the token with its skew, calls that last up to their timeout and read the source
at any moment of it, POSTs that bypass the cache, and the app's own shorter patience, after which
an answer comes for nobody and still fills the cache. A restart forgets cache and token.
`Timeout` is an assumption: httpx bounds each wait of a call (connect, read, write, pool) by 30 s
and not their sum, so that an answer that trickles in lasts longer; how old a value may get
counts from the longest call there is. No such thing is assumed of the calls for a token.
`Promise == INSTANCE CachedSource WITH Bound <- Ttl + Timeout` is the refinement: `now`,
`changed`, `shown`, `floor` and `newest` map to themselves, the last two are history in
`ApiGateway`, and the lock is why the second half of the promise holds: without it an older
answer may arrive after a newer one and be stored over it. The first half fails when a hit renews
the entry (`ArriveGetRenews`).

## 3. Model checking

`tlc -config <cfg> <module>`; `PROJECT.json` lists each run with its properties, and for each
property a plausible bug of the code (a mutant) that it catches.

| Run | What it shows | Instance |
|---|---|---|
| `cal_recover` | overlapping executions need an abandoned one; every run ends, a wanted periodic task is executed for ever | one task, two runs, one crash, timeouts at will |
| `cal_switch_off` | what a user pauses or breaks ends with no job that fires | one task starting as a purge task or a task without action, one run, one edit to paused or broken, one deletion, one manual run, one fault |
| `mail` | sent means delivered, further sends have a cause, every message settles | two workers, a shared message and one that cannot be rendered, one database failure, SMTP failure, crash and requeue |
| `rev_safety` | stored revocations hold, refuse nothing else, and the purge is harmless | two sessions, two deliveries at a time, one request, 4 seconds, token life 2, retention 2 |
| `cookies` | a live session, the CSRF value of its page (`PageCanWrite`) and its logout hold, up to the recorded causes; no rollback of tokens | two requests at a time out of four, two sessions, refresh tokens spent or not, at most two causes (`FewCauses`), requests and sessions symmetric |
| `upsert_safety` | ownership, denied and unseen fields, masks | an administrator, an editor, an operator; one name, two fields, two requests; forms, new data, imports, a webhook |
| `camunda` | the wait ends and on a later task, a worker's result is kept, a batch tells the truth | two requests, one record, one instance of user task, job, user task, one round before the deadline, batches of one |
| `actions` | allowed writes, honest answers, exact manager, every request answered, revoked sessions quiet | two sockets and HTTP, one session, a request at a time, two models with different rights, an action edited among five versions or removed |
| `rules` | a save alone leaves the tables as the component says; the next start repairs what two saves, a failure or a crash left | two saves, two keys, three offers (rules, fewer rules, absent and malformed), a plugin that ships nothing, the rules, them once, or a component without them, one crash, one failed call |
| `rules_partial_save` (violation) | a save that does not carry the rules replaces them by the defaults | the same without the identity layer, crashes and failures |
| `install` | dependencies first, edits kept, a start provides, some start goes through | two plugins and the built-in one; four graphs of dependencies, among them a cycle and plugins that are not there; any options; four components: a shared one, a resource with a seeded action, one misnamed, one without a model; two templates, one crash, one failure, two edits |
| `gateway` | one fetch at a time, no call with an expired token but for slow answers, every request ends, CachedSource is implemented | a GET and one that may also be a POST, time to live 2, calls of 1, skew 1, token life 2, one change of the source, restarts at will, times 0 to 4 |

Why the bounds suffice. Calendar: tasks do not interact except through the single poll loop, so
one task with two runs gives every race on a record (poll loop, old run, new run, endpoint,
user); identities of runs are recycled. Mail: two workers that share a message give every race on
it, and the unrenderable message queues behind or before it. Revocation: a purge that races a
repeated delivery needs two hooks, a token that outlives a row needs a retention equal to the
life of a token: both are there, and the clock runs long enough for a row to be purged. Cookies:
four requests are two logins and two more, or a login, a renewal and a race of two; a state with
three causes on record is not explored further, because nearly all the properties are then
excused. Records: two requests on one name give every overtaking, and the three users carry one
example of each rule: deny, obfuscate, allow-list, `$owner`, a condition that reveals a field, a
rule on owners, a rule on a value. Camunda: a flow of a user task, a job and a user task has a
task before and after a worker, and two requests on one instance give every race for a task; the
second round of a wait repeats the first. Actions: requests share nothing but the records, the
action and the manager, and each of those also changes under the single request in progress
(`EditAction`, `Purge`, `Connect`, `Disconnect`, `Revoke`); the second socket is there to be
confused with the first. Rules: two saves and a start give every interleaving of two replacements
of a table. Plugins: with two plugins the four graphs are no dependency, one against the order of
the names, one along it and a cycle, two of them with plugins that are not there; a start, a
crash, an edit and another start give each hazard once, and two edits can take both actions of a
component, which only then looks like one never generated. Gateway: two requests are enough to
find an entry expired together, and an entry lives, expires, is fetched again and could be shown
when it is older than `Ttl + Timeout`, which is less than `MaxTime`. Tokens that live no longer
than the skew, and never serve a second call, are left to the theorem, and so are schemas that
have no properties at all (`"silent"`). What the instances cannot show for larger sizes is what
the proofs are for.

`MaskNeverStored` and `DeniedFieldKept` depend on the rules and the payloads, and the model says
how (`CanMask`, `CanEmpty` in `RecordUpsert`). The None that a form shows for a field its user
does not see, obfuscated or denied, can be stored when that user also has an explicit right to
write the field, or may set it on a create (a lookup that fails turns the update into one), or
owns the record through `$owner` while no condition shows owners their field, or when the
condition that reveals the field (`f_rule_cond`) looks at values, which another save may change
between the load and the save, or when the field is denied for reading by `"*"` alone, which
`_blind_write_protected_fields` does not resolve into fields, and its writing is not denied. A
denied field can be emptied when the payload may lack its key and `_blind_write_protected_fields`
does not cover it: the field is not denied for reading by its own name, or an `allow` covers it,
`"*"` included. The instance has none of these ways (`NoWayAround` in `MCRecordUpsert`, which TLC
evaluates), and the proofs show that there are no others. `DeniedFieldKept` speaks of saves that
no other save overtook: values are put back from the record read at the lookup, so that an
overtaken save may undo the other's edit (a hazard on record that no property covers).
`CompletedMeansDone` says that a completed request got as far as its write, and that a completed
copy or step is stored: a save or a delete that the ORM refuses is answered as completed all the
same (section 5). `StartProvides` speaks of the components that are to have actions. `EditsKept`
is about the actions that a start generates: one that a plugin ships among its data is written
over by it.

`CHECK_DEADLOCK FALSE` appears in `RevSafety.cfg`, `Cookies.cfg`, `Rules.cfg`,
`RulesPartialSave.cfg`, `Install.cfg` and `Gateway.cfg`: the clock stops at `MaxTime`, the
deliveries at `MaxDeliveries`, the requests at `MaxSends`, each save is made once, and the
administrator's doings, the crashes and the failures are counted, so that their behaviours may
end.

Fairness. Calendar: the worker's event loop runs what is ready, an HTTP call ends in an answer
or in the client's timeout, the process is restarted (compose `restart`), due cron jobs fire,
leases pass and the app serves requests; the end of an *action* is not assumed (`ExecAct` has
no fairness), which is what makes `RunEnds` say something. Mail: each worker's own steps,
`wait_for`'s timeout included; an SMTP server may hang for ever (`ServerStep` has no
fairness). Camunda and actions: a request that is being handled goes on (`WF_vars(Handler)`);
the engine, its view, the workers and the clients owe nothing. Rules and plugins: a start goes
on, and is made again whenever the container stops; a save that has begun goes on. Gateway:
the event loop runs what is ready and a call ends in its answer or its timeout. Faults,
crashes, users and administrators are never forced. Revocation, cookies and records claim
safety only.

### What the violation says

A test states that a save which touches other properties of a component must not remove its
access rules (`tests/test_ozon_env_app.py:380-383`). It checks `insert_update_component` alone;
a save goes through `Service.upsert` first, which fills the missing rules with the defaults and
stores them before anything could be restored. `UncarriedStays` fails in `rules_partial_save`:
the component ends with the defaults, and so do its tables. A component of the identity layer has
no defaults: there the component loses the property, and the tables keep their rows.

## 4. Proofs

`tlapm <module>_proofs.tla`. Each proof module defines an inductive invariant `IInv` (`MailInv`,
`RulesInv`, `InstallInv` where a module is about two specifications) and proves
`Init => IInv`, `IInv /\ [Next]_vars => IInv'`, and each theorem from it. Assumptions
are the named `ASSUME`s of the modules only: sizes of sets, budgets and clocks are arbitrary.

- **CalendarScheduler_proofs**: `TypeCorrect`, `OneRun`, `OutcomeFirst`,
  `NoOverlapUnlessAbandoned`. The last needs to know that a run waits for an execution of its
  own task (`WaitsForItsTask`): with `OneRunPerTask`, two attended executions of a task would
  be two runs of it. `Pointers` says which copy and which task an actor has at each point; the
  types of what it writes rest on it. `OneRunPerTask` and `OutcomeStoredBeforeNext` are proved,
  and no run checks them apart.
- **AfterSave_proofs**, what goes on after a save has been answered. MailQueue:
  `MailTypeCorrect`, `NoFalseSent`, `NoBlameForBlips`, `ResendsAccountedFor`. A worker about to
  mark a message knows why (`MarksAreTrue`); the count of sends is bounded because a queued
  message, or one in a worker's batch, has no unexplained send behind it (`RoomToSend`).
  `NoBlameForBlips` (an infrastructure failure is not blamed on the message) has no run.
  RulesSync: `RulesInvariant` and `RulesAreFollowed`, for any editions, keys and tables. The
  invariant (`Faithful`) is about a synchronisation that nothing has disturbed so far (`clear`):
  it is the only one at work (`Alone`), the properties it follows are those of the component that
  is stored (`ForTheStored`), and the table it is through with holds the rules of that component,
  or what it held where the property says nothing sure, while the other is as it found it, or
  empty between the delete and the insert (`TablesSoFar`). Every other actor's step that could
  touch one of the three takes `clear` away, and the proof of each step shows that there is no
  other.
- **SessionRevocation_proofs**: `TypeCorrect`, `PurgeIsSafe`, `RevocationHolds`,
  `RefusalHasCause`. The core is `Covered`: a barred session has a row that refuses all its
  tokens, unless its last token expired longer than the retention ago. It survives a purge
  because a row that a purge found had expired (`OldOK`) and was written after its session's
  end (`RowsOK`), so that the session's tokens are long gone even if the row was saved again
  since; `RetentionAssumption` then bounds the tokens' life. `KeycloakOK`, `HooksOK` and
  `RequestsOK` order the times of sessions, hooks and tokens.
- **SessionCookies_proofs**: `TypeCorrect` (which includes that every cookie was issued),
  `NeverRolledBack`, `TokensAreKept`, `LoggedOutIsOver` and `PageKeepsItsValue`. `Ordered` says
  that what an answer carries is newer than everything else held for the same login, or of a
  login no one else knows: a second renewal would have to start from the newest tokens, which are
  still on their way. It holds only while refresh tokens are spent and the CSRF cookie is in
  place (`Strict`); without, the older bundle does come back, and without spent tokens it is
  harmless (`SessionKept`). `TokensAreKept` and `LoggedOutIsOver` rest on a second invariant,
  `KInv`, which says where things are while answers are still on their way, of which the
  properties, about a quiet browser, say nothing. At most one session of the user lives
  (`OneLive`). An answer made from some cookies carries the same session and the same tokens or
  newer ones, and takes cookies away only from a session that is over or with a cause on record
  (`Answered`). Hence the newest tokens of a live session are in the browser or in an answer on
  its way (`NewestHeld`), the browser's cookies are those of the session it is logged into
  (`MineHeld`), and a live session is that one or has a login under way (`LoginHeld`). Each
  conjunct excuses only the causes it needs (`NothingLost`, `NothingHalf`, `NotRefused`).
  `PageKeepsItsValue` rests on a third, `WInv`: the same tokens, in the browser, in a request or
  in an answer, come with the same CSRF value (`Coupled`), an answer that is not a login's
  repeats the value that was sent (`Repeats`), and the page's is the browser's. Handlers issue
  tokens nobody has yet, so that no step couples old tokens with another value. It holds until
  the CSRF cookie goes missing or an older answer replaces the cookies (`Calm`).
- **RecordUpsert_proofs**: `TypeCorrect`, `OwnershipIsEarned`, `ImportsKeepTheOwner` (no run
  checks the last apart). The invariant follows the owner through the stages: a request past its
  start has a user (`Begun`); past the field ACL its data names the owner asked for or the field
  was denied (`OwnerKeptOrDenied`); past the owner's gate it is neither lost nor foreign
  (`Gated`). A second invariant, `FInv`, follows the fields: what a request read at its lookup is
  a record of its name with the owner that record still has (`Copied`); past the field ACL a
  denied field of the data holds the value read, or its key is missing and it can be emptied
  (`PutInPlace`); a mask in the data of a request is that of a field its user does not see, and
  past the field ACL it has one of the causes of `CanMask` (`Masks`); so has a mask in the store
  (`MasksHaveACause`). A mask is the None of either kind, denied or obfuscated.
  `StoredMasksHaveACause` and `DeniedFieldsAreNotSet` have no hypothesis: for all rules and
  payloads a stored mask has a cause, and a save sets no denied field. `MasksStayOut` and
  `DeniedFieldsStay` are the two properties of the run, for the rules and payloads that leave no
  such way around; the run's instance is one (`NoWayAround`).
- **CamundaProcess_proofs**: `TypeCorrect`, `WaitAdvances`, `BatchTellsTheTruth`,
  `ResultsAreKept`. `Local` is what a request knows by itself: before a completion it holds no
  key, so that the two saves come before. `Placed` compares it with the engine: what the search
  has shown, it never shows less again, and the instance is past every task a request claims.
  Hence two requests cannot claim one task (`Apart`): the engine takes only the task its
  instance is at, and all earlier claims are behind it.
- **Actions_proofs**, who writes and who makes the actions. ActionHub: `TypeCorrect`,
  `ManagerIsExact`, `CompletedWasDone`, `WritesAreAllowed`, `EditableFormsCanBeSaved`. What a
  request has been allowed is a fact of its own record (`TaskOk`): the session, the model it took
  from its last reading of the action, and the rights, which do not change while it runs. An edit
  of the action, a purge or another request cannot take it away. The last theorem is about
  `EditableIsHonest`, which no run checks apart. PluginInstaller: `InstallsDependenciesFirst`,
  `EditsAreKept`, `StartsProvide`, for any plugins, dependencies, components and templates. While
  the sort runs, a plugin on the stack is reached by the dependencies of those below it, and one
  that is placed has each plugin it depends on placed before it, or is reached from it: a visit
  still under way had led to it (`Sorted`); the start inherits that for the list it works through
  (`Listed`). An edited action exists, so that its component is not one to generate actions for,
  and no generation in a start is for a component with an edited action (`Untouched`). For
  `StartProvides`: what each step of a plugin leaves (`Stage`), that while nothing has failed and
  no administrator has been at work a mark means that the plugin's components have their actions
  (`Marks`), and that the plugins a start is through with are provided (`Through`); the templates
  are among the data of the built-in plugin, which comes first, so that a generation always makes
  at least one action (`TemplatesAssumption`). The actions a plugin ships only add to those a
  component has. `EditsAreKept` lets an edit be written over by the plugin that ships the action,
  at that plugin's data, and by nothing else in a start. Trying to prove `StartProvides` without
  the two counters in it showed that it does not hold: an administrator who removes all the
  actions of a component of a marked `no_update` plugin leaves it without, and a single edit in
  the run had been too few to show it.
- **ApiGateway_proofs**: `TypeCorrect`, `NoStampede`, `TokenNeverStale` and `PromiseKept`, the
  refinement: each initial state and each step of `ApiGateway` is one of `CachedSource`, or
  stutters. `EntryRecent` and `CallRecent` date what the cache holds and what a call may bring;
  `ShownInOrder` says that the entry, and the version the source had when the fetch under way
  began, are no older than anything shown so far; it needs that this fetch is the only one and
  that nobody is served from the cache meanwhile (`HasLock`). `TokenNeverStale` is the action
  property `TokenAlive`, for any skew, any lives and calls for tokens that last as long as they
  please: each call for data goes out with a token that is alive, the one that follows a fetch
  included, unless the answer with the token took longer than the skew, or, for that call, than
  what it said the token's life was.

Only model-checked. Liveness under fairness is out of the prover's reach: `RunEnds`,
`TaskKeepsRunning`, `BadScheduleDeactivated`, `PauseObeyed`, `EveryMessageSettles`,
`EveryRequestAnswered`, `RequestAnswered`, `RevokedGoesQuiet`, `StartRepairs`,
`StartsInTheEnd`, `RequestEnds`. Every safety property that a passing run checks, invariant or
action property, and the refinement of CachedSource, is a theorem.

## 5. Divergences between the code and its documents that no run states

Found while reading and modelling; the models do what the code does. The properties except
them, or are stated so that they hold.

- "Concorrenza 1 run per task" (`calendar_scheduler/scheduler.py:35`) holds for the scheduler's
  runs and not for the action: after the client's 30 s timeout (`gateway.py:60`; the
  `http_timeout` setting is not used) the run releases its lock while the endpoint works on.
  `OverlapNeedsAbandonment` says that nothing else makes them overlap.
- "il worker scrive solo `next` e il lock" (`calendar_scheduler/README.md:16-17`): the update
  after a fresh read writes the whole record, so that an outcome stored in between is put back.
- "nessun retry automatico" (`calendar_scheduler/README.md:25`): a one-shot task that failed is
  scheduled again by the next pass of the poll loop.
- A user-wide logout compares `revoked_at` with the token's `iat`
  (`session_revocation.py:158-161`) so as not to refuse the next login; the time is that of the
  delivery, and a late one refuses a session opened since.
- A field one may read and not write is put back from the stored record
  (`ozon_env_acl/__init__.py:1240`) when the payload has its key; a payload without the key
  empties it.
- A completion returns "solo dopo che l'external task ha risposto" (`service.py:766`), from the
  variable named by `last_task` (`service.py:805`): the variables are read before the tasks, so
  that the round that finds the next task may answer from the struct of the job before.
- "next_action_url solo se l'azione non e' fallita" (`websocket_router.py:70`): a save or a delete
  that the ORM refuses without raising is answered "completed", with the next action.
- The form of a component without a name opens as editable with no look at the right to create it
  (`action_runtime.py:537-569`, `service.py:959-966`), although `editable` is resolved elsewhere
  from the rights of the user; the save may refuse it. `EditableIsHonest` is about records.
- Fields "negati in lettura, che non arrivano proprio nella response" and, of who is denied `*`,
  "un record gia' svuotato — non ha nulla da rimandare indietro" (`service.py:2447-2451`): a form
  is an instance of the model, whose denied fields are set to None and do arrive, so that one
  sent back asks for None to be stored. Fields denied by name are put back; with `"*"` alone,
  only the rules on writing stand between that None and the store.
- "si salva solo se l'utente fa submit -> niente record fantasma" (`action_runtime.py:757`): the
  copy is upserted at once.
- The two guards of the rules' replacement (`model_rules_sync.py:246-256`) look before they
  delete: two saves, or a failed insert after the delete, leave a table empty all the same until
  the next start.
- A component without a single action is "mai completato con successo"
  (`plugin_installer.py:190-198`): a generation that dies after its first action is never taken
  up again, and a plugin with `no_update` is marked installed although its generation failed. The
  `$set` of every start also writes over what an administrator changed in seeded records, actions
  included, although the installer "non tocca MAI un model gia' provisionato"
  (`plugin_installer.py:101`).

Also met, without a property: a closed-mode `after_write` hook that fails answers an error for a
save that was stored; a failed read of the record rules counts as a model without rules, and one
of the stored field policies as if there were none; two steps completed from forms loaded before
either was saved overwrite each other; a record purged between the lookup and `set_to_delete` may
be inserted again, as the ORM decides (the model has both); a plugin that depends on one that is
not there is installed all the same; with `cache_ttl` 0 requests for a key still go one at a
time; `up` and `down` of one service store their status in any order; the identity manager writes
back a whole group it read before its queries.

## 6. Not modelled, and why

Parsing of cron expressions, rendering of templates, signatures of tokens and the ORM itself
are libraries or pure functions with tests of their own; their outcomes are inputs of the
models. Read-only projections (menus, dashboards, select sources, filters, searches) change
no state. Webhooks are a sequence of calls whose outcome (pass, rewrite, refuse) is an input of
RecordUpsert. The service registry drives `docker compose`, which is outside the repository.
Attachments are file I/O around one antivirus call. The identity manager is one loop with one
read and one write per group. Startup, settings, logging, seed data and scripts run once;
keycloak-manager is a command run by hand.

## 7. Plan

1. Modules of the scheduler, mail, revocation, records and cookies, with proofs (done).
2. Camunda, actions with the WebSocket hub and steps, rules, plugins, gateway with its abstract
   specification and refinement; proofs for three of them (done).
3. The tokens of the live session, and the masks and denied fields of a record, proved (done).
4. The order of the plugins, what a start leaves, and the rules after a save, proved (done).
5. Still worth modelling: a read of the stored
   field policies that fails, which makes `MaskNeverStored` depend on what `f_rule` alone allows;
   overtaken saves of two users (`DeniedFieldKept` excepts them); the identity manager's groups.
