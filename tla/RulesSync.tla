------------------------------ MODULE RulesSync ------------------------------
(***************************************************************************)
(* The access rules of a model.  They are written as two properties of its *)
(* component and read from two tables: "groups" (model_groups_rule, which  *)
(* groups may do what) and "records" (model_fields_rule, on which rows).   *)
(* Every save of the component, and every start of the app, replaces the   *)
(* rows of the two tables by what the properties say, one awaited call at  *)
(* a time: build, count, delete_many, insert_many.  An error of the        *)
(* synchronisation is swallowed, so that it never breaks a save.           *)
(*                                                                         *)
(* One component, shipped by a plugin or not.  The saves are requests of   *)
(* the app and run together; the start runs alone, before the first        *)
(* request, and goes through the synchronisation twice, with the           *)
(* installation of the plugins in between.                                 *)
(***************************************************************************)
EXTENDS Integers, FiniteSets

CONSTANTS
  Saves,       \* requests that save the component
  Keys,        \* the groups a rule may name
  Offers,      \* what a save's payload may hold for the two properties
  UniqueNames, \* is rec_name a unique index of the tables (both considered)
  Identities,  \* is the component of the identity layer, which has no defaults
  Shipments,   \* what a plugin may ship of the component
  MaxCrashes,  \* bound on the crashes of a behaviour
  MaxFaults    \* bound on the failed calls of the database

Tables == {"groups", "records"}
Forms == {"absent", "malformed", "rules"}

ASSUME OffersAssumption == Offers \subseteq [Tables -> [form : Forms, keys : SUBSET Keys]]
\* No plugin ships it; one does, with its rules, with its rules but only once (no_update),
\* with properties that lack them, or with no properties.
ASSUME ChoicesAssumption ==
  /\ UniqueNames \subseteq BOOLEAN /\ Identities \subseteq BOOLEAN
  /\ Shipments \subseteq {"nothing", "rules", "once", "bare", "silent"}
ASSUME BoundsAssumption == MaxCrashes \in Nat /\ MaxFaults \in Nat
ASSUME NamesAssumption == "boot" \notin Saves

VARIABLES
  unique, identity, shipped,  \* the installation
  boot,       \* the start of the process
  stored,     \* the component exists
  props,      \* its two properties
  tables,     \* the two rule tables, the rows of this component
  sync,       \* what each save, and the start, is doing
  edits,      \* the saves so far, 1 is the plugin's own edition
  crashes, faults

setting == <<unique, identity, shipped>>
store == <<stored, props, tables>>
bounds == <<edits, crashes, faults>>
vars == <<setting, boot, store, sync, bounds>>

Syncers == Saves \cup {"boot"}
Rows == [key : Keys, edit : Nat]
Props == [Tables -> [form : Forms, rows : SUBSET Rows]]

Absent == [form |-> "absent", rows |-> {}]
Edition(offer, e) ==
  [t \in Tables |->
     [form |-> offer[t].form,
      rows |-> IF offer[t].form = "rules" THEN [key : offer[t].keys, edit : {e}] ELSE {}]]
Default == [form |-> "rules", rows |-> [key : Keys, edit : {0}]]
Seed == [t \in Tables |-> [form |-> "rules", rows |-> [key : Keys, edit : {1}]]]
NoProps == [t \in Tables |-> Absent]

\* setdefault: what the identity layer is not given.
Normalized(p) ==
  [t \in Tables |-> IF p[t].form = "absent" /\ ~ identity THEN Default ELSE p[t]]

Before == [props : Props, tables : [Tables -> SUBSET Rows]]
NotYet == [props |-> NoProps, tables |-> [t \in Tables |-> {}]]
Steps == {"stored", "loaded", "sync", "delete", "insert"}
Idle == [pc |-> "idle", schema |-> NoProps, table |-> "groups", carried |-> {},
         clear |-> TRUE, before |-> NotYet]

TypeOK ==
  /\ unique \in BOOLEAN /\ identity \in BOOLEAN /\ shipped \in Shipments
  /\ boot \in {"down", "first", "install", "second", "up"}
  /\ stored \in BOOLEAN
  /\ props \in Props /\ tables \in [Tables -> SUBSET Rows]
  /\ sync \in [Syncers -> [pc : Steps \cup {"idle", "done"}, schema : Props, table : Tables,
                           carried : SUBSET Tables, clear : BOOLEAN, before : Before]]
  /\ sync["boot"].pc \notin {"stored", "loaded", "done"}
  /\ sync["boot"].pc # "idle" => boot \in {"first", "second"}
  /\ \A s \in Saves : sync[s].pc \in Steps => boot = "up"
  /\ edits \in Nat /\ crashes \in 0 .. MaxCrashes /\ faults \in 0 .. MaxFaults

Init ==
  /\ unique \in UniqueNames /\ identity \in Identities /\ shipped \in Shipments
  /\ boot = "down"
  /\ stored = FALSE /\ props = NoProps /\ tables = [t \in Tables |-> {}]
  /\ sync = [s \in Syncers |-> Idle]
  /\ edits = 1 /\ crashes = 0 /\ faults = 0

(***************************************************************************)
(* The synchronisation, by a save or by the start.                         *)
(***************************************************************************)

Active(s) == sync[s].pc \in Steps
Mine(s) == sync[s].schema[sync[s].table]

\* A property that says nothing sure: the rows there are stay.
Unsure(p, rows) == p.form = "malformed" \/ (p.rows = {} /\ rows # {})

\* Syncer s is through with both tables; the start's pass is over with it.
Ended(s) ==
  IF s = "boot"
  THEN /\ boot' = IF boot = "first" THEN "install" ELSE "up"
       /\ sync' = [sync EXCEPT ![s] = Idle]
  ELSE /\ sync' = [sync EXCEPT ![s] = [Idle EXCEPT !.pc = "done"]]
       /\ UNCHANGED boot

\* On to the second table, or the end.
NextTable(s) ==
  IF sync[s].table = "groups"
  THEN /\ sync' = [sync EXCEPT ![s].pc = "sync", ![s].table = "records"]
       /\ UNCHANGED boot
  ELSE Ended(s)

Keep(s) ==
  /\ sync[s].pc = "sync"
  /\ Unsure(Mine(s), tables[sync[s].table])
  /\ NextTable(s)
  /\ UNCHANGED <<setting, store, bounds>>

Replace(s) ==
  /\ sync[s].pc = "sync"
  /\ ~ Unsure(Mine(s), tables[sync[s].table])
  /\ sync' = [sync EXCEPT ![s].pc = "delete"]
  /\ UNCHANGED <<setting, boot, store, bounds>>

\* Its rows whose names the table has.
Taken(s) == {r \in Mine(s).rows : \E q \in tables[sync[s].table] : q.key = r.key}

\* Broken variant of DeleteMany: the rows it no longer has stay.
DeleteStale(s) ==
  /\ sync[s].pc = "delete"
  /\ tables' = [tables EXCEPT ![sync[s].table] = @ \ Taken(s)]
  /\ IF Mine(s).rows = {} THEN NextTable(s)
     ELSE sync' = [sync EXCEPT ![s].pc = "insert"] /\ UNCHANGED boot
  /\ UNCHANGED <<setting, stored, props, bounds>>

DeleteMany(s) ==
  /\ sync[s].pc = "delete"
  /\ tables' = [tables EXCEPT ![sync[s].table] = {}]
  /\ IF Mine(s).rows = {} THEN NextTable(s)
     ELSE sync' = [sync EXCEPT ![s].pc = "insert"] /\ UNCHANGED boot
  /\ UNCHANGED <<setting, stored, props, bounds>>

InsertMany(s) ==
  /\ sync[s].pc = "insert"
  /\ ~ (unique /\ Taken(s) # {})
  /\ tables' = [tables EXCEPT ![sync[s].table] = @ \cup Mine(s).rows]
  /\ NextTable(s)
  /\ UNCHANGED <<setting, stored, props, bounds>>

\* Names another save has just inserted: the rows before the first of them are
\* in, the second table is not reached.
InsertRejected(s) ==
  /\ sync[s].pc = "insert"
  /\ unique /\ Taken(s) # {}
  /\ \E part \in SUBSET (Mine(s).rows \ Taken(s)) :
       tables' = [tables EXCEPT ![sync[s].table] = @ \cup part]
  /\ Ended(s)
  /\ UNCHANGED <<setting, stored, props, bounds>>

\* A call of the synchronisation fails, carried out or not.
SyncFails(s) ==
  /\ sync[s].pc \in {"sync", "delete", "insert"}
  /\ faults < MaxFaults
  /\ faults' = faults + 1
  /\ LET t == sync[s].table IN
     \/ UNCHANGED tables
     \/ sync[s].pc = "delete" /\ tables' = [tables EXCEPT ![t] = {}]
     \/ /\ sync[s].pc = "insert"
        /\ \E part \in SUBSET (Mine(s).rows \ Taken(s)) \ {{}} :
             tables' = [tables EXCEPT ![t] = @ \cup part]
  /\ Ended(s)
  /\ UNCHANGED <<setting, stored, props, edits, crashes>>

(***************************************************************************)
(* A save of the component.                                                *)
(***************************************************************************)

\* The record is written with the payload's properties, as one field, after the
\* defaults have been put in.  `runtime`: an import or the builder's action, which
\* goes on with insert_update_component.
Store(s, offer, runtime) ==
  /\ boot = "up" /\ sync[s].pc = "idle"
  /\ LET schema == Normalized(Edition(offer, edits + 1))
         alone == \A z \in Syncers : ~ Active(z)
     IN
     /\ props' = schema
     /\ sync' = [z \in Syncers |->
          IF z = s
          THEN [Idle EXCEPT !.pc = IF runtime THEN "stored" ELSE "sync", !.schema = schema,
                            !.carried = {t \in Tables : offer[t].form # "absent"},
                            !.clear = alone,
                            !.before = [props |-> props, tables |-> tables]]
          ELSE [sync[z] EXCEPT !.clear = @ /\ ~ Active(z)]]
  /\ stored' = TRUE
  /\ edits' = edits + 1
  /\ UNCHANGED <<setting, boot, tables, crashes, faults>>

\* The properties that p does not carry are taken back from the component as it now is.
Preserved(p) == [t \in Tables |-> IF p[t].form = "absent" THEN props[t] ELSE p[t]]

\* insert_update_component loads the component again.
Reload(s) ==
  /\ sync[s].pc = "stored"
  /\ sync' = [sync EXCEPT ![s].pc = "loaded", ![s].schema = Normalized(Preserved(@))]
  /\ UNCHANGED <<setting, boot, store, bounds>>

Rewrite(s) ==
  /\ sync[s].pc = "loaded"
  /\ props' = sync[s].schema
  /\ sync' = [sync EXCEPT ![s].pc = "sync"]
  /\ UNCHANGED <<setting, boot, stored, tables, bounds>>

\* A failure here is logged, and the rules are not synchronised at all.
RuntimeFails(s) ==
  /\ sync[s].pc \in {"stored", "loaded"}
  /\ faults < MaxFaults
  /\ faults' = faults + 1
  /\ Ended(s)
  /\ \/ UNCHANGED props
     \/ sync[s].pc = "loaded" /\ props' = sync[s].schema
  /\ UNCHANGED <<setting, stored, tables, edits, crashes>>

(***************************************************************************)
(* The start of the app.                                                   *)
(***************************************************************************)

BootStart ==
  /\ boot = "down"
  /\ boot' = "first"
  /\ UNCHANGED <<setting, store, sync, bounds>>

\* sync_all_model_rules comes to the component, or finds none.
BootReads ==
  /\ boot \in {"first", "second"} /\ sync["boot"].pc = "idle"
  /\ IF stored
     THEN /\ sync' = [sync EXCEPT !["boot"] =
                        [Idle EXCEPT !.pc = "sync", !.schema = Normalized(props),
                                     !.before = [props |-> props, tables |-> tables]]]
          /\ UNCHANGED boot
     ELSE Ended("boot")
  /\ UNCHANGED <<setting, store, bounds>>

\* The cursor fails: the pass ends, the start goes on.
BootReadFails ==
  /\ boot \in {"first", "second"} /\ sync["boot"].pc = "idle"
  /\ faults < MaxFaults
  /\ faults' = faults + 1
  /\ Ended("boot")
  /\ UNCHANGED <<setting, store, edits, crashes>>

\* _upsert_all sets the keys that the shipped component has, properties as a whole.
Shipped ==
  IF shipped \in {"rules", "once"} THEN Seed ELSE IF shipped = "bare" THEN NoProps ELSE props

\* The plugins write the component that one of them ships, again at every start unless
\* the plugin has its mark and is not to be updated.
WritesComponent ==
  IF shipped = "nothing" \/ (shipped = "once" /\ stored) THEN UNCHANGED <<stored, props>>
  ELSE stored' = TRUE /\ props' = Shipped

\* Broken variant of Install: the rules were synchronised before, that will do.
InstallLast ==
  /\ boot = "install"
  /\ WritesComponent
  /\ boot' = "up"
  /\ UNCHANGED <<setting, tables, sync, bounds>>

Install ==
  /\ boot = "install"
  /\ WritesComponent
  /\ boot' = "second"
  /\ UNCHANGED <<setting, tables, sync, bounds>>

\* The process dies, or its start fails (an error of the installation is not caught),
\* its requests with it, and is started again.
Crash ==
  /\ boot # "down" /\ crashes < MaxCrashes
  /\ crashes' = crashes + 1
  /\ boot' = "down"
  /\ sync' = [s \in Syncers |->
                IF Active(s) /\ s # "boot" THEN [Idle EXCEPT !.pc = "done"]
                ELSE IF s = "boot" THEN Idle ELSE sync[s]]
  /\ UNCHANGED <<setting, store, edits, faults>>

SyncStep(s) ==
  Keep(s) \/ Replace(s) \/ DeleteMany(s) \/ InsertMany(s) \/ InsertRejected(s)

BootStep == BootStart \/ BootReads \/ Install \/ SyncStep("boot")

Next ==
  \/ BootStep
  \/ Crash
  \/ BootReadFails \/ SyncFails("boot")
  \/ \E s \in Saves :
       \/ \E offer \in Offers, runtime \in BOOLEAN : Store(s, offer, runtime)
       \/ Reload(s) \/ Rewrite(s) \/ RuntimeFails(s) \/ SyncFails(s) \/ SyncStep(s)

\* The container is started again when it stops, and a started step is answered.
Fairness ==
  /\ WF_vars(BootStep)
  /\ \A s \in Saves : WF_vars(Reload(s) \/ Rewrite(s) \/ SyncStep(s))

Spec == Init /\ [][Next]_vars /\ Fairness

(***************************************************************************)
(* Properties.                                                             *)
(***************************************************************************)

Ends(s) == Active(s) /\ ~ Active(s)' /\ boot' # "down"
Undisturbed(s) == sync[s].clear /\ faults' = faults

\* A save or a start that ran alone leaves in each table exactly the rules of the
\* component it leaves, or, where the property is malformed or empty, exactly the rows
\* it found: no old row is kept, none is lost (model_rules_sync.py).
RulesFollow ==
  [][\A s \in Syncers : Ends(s) /\ Undisturbed(s) =>
       \A t \in Tables :
         LET says == Normalized(props)'[t]
             had == sync[s].before.tables[t]
         IN tables'[t] = IF Unsure(says, had) THEN had ELSE says.rows]_vars

\* Whatever two saves or a crash in the middle of one leave, the next start goes through
\* and brings the tables back to the component, unless a call of the database fails
\* (sync_all_model_rules; the container is restarted).
StartRepairs ==
  boot = "down" ~>
    \/ faults > 0
    \/ /\ boot = "up"
       /\ stored => \A t \in Tables : LET says == Normalized(props)[t]
                                      IN says.rows = {} \/ tables[t] = says.rows

\* Documented (tests/test_ozon_env_app.py): a save that does not carry a property leaves
\* it as it was.
UncarriedStays ==
  [][\A s \in Saves : Ends(s) /\ Undisturbed(s) /\ sync[s].before.props # NoProps =>
       \A t \in Tables \ sync[s].carried : props'[t] = sync[s].before.props[t]]_vars
=============================================================================
