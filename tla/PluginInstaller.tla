-------------------------- MODULE PluginInstaller --------------------------
(***************************************************************************)
(* The installation of the plugins at the start of the app.  Every start   *)
(* puts them in order (_topo_sort: a recursive search, whose calls are     *)
(* `stack`) and goes through all of them: upsert the components of the     *)
(* schema, register the models just inserted, generate a menu group and    *)
(* the actions of each component that has none, upsert the data, mark the  *)
(* plugin installed.  Nothing is a transaction: a start that dies at any   *)
(* step is followed by another, which takes the same steps again.  While   *)
(* the app is up an administrator edits, removes or regenerates actions.   *)
(*                                                                         *)
(* Plugin 0 is the built-in one: it is first, ships the templates of the   *)
(* actions among its data, and has no actions generated.  Of the data, the *)
(* actions that a plugin ships are followed: every start writes them.      *)
(***************************************************************************)
EXTENDS Integers, Sequences

CONSTANTS
  Externals,  \* number of plugins found in the plugins folder, 1 .. Externals by name
  Depends,    \* what their config.json may say: the plugins each depends on, there or not
  Comps,      \* components
  ShipsOf,    \* the components of each plugin's schema
  SeedsOf,    \* the actions among each plugin's data
  Misnamed,   \* components whose name is not one of a model
  NoModels,   \* components whose data_model is "no_model"
  Templates,  \* number of the template actions, generated in order
  Resources,  \* components that are resources: no menu group of their own
  MaxCrashes, \* bound on the starts and requests that die
  MaxFaults,  \* bound on the failed calls
  MaxEdits    \* bound on the administrator's doings

Found == 1 .. Externals
Plugins == 0 .. Externals
\* The actions of a component: those made from the templates, and 0, any other.
Actions == Comps \X (0 .. Templates)

ASSUME DependsAssumption == Depends \subseteq [Found -> SUBSET Nat]
ASSUME ShipsAssumption ==
  ShipsOf \in [Plugins -> SUBSET Comps] /\ SeedsOf \in [Plugins -> SUBSET Actions]
ASSUME ResourcesAssumption == Resources \cup Misnamed \cup NoModels \subseteq Comps
ASSUME TemplatesAssumption == Templates \in Nat \ {0}
ASSUME BoundsAssumption == {Externals, MaxCrashes, MaxFaults, MaxEdits} \subseteq Nat

VARIABLES
  depends,    \* config.json: depends
  noUpdate,   \* config.json: no_update
  automatic,  \* config.json: auto_create_actions
  phase,      \* "down", "sorting", "booting", "up"
  stack,      \* sorting: the plugins being visited, each for the one before it
  order,      \* sorting: the plugins visited
  todo,       \* the plugins still to install, the first is under way
  step,       \* how far it is
  rest,       \* its components still to upsert, or to generate actions for
  fresh,      \* the components this start has inserted
  known,      \* the models registered in this start's environment
  inDb, dataOf, marked,  \* components, data and marks stored
  menus,      \* components with a menu group
  actions,    \* the actions stored and not deleted
  edited,     \* history: those an administrator has edited since they were generated
  job,        \* the component actions are being generated for, and the templates left
  clean,      \* history: no call of this start has failed
  crashes, faults, edits

config == <<depends, noUpdate, automatic>>
sort == <<stack, order>>
run == <<phase, sort, todo, step, rest, fresh, known, job>>
stored == <<inDb, dataOf, marked, menus, actions>>
bounds == <<crashes, faults, edits>>
installVars == <<config, run, stored, edited, clean, bounds>>

NoJob == [comp |-> "none", left |-> <<>>]
StepNames == {"check", "components", "register", "needs", "generate", "data", "mark"}

InstallTypeOK ==
  /\ depends \in Depends
  /\ noUpdate \in [Plugins -> BOOLEAN] /\ automatic \in [Plugins -> BOOLEAN]
  /\ phase \in {"down", "sorting", "booting", "up"}
  /\ stack \in Seq(Found) /\ order \in Seq(Found)
  /\ todo \in Seq(Plugins) /\ (todo # <<>> => phase = "booting")
  /\ step \in StepNames
  /\ rest \subseteq Comps /\ fresh \subseteq inDb /\ known \subseteq inDb
  /\ inDb \subseteq Comps /\ dataOf \subseteq Plugins /\ marked \subseteq Plugins
  /\ menus \subseteq Comps \ Resources
  /\ actions \subseteq Actions /\ edited \subseteq actions
  /\ job = NoJob \/ job \in [comp : Comps, left : Seq(1 .. Templates)]
  /\ clean \in BOOLEAN
  /\ crashes \in 0 .. MaxCrashes /\ faults \in 0 .. MaxFaults /\ edits \in 0 .. MaxEdits

InstallInit ==
  /\ depends \in Depends
  /\ noUpdate \in {f \in [Plugins -> BOOLEAN] : ~ f[0]}
  /\ automatic \in {f \in [Plugins -> BOOLEAN] : ~ f[0]}
  /\ phase = "down" /\ stack = <<>> /\ order = <<>> /\ todo = <<>> /\ step = "check"
  /\ rest = {} /\ fresh = {} /\ known = {}
  /\ inDb = {} /\ dataOf = {} /\ marked = {} /\ menus = {} /\ actions = {} /\ edited = {}
  /\ job = NoJob /\ clean = TRUE
  /\ crashes = 0 /\ faults = 0 /\ edits = 0

(***************************************************************************)
(* The order of the plugins.                                               *)
(***************************************************************************)

Placed == {order[i] : i \in 1 .. Len(order)}
Open == {stack[i] : i \in 1 .. Len(stack)}
Visited == Placed \cup Open
Top == stack[Len(stack)]

\* The plugins p depends on that are there; of the others the log says that they are not.
Needed(p) == depends[p] \cap Found

Discover ==
  /\ phase = "down"
  /\ phase' = "sorting"
  /\ UNCHANGED <<config, sort, todo, step, rest, fresh, known, job, stored, edited, clean, bounds>>

\* The loop of _topo_sort: the first by name that no visit has come to.
VisitNext ==
  /\ phase = "sorting" /\ stack = <<>>
  /\ \E p \in Found \ Visited :
       /\ \A q \in Found \ Visited : p <= q
       /\ stack' = <<p>>
  /\ UNCHANGED <<config, phase, order, todo, step, rest, fresh, known, job, stored, edited, clean,
                 bounds>>

\* The next of the plugins it depends on, in the order of its config.json.
VisitDependency ==
  /\ phase = "sorting" /\ stack # <<>>
  /\ \E q \in Needed(Top) \ Visited : stack' = Append(stack, q)
  /\ UNCHANGED <<config, phase, order, todo, step, rest, fresh, known, job, stored, edited, clean,
                 bounds>>

Leave ==
  /\ order' = Append(order, Top)
  /\ stack' = SubSeq(stack, 1, Len(stack) - 1)
  /\ UNCHANGED <<config, phase, todo, step, rest, fresh, known, job, stored, edited, clean, bounds>>

\* Broken variant of VisitDone: a plugin goes before those it depends on.
VisitDoneAtOnce == phase = "sorting" /\ stack # <<>> /\ Leave

\* A plugin goes after those it depends on, but for those whose visit led to it.
VisitDone ==
  /\ phase = "sorting" /\ stack # <<>>
  /\ Needed(Top) \subseteq Visited
  /\ Leave

(***************************************************************************)
(* The start.                                                              *)
(***************************************************************************)

P == Head(todo)
At(s) == phase = "booting" /\ todo # <<>> /\ step = s /\ job = NoJob

\* The built-in plugin, then the others in their order; the models that are stored are
\* registered, unless their name is not one of a model.
BootStart ==
  /\ phase = "sorting" /\ stack = <<>> /\ Visited = Found
  /\ phase' = "booting" /\ todo' = <<0>> \o order /\ order' = <<>> /\ step' = "check"
  /\ rest' = {} /\ fresh' = {} /\ known' = inDb \ Misnamed /\ clean' = TRUE /\ UNCHANGED stack
  /\ UNCHANGED <<config, job, stored, edited, bounds>>

\* A plugin that is not to be updated and has its mark is skipped.
CheckInstalled ==
  /\ At("check")
  /\ IF noUpdate[P] /\ P \in marked
     THEN todo' = Tail(todo) /\ UNCHANGED <<step, rest>>
     ELSE step' = "components" /\ rest' = ShipsOf[P] /\ UNCHANGED todo
  /\ UNCHANGED <<config, phase, sort, fresh, known, job, stored, edited, clean, bounds>>

\* Broken variant of UpsertComponent: a plain insert, refused for what is there.
InsertComponent ==
  /\ At("components") /\ rest # {}
  /\ \E c \in rest :
       IF c \in inDb
       THEN phase' = "down" /\ todo' = <<>> /\ UNCHANGED <<rest, inDb, fresh>>
       ELSE /\ rest' = rest \ {c} /\ inDb' = inDb \cup {c} /\ fresh' = fresh \cup {c}
            /\ UNCHANGED <<phase, todo>>
  /\ UNCHANGED <<config, sort, step, known, job, dataOf, marked, menus, actions, edited, clean,
                 bounds>>

\* update_one with upsert, one component at a time.
UpsertComponent ==
  /\ At("components") /\ rest # {}
  /\ \E c \in rest :
       /\ rest' = rest \ {c}
       /\ inDb' = inDb \cup {c}
       /\ fresh' = IF c \in inDb THEN fresh ELSE fresh \cup {c}
  /\ UNCHANGED <<config, phase, sort, todo, step, known, job, dataOf, marked, menus, actions, edited,
                 clean, bounds>>

RegisterModels ==
  /\ At("components") /\ rest = {}
  /\ known' = known \cup ((fresh \cap ShipsOf[P]) \ Misnamed)
  /\ step' = IF automatic[P] THEN "needs" ELSE "data"
  /\ UNCHANGED <<config, phase, sort, todo, rest, fresh, job, stored, edited, clean, bounds>>

ActionsOf(c) == {a \in actions : a[1] = c}

\* Broken variant of NeedsActions: the components this start has inserted.
NeedsIfFresh(c) == c \in fresh

\* Broken variant of NeedsActions: all of them, the templates may have changed.
NeedsAlways(c) == TRUE

\* A component without a single action is taken for one never generated.
NeedsActions(c) == ActionsOf(c) = {}

FindNeeds ==
  /\ At("needs")
  /\ rest' = {c \in ShipsOf[P] : NeedsActions(c)}
  /\ step' = "generate"
  /\ UNCHANGED <<config, phase, sort, todo, fresh, known, job, stored, edited, clean, bounds>>

\* The templates are found, and the menu group is made if there is none.
BeginJob(c) ==
  /\ job' = [comp |-> c,
             left |-> IF 0 \in dataOf THEN [i \in 1 .. Templates |-> i] ELSE <<>>]
  /\ menus' = IF c \in Resources THEN menus ELSE menus \cup {c}

\* _create_menu_dashboard_for_component returns at once for them.
Skipped == Misnamed \cup NoModels

Generate ==
  /\ At("generate") /\ rest # {}
  /\ \E c \in rest :
       /\ rest' = rest \ {c}
       /\ IF c \in Skipped THEN UNCHANGED <<job, menus>> ELSE BeginJob(c)
  /\ UNCHANGED <<config, phase, sort, todo, step, fresh, known, inDb, dataOf, marked, actions, edited,
                 clean, bounds>>

\* The next action, written over one of the same name.
MakeAction ==
  /\ job # NoJob /\ job.left # <<>>
  /\ LET a == <<job.comp, Head(job.left)>> IN actions' = actions \cup {a} /\ edited' = edited \ {a}
  /\ job' = [job EXCEPT !.left = Tail(@)]
  /\ UNCHANGED <<config, phase, sort, todo, step, rest, fresh, known, inDb, dataOf, marked, menus,
                 clean, bounds>>

JobDone ==
  /\ job # NoJob /\ job.left = <<>>
  /\ job' = NoJob
  /\ UNCHANGED <<config, phase, sort, todo, step, rest, fresh, known, stored, edited, clean, bounds>>

\* The error of one component is logged, and the others go on.
JobFails ==
  /\ job # NoJob /\ faults < MaxFaults
  /\ faults' = faults + 1
  /\ job' = NoJob /\ clean' = FALSE
  /\ UNCHANGED <<config, phase, sort, todo, step, rest, fresh, known, stored, edited, crashes, edits>>

GenerateDone ==
  /\ At("generate") /\ rest = {}
  /\ step' = "data"
  /\ UNCHANGED <<config, phase, sort, todo, rest, fresh, known, job, stored, edited, clean, bounds>>

\* update_one with upsert of one of the actions that the plugin ships, whatever is there.
UpsertSeed ==
  /\ At("data")
  /\ \E a \in SeedsOf[P] : actions' = actions \cup {a} /\ edited' = edited \ {a}
  /\ UNCHANGED <<config, phase, sort, todo, step, rest, fresh, known, job, inDb, dataOf, marked, menus,
                 clean, bounds>>

\* Its other data, when its actions have been written.
UpsertData ==
  /\ At("data") /\ SeedsOf[P] \subseteq actions \ edited
  /\ dataOf' = dataOf \cup {P}
  /\ step' = "mark"
  /\ UNCHANGED <<config, phase, sort, todo, rest, fresh, known, job, inDb, marked, menus, actions,
                 edited, clean, bounds>>

MarkInstalled ==
  /\ At("mark")
  /\ marked' = marked \cup {P}
  /\ todo' = Tail(todo) /\ step' = "check"
  /\ UNCHANGED <<config, phase, sort, rest, fresh, known, job, inDb, dataOf, menus, actions, edited,
                 clean, bounds>>

\* Then the rules of every component are synchronised (RulesSync), and requests served.
BootDone ==
  /\ phase = "booting" /\ todo = <<>>
  /\ phase' = "up"
  /\ UNCHANGED <<config, sort, todo, step, rest, fresh, known, job, stored, edited, clean, bounds>>

\* The process dies, or a call fails that the start does not survive.
Crash ==
  /\ phase # "down" /\ crashes < MaxCrashes
  /\ crashes' = crashes + 1
  /\ phase' = "down" /\ todo' = <<>> /\ job' = NoJob /\ stack' = <<>> /\ order' = <<>>
  /\ UNCHANGED <<config, step, rest, fresh, known, stored, edited, clean, faults, edits>>

(***************************************************************************)
(* The administrator.                                                      *)
(***************************************************************************)

Admin == phase = "up" /\ job = NoJob /\ edits < MaxEdits /\ edits' = edits + 1

ChangeAction(a) ==
  /\ Admin /\ a \in actions
  /\ edited' = edited \cup {a}
  /\ UNCHANGED <<config, run, stored, clean, crashes, faults>>

RemoveAction(a) ==
  /\ Admin /\ a \in actions
  /\ actions' = actions \ {a} /\ edited' = edited \ {a}
  /\ UNCHANGED <<config, run, inDb, dataOf, marked, menus, clean, crashes, faults>>

\* A save of the component that asks for its menu: all its actions, again.
AskForMenu(c) ==
  /\ Admin /\ c \in inDb \ Skipped
  /\ BeginJob(c)
  /\ UNCHANGED <<config, phase, sort, todo, step, rest, fresh, known, inDb, dataOf, marked, actions,
                 edited, clean, crashes, faults>>

BootStep ==
  \/ Discover \/ VisitNext \/ VisitDependency \/ VisitDone
  \/ BootStart \/ CheckInstalled \/ UpsertComponent \/ RegisterModels \/ FindNeeds
  \/ Generate \/ MakeAction \/ JobDone \/ GenerateDone \/ UpsertSeed \/ UpsertData \/ MarkInstalled
  \/ BootDone

InstallNext ==
  \/ BootStep
  \/ JobFails \/ Crash
  \/ \E a \in Actions : ChangeAction(a) \/ RemoveAction(a)
  \/ \E c \in Comps : AskForMenu(c)

\* The container is started again whenever it stops, and a start goes on.
InstallFairness == WF_installVars(BootStep)

InstallSpec == InstallInit /\ [][InstallNext]_installVars /\ InstallFairness

(***************************************************************************)
(* Properties.                                                             *)
(***************************************************************************)

\* The plugins q leads to, itself included if it is on a cycle.
Reach(q) ==
  {p \in Found : \A C \in SUBSET Found :
     Needed(q) \subseteq C /\ (\A r \in C : Needed(r) \subseteq C) => p \in C}

\* A plugin is installed after those it depends on that are there, whatever their names,
\* unless they depend on each other (_topo_sort).
DependenciesFirst ==
  phase = "booting" /\ todo # <<>> /\ P # 0 =>
    \A q \in Needed(P) : P \in Reach(q) \/ \A i \in 1 .. Len(todo) : todo[i] # q

\* No start, after no crash, generates an action again that an administrator has edited
\* (_install_plugin: "non tocca MAI un model gia' provisionato"): it is written over only
\* by the plugin that ships it among its data.
EditsKept ==
  [][phase = "booting" =>
       edited \ edited' \subseteq IF At("data") THEN SeedsOf[P] ELSE {}]_installVars

\* A start whose calls succeed leaves every component of the plugins it went through
\* registered and with an action, also the components an earlier start had inserted before
\* it died (_components_needing_menu_dashboard), but for those that are to have none.
StartProvides ==
  [][BootDone /\ clean =>
       \A p \in Found : automatic[p] /\ (noUpdate[p] => faults = 0 /\ edits = 0) =>
         \A c \in ShipsOf[p] :
           c \in known \cup Misnamed /\ (ActionsOf(c) # {} \/ c \in Skipped)]_installVars

\* Whatever step a start dies at, a later one goes through (_upsert_all).
StartsInTheEnd == []<>(phase = "up")
=============================================================================
