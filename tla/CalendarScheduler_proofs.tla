---------------------- MODULE CalendarScheduler_proofs ----------------------
(***************************************************************************)
(* Proofs about CalendarScheduler, for every set of tasks, runs, settings  *)
(* and every budget.  IInv strengthens the safety invariants with what the *)
(* program counters say of the other variables.                            *)
(***************************************************************************)
EXTENDS CalendarScheduler, TLAPS

\* An actor that is at work on a task has one, and one that is about to write
\* back a copy holds a record.
Pointers ==
  /\ syncPc \in {"nextRead", "nextWrite", "errRead", "errWrite"} => syncTask \in Tasks
  /\ syncPc \in {"nextWrite", "errWrite"} => syncCopy \in Record
  /\ \A r \in Runs :
       /\ runPc[r] # "idle" => runTask[r] \in Tasks
       /\ runPc[r] \in {"lockWrite", "nextWrite", "relWrite"} => runCopy[r] \in Record
       /\ execPc[r] # "none" => execTask[r] \in Tasks
       /\ execPc[r] \in {"acting", "write"} => execCopy[r] \in Record

\* A run waits for the execution of its own task.
WaitsForItsTask == \A r \in Runs : runPc[r] = "http" => execTask[r] = runTask[r]

IInv ==
  /\ TypeOK
  /\ Pointers
  /\ OneRunPerTask
  /\ WaitsForItsTask
  /\ OutcomeStoredBeforeNext

-----------------------------------------------------------------------------
(* The store: what is written is a record. *)

LEMMA NewRecordType ==
  ASSUME NEW s \in AllSettings PROVE NewRecord(s) \in Record
BY DEF AllSettings, NewRecord, Record, Statos

LEMMA WithType ==
  ASSUME NEW c \in Record, NEW s \in AllSettings PROVE With(c, s) \in Record
BY DEF AllSettings, With, Record

LEMMA LockType ==
  ASSUME NEW c \in Record, NEW l \in Runs \cup {NoRun}
  PROVE  [c EXCEPT !.lock = l] \in Record
BY DEF Record

LEMMA OutcomeType ==
  ASSUME NEW c \in Record, NEW s \in Statos, NEW b \in BOOLEAN
  PROVE  /\ [c EXCEPT !.stato = s, !.active = b] \in Record
         /\ c.active \in BOOLEAN
BY DEF Record

LEMMA DeletedType ==
  ASSUME NEW c \in Record PROVE [c EXCEPT !.deleted = TRUE] \in Record
BY DEF Record

LEMMA PlanType == ASSUME NEW c \in Record PROVE PlanFor(c) \in Plans
BY DEF PlanFor, Plans, Record, Triggers, Actions

LEMMA NewJobType ==
  ASSUME TypeOK, NEW t \in Tasks PROVE NewJob(t) \in Job
<1>1. /\ job[t] \in Job /\ NoJob \in Job
      /\ \A b \in BOOLEAN : [job[t] EXCEPT !.paused = b] \in Job
  BY DEF TypeOK, Job, NoJob
<1> QED BY <1>1 DEF NewJob

LEMMA UpdateType ==
  ASSUME TypeOK, NEW t \in Tasks, NEW c \in Record, Update(t, c)
  PROVE  rec' \in [Tasks -> MaybeRecord]
BY DEF TypeOK, Update, MaybeRecord

LEMMA TypeStep ==
  ASSUME TypeOK, Pointers, Next PROVE TypeOK' /\ Pointers'
<1> USE ValuesAssumption, SettingsAssumption DEF TypeOK, Pointers, MaybeRecord, Events
<1>1. ASSUME Start PROVE TypeOK' /\ Pointers'
  BY <1>1 DEF Start, recVars, runVars, execVars
<1>2. ASSUME Crash PROVE TypeOK' /\ Pointers'
  BY <1>2 DEF Crash, Live, Spend, recVars, Plans
<1>3. ASSUME ListTasks PROVE TypeOK' /\ Pointers'
  BY <1>3, PlanType DEF ListTasks, Listed, recVars, runVars, execVars, Plans
<1>4. ASSUME PassDone PROVE TypeOK' /\ Pointers'
  BY <1>4 DEF PassDone, recVars, runVars, execVars, Plans
<1>5. ASSUME NEW t \in Tasks, ApplyToJob(t) PROVE TypeOK' /\ Pointers'
  BY <1>5, NewJobType DEF ApplyToJob, runVars, execVars
<1>6. ASSUME NEW t \in Tasks, Register(t) PROVE TypeOK' /\ Pointers'
  BY <1>6 DEF Register, runVars, execVars, Job, NoJob, Triggers
<1>7. ASSUME NEW t \in Tasks, ConfigError(t) PROVE TypeOK' /\ Pointers'
  BY <1>7 DEF ConfigError, runVars, execVars, Job, NoJob, Triggers
<1>8. ASSUME SyncRead PROVE TypeOK' /\ Pointers'
  BY <1>8 DEF SyncRead, BackToLoop, recVars, runVars, execVars
<1>9. ASSUME SyncNextWrite PROVE TypeOK' /\ Pointers'
  BY <1>9, UpdateType DEF SyncNextWrite, BackToLoop, runVars, execVars
<1>10. ASSUME SyncErrWrite PROVE TypeOK' /\ Pointers'
  BY <1>10, UpdateType, OutcomeType DEF SyncErrWrite, BackToLoop, runVars, execVars, Statos
<1>11. ASSUME SyncFault PROVE TypeOK' /\ Pointers'
  BY <1>11 DEF SyncFault, BackToLoop, Spend, recVars, runVars, execVars
<1>12. ASSUME NEW t \in Tasks, NEW r \in Runs, Fire(t, r) PROVE TypeOK' /\ Pointers'
  BY <1>12 DEF Fire, AfterDue, Due, Fresh, LockOf, Up, syncVars, execVars, Job, NoJob, Triggers
<1>13. ASSUME NEW t \in Tasks, Missed(t) PROVE TypeOK' /\ Pointers'
  BY <1>13 DEF Missed, AfterDue, Due, Up, syncVars, runVars, execVars, Job, NoJob, Triggers
<1>14. ASSUME NEW r \in Runs, LockRead(r) PROVE TypeOK' /\ Pointers'
  BY <1>14 DEF LockRead, EndRun, GoTo, recVars, syncVars, execVars
<1>15. ASSUME NEW r \in Runs, LockWrite(r) PROVE TypeOK' /\ Pointers'
  BY <1>15, UpdateType, LockType DEF LockWrite, GoTo, syncVars, execVars
<1>16. ASSUME NEW r \in Runs, Call(r) PROVE TypeOK' /\ Pointers'
  BY <1>16 DEF Call, GoTo, recVars, syncVars
<1>17. ASSUME NEW r \in Runs, Answer(r) PROVE TypeOK' /\ Pointers'
  BY <1>17 DEF Answer, Answered, Forget, GoTo, recVars, syncVars
<1>18. ASSUME NEW r \in Runs, Timeout(r) PROVE TypeOK' /\ Pointers'
  BY <1>18 DEF Timeout, Answered, Forget, GoTo, recVars, syncVars
<1>19. ASSUME NEW r \in Runs, RunNextRead(r) PROVE TypeOK' /\ Pointers'
  BY <1>19 DEF RunNextRead, GoTo, recVars, syncVars, execVars
<1>20. ASSUME NEW r \in Runs, RunNextWrite(r) PROVE TypeOK' /\ Pointers'
  BY <1>20, UpdateType DEF RunNextWrite, GoTo, syncVars, execVars
<1>21. ASSUME NEW r \in Runs, RelRead(r) PROVE TypeOK' /\ Pointers'
  BY <1>21 DEF RelRead, EndRun, GoTo, recVars, syncVars, execVars
<1>22. ASSUME NEW r \in Runs, RelWrite(r) PROVE TypeOK' /\ Pointers'
  BY <1>22, UpdateType, LockType DEF RelWrite, EndRun, syncVars, execVars
<1>23. ASSUME NEW r \in Runs, RunFault(r) PROVE TypeOK' /\ Pointers'
  <2>1. CASE runPc[r] \in {"lockRead", "lockWrite"} /\ EndRun(r)
    <3>1. rec' \in [Tasks -> MaybeRecord]
      <4>1. CASE UNCHANGED rec
        BY <4>1
      <4>2. CASE runPc[r] = "lockWrite" /\ Update(runTask[r], [runCopy[r] EXCEPT !.lock = r])
        BY <4>2, UpdateType, LockType
      <4> QED BY <1>23, <2>1, <4>1, <4>2 DEF RunFault
    <3> QED BY <1>23, <2>1, <3>1 DEF RunFault, EndRun, Spend, syncVars, execVars
  <2>2. CASE /\ runPc[r] \in {"call", "nextRead", "nextWrite"}
             /\ GoTo(r, "relRead", NoRec) /\ UNCHANGED rec
    BY <1>23, <2>2 DEF RunFault, GoTo, Spend, syncVars, execVars
  <2>3. CASE runPc[r] \in {"relRead", "relWrite"} /\ EndRun(r) /\ UNCHANGED rec
    BY <1>23, <2>3 DEF RunFault, EndRun, Spend, syncVars, execVars
  <2> QED BY <1>23, <2>1, <2>2, <2>3 DEF RunFault
<1>24. ASSUME NEW r \in Runs, LeaseExpires(r) PROVE TypeOK' /\ Pointers'
  BY <1>24 DEF LeaseExpires, LockOf, recVars, syncVars, runVars, execVars
<1>25. ASSUME NEW r \in Runs, ExecRead(r) PROVE TypeOK' /\ Pointers'
  BY <1>25 DEF ExecRead, ExecGoTo, Respond, recVars, syncVars, runVars, Statos
<1>26. ASSUME NEW r \in Runs, ExecAct(r) PROVE TypeOK' /\ Pointers'
  BY <1>26 DEF ExecAct, Purge, ExecGoTo, Listed, syncVars, runVars, Statos, Outcome
<1>27. ASSUME NEW r \in Runs, ExecWrite(r) PROVE TypeOK' /\ Pointers'
  BY <1>27, OutcomeType DEF ExecWrite, Respond, syncVars, runVars, Statos
<1>28. ASSUME NEW r \in Runs, ExecFault(r) PROVE TypeOK' /\ Pointers'
  BY <1>28 DEF ExecFault, ExecGoTo, Respond, Spend, recVars, syncVars, runVars, Statos
<1>29. ASSUME NEW t \in Tasks, NEW x \in Settings, UserEdit(t, x) PROVE TypeOK' /\ Pointers'
  BY <1>29, WithType DEF UserEdit, Spend, syncVars, runVars, execVars
<1>30. ASSUME NEW t \in Tasks, UserDelete(t) PROVE TypeOK' /\ Pointers'
  BY <1>30, DeletedType DEF UserDelete, Listed, Spend, syncVars, runVars, execVars
<1>31. ASSUME NEW t \in Tasks, NEW r \in Runs, ManualRun(t, r) PROVE TypeOK' /\ Pointers'
  BY <1>31 DEF ManualRun, Fresh, LockOf, Spend, recVars, syncVars, runVars
<1> QED BY <1>1, <1>2, <1>3, <1>4, <1>5, <1>6, <1>7, <1>8, <1>9, <1>10, <1>11, <1>12, <1>13, <1>14, <1>15, <1>16, <1>17, <1>18, <1>19, <1>20, <1>21, <1>22, <1>23, <1>24, <1>25, <1>26, <1>27, <1>28, <1>29, <1>30, <1>31 DEF Next, SyncStep, RunStep

-----------------------------------------------------------------------------
(* The three facts about runs, each preserved by every step. *)

LEMMA MutexStep ==
  ASSUME TypeOK, Pointers, OneRunPerTask, Next PROVE OneRunPerTask'
<1> USE DEF TypeOK, Pointers, OneRunPerTask
<1>1. ASSUME NEW t \in Tasks, NEW r \in Runs, Fire(t, r) PROVE OneRunPerTask'
  \* max_instances=1: the new run finds no other of its task.
  BY <1>1 DEF Fire, NoInstance
<1>2. CASE UNCHANGED <<runPc, runTask>>
  BY <1>2
<1>3. CASE Crash
  BY <1>3 DEF Crash
<1>4. ASSUME NEW r \in Runs, EndRun(r) PROVE OneRunPerTask'
  BY <1>4 DEF EndRun
<1>5. ASSUME NEW r \in Runs, NEW pc, NEW c, runPc[r] # "idle", GoTo(r, pc, c)
      PROVE  OneRunPerTask'
  BY <1>5 DEF GoTo
<1>6. ASSUME NEW r \in Runs, RunStep(r) \/ RunFault(r) PROVE OneRunPerTask'
  BY <1>6, <1>4, <1>5 DEF RunStep, LockRead, LockWrite, Call, Answer, Timeout, RunNextRead,
     RunNextWrite, RelRead, RelWrite, RunFault
<1>7. Next => \/ UNCHANGED <<runPc, runTask>> \/ Crash
              \/ \E t \in Tasks, r \in Runs : Fire(t, r)
              \/ \E r \in Runs : RunStep(r) \/ RunFault(r)
  BY DEF Next, SyncStep, Start, ListTasks, PassDone, ApplyToJob, Register, ConfigError,
     SyncRead, SyncNextWrite, SyncErrWrite, SyncFault, Missed, LeaseExpires, ExecRead,
     ExecAct, ExecWrite, ExecFault, UserEdit, UserDelete, ManualRun, runVars
<1> QED BY <1>1, <1>2, <1>3, <1>6, <1>7

LEMMA CallStep ==
  ASSUME TypeOK, WaitsForItsTask, OutcomeStoredBeforeNext, Next
  PROVE  WaitsForItsTask' /\ OutcomeStoredBeforeNext'
<1> DEFINE Goal == WaitsForItsTask' /\ OutcomeStoredBeforeNext'
<1> USE DEF TypeOK, WaitsForItsTask, OutcomeStoredBeforeNext, Live
<1>1. CASE UNCHANGED <<runPc, runTask, execPc, execTask>>
  BY <1>1
<1>2. CASE Crash
  BY <1>2 DEF Crash
<1>3. ASSUME NEW t \in Tasks, NEW r \in Runs, Fire(t, r) PROVE Goal
  BY <1>3 DEF Fire, Fresh, execVars
<1>4. ASSUME NEW t \in Tasks, NEW r \in Runs, ManualRun(t, r) PROVE Goal
  BY <1>4 DEF ManualRun, Fresh, runVars
<1>5. ASSUME NEW r \in Runs, RunStep(r) \/ RunFault(r) PROVE Goal
  <2>1. CASE LockRead(r) \/ LockWrite(r)
    BY <2>1 DEF LockRead, LockWrite, EndRun, GoTo, execVars
  <2>2. CASE Call(r)
    BY <2>2 DEF Call, GoTo
  <2>3. CASE Answer(r)
    BY <2>3 DEF Answer, GoTo, Forget
  <2>4. CASE Timeout(r)
    BY <2>4 DEF Timeout, GoTo, Forget
  <2>5. CASE RunNextRead(r) \/ RunNextWrite(r)
    BY <2>5 DEF RunNextRead, RunNextWrite, GoTo, execVars
  <2>6. CASE RelRead(r) \/ RelWrite(r)
    BY <2>6 DEF RelRead, RelWrite, EndRun, GoTo, execVars
  <2>7. CASE RunFault(r)
    BY <2>7 DEF RunFault, EndRun, GoTo, execVars
  <2> QED BY <1>5, <2>1, <2>2, <2>3, <2>4, <2>5, <2>6, <2>7 DEF RunStep
<1>6. ASSUME NEW r \in Runs, ExecRead(r) \/ ExecAct(r) \/ ExecWrite(r) \/ ExecFault(r)
      PROVE  Goal
  <2>1. UNCHANGED <<runPc, runTask>> /\ Live(r)
    BY <1>6 DEF ExecRead, ExecAct, ExecWrite, ExecFault, runVars
  <2>2. ASSUME NEW pc, NEW c, NEW out, ExecGoTo(r, pc, c, out) PROVE Goal
    BY <2>1, <2>2 DEF ExecGoTo
  <2>3. ASSUME NEW pc \in {"answered", "failed"}, Respond(r, pc) PROVE Goal
    BY <2>1, <2>3 DEF Respond
  <2> QED BY <1>6, <2>2, <2>3 DEF ExecRead, ExecAct, ExecWrite, ExecFault
<1>7. Next => \/ UNCHANGED <<runPc, runTask, execPc, execTask>> \/ Crash
              \/ \E t \in Tasks, r \in Runs : Fire(t, r) \/ ManualRun(t, r)
              \/ \E r \in Runs : RunStep(r) \/ RunFault(r)
              \/ \E r \in Runs : ExecRead(r) \/ ExecAct(r) \/ ExecWrite(r) \/ ExecFault(r)
  BY DEF Next, SyncStep, Start, ListTasks, PassDone, ApplyToJob, Register, ConfigError,
     SyncRead, SyncNextWrite, SyncErrWrite, SyncFault, Missed, LeaseExpires,
     UserEdit, UserDelete, runVars, execVars
<1> QED BY <1>1, <1>2, <1>3, <1>4, <1>5, <1>6, <1>7

-----------------------------------------------------------------------------
(* The invariant holds. *)

LEMMA InitIInv == Init => IInv
<1> SUFFICES ASSUME Init PROVE IInv
  OBVIOUS
<1>1. PICK f \in FirstSettings : rec = [t \in Tasks |-> NewRecord(f[t])]
  BY DEF Init
<1>2. rec \in [Tasks -> MaybeRecord]
  BY <1>1, NewRecordType, SettingsAssumption DEF MaybeRecord
<1>3. TypeOK
  BY <1>2, BudgetAssumption
     DEF Init, TypeOK, Job, NoJob, Plans, MaybeRecord, Statos
<1>4. Pointers /\ OneRunPerTask /\ WaitsForItsTask /\ OutcomeStoredBeforeNext
  BY DEF Init, Pointers, OneRunPerTask, WaitsForItsTask, OutcomeStoredBeforeNext, Live
<1> QED BY <1>3, <1>4 DEF IInv

LEMMA NextIInv == IInv /\ [Next]_vars => IInv'
<1> SUFFICES ASSUME IInv, [Next]_vars PROVE IInv'
  OBVIOUS
<1>1. CASE Next
  BY <1>1, TypeStep, MutexStep, CallStep DEF IInv
<1>2. CASE UNCHANGED vars
  BY <1>2 DEF vars, recVars, syncVars, runVars, execVars, IInv, TypeOK, Pointers,
     OneRunPerTask, WaitsForItsTask, OutcomeStoredBeforeNext, Live
<1> QED BY <1>1, <1>2

LEMMA Invariance == Spec => []IInv
BY InitIInv, NextIInv, PTL DEF Spec

\* Every variable keeps its type, whatever is interleaved.
THEOREM TypeCorrect == Spec => []TypeOK
BY Invariance, PTL DEF IInv

\* max_instances=1: no two instances of execute_task work on the same task.
THEOREM OneRun == Spec => []OneRunPerTask
BY Invariance, PTL DEF IInv

\* A run writes `next` only when the endpoint has stored the outcome of that run.
THEOREM OutcomeFirst == Spec => []OutcomeStoredBeforeNext
BY Invariance, PTL DEF IInv

\* Two executions the scheduler asked for and still waits for are never of the same
\* task: an overlap takes a timeout, a fault, a crash or a run posted by a user.
THEOREM NoOverlapUnlessAbandoned == Spec => []OverlapNeedsAbandonment
<1>1. IInv => OverlapNeedsAbandonment
  BY DEF IInv, TypeOK, OneRunPerTask, WaitsForItsTask, OverlapNeedsAbandonment, Attended
<1> QED BY Invariance, <1>1, PTL
=============================================================================
