------------------------ MODULE MCCalendarScheduler ------------------------
(* Small instances of CalendarScheduler: tasks, settings and budgets. *)
EXTENDS CalendarScheduler, TLC

CONSTANTS t1, t2, r1, r2

Setting(active, action, expr, periodico, task) ==
  [active |-> active, action |-> action, expr |-> expr, periodico |-> periodico, task |-> task]

Periodic == Setting(TRUE, "add", "cron", TRUE, "action")
Paused == Setting(TRUE, "pause", "cron", TRUE, "action")
Broken == Setting(TRUE, "add", "bad", TRUE, "action")
Cleaner == Setting(TRUE, "add", "cron", TRUE, "clean_expired_deleted")
NoAction == Setting(TRUE, "add", "date", FALSE, "none")

MCBudget(crash, edit, delete, man, fault) ==
  [crash |-> crash, edit |-> edit, delete |-> delete, manual |-> man, fault |-> fault]

\* Recovery: one periodic task, timeouts at will, the worker crashes once.
OnePeriodic == [{t1} -> {Periodic}]
OneCrash == MCBudget(1, 0, 0, 0, 0)

\* Switching off: a user edits or deletes a task, or posts a run of it, while one fault hits
\* anything.
StartAny == [{t1} -> {Cleaner, NoAction}]
SwitchOff == {Paused, Broken}
OneOfEach == MCBudget(0, 1, 1, 1, 1)

NoSettings == {}
=============================================================================
