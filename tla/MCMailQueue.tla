---------------------------- MODULE MCMailQueue ----------------------------
(* Small instances of MailQueue. *)
EXTENDS MailQueue, TLC

CONSTANTS m1, m2, w1, w2

MCBudget(blip, smtp, crash, requeue) ==
  [blip |-> blip, smtp |-> smtp, crash |-> crash, requeue |-> requeue]

\* m1 has no app_code: both workers see it; m2 is the first worker's own.
Shared == (w1 :> {m1, m2} @@ w2 :> {m1})
OneOfEach == MCBudget(1, 1, 1, 1)
=============================================================================
