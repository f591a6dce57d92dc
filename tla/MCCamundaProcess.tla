-------------------------- MODULE MCCamundaProcess --------------------------
(* A small instance of CamundaProcess: two user tasks with an external task between
   them, and a batch of one record. *)
EXTENDS CamundaProcess

CONSTANTS n1

MCFlow == <<"user", "job", "user">>
MCBatch == <<n1>>
=============================================================================
