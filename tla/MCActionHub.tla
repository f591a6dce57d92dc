---------------------------- MODULE MCActionHub ----------------------------
(* A small instance of ActionHub: one session that may update one model and create and
   delete in the other, and an action that is edited into any of a few others, one of
   them on components. *)
EXTENDS ActionHub

CONSTANTS s1, m1, m2, n1, n2

MCRights == [s \in Sessions |-> [m \in Models |->
              IF m = m1 THEN {"read", "update"} ELSE {"read", "create", "delete"}]]
MCCopyName == [n \in Names |-> n2]
MCAction(kind, m, writes) ==
  [kind |-> kind, form |-> TRUE, component |-> kind = "delete" /\ m = Component, model |-> m,
   writes |-> writes, seenBy |-> Sessions]
MCActionVersions ==
  {MCAction("save", m1, FALSE), MCAction("delete", m1, TRUE), MCAction("delete", m2, FALSE),
   MCAction("copy", m2, FALSE), MCAction("window", NoModel, FALSE), Missing}
============================================================================
