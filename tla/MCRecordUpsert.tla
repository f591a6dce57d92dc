--------------------------- MODULE MCRecordUpsert ---------------------------
(* Small instances of RecordUpsert. *)
EXTENDS RecordUpsert, TLC

CONSTANTS adm, ed, op,  \* an administrator, an editor, an operator
          staff,        \* the group of the first two
          sec, gdpr,    \* a field with write policies, one that not all users see
          v0, v1

Policy(u, what, f, effect) == [user |-> u, op |-> what, field |-> f, effect |-> effect]
Filter(own, where) == [own |-> own, where |-> where]

\* By f_rule and the policies, only an owner or the editor may update sec; the operator
\* is shown gdpr in its own records only, the editor, who is denied reading it, in none,
\* and neither gives it a value in a new one; the editor may not name the owner of a new
\* record.  The administrator's list of updates allowed by name leaves sec out.
MCGrants == {ed, op} \X {"read", "create", "update"}
MCGroupsOf == adm :> {staff} @@ ed :> {staff} @@ op :> {}
MCFieldRules ==
  sec :> [read |-> {}, write |-> {staff, OwnerSentinel}] @@ gdpr :> [read |-> {staff}, write |-> {}]
MCStoredPolicies ==
  {Policy(op, "create", gdpr, "deny"), Policy(ed, "create", gdpr, "deny"),
   Policy(ed, "read", gdpr, "deny"), Policy(adm, "update", gdpr, "allow"),
   Policy(ed, "create", OwnerField, "deny")}

\* The editor works on its own records; the operator on all, but once gdpr is v1 it
\* may only read those of others.
MCRules ==
  {[users |-> {ed}, filter |-> Filter(TRUE, {}), ops |-> {"read", "update"}],
   [users |-> {op}, filter |-> Filter(FALSE, {}), ops |-> {"read"}],
   [users |-> {op}, filter |-> Filter(FALSE, {<<gdpr, v0>>}), ops |-> {"update"}],
   [users |-> {op}, filter |-> Filter(TRUE, {}), ops |-> {"update"}]}
MCReveals == {[field |-> gdpr, filter |-> Filter(TRUE, {})]}

New(o, a, b) == [owner |-> o, val |-> (sec :> a @@ gdpr :> b)]
MCNewData == {New(NoUser, v0, v0), New(ed, v1, v0)}
MCHookData == {New(op, v1, v1)}
\* The policies above leave no way around the field ACL.
ASSUME NoWayAround ==
  \A f \in Fields : ~CanMask(f) /\ \A u \in Users : Denied(u, "update", f) => ~CanEmpty(u, f)

RequestSymmetry == Permutations(Requests)
=============================================================================
