---------------------------- MODULE RecordUpsert ----------------------------
(***************************************************************************)
(* Service.upsert, the one door through which records are written, and     *)
(* load_record, which gives a client the form it sends back: the gates on  *)
(* the model, the record and the fields, the values put back because the   *)
(* writer may not write or not see them, and the owner of a new record.    *)
(*                                                                         *)
(* One model.  Requests interleave at their awaits; the rules do not       *)
(* change.  A user stands for a session: its uid, groups and is_admin, so  *)
(* that rules and stored policies are given as those that apply to the     *)
(* user.  A read of the rules may fail; that of the stored policies is     *)
(* taken to succeed.                                                       *)
(***************************************************************************)
EXTENDS Integers, FiniteSets

CONSTANTS
  Users, NoUser,    \* NoUser: a payload without owner_uid
  Admins,
  Names, NoName,    \* the rec_names of the model
  Fields,           \* its fields, but for owner_uid
  Values, Default,  \* Default: what a field that no payload gave a value holds
  Mask, Missing,    \* None, what the client gets of a field it does not see; a key left out
  Absent,           \* no record of that name
  Requests,
  Grants,           \* model_groups_rule: pairs of a user and an operation
  RecordRules,      \* model_fields_rule, rule_type = "record"
  StoredPolicies,   \* the records of field_acl_policy
  GroupsOf,         \* the groups of each user
  FieldRules,       \* f_rule of each field: the groups that read, and that write it
  Reveals,          \* f_rule_cond: the fields shown when a filter matches
  NewData,          \* the payloads clients send for a new record
  HookData,         \* the payloads a before_write webhook puts in place
  PartialForms      \* TRUE if a client may leave out a field it was shown

OwnerField == "owner_uid"
OwnerSentinel == "$owner"
Wild == "*"
Shown == Values \cup {Mask}
Record == [owner : Users, val : [Fields -> Shown]]
Data == [owner : Users \cup {NoUser}, val : [Fields -> Shown \cup {Missing}]]

ASSUME MarksAssumption ==
  /\ Default \in Values
  /\ Mask \notin Values /\ Missing \notin Shown
  /\ NoUser \notin Users /\ NoName \notin Names /\ Absent \notin Record
  /\ Fields \cap {OwnerField, Wild} = {}
ASSUME PayloadsAssumption ==
  /\ NewData \cup HookData \subseteq Data
  /\ \A d \in NewData \cup HookData, f \in Fields : d.val[f] # Mask
ASSUME PartialAssumption == PartialForms \in BOOLEAN

VARIABLES
  store,   \* Mongo: the record of each name
  madeBy,  \* history: who inserted it
  call     \* the locals of each request

vars == <<store, madeBy, call>>

NoCall == [pc |-> "idle", user |-> NoUser, name |-> NoName, take |-> TRUE,
           data |-> [owner |-> NoUser, val |-> [f \in Fields |-> Missing]],
           op |-> "none", existing |-> Absent, incoming |-> NoUser]

Call == [pc : {"idle", "form", "lookup", "gate", "hook", "acl", "owner", "write"},
         user : Users \cup {NoUser}, name : Names \cup {NoName}, take : BOOLEAN,
         data : Data, op : {"none", "create", "update"},
         existing : Record \cup {Absent}, incoming : Users \cup {NoUser}]

TypeOK ==
  /\ store \in [Names -> Record \cup {Absent}]
  /\ madeBy \in [Names -> Users \cup {NoUser}]
  /\ call \in [Requests -> Call]
  /\ \A n \in Names : store[n] = Absent <=> madeBy[n] = NoUser

Init ==
  /\ store = [n \in Names |-> Absent]
  /\ madeBy = [n \in Names |-> NoUser]
  /\ call = [p \in Requests |-> NoCall]

(***************************************************************************)
(* The rules.                                                              *)
(***************************************************************************)

\* What reading the rows of the model gives: a failure grants nothing.
GrantsRead == {Grants, {}}

\* model_group_access: admins pass, the others need a row that grants it.
MayDo(grants, u, op) == u \in Admins \/ <<u, op>> \in grants

\* _record_matches_filters, for filters on owner_uid = user.uid and on field values.
Matches(filter, u, rec) ==
  /\ filter.own => rec.owner = u
  /\ \A c \in filter.where : rec.val[c[1]] = c[2]

\* record_rule_access: the union of the rules that match; no rules, no limits.
RuleAllows(rules, u, rec, op) ==
  \/ rules = {}
  \/ \E r \in rules : op \in r.ops /\ Matches(r.filter, u, rec)

RulesOf(u) == {r \in RecordRules : u \in r.users}

\* What reading them gives: after a failure, and for a model taken to be sys because its
\* component could not be read, there are none.
RulesRead(u) == {RulesOf(u), {}}

\* f_rule: a group that reads or writes the field leaves the others out.
LeftOut(u, groups) == groups # {} /\ GroupsOf[u] \cap groups = {}

\* $owner is not a group: it gives the owner of the record the right to write.
OwnerWrites == {f \in Fields : OwnerSentinel \in FieldRules[f].write}

\* Who does not read a field gets its mask; who does not write it is denied updates,
\* never creates.
RulePolicies ==
  UNION {{[user |-> u, op |-> "read", field |-> f, effect |-> "obfuscate"] :
            f \in {g \in Fields : LeftOut(u, FieldRules[g].read)}}
         \cup
         {[user |-> u, op |-> "update", field |-> f, effect |-> "deny"] :
            f \in {g \in Fields : LeftOut(u, FieldRules[g].write \ {OwnerSentinel})}}
         : u \in Users}

Policies == StoredPolicies \cup RulePolicies
PoliciesOf(u, op) == {c \in Policies : c.user = u /\ c.op = op}
Covers(c, f) == c.field \in {f, Wild}

\* explicit_allow_fields and denied_fields: a deny wins, and as soon as one field is
\* allowed by name the others are denied.
Allowed(u, op, f) == \E c \in PoliciesOf(u, op) : c.effect = "allow" /\ Covers(c, f)
Denied(u, op, f) ==
  \/ \E c \in PoliciesOf(u, op) : c.effect = "deny" /\ Covers(c, f)
  \/ (\E c \in PoliciesOf(u, op) : c.effect = "allow") /\ ~Allowed(u, op, f)

\* read_masks, and the obfuscated fields that f_rule_cond shows on this record.
ReadMask(u, effect) == {c.field : c \in {d \in PoliciesOf(u, "read") : d.effect = effect}}
Revealed(u, rec) ==
  {f \in ReadMask(u, "obfuscate") :
     \E r \in Reveals : r.field = f /\ Matches(r.filter, u, rec)}

Unread(u, f) == {f, Wild} \cap ReadMask(u, "deny") # {}
Hidden(u, f) == Unread(u, f) \/ f \in ReadMask(u, "obfuscate")

\* apply_read and apply_field_rule_conditions: what load_record answers.  It reads an
\* instance of the model, not a dict, so that a denied field is not removed: like an
\* obfuscated one it is set to None, and "*" sets every field to None.
View(u, rec) ==
  [owner |-> IF Unread(u, OwnerField) THEN NoUser ELSE rec.owner,
   val |-> [f \in Fields |->
     IF Hidden(u, f) /\ f \notin Revealed(u, rec) THEN Mask ELSE rec.val[f]]]

(***************************************************************************)
(* What ApplyFieldAcl puts back.                                           *)
(***************************************************************************)

\* The owner of the stored record may write the fields with $owner.
OwnerOverride(c) ==
  IF c.op = "update" /\ c.existing.owner = c.user THEN OwnerWrites ELSE {}

\* enforce_write_acl: the keys of the payload that the user may not write.
DeniedFields(c) ==
  {f \in Fields : c.data.val[f] # Missing /\ Denied(c.user, c.op, f)} \ OwnerOverride(c)

\* Broken variant of BlindFields: an obfuscated field is not protected.
BlindIfReadDenied(c) ==
  IF c.op # "update" THEN {} ELSE ReadMask(c.user, "deny") \ OwnerOverride(c)

\* _blind_write_protected_fields: on an update, the fields that the user does not see
\* on the stored record and has no explicit right to write.
BlindFields(c) ==
  IF c.op # "update" THEN {}
  ELSE {f \in (ReadMask(c.user, "deny") \cup
               (ReadMask(c.user, "obfuscate") \ Revealed(c.user, c.existing)))
                 \ OwnerOverride(c) : ~Allowed(c.user, "update", f)}

\* Broken variant of PutBack: the key is dropped, whatever the operation.
Drop(c, fs) == [f \in Fields |-> IF f \in fs THEN Missing ELSE c.data.val[f]]

\* restore_or_drop_denied_write_fields: the stored value on an update, no key on an
\* insert.
PutBack(c, fs) ==
  [f \in Fields |-> IF f \notin fs THEN c.data.val[f]
                    ELSE IF c.op = "update" THEN c.existing.val[f] ELSE Missing]

OwnerPutBack(c) ==
  IF ~Denied(c.user, c.op, OwnerField) THEN c.data.owner
  ELSE IF c.op = "update" THEN c.existing.owner ELSE NoUser

(***************************************************************************)
(* The client.                                                             *)
(***************************************************************************)

\* load_record: 404 unless the model and the record rules let the user read.
LoadForm(p, u, n) ==
  /\ call[p].pc = "idle"
  /\ store[n] # Absent
  /\ \E grants \in GrantsRead, rules \in RulesRead(u) :
       MayDo(grants, u, "read") /\ RuleAllows(rules, u, store[n], "read")
  /\ call' = [call EXCEPT ![p] = [NoCall EXCEPT !.pc = "form", !.user = u, !.name = n,
                                                !.data = View(u, store[n])]]
  /\ UNCHANGED <<store, madeBy>>

\* The form comes back with what was shown, a field edited or none.
Edits(d) == {d} \cup {[d EXCEPT !.val[f] = v] : f \in Fields, v \in Values}
            \cup IF PartialForms THEN {[d EXCEPT !.val[f] = Missing] : f \in Fields} ELSE {}

\* POST /record of a form.
SaveForm(p) ==
  /\ call[p].pc = "form"
  /\ \E d \in Edits(call[p].data) :
       call' = [call EXCEPT ![p].pc = "lookup", ![p].data = d]
  /\ UNCHANGED <<store, madeBy>>

\* POST /record of new data, or POST /import, the one caller with take_ownership off.
PostNew(p, u, n) ==
  /\ call[p].pc = "idle"
  /\ \E d \in NewData, take \in BOOLEAN :
       call' = [call EXCEPT ![p] = [NoCall EXCEPT !.pc = "lookup", !.user = u, !.name = n,
                                                  !.take = take, !.data = d]]
  /\ UNCHANGED <<store, madeBy>>

(***************************************************************************)
(* upsert.                                                                 *)
(***************************************************************************)

GoOn(p, pc) == call' = [call EXCEPT ![p].pc = pc] /\ UNCHANGED <<store, madeBy>>
Refuse(p) == call' = [call EXCEPT ![p] = NoCall] /\ UNCHANGED <<store, madeBy>>

Resolve(p, found) ==
  /\ call[p].pc = "lookup"
  /\ call' = [call EXCEPT ![p].pc = "gate", ![p].existing = found,
                          ![p].op = IF found = Absent THEN "create" ELSE "update"]
  /\ UNCHANGED <<store, madeBy>>

Lookup(p) == Resolve(p, store[call[p].name])

\* _resolve_write_operation takes any exception of by_name for "no such record".
LookupFails(p) == Resolve(p, Absent)

\* The model's rules, and on an update the record rules on the stored record.
Gate(p) ==
  LET c == call[p]
      Passes(grants, rules) ==
        /\ MayDo(grants, c.user, c.op)
        /\ c.op = "update" => RuleAllows(rules, c.user, c.existing, "update")
  IN /\ c.pc = "gate"
     /\ \E grants \in GrantsRead, rules \in RulesRead(c.user) :
          \/ Passes(grants, rules) /\ GoOn(p, "hook")
          \/ ~Passes(grants, rules) /\ Refuse(p)

\* data.before_write: passes, replaces the payload, or refuses; incoming_owner_uid is
\* taken from its outcome.
BeforeWrite(p) ==
  /\ call[p].pc = "hook"
  /\ \/ \E d \in {call[p].data} \cup HookData :
          /\ call' = [call EXCEPT ![p].pc = "acl", ![p].data = d, ![p].incoming = d.owner]
          /\ UNCHANGED <<store, madeBy>>
     \/ Refuse(p)

ApplyFieldAcl(p) ==
  LET c == call[p] IN
  /\ c.pc = "acl"
  /\ call' = [call EXCEPT ![p].pc = "owner",
                ![p].data = [owner |-> OwnerPutBack(c),
                             val |-> PutBack(c, DeniedFields(c) \cup BlindFields(c))]]
  /\ UNCHANGED <<store, madeBy>>

\* An import that asks for an owner which the field ACL has dropped.
OwnerIsLost(c) ==
  c.op = "create" /\ ~c.take /\ c.incoming # NoUser /\ Denied(c.user, "create", OwnerField)

\* preserve_owner: the payload's owner is kept, on an insert only.
Preserves(c) == ~c.take /\ c.op = "create" /\ c.data.owner # NoUser

\* Broken variant of ForeignOwner: the gate is not there.
NeverForeign(c) == FALSE

ForeignOwner(c) == Preserves(c) /\ c.data.owner # c.user /\ c.user \notin Admins

OwnerGate(p) ==
  /\ call[p].pc = "owner"
  /\ IF OwnerIsLost(call[p]) \/ ForeignOwner(call[p]) THEN Refuse(p) ELSE GoOn(p, "write")

\* Broken variant of Replacement: the record as the payload has it.
PayloadAsIs(d) == d.val

\* The payload replaces the whole record; a key that is missing empties its field.
Replacement(d) == [f \in Fields |-> IF d.val[f] = Missing THEN Default ELSE d.val[f]]

\* The ORM looks the name up again: it inserts, and set_user_data gives the owner, or
\* it updates, and the owner stays.
Write(p) ==
  LET c == call[p]
      owner == IF Preserves(c) THEN c.data.owner ELSE c.user
  IN /\ c.pc = "write"
     /\ IF store[c.name] = Absent
        THEN /\ store' = [store EXCEPT ![c.name] = [owner |-> owner, val |-> Replacement(c.data)]]
             /\ madeBy' = [madeBy EXCEPT ![c.name] = c.user]
        ELSE /\ store' = [store EXCEPT ![c.name].val = Replacement(c.data)]
             /\ UNCHANGED madeBy
     /\ call' = [call EXCEPT ![p] = NoCall]

Next ==
  \E p \in Requests :
    \/ \E u \in Users, n \in Names : LoadForm(p, u, n) \/ PostNew(p, u, n)
    \/ SaveForm(p) \/ Lookup(p) \/ LookupFails(p) \/ Gate(p) \/ BeforeWrite(p)
    \/ ApplyFieldAcl(p) \/ OwnerGate(p) \/ Write(p)

Spec == Init /\ [][Next]_vars

(***************************************************************************)
(* The two ways around the field ACL, each a matter of rules and payloads. *)
(***************************************************************************)

\* An owner who does not see f in its own records.
HiddenFromOwner(u, f) ==
  ~(f \in ReadMask(u, "obfuscate") /\ \E r \in Reveals : r.field = f /\ r.filter.where = {})

\* A user who does not see field f, and whose payload may put the None it was shown in
\* its place: an explicit right to write f, a lookup that fails where creates may set
\* it, ownership with $owner, a reveal that depends on what others write, or a read
\* denied by "*" alone, of which the protection against blind writes knows nothing.
CanMask(f) ==
  \E u \in Users :
    /\ Hidden(u, f)
    /\ \/ Allowed(u, "update", f)
       \/ ~Denied(u, "create", f)
       \/ f \in OwnerWrites /\ HiddenFromOwner(u, f)
       \/ \E r \in Reveals : r.field = f /\ r.filter.where # {}
       \/ /\ f \notin ReadMask(u, "deny") \cup ReadMask(u, "obfuscate")
          /\ ~Denied(u, "update", f)

\* The payloads that may lack field f: those sent so.
MayLack(f) == PartialForms \/ \E d \in NewData \cup HookData : d.val[f] = Missing

\* Such a payload empties f, unless the protection against blind writes covers it.
CanEmpty(u, f) ==
  MayLack(f) /\ (f \notin ReadMask(u, "deny") \/ Allowed(u, "update", f))

(***************************************************************************)
(* Properties.                                                             *)
(***************************************************************************)

\* service.py:1423-1427: a record belongs to the user who inserted it, unless an
\* administrator did; a payload, a webhook or a save that raced cannot change that.
ForeignOwnerNeedsAdmin ==
  \A n \in Names : store[n] # Absent => madeBy[n] \in Admins \cup {store[n].owner}

\* service.py:1414-1419: an import that asks for an owner never makes the importer the
\* owner in silence; it inserts the record under that owner or is refused.
ImportKeepsOwner ==
  [][\A p \in Requests :
       LET c == call[p] IN
       Write(p) /\ store[c.name] = Absent /\ ~c.take /\ c.op = "create" /\ c.incoming # NoUser
         => store'[c.name].owner = c.incoming]_vars

\* service.py, upsert: "Un campo negato in scrittura oscura/ripristina SOLO quel campo".
\* A save taken for an update leaves a field that its user may not write as it was, if
\* no other save came between its lookup and its write.
DeniedFieldKept ==
  [][\A p \in Requests :
       LET c == call[p] IN
       Write(p) /\ c.op = "update" /\ store[c.name] = c.existing
         => \A f \in Fields \ OwnerOverride(c) :
              Denied(c.user, "update", f) => store'[c.name].val[f] = store[c.name].val[f]]_vars

\* _blind_write_protected_fields: what the client got in place of a value it may not
\* see is never stored as the value.
MaskNeverStored ==
  \A n \in Names : store[n] # Absent => \A f \in Fields : store[n].val[f] # Mask
=============================================================================
