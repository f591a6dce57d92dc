------------------------ MODULE RecordUpsert_proofs ------------------------
(***************************************************************************)
(* Proofs about RecordUpsert, for any users, rules, policies and requests: *)
(* whom a record belongs to, and which stored values survive a save.       *)
(***************************************************************************)
EXTENDS RecordUpsert, TLAPS

\* The operation is resolved: an insert, or an update of the stored record.
Resolved(c) ==
  \/ c.op = "create"
  \/ c.op = "update" /\ c.existing \in Record

\* A request that has begun has a user and a record name; once the name was looked up
\* it is resolved.
Begun ==
  \A p \in Requests :
    /\ call[p].pc # "idle" => call[p].user \in Users /\ call[p].name \in Names
    /\ call[p].pc \in {"gate", "hook", "acl", "owner", "write"} =>
         Resolved(call[p])

\* From the webhook on, the owner in the payload is the one that came with it, or was
\* denied.
OwnerKeptOrDenied ==
  \A p \in Requests :
    call[p].pc \in {"acl", "owner", "write"} =>
      \/ call[p].data.owner = call[p].incoming
      \/ Denied(call[p].user, call[p].op, OwnerField)

\* What is about to be written has passed the owner's gates.
Gated ==
  \A p \in Requests :
    call[p].pc = "write" => ~OwnerIsLost(call[p]) /\ ~ForeignOwner(call[p])

IInv == TypeOK /\ Begun /\ OwnerKeptOrDenied /\ Gated /\ ForeignOwnerNeedsAdmin

(***************************************************************************)
(* The operators keep the types.                                           *)
(***************************************************************************)

\* View: load_record answers a payload.
LEMMA ViewType ==
  ASSUME NEW u \in Users, NEW rec \in Record PROVE View(u, rec) \in Data
BY DEF View, Data, Record, Shown

\* Edits: the form stays a payload whatever is edited or left out.
LEMMA EditsType ==
  ASSUME NEW d \in Data, NEW e \in Edits(d) PROVE e \in Data
<1>1. CASE e = d
  BY <1>1
<1>2. ASSUME NEW f \in Fields, NEW v \in Values, e = [d EXCEPT !.val[f] = v] PROVE e \in Data
  BY <1>2 DEF Data, Shown
<1>3. ASSUME NEW f \in Fields, e = [d EXCEPT !.val[f] = Missing] PROVE e \in Data
  BY <1>3 DEF Data, Shown
<1> QED
  BY <1>1, <1>2, <1>3 DEF Edits

\* PutBack and OwnerPutBack: what the field ACL puts back gives a payload.
LEMMA PutBackType ==
  ASSUME NEW c \in Call, NEW fs, Resolved(c)
  PROVE  [owner |-> OwnerPutBack(c), val |-> PutBack(c, fs)] \in Data
<1>1. OwnerPutBack(c) \in Users \cup {NoUser}
  BY DEF OwnerPutBack, Call, Data, Record, Resolved
<1>2. PutBack(c, fs) \in [Fields -> Shown \cup {Missing}]
  BY DEF PutBack, Call, Data, Record, Resolved
<1> QED
  BY <1>1, <1>2 DEF Data

\* Replacement: what the ORM stores is a record's fields, no key is missing.
LEMMA ReplacementType ==
  ASSUME NEW d \in Data PROVE Replacement(d) \in [Fields -> Shown]
BY MarksAssumption DEF Replacement, Data, Shown

LEMMA NoCallType == NoCall \in Call /\ NoCall.pc = "idle"
BY DEF NoCall, Call, Data, Shown

\* A request that only changes its own locals, to locals of the right kind.
LEMMA LocalStep ==
  ASSUME IInv, NEW p \in Requests, NEW c \in Call,
         call' = [call EXCEPT ![p] = c], UNCHANGED <<store, madeBy>>,
         c.pc # "idle" => c.user \in Users /\ c.name \in Names,
         c.pc \in {"gate", "hook", "acl", "owner", "write"} =>
           Resolved(c),
         c.pc \in {"acl", "owner", "write"} =>
           c.data.owner = c.incoming \/ Denied(c.user, c.op, OwnerField),
         c.pc = "write" => ~OwnerIsLost(c) /\ ~ForeignOwner(c)
  PROVE  IInv'
<1>1. TypeOK'
  BY DEF IInv, TypeOK
<1>2. \A q \in Requests : call'[q] = IF q = p THEN c ELSE call[q]
  BY DEF IInv, TypeOK
<1>3. Begun' /\ OwnerKeptOrDenied'
  BY <1>2 DEF IInv, Begun, OwnerKeptOrDenied
<1>4. Gated'
  BY <1>2 DEF IInv, Gated
<1>5. ForeignOwnerNeedsAdmin'
  BY DEF IInv, ForeignOwnerNeedsAdmin
<1> QED
  BY <1>1, <1>3, <1>4, <1>5 DEF IInv

(***************************************************************************)
(* The invariant.                                                          *)
(***************************************************************************)

LEMMA InitInv == Init => IInv
BY NoCallType, MarksAssumption
DEF Init, IInv, TypeOK, Begun, OwnerKeptOrDenied, Gated, ForeignOwnerNeedsAdmin

\* One write: the record that comes out belongs to its maker, or an administrator made
\* it.
LEMMA WriteStep ==
  ASSUME IInv, NEW p \in Requests, Write(p) PROVE IInv'
<1> DEFINE n == call[p].name
           owner == IF Preserves(call[p]) THEN call[p].data.owner ELSE call[p].user
<1>1. call[p] \in Call /\ call[p].pc = "write" /\ call[p].user \in Users /\ n \in Names
      /\ call[p].data \in Data
  BY DEF IInv, TypeOK, Begun, Write, Call
<1>2. Replacement(call[p].data) \in [Fields -> Shown]
  BY <1>1, ReplacementType
<1>3. owner \in Users /\ call[p].user \in Admins \cup {owner}
  <2>1. CASE Preserves(call[p])
    <3>1. ~ForeignOwner(call[p])
      BY <1>1 DEF IInv, Gated
    <3> QED
      BY <1>1, <2>1, <3>1 DEF ForeignOwner, Preserves, Data
  <2>2. CASE ~Preserves(call[p])
    BY <1>1, <2>2
  <2> QED
    BY <2>1, <2>2
<1>4. call' = [call EXCEPT ![p] = NoCall] /\ call' \in [Requests -> Call]
  BY NoCallType DEF Write, IInv, TypeOK
<1>5. Begun' /\ OwnerKeptOrDenied' /\ Gated'
  <2>1. \A q \in Requests : call'[q] = IF q = p THEN NoCall ELSE call[q]
    BY <1>4 DEF IInv, TypeOK
  <2>2. Begun' /\ OwnerKeptOrDenied'
    BY <2>1, NoCallType DEF IInv, Begun, OwnerKeptOrDenied
  <2>3. Gated'
    BY <2>1, NoCallType DEF IInv, Gated
  <2> QED
    BY <2>2, <2>3
<1>6. CASE store[n] = Absent
  <2>1. store' = [store EXCEPT ![n] = [owner |-> owner, val |-> Replacement(call[p].data)]]
        /\ madeBy' = [madeBy EXCEPT ![n] = call[p].user]
    BY <1>6 DEF Write
  <2>2. [owner |-> owner, val |-> Replacement(call[p].data)] \in Record
    BY <1>2, <1>3 DEF Record
  <2>3. TypeOK'
    BY <1>1, <1>4, <2>1, <2>2, MarksAssumption DEF IInv, TypeOK
  <2>4. ForeignOwnerNeedsAdmin'
    BY <1>1, <1>3, <2>1 DEF IInv, TypeOK, ForeignOwnerNeedsAdmin
  <2> QED
    BY <1>5, <2>3, <2>4 DEF IInv
<1>7. CASE store[n] # Absent
  <2>1. store' = [store EXCEPT ![n].val = Replacement(call[p].data)] /\ madeBy' = madeBy
    BY <1>7 DEF Write
  <2>2. store[n] \in Record
    BY <1>1, <1>7 DEF IInv, TypeOK
  <2>3. PICK rec \in Record : rec.owner = store[n].owner /\ store' = [store EXCEPT ![n] = rec]
    BY <1>2, <2>1, <2>2 DEF Record, IInv, TypeOK
  <2>4. TypeOK'
    BY <1>1, <1>4, <1>7, <2>1, <2>3, MarksAssumption DEF IInv, TypeOK
  <2>5. ForeignOwnerNeedsAdmin'
    BY <1>1, <1>7, <2>1, <2>3 DEF IInv, TypeOK, ForeignOwnerNeedsAdmin
  <2> QED
    BY <1>5, <2>4, <2>5 DEF IInv
<1> QED
  BY <1>6, <1>7

LEMMA Inductive == IInv /\ [Next]_vars => IInv'
<1> SUFFICES ASSUME IInv, [Next]_vars PROVE IInv'
  OBVIOUS
<1>0. TypeOK /\ Begun /\ call \in [Requests -> Call]
  BY DEF IInv, TypeOK
<1>1. ASSUME NEW p \in Requests, NEW u \in Users, NEW n \in Names, LoadForm(p, u, n) PROVE IInv'
  <2>1. View(u, store[n]) \in Data
    BY <1>0, <1>1, ViewType DEF LoadForm, TypeOK
  <2>2. PICK c : c = [NoCall EXCEPT !.pc = "form", !.user = u, !.name = n,
                                    !.data = View(u, store[n])]
    OBVIOUS
  <2>3. c \in Call /\ c.pc = "form" /\ c.user = u /\ c.name = n
    BY <2>1, <2>2, NoCallType DEF Call
  <2>4. call' = [call EXCEPT ![p] = c] /\ UNCHANGED <<store, madeBy>>
    BY <1>1, <2>2 DEF LoadForm
  <2> QED
    BY <2>3, <2>4, LocalStep
<1>2. ASSUME NEW p \in Requests, NEW u \in Users, NEW n \in Names, PostNew(p, u, n) PROVE IInv'
  <2>1. PICK d \in NewData, take \in BOOLEAN :
          call' = [call EXCEPT ![p] = [NoCall EXCEPT !.pc = "lookup", !.user = u, !.name = n,
                                                     !.take = take, !.data = d]]
    BY <1>2 DEF PostNew
  <2>2. PICK c : c = [NoCall EXCEPT !.pc = "lookup", !.user = u, !.name = n,
                                    !.take = take, !.data = d]
    OBVIOUS
  <2>3. c \in Call /\ c.pc = "lookup" /\ c.user = u /\ c.name = n
    BY <2>2, NoCallType, PayloadsAssumption DEF Call
  <2>4. call' = [call EXCEPT ![p] = c] /\ UNCHANGED <<store, madeBy>>
    BY <1>2, <2>1, <2>2 DEF PostNew
  <2> QED
    BY <2>3, <2>4, LocalStep
<1>3. ASSUME NEW p \in Requests, SaveForm(p) PROVE IInv'
  <2>1. PICK d \in Edits(call[p].data) :
          call' = [call EXCEPT ![p].pc = "lookup", ![p].data = d]
    BY <1>3 DEF SaveForm
  <2>2. d \in Data
    BY <1>0, EditsType DEF Call
  <2>3. PICK c : c = [call[p] EXCEPT !.pc = "lookup", !.data = d]
    OBVIOUS
  <2>4. c \in Call /\ c.pc = "lookup" /\ c.user \in Users /\ c.name \in Names
    BY <1>0, <1>3, <2>2, <2>3 DEF Call, SaveForm, Begun
  <2>5. call' = [call EXCEPT ![p] = c] /\ UNCHANGED <<store, madeBy>>
    BY <1>0, <1>3, <2>1, <2>3 DEF SaveForm
  <2> QED
    BY <2>4, <2>5, LocalStep
<1>4. ASSUME NEW p \in Requests, NEW found \in Record \cup {Absent}, Resolve(p, found) PROVE IInv'
  <2> DEFINE op == IF found = Absent THEN "create" ELSE "update"
  <2>1. PICK c : c = [call[p] EXCEPT !.pc = "gate", !.existing = found, !.op = op]
    OBVIOUS
  <2>2. c \in Call /\ c.pc = "gate" /\ c.op = op /\ c.existing = found
    BY <1>0, <2>1 DEF Call
  <2>3. c.user \in Users /\ c.name \in Names
    BY <1>0, <1>4, <2>1 DEF Resolve, Call, Begun
  <2>4. call' = [call EXCEPT ![p] = c] /\ UNCHANGED <<store, madeBy>>
    BY <1>0, <1>4, <2>1 DEF Resolve
  <2>5. Resolved(c)
    BY <2>2 DEF Resolved
  <2> QED
    BY <2>2, <2>3, <2>4, <2>5, LocalStep
<1>5. ASSUME NEW p \in Requests, Lookup(p) PROVE IInv'
  <2>1. store[call[p].name] \in Record \cup {Absent}
    BY <1>0, <1>5 DEF Lookup, Resolve, Begun, TypeOK
  <2> QED
    BY <1>4, <1>5, <2>1 DEF Lookup
<1>6. ASSUME NEW p \in Requests, LookupFails(p) PROVE IInv'
  BY <1>4, <1>6 DEF LookupFails
<1>7. ASSUME NEW p \in Requests, Refuse(p) PROVE IInv'
  BY <1>7, NoCallType, LocalStep DEF Refuse
<1>8. ASSUME NEW p \in Requests, Gate(p) PROVE IInv'
  <2>1. CASE Refuse(p)
    BY <1>7, <2>1
  <2>2. CASE GoOn(p, "hook")
    <3>1. PICK c : c = [call[p] EXCEPT !.pc = "hook"]
      OBVIOUS
    <3>2. /\ c \in Call /\ c.pc = "hook" /\ c.user \in Users /\ c.name \in Names
          /\ Resolved(c)
      BY <1>0, <1>8, <3>1 DEF Call, Gate, Begun, Resolved
    <3>3. call' = [call EXCEPT ![p] = c] /\ UNCHANGED <<store, madeBy>>
      BY <1>0, <2>2, <3>1 DEF GoOn
    <3> QED
      BY <3>2, <3>3, LocalStep
  <2> QED
    BY <1>8, <2>1, <2>2 DEF Gate
<1>9. ASSUME NEW p \in Requests, BeforeWrite(p) PROVE IInv'
  <2>1. CASE Refuse(p)
    BY <1>7, <2>1
  <2>2. ASSUME NEW d \in {call[p].data} \cup HookData,
               call' = [call EXCEPT ![p].pc = "acl", ![p].data = d, ![p].incoming = d.owner],
               UNCHANGED <<store, madeBy>>
        PROVE  IInv'
    <3>1. d \in Data /\ d.owner \in Users \cup {NoUser}
      BY <1>0, PayloadsAssumption DEF Call, Data
    <3>2. PICK c : c = [call[p] EXCEPT !.pc = "acl", !.data = d, !.incoming = d.owner]
      OBVIOUS
    <3>3. /\ c \in Call /\ c.pc = "acl" /\ c.user \in Users /\ c.name \in Names
          /\ Resolved(c)
          /\ c.data.owner = c.incoming
      BY <1>0, <1>9, <3>1, <3>2 DEF Call, BeforeWrite, Begun, Resolved
    <3>4. call' = [call EXCEPT ![p] = c] /\ UNCHANGED <<store, madeBy>>
      BY <1>0, <2>2, <3>2
    <3> QED
      BY <3>3, <3>4, LocalStep
  <2> QED
    BY <1>9, <2>1, <2>2 DEF BeforeWrite
<1>10. ASSUME NEW p \in Requests, ApplyFieldAcl(p) PROVE IInv'
  <2> DEFINE d == [owner |-> OwnerPutBack(call[p]),
                   val |-> PutBack(call[p], DeniedFields(call[p]) \cup BlindFields(call[p]))]
  <2>1. call[p] \in Call /\ Resolved(call[p])
    BY <1>0, <1>10 DEF ApplyFieldAcl, IInv, Begun
  <2>2. d \in Data
    BY <2>1, PutBackType
  <2>3. PICK c : c = [call[p] EXCEPT !.pc = "owner", !.data = d]
    OBVIOUS
  <2>4. /\ c \in Call /\ c.pc = "owner" /\ c.user \in Users /\ c.name \in Names
        /\ Resolved(c)
    BY <1>0, <1>10, <2>1, <2>2, <2>3 DEF Call, ApplyFieldAcl, Begun, Resolved
  <2>5. c.data.owner = c.incoming \/ Denied(c.user, c.op, OwnerField)
    <3>1. /\ c.user = call[p].user /\ c.op = call[p].op /\ c.incoming = call[p].incoming
          /\ c.data.owner = OwnerPutBack(call[p])
      BY <2>1, <2>3 DEF Call
    <3>2. call[p].data.owner = call[p].incoming \/ Denied(call[p].user, call[p].op, OwnerField)
      BY <1>10 DEF ApplyFieldAcl, IInv, OwnerKeptOrDenied
    <3> QED
      BY <3>1, <3>2 DEF OwnerPutBack
  <2>6. call' = [call EXCEPT ![p] = c] /\ UNCHANGED <<store, madeBy>>
    BY <1>0, <1>10, <2>3 DEF ApplyFieldAcl
  <2> QED
    BY <2>4, <2>5, <2>6, LocalStep
<1>11. ASSUME NEW p \in Requests, OwnerGate(p) PROVE IInv'
  <2>1. CASE Refuse(p)
    BY <1>7, <2>1
  <2>2. CASE GoOn(p, "write") /\ ~OwnerIsLost(call[p]) /\ ~ForeignOwner(call[p])
    <3>1. PICK c : c = [call[p] EXCEPT !.pc = "write"]
      OBVIOUS
    <3>2. /\ c \in Call /\ c.pc = "write" /\ c.user \in Users /\ c.name \in Names
          /\ Resolved(c)
      BY <1>0, <1>11, <3>1 DEF Call, OwnerGate, Begun, Resolved
    <3>3. /\ c.user = call[p].user /\ c.op = call[p].op /\ c.take = call[p].take
          /\ c.incoming = call[p].incoming /\ c.data = call[p].data
      BY <1>0, <3>1 DEF Call
    <3>4. ~OwnerIsLost(c) /\ ~ForeignOwner(c)
      BY <2>2, <3>3 DEF OwnerIsLost, ForeignOwner, Preserves
    <3>5. c.data.owner = c.incoming \/ Denied(c.user, c.op, OwnerField)
      BY <1>11, <3>3 DEF OwnerGate, IInv, OwnerKeptOrDenied
    <3>6. call' = [call EXCEPT ![p] = c] /\ UNCHANGED <<store, madeBy>>
      BY <1>0, <2>2, <3>1 DEF GoOn
    <3> QED
      BY <3>2, <3>4, <3>5, <3>6, LocalStep
  <2> QED
    BY <1>11, <2>1, <2>2 DEF OwnerGate
<1>12. CASE UNCHANGED vars
  BY <1>12 DEF vars, IInv, TypeOK, Begun, OwnerKeptOrDenied, Gated, ForeignOwnerNeedsAdmin
<1> QED
  BY <1>1, <1>2, <1>3, <1>5, <1>6, <1>8, <1>9, <1>10, <1>11, <1>12, WriteStep DEF Next

(***************************************************************************)
(* The theorems.                                                           *)
(***************************************************************************)

LEMMA InvariantHolds == Spec => []IInv
BY InitInv, Inductive, PTL DEF Spec

\* TypeOK: the store holds whole records and each record has a maker, whatever the
\* requests in flight put in.
THEOREM TypeCorrect == Spec => []TypeOK
<1>1. IInv => TypeOK
  BY DEF IInv
<1> QED
  BY <1>1, InvariantHolds, PTL

\* service.py:1423-1427: a record belongs to the user who inserted it unless an
\* administrator did, whatever payloads, webhooks, policies and races there are.
THEOREM OwnershipIsEarned == Spec => []ForeignOwnerNeedsAdmin
<1>1. IInv => ForeignOwnerNeedsAdmin
  BY DEF IInv
<1> QED
  BY <1>1, InvariantHolds, PTL

\* service.py:1414-1419: an import that asks for an owner inserts the record under that
\* owner, and never under the importer in silence.
THEOREM ImportsKeepTheOwner == Spec => ImportKeepsOwner
<1> DEFINE Kept == \A p \in Requests :
             LET c == call[p] IN
             Write(p) /\ store[c.name] = Absent /\ ~c.take /\ c.op = "create"
               /\ c.incoming # NoUser => store'[c.name].owner = c.incoming
<1>1. IInv /\ [Next]_vars => [Kept]_vars
  <2> SUFFICES ASSUME IInv, NEW p \in Requests, Write(p), store[call[p].name] = Absent,
                      ~call[p].take, call[p].op = "create", call[p].incoming # NoUser
               PROVE  store'[call[p].name].owner = call[p].incoming
    OBVIOUS
  <2>1. call[p].data.owner = call[p].incoming
    BY DEF Write, IInv, Gated, OwnerKeptOrDenied, OwnerIsLost
  <2>2. Preserves(call[p])
    BY <2>1 DEF Preserves
  <2>3. call[p].name \in Names
    BY DEF Write, IInv, Begun
  <2> QED
    BY <2>1, <2>2, <2>3 DEF Write, IInv, TypeOK
<1> QED
  BY <1>1, InvariantHolds, PTL DEF Spec, ImportKeepsOwner

(***************************************************************************)
(* What the field ACL protects, up to CanMask and CanEmpty.                *)
(***************************************************************************)

\* Until the field ACL has run, a key is missing only where it may be.
Keys(c) ==
  c.pc \in {"form", "lookup", "gate", "hook", "acl"} =>
    \A f \in Fields : c.data.val[f] = Missing => MayLack(f)

\* Afterwards, a field that the user may not write has the stored value or no key.
PutInPlace(c) ==
  c.pc \in {"owner", "write"} /\ c.op = "update" =>
    \A f \in Fields \ OwnerOverride(c) : Denied(c.user, "update", f) =>
      \/ c.data.val[f] = c.existing.val[f]
      \/ c.data.val[f] = Missing /\ CanEmpty(c.user, f)

\* A mask comes from a form, of a record that still has the owner it had then, and the
\* field ACL takes it out.
Masks(c) ==
  c.pc # "idle" =>
    \A f \in Fields : c.data.val[f] = Mask =>
      \/ CanMask(f)
      \/ /\ c.pc \notin {"owner", "write"}
         /\ store[c.name] # Absent
         /\ Hidden(c.user, f) /\ f \notin Revealed(c.user, store[c.name])

\* The record read at the lookup may be out of date, but not its owner.
Copied(c) ==
  c.pc \in {"gate", "hook", "acl", "owner", "write"} /\ c.op = "update" =>
    /\ store[c.name] # Absent /\ c.existing.owner = store[c.name].owner
    /\ \A f \in Fields : c.existing.val[f] = Mask => CanMask(f)

MasksHaveACause ==
  \A n \in Names : store[n] # Absent =>
    \A f \in Fields : store[n].val[f] = Mask => CanMask(f)

FInv ==
  /\ \A p \in Requests : Keys(call[p]) /\ PutInPlace(call[p]) /\ Masks(call[p]) /\ Copied(call[p])
  /\ MasksHaveACause

(***************************************************************************)
(* FInv is inductive, given IInv.                                          *)
(***************************************************************************)

LEMMA MarksDiffer == Mask # Missing /\ Mask # Default /\ Mask \notin Values
BY MarksAssumption DEF Shown

\* Matches: unless a filter looks at values, two records of one owner match alike.
LEMMA OwnerDecides ==
  ASSUME NEW u \in Users, NEW f \in Fields, NEW a \in Record, NEW b \in Record,
         a.owner = b.owner, Hidden(u, f), ~CanMask(f),
         f \in Revealed(u, a)
  PROVE  f \in Revealed(u, b)
<1>1. PICK r \in Reveals : r.field = f /\ Matches(r.filter, u, a)
  BY DEF Revealed
<1>2. r.filter.where = {}
  BY <1>1 DEF CanMask
<1>3. Matches(r.filter, u, b)
  BY <1>1, <1>2 DEF Matches
<1> QED
  BY <1>1, <1>3 DEF Revealed

\* OwnerOverride: an owner who may write f by $owner sees it too, or CanMask.
LEMMA OwnersSee ==
  ASSUME NEW c \in Call, NEW f \in Fields, c.user \in Users, c.existing \in Record,
         Hidden(c.user, f), ~CanMask(f), f \in OwnerOverride(c)
  PROVE  f \in Revealed(c.user, c.existing)
<1>1. c.existing.owner = c.user /\ f \in OwnerWrites
  BY DEF OwnerOverride
<1>2. /\ f \in ReadMask(c.user, "obfuscate")
      /\ \E r \in Reveals : r.field = f /\ r.filter.where = {}
  BY <1>1 DEF CanMask, HiddenFromOwner
<1>3. PICK r \in Reveals : r.field = f /\ r.filter.where = {}
  BY <1>2
<1>4. Matches(r.filter, c.user, c.existing)
  BY <1>1, <1>3 DEF Matches
<1> QED
  BY <1>2, <1>3, <1>4 DEF Revealed

\* A request that only changes its own locals.
LEMMA LocalFine ==
  ASSUME IInv, FInv, NEW p \in Requests, NEW c,
         call' = [call EXCEPT ![p] = c], UNCHANGED <<store, madeBy>>,
         Keys(c), PutInPlace(c), Masks(c), Copied(c)
  PROVE  FInv'
<1>1. \A q \in Requests : call'[q] = IF q = p THEN c ELSE call[q]
  BY DEF IInv, TypeOK
<1>2. ASSUME NEW q \in Requests
      PROVE  (Keys(call[q]) /\ PutInPlace(call[q]) /\ Masks(call[q]) /\ Copied(call[q]))'
  <2>1. PICK d : d = call'[q]
    OBVIOUS
  <2>2. Keys(d) /\ PutInPlace(d) /\ Masks(d) /\ Copied(d)
    BY <1>1, <2>1 DEF FInv
  <2>3. Keys(call'[q]) /\ PutInPlace(call'[q])
    BY <2>1, <2>2
  <2>4. Masks(call[q])'
    BY <2>1, <2>2 DEF Masks
  <2>5. Copied(call[q])'
    BY <2>1, <2>2 DEF Copied
  <2>6. Keys(call[q])' /\ PutInPlace(call[q])'
    BY <2>3 DEF Keys, PutInPlace
  <2> QED
    BY <2>4, <2>5, <2>6
<1>3. MasksHaveACause'
  BY DEF FInv, MasksHaveACause
<1> QED
  BY <1>2, <1>3 DEF FInv

\* An idle request has nothing to answer for.
LEMMA NoCallFine == Keys(NoCall) /\ PutInPlace(NoCall) /\ Masks(NoCall) /\ Copied(NoCall)
BY NoCallType DEF Keys, PutInPlace, Masks, Copied

\* View: a form has every key, and only a hidden field is masked.
LEMMA ViewFine ==
  ASSUME NEW u \in Users, NEW rec \in Record, NEW f \in Fields
  PROVE  /\ View(u, rec).val[f] # Missing
         /\ View(u, rec).val[f] = Mask =>
              rec.val[f] = Mask \/ (Hidden(u, f) /\ f \notin Revealed(u, rec))
<1>1. rec.val[f] # Missing /\ Mask # Missing
  BY MarksAssumption DEF Record, Shown
<1>2. View(u, rec).val[f] =
        IF Hidden(u, f) /\ f \notin Revealed(u, rec) THEN Mask ELSE rec.val[f]
  BY DEF View
<1> QED
  BY <1>1, <1>2

\* Edits: of the form's fields, one gets a value or, if forms may be partial, no key.
LEMMA EditsFine ==
  ASSUME NEW d \in Data, NEW e \in Edits(d), NEW f \in Fields
  PROVE  e.val[f] = d.val[f] \/ e.val[f] \in Values \/ (PartialForms /\ e.val[f] = Missing)
<1>1. CASE e = d
  BY <1>1
<1>2. ASSUME NEW g \in Fields, NEW v \in Values, e = [d EXCEPT !.val[g] = v]
      PROVE  e.val[f] = d.val[f] \/ e.val[f] \in Values
  BY <1>2 DEF Data
<1>3. ASSUME NEW g \in Fields, e = [d EXCEPT !.val[g] = Missing]
      PROVE  e.val[f] = d.val[f] \/ e.val[f] = Missing
  BY <1>3 DEF Data
<1> QED
  BY <1>1, <1>2, <1>3 DEF Edits

\* The field ACL takes every mask out and puts every denied field in place, with the
\* exceptions of CanMask and CanEmpty.
LEMMA AclFine ==
  ASSUME NEW k \in Call, NEW c \in Call, k.user \in Users, k.pc = "acl", Resolved(k),
         Keys(k), Masks(k), Copied(k), store[k.name] \in Record \cup {Absent},
         c.pc = "owner", c.user = k.user, c.name = k.name, c.op = k.op, c.existing = k.existing,
         c.data.val = PutBack(k, DeniedFields(k) \cup BlindFields(k))
  PROVE  Keys(c) /\ PutInPlace(c) /\ Masks(c) /\ Copied(c)
<1>1. Keys(c) /\ Copied(c)
  BY DEF Keys, Copied
<1>2. k.op \in {"create", "update"} /\ (k.op = "update" => k.existing \in Record)
  BY DEF Resolved
<1>3. \A f \in Fields : c.data.val[f] =
        IF f \notin DeniedFields(k) \cup BlindFields(k) THEN k.data.val[f]
        ELSE IF k.op = "update" THEN k.existing.val[f] ELSE Missing
  BY DEF PutBack
<1>4. PutInPlace(c)
  <2> SUFFICES ASSUME k.op = "update", NEW f \in Fields, f \notin OwnerOverride(k),
                      Denied(k.user, "update", f), c.data.val[f] # k.existing.val[f]
               PROVE  c.data.val[f] = Missing /\ CanEmpty(k.user, f)
    BY DEF PutInPlace, OwnerOverride
  <2>1. f \notin DeniedFields(k) /\ f \notin BlindFields(k) /\ c.data.val[f] = k.data.val[f]
    BY <1>3
  <2>2. k.data.val[f] = Missing
    BY <2>1 DEF DeniedFields
  <2>3. MayLack(f)
    BY <2>2 DEF Keys
  <2>4. f \notin ReadMask(k.user, "deny") \/ Allowed(k.user, "update", f)
    BY <2>1 DEF BlindFields
  <2> QED
    BY <2>1, <2>2, <2>3, <2>4 DEF CanEmpty
<1>5. Masks(c)
  <2> SUFFICES ASSUME NEW f \in Fields, c.data.val[f] = Mask, ~CanMask(f) PROVE FALSE
    BY DEF Masks
  <2>1. f \notin DeniedFields(k) \cup BlindFields(k) /\ k.data.val[f] = Mask
    BY <1>2, <1>3, MarksDiffer DEF Copied
  <2>2. store[k.name] # Absent /\ Hidden(k.user, f) /\ f \notin Revealed(k.user, store[k.name])
    BY <2>1 DEF Masks
  <2>3. CASE k.op = "create"
    <3>1. ~Denied(k.user, "create", f)
      BY <2>1, <2>3, MarksDiffer DEF DeniedFields, OwnerOverride
    <3> QED
      BY <2>2, <3>1 DEF CanMask
  <2>4. CASE k.op = "update"
    <3>1. k.existing \in Record /\ k.existing.owner = store[k.name].owner
      BY <1>2, <2>4 DEF Copied
    <3>2. f \notin Revealed(k.user, k.existing)
      BY <2>2, <3>1, OwnerDecides
    <3>3. f \notin OwnerOverride(k)
      BY <2>2, <3>1, <3>2, OwnersSee
    <3>4. ~Denied(k.user, "update", f)
      BY <2>1, <2>4, <3>3, MarksDiffer DEF DeniedFields
    <3>5. \/ Allowed(k.user, "update", f)
          \/ f \notin ReadMask(k.user, "deny") \cup ReadMask(k.user, "obfuscate")
      BY <2>1, <2>4, <3>2, <3>3 DEF BlindFields
    <3> QED
      BY <2>2, <3>4, <3>5 DEF CanMask
  <2> QED
    BY <1>2, <2>3, <2>4
<1> QED
  BY <1>1, <1>4, <1>5

\* Write: no record goes, none changes hands, and a mask is stored only with a cause.
LEMMA WriteKeeps ==
  ASSUME IInv, FInv, NEW p \in Requests, Write(p), NEW n \in Names
  PROVE  /\ store[n] # Absent => store'[n] # Absent /\ store'[n].owner = store[n].owner
         /\ store'[n] # Absent => \A f \in Fields : store'[n].val[f] = Mask => CanMask(f)
<1> DEFINE c == call[p]
<1>1. c \in Call /\ c.pc = "write" /\ c.name \in Names /\ c.data \in Data /\ Masks(c)
  BY DEF IInv, TypeOK, Begun, FInv, Write, Call
<1>2. \A f \in Fields : Replacement(c.data)[f] = Mask => CanMask(f)
  BY <1>1, MarksDiffer DEF Replacement, Masks
<1>3. store[c.name] \in Record \cup {Absent} /\ store \in [Names -> Record \cup {Absent}]
  BY <1>1 DEF IInv, TypeOK
<1>4. CASE n # c.name
  <2>1. store'[n] = store[n]
    BY <1>3, <1>4 DEF Write
  <2> QED
    BY <2>1 DEF FInv, MasksHaveACause
<1>5. CASE n = c.name /\ store[n] = Absent
  <2>1. store'[n].val = Replacement(c.data)
    BY <1>1, <1>3, <1>5 DEF Write
  <2> QED
    BY <1>2, <1>5, <2>1
<1>6. CASE n = c.name /\ store[n] # Absent
  <2>1. store' = [store EXCEPT ![n].val = Replacement(c.data)]
    BY <1>1, <1>6 DEF Write
  <2>2. store'[n].val = Replacement(c.data) /\ store'[n].owner = store[n].owner
    BY <1>3, <1>6, <2>1 DEF Record
  <2>3. store'[n] # Absent
    <3>1. PICK rec : rec = [store[n] EXCEPT !.val = Replacement(c.data)]
      OBVIOUS
    <3>2. rec \in Record
      BY <1>1, <1>3, <1>6, <3>1, ReplacementType DEF Record
    <3> QED
      BY <1>3, <2>1, <3>1, <3>2, MarksAssumption
  <2> QED
    BY <1>2, <2>2, <2>3
<1> QED
  BY <1>4, <1>5, <1>6

LEMMA WriteFine ==
  ASSUME IInv, FInv, IInv', NEW p \in Requests, Write(p) PROVE FInv'
<1>1. call \in [Requests -> Call] /\ store \in [Names -> Record \cup {Absent}]
      /\ store' \in [Names -> Record \cup {Absent}]
  BY DEF IInv, TypeOK
<1>2. \A q \in Requests : call'[q] = IF q = p THEN NoCall ELSE call[q]
  BY <1>1 DEF Write
<1>3. MasksHaveACause'
  BY WriteKeeps DEF MasksHaveACause
<1>4. ASSUME NEW q \in Requests, q # p
      PROVE  (Keys(call[q]) /\ PutInPlace(call[q]) /\ Masks(call[q]) /\ Copied(call[q]))'
  <2> DEFINE k == call[q]
  <2>1. k' = k /\ Keys(k) /\ PutInPlace(k) /\ Masks(k) /\ Copied(k) /\ k \in Call
    BY <1>1, <1>2, <1>4 DEF FInv
  <2>2. k.pc # "idle" => k.user \in Users /\ k.name \in Names
    BY DEF IInv, Begun
  <2>3. Masks(k)'
    <3> SUFFICES ASSUME k.pc # "idle", NEW f \in Fields, k.data.val[f] = Mask, ~CanMask(f)
                 PROVE  /\ k.pc \notin {"owner", "write"}
                        /\ store'[k.name] # Absent
                        /\ Hidden(k.user, f) /\ f \notin Revealed(k.user, store'[k.name])
      BY <2>1 DEF Masks
    <3>1. /\ k.pc \notin {"owner", "write"} /\ store[k.name] # Absent
          /\ Hidden(k.user, f) /\ f \notin Revealed(k.user, store[k.name])
      BY <2>1 DEF Masks
    <3>2. store'[k.name] # Absent /\ store'[k.name].owner = store[k.name].owner
      BY <2>2, <3>1, WriteKeeps
    <3>3. store[k.name] \in Record /\ store'[k.name] \in Record
      BY <1>1, <2>2, <3>1, <3>2
    <3>4. f \notin Revealed(k.user, store'[k.name])
      BY <2>2, <3>1, <3>2, <3>3, OwnerDecides
    <3> QED
      BY <3>1, <3>2, <3>4
  <2>4. Copied(k)'
    <3>1. k.name \in Names /\ store[k.name] # Absent =>
            store'[k.name] # Absent /\ store'[k.name].owner = store[k.name].owner
      BY WriteKeeps
    <3> QED
      BY <2>1, <2>2, <3>1 DEF Copied
  <2>5. Keys(k)' /\ PutInPlace(k)'
    BY <2>1 DEF Keys, PutInPlace
  <2> QED
    BY <2>3, <2>4, <2>5
<1>5. (Keys(call[p]) /\ PutInPlace(call[p]) /\ Masks(call[p]) /\ Copied(call[p]))'
  <2>1. call'[p] = NoCall
    BY <1>2
  <2> QED
    BY <2>1, NoCallType DEF Keys, PutInPlace, Masks, Copied
<1> QED
  BY <1>3, <1>4, <1>5 DEF FInv

LEMMA FieldsInductive == IInv /\ FInv /\ IInv' /\ [Next]_vars => FInv'
<1> SUFFICES ASSUME IInv, FInv, IInv', [Next]_vars PROVE FInv'
  OBVIOUS
<1>0. /\ TypeOK /\ Begun /\ call \in [Requests -> Call]
      /\ \A q \in Requests :
           Keys(call[q]) /\ PutInPlace(call[q]) /\ Masks(call[q]) /\ Copied(call[q])
  BY DEF IInv, TypeOK, FInv
<1>1. ASSUME NEW p \in Requests, NEW u \in Users, NEW n \in Names, LoadForm(p, u, n) PROVE FInv'
  <2>1. store[n] \in Record
    BY <1>0, <1>1 DEF LoadForm, TypeOK
  <2>2. View(u, store[n]) \in Data
    BY <2>1, ViewType
  <2>3. PICK c : c = [NoCall EXCEPT !.pc = "form", !.user = u, !.name = n,
                                    !.data = View(u, store[n])]
    OBVIOUS
  <2>4. c \in Call /\ c.pc = "form" /\ c.user = u /\ c.name = n /\ c.data = View(u, store[n])
    BY <2>2, <2>3, NoCallType DEF Call
  <2>5. call' = [call EXCEPT ![p] = c] /\ UNCHANGED <<store, madeBy>>
    BY <1>1, <2>3 DEF LoadForm
  <2>6. Keys(c)
    BY <2>1, <2>4, ViewFine DEF Keys
  <2>7. Masks(c)
    <3> SUFFICES ASSUME NEW f \in Fields, View(u, store[n]).val[f] = Mask
                 PROVE  \/ CanMask(f)
                        \/ Hidden(u, f) /\ f \notin Revealed(u, store[n])
      BY <1>1, <2>4 DEF Masks, LoadForm
    <3>1. store[n].val[f] = Mask \/ (Hidden(u, f) /\ f \notin Revealed(u, store[n]))
      BY <2>1, ViewFine
    <3> QED
      BY <1>1, <3>1 DEF FInv, MasksHaveACause, LoadForm
  <2>8. PutInPlace(c) /\ Copied(c)
    BY <2>4 DEF PutInPlace, Copied
  <2> QED
    BY <2>5, <2>6, <2>7, <2>8, LocalFine
<1>2. ASSUME NEW p \in Requests, NEW u \in Users, NEW n \in Names, PostNew(p, u, n) PROVE FInv'
  <2>1. PICK d \in NewData, take \in BOOLEAN :
          call' = [call EXCEPT ![p] = [NoCall EXCEPT !.pc = "lookup", !.user = u, !.name = n,
                                                     !.take = take, !.data = d]]
    BY <1>2 DEF PostNew
  <2>2. PICK c : c = [NoCall EXCEPT !.pc = "lookup", !.user = u, !.name = n,
                                    !.take = take, !.data = d]
    OBVIOUS
  <2>3. c.pc = "lookup" /\ c.user = u /\ c.data = d
    BY <2>2, NoCallType DEF Call
  <2>4. Keys(c) /\ Masks(c)
    BY <2>3, PayloadsAssumption DEF Keys, Masks, MayLack
  <2>5. PutInPlace(c) /\ Copied(c)
    BY <2>3 DEF PutInPlace, Copied
  <2>6. call' = [call EXCEPT ![p] = c] /\ UNCHANGED <<store, madeBy>>
    BY <1>2, <2>1, <2>2 DEF PostNew
  <2> QED
    BY <2>4, <2>5, <2>6, LocalFine
<1>3. ASSUME NEW p \in Requests, SaveForm(p) PROVE FInv'
  <2> DEFINE k == call[p]
  <2>1. PICK d \in Edits(k.data) : call' = [call EXCEPT ![p].pc = "lookup", ![p].data = d]
    BY <1>3 DEF SaveForm
  <2>2. k \in Call /\ k.data \in Data /\ k.pc = "form" /\ Keys(k) /\ Masks(k)
    BY <1>0, <1>3 DEF SaveForm, Call
  <2>3. PICK c : c = [k EXCEPT !.pc = "lookup", !.data = d]
    OBVIOUS
  <2>4. c.pc = "lookup" /\ c.user = k.user /\ c.name = k.name /\ c.data = d
    BY <2>2, <2>3 DEF Call
  <2>5. \A f \in Fields : \/ d.val[f] = k.data.val[f] \/ d.val[f] \in Values
                          \/ PartialForms /\ d.val[f] = Missing
    BY <2>2, EditsFine
  <2>6. Keys(c)
    BY <2>2, <2>4, <2>5, MarksAssumption DEF Keys, MayLack, Shown
  <2>7. Masks(c)
    BY <2>2, <2>4, <2>5, MarksDiffer DEF Masks
  <2>8. PutInPlace(c) /\ Copied(c)
    BY <2>4 DEF PutInPlace, Copied
  <2>9. call' = [call EXCEPT ![p] = c] /\ UNCHANGED <<store, madeBy>>
    BY <1>0, <1>3, <2>1, <2>3 DEF SaveForm
  <2> QED
    BY <2>6, <2>7, <2>8, <2>9, LocalFine
<1>4. ASSUME NEW p \in Requests, NEW found, Resolve(p, found),
             found = Absent \/ found = store[call[p].name]
      PROVE  FInv'
  <2> DEFINE k == call[p]
             op == IF found = Absent THEN "create" ELSE "update"
  <2>1. PICK c : c = [k EXCEPT !.pc = "gate", !.existing = found, !.op = op]
    OBVIOUS
  <2>2. k \in Call /\ k.pc = "lookup" /\ k.name \in Names /\ Keys(k) /\ Masks(k)
    BY <1>0, <1>4 DEF Resolve, Begun
  <2>3. /\ c.pc = "gate" /\ c.user = k.user /\ c.name = k.name /\ c.data = k.data
        /\ c.op = op /\ c.existing = found
    BY <2>1, <2>2 DEF Call
  <2>4. Keys(c) /\ Masks(c)
    BY <2>2, <2>3 DEF Keys, Masks
  <2>5. Copied(c)
    BY <1>4, <2>2, <2>3 DEF Copied, FInv, MasksHaveACause
  <2>6. PutInPlace(c)
    BY <2>3 DEF PutInPlace
  <2>7. call' = [call EXCEPT ![p] = c] /\ UNCHANGED <<store, madeBy>>
    BY <1>0, <1>4, <2>1 DEF Resolve
  <2> QED
    BY <2>4, <2>5, <2>6, <2>7, LocalFine
<1>5. ASSUME NEW p \in Requests, Refuse(p) PROVE FInv'
  BY <1>5, NoCallFine, LocalFine DEF Refuse
<1>6. ASSUME NEW p \in Requests, Gate(p) PROVE FInv'
  <2> DEFINE k == call[p]
  <2>1. CASE Refuse(p)
    BY <1>5, <2>1
  <2>2. CASE GoOn(p, "hook")
    <3>1. PICK c : c = [k EXCEPT !.pc = "hook"]
      OBVIOUS
    <3>2. k \in Call /\ k.pc = "gate" /\ Keys(k) /\ Masks(k) /\ Copied(k)
      BY <1>0, <1>6 DEF Gate
    <3>3. /\ c.pc = "hook" /\ c.user = k.user /\ c.name = k.name /\ c.data = k.data
          /\ c.op = k.op /\ c.existing = k.existing
      BY <3>1, <3>2 DEF Call
    <3>4. Keys(c) /\ PutInPlace(c) /\ Masks(c) /\ Copied(c)
      BY <3>2, <3>3 DEF Keys, PutInPlace, Masks, Copied
    <3>5. call' = [call EXCEPT ![p] = c] /\ UNCHANGED <<store, madeBy>>
      BY <1>0, <2>2, <3>1 DEF GoOn
    <3> QED
      BY <3>4, <3>5, LocalFine
  <2> QED
    BY <1>6, <2>1, <2>2 DEF Gate
<1>7. ASSUME NEW p \in Requests, BeforeWrite(p) PROVE FInv'
  <2> DEFINE k == call[p]
  <2>1. CASE Refuse(p)
    BY <1>5, <2>1
  <2>2. ASSUME NEW d \in {k.data} \cup HookData,
               call' = [call EXCEPT ![p].pc = "acl", ![p].data = d, ![p].incoming = d.owner],
               UNCHANGED <<store, madeBy>>
        PROVE  FInv'
    <3>1. PICK c : c = [k EXCEPT !.pc = "acl", !.data = d, !.incoming = d.owner]
      OBVIOUS
    <3>2. k \in Call /\ k.pc = "hook" /\ Keys(k) /\ Masks(k) /\ Copied(k)
      BY <1>0, <1>7 DEF BeforeWrite
    <3>3. /\ c.pc = "acl" /\ c.user = k.user /\ c.name = k.name /\ c.data = d
          /\ c.op = k.op /\ c.existing = k.existing
      BY <3>1, <3>2 DEF Call
    <3>4. Keys(c) /\ Masks(c)
      BY <3>2, <3>3, PayloadsAssumption DEF Keys, Masks, MayLack
    <3>5. PutInPlace(c) /\ Copied(c)
      BY <3>2, <3>3 DEF PutInPlace, Copied
    <3>6. call' = [call EXCEPT ![p] = c] /\ UNCHANGED <<store, madeBy>>
      BY <1>0, <2>2, <3>1
    <3> QED
      BY <3>4, <3>5, <3>6, LocalFine
  <2> QED
    BY <1>7, <2>1, <2>2 DEF BeforeWrite
<1>8. ASSUME NEW p \in Requests, ApplyFieldAcl(p) PROVE FInv'
  <2> DEFINE k == call[p]
             d == [owner |-> OwnerPutBack(k),
                   val |-> PutBack(k, DeniedFields(k) \cup BlindFields(k))]
  <2>1. /\ k \in Call /\ k.pc = "acl" /\ k.user \in Users /\ k.name \in Names /\ Resolved(k)
        /\ Keys(k) /\ Masks(k) /\ Copied(k) /\ store[k.name] \in Record \cup {Absent}
    BY <1>0, <1>8 DEF ApplyFieldAcl, Begun, TypeOK
  <2>2. d \in Data
    BY <2>1, PutBackType
  <2>3. PICK c : c = [k EXCEPT !.pc = "owner", !.data = d]
    OBVIOUS
  <2>4. /\ c \in Call /\ c.pc = "owner" /\ c.user = k.user /\ c.name = k.name /\ c.op = k.op
        /\ c.existing = k.existing /\ c.data = d
    BY <2>1, <2>2, <2>3 DEF Call
  <2>5. c.data.val = PutBack(k, DeniedFields(k) \cup BlindFields(k))
    BY <2>4
  <2>6. Keys(c) /\ PutInPlace(c) /\ Masks(c) /\ Copied(c)
    BY <2>1, <2>4, <2>5, AclFine
  <2>7. call' = [call EXCEPT ![p] = c] /\ UNCHANGED <<store, madeBy>>
    BY <1>0, <1>8, <2>3 DEF ApplyFieldAcl
  <2> QED
    BY <2>6, <2>7, LocalFine
<1>9. ASSUME NEW p \in Requests, OwnerGate(p) PROVE FInv'
  <2> DEFINE k == call[p]
  <2>1. CASE Refuse(p)
    BY <1>5, <2>1
  <2>2. CASE GoOn(p, "write")
    <3>1. PICK c : c = [k EXCEPT !.pc = "write"]
      OBVIOUS
    <3>2. k \in Call /\ k.pc = "owner" /\ PutInPlace(k) /\ Masks(k) /\ Copied(k)
      BY <1>0, <1>9 DEF OwnerGate
    <3>3. /\ c.pc = "write" /\ c.user = k.user /\ c.name = k.name /\ c.data = k.data
          /\ c.op = k.op /\ c.existing = k.existing
      BY <3>1, <3>2 DEF Call
    <3>4. Keys(c) /\ PutInPlace(c) /\ Masks(c) /\ Copied(c)
      BY <3>2, <3>3 DEF Keys, PutInPlace, Masks, Copied, OwnerOverride
    <3>5. call' = [call EXCEPT ![p] = c] /\ UNCHANGED <<store, madeBy>>
      BY <1>0, <2>2, <3>1 DEF GoOn
    <3> QED
      BY <3>4, <3>5, LocalFine
  <2> QED
    BY <1>9, <2>1, <2>2 DEF OwnerGate
<1>10. CASE UNCHANGED vars
  BY <1>10 DEF vars, FInv, Keys, PutInPlace, Masks, Copied, MasksHaveACause
<1>11. ASSUME NEW p \in Requests, Lookup(p) \/ LookupFails(p) PROVE FInv'
  BY <1>4, <1>11 DEF Lookup, LookupFails
<1> QED
  BY <1>1, <1>2, <1>3, <1>6, <1>7, <1>8, <1>9, <1>10, <1>11, WriteFine DEF Next

LEMMA FieldsHold == Spec => []FInv
<1>1. Init => FInv
  BY NoCallFine DEF Init, FInv, MasksHaveACause, Keys, PutInPlace, Masks, Copied
<1> QED
  BY <1>1, FieldsInductive, InvariantHolds, PTL DEF Spec

(***************************************************************************)
(* Theorems about the fields.                                              *)
(***************************************************************************)

\* _blind_write_protected_fields: whoever saves what, the None of a field that is hidden,
\* obfuscated or denied, is stored only if some user it is hidden from has one of the ways
\* of CanMask around the protection.
THEOREM StoredMasksHaveACause == Spec => []MasksHaveACause
<1>1. FInv => MasksHaveACause
  BY DEF FInv
<1> QED
  BY <1>1, FieldsHold, PTL

\* _blind_write_protected_fields: where the rules leave no such way, what the client got
\* in place of a value it may not see is never stored as the value.
THEOREM MasksStayOut ==
  ASSUME \A f \in Fields : ~CanMask(f) PROVE Spec => []MaskNeverStored
<1>1. FInv => MaskNeverStored
  BY DEF FInv, MasksHaveACause, MaskNeverStored
<1> QED
  BY <1>1, FieldsHold, PTL

\* service.py, upsert: a field that the user may not write never takes a value of the
\* payload's; it keeps the one read at the lookup, or, if CanEmpty, is emptied.
DeniedNeverSet ==
  [][\A p \in Requests :
       LET c == call[p] IN
       Write(p) /\ c.op = "update"
         => \A f \in Fields \ OwnerOverride(c) :
              Denied(c.user, "update", f) =>
                \/ store'[c.name].val[f] = c.existing.val[f]
                \/ store'[c.name].val[f] = Default /\ CanEmpty(c.user, f)]_vars

LEMMA WritePutsInPlace ==
  ASSUME IInv, FInv, NEW p \in Requests, Write(p), call[p].op = "update",
         NEW f \in Fields \ OwnerOverride(call[p]), Denied(call[p].user, "update", f)
  PROVE  \/ store'[call[p].name].val[f] = call[p].existing.val[f]
         \/ store'[call[p].name].val[f] = Default /\ CanEmpty(call[p].user, f)
<1> DEFINE c == call[p]
<1>1. c \in Call /\ c.pc = "write" /\ c.name \in Names /\ PutInPlace(c) /\ Copied(c) /\ Resolved(c)
  BY DEF IInv, TypeOK, Begun, FInv, Write
<1>2. store[c.name] \in Record /\ c.existing \in Record
  BY <1>1 DEF IInv, TypeOK, Copied, Resolved
<1>3. store' = [store EXCEPT ![c.name].val = Replacement(c.data)]
  BY <1>1 DEF Write, Copied
<1>4. store'[c.name].val[f] = Replacement(c.data)[f]
  BY <1>1, <1>2, <1>3 DEF IInv, TypeOK, Record
<1>5. Replacement(c.data)[f] = IF c.data.val[f] = Missing THEN Default ELSE c.data.val[f]
  BY DEF Replacement
<1>6. \/ c.data.val[f] = c.existing.val[f]
      \/ c.data.val[f] = Missing /\ CanEmpty(c.user, f)
  BY <1>1 DEF PutInPlace
<1>7. c.existing.val[f] # Missing
  BY <1>2, MarksAssumption DEF Record
<1> QED
  BY <1>4, <1>5, <1>6, <1>7

\* restore_or_drop_denied_write_fields, _blind_write_protected_fields: for any policies
\* and payloads, and whoever came in between, a save sets no field its user is denied.
THEOREM DeniedFieldsAreNotSet == Spec => DeniedNeverSet
<1> DEFINE Step == \A p \in Requests :
             LET c == call[p] IN
             Write(p) /\ c.op = "update"
               => \A f \in Fields \ OwnerOverride(c) :
                    Denied(c.user, "update", f) =>
                      \/ store'[c.name].val[f] = c.existing.val[f]
                      \/ store'[c.name].val[f] = Default /\ CanEmpty(c.user, f)
<1>1. IInv /\ FInv /\ [Next]_vars => [Step]_vars
  BY WritePutsInPlace
<1> QED
  BY <1>1, InvariantHolds, FieldsHold, PTL DEF Spec, DeniedNeverSet

\* service.py, upsert: "Un campo negato in scrittura oscura/ripristina SOLO quel campo".
\* Where a denied field cannot be emptied, a save that no other one overtook leaves it
\* as it was.
THEOREM DeniedFieldsStay ==
  ASSUME \A u \in Users, f \in Fields : Denied(u, "update", f) => ~CanEmpty(u, f)
  PROVE  Spec => DeniedFieldKept
<1> DEFINE Step == \A p \in Requests :
             LET c == call[p] IN
             Write(p) /\ c.op = "update" /\ store[c.name] = c.existing
               => \A f \in Fields \ OwnerOverride(c) :
                    Denied(c.user, "update", f) => store'[c.name].val[f] = store[c.name].val[f]
<1>1. IInv /\ FInv /\ [Next]_vars => [Step]_vars
  <2> SUFFICES ASSUME IInv, FInv, NEW p \in Requests, Write(p), call[p].op = "update",
                      store[call[p].name] = call[p].existing,
                      NEW f \in Fields \ OwnerOverride(call[p]),
                      Denied(call[p].user, "update", f)
               PROVE  store'[call[p].name].val[f] = call[p].existing.val[f]
    OBVIOUS
  <2>1. call[p].user \in Users
    BY DEF Write, IInv, Begun
  <2> QED
    BY <2>1, WritePutsInPlace
<1> QED
  BY <1>1, InvariantHolds, FieldsHold, PTL DEF Spec, DeniedFieldKept
=============================================================================
